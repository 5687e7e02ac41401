------------------------ MODULE ParcelHandover_proofs ------------------------
(***************************************************************************)
(* Tenants, members and the folder of a parcel, for any number of parcels, *)
(* people, applications and days.                                          *)
(*                                                                         *)
(* Nothing here holds of one step alone.  That the newcomers take over on  *)
(* the day of a handover needs every tenant to be in the member table, so  *)
(* that somebody new has no tenancy yet.  That membership follows tenancy  *)
(* needs the two rows of a tenant to carry the same dates all along        *)
(* (AsLongAs).  And that nobody inherits a folder rests on what a parcel   *)
(* is waiting for: nothing but a tenancy that begins tomorrow              *)
(* (Undisturbed), a handover of one day (HandoverDue), or the check that   *)
(* follows an ended tenancy (CheckDue).                                    *)
(*                                                                         *)
(* Below, with invariants of their own: meters and their readings, the     *)
(* inventory and its loans, and the book of work hours.                    *)
(***************************************************************************)
EXTENDS ParcelHandover, SumTheorems

\* Changes are made to parcels that are not waiting for anything.
Orderly == ~May("change while unsettled")

\* Whoever is a tenant, on whatever day, is in the member table.
TenantsAreEntered ==
    \A p \in Parcels, m \in Members : tenancy[p][m] # NoRow => member[m] # NoRow

\* The last day of a membership is the day before the tenancy ends.
DayBefore(until) == IF until = OpenEnd THEN OpenEnd ELSE until - 1

AsLongAs(mem, row) == mem.since <= row.from /\ mem.until = DayBefore(row.until)

\* With one parcel the rows go together; when nothing is dated ahead, whoever has
\* several is a member as long as one of them is theirs.
EntriesAgree(m) ==
    /\ member[m] # NoRow => Held(m) # {}
    /\ \A p \in Held(m) : Held(m) = {p} => AsLongAs(member[m], tenancy[p][m])
    /\ Notice = {0} /\ Held(m) # {} =>
          /\ member[m].since = 0
          /\ \A p \in Held(m) : tenancy[p][m].from = 0 /\ tenancy[p][m].until \in {0, OpenEnd}
          /\ member[m].until =
                IF \E p \in Held(m) : tenancy[p][m].until = OpenEnd THEN OpenEnd ELSE -1

MembershipInv == TenantsAreEntered /\ \A m \in Members \ byHand : EntriesAgree(m)

-----------------------------------------------------------------------------
\* Folders are as safe when handovers and starts are all that is dated ahead.
Promised == Allowed \subseteq {"start ahead"}

Now(p) == CurrentTenants(tenancy, p, 0)

\* Tenants whose tenancy has no end.
Staying(p) == {m \in Rows(tenancy, p) : tenancy[p][m].until = OpenEnd}

\* No end is to come, and a start tomorrow at most; no switch of folders.
NothingDue(p) ==
    /\ \A m \in Rows(tenancy, p) : /\ tenancy[p][m].from \in {0, 1}
                                  /\ tenancy[p][m].until \in {0, OpenEnd}
    /\ folder[p].scheduled = NoFolder
    /\ folder[p].active # NoFolder => folder[p].active.until = OpenEnd

InUse(p) ==
    folder[p].active # NoFolder /\ Now(p) # {} => folder[p].active.household = Now(p)

Undisturbed(p) ==
    /\ NothingDue(p) /\ InUse(p)
    /\ folder[p].active # NoFolder => folder[p].active.household \subseteq Staying(p)

\* The same between an ended tenancy and its vacancy check, while somebody stays.
CheckDue(p) ==
    /\ NothingDue(p) /\ InUse(p)
    /\ folder[p].active # NoFolder /\ Staying(p) # {} =>
          folder[p].active.household \subseteq Staying(p)

\* Tenants and folders change together in so many days.
HandoverDue(p, days) ==
    /\ Unsettled(p)
    /\ \A m \in Rows(tenancy, p) : /\ tenancy[p][m].from \in {0, days}
                                  /\ tenancy[p][m].until \in {0, days, OpenEnd}
    /\ folder[p].scheduled \in {days, NoFolder}
    /\ folder[p].active # NoFolder => folder[p].active.until = days
    /\ days > 0 => InUse(p)
    /\ days = 0 => ~swept

FolderInv ==
    \A p \in Parcels :
        IF p \in ended THEN CheckDue(p)
        ELSE Undisturbed(p) \/ \E days \in Ahead : HandoverDue(p, days)


-----------------------------------------------------------------------------
(* The dates and the rows.                                                  *)

\* The days ahead are the numbers below OpenEnd, and a handover is on one of them.
LEMMA Dates ==
  ASSUME HandoverAssumption
  PROVE  /\ OpenEnd \in Nat /\ OpenEnd > 1
         /\ Ahead = 0 .. OpenEnd - 1
         /\ Notice \subseteq Ahead
  <1> DEFINE D == Notice \cup {1}
  <1>1. PICK last \in Notice : Notice \subseteq Nat /\ Notice \subseteq 0 .. last
    BY DEF HandoverAssumption
  <1>2. \E top \in D : \A d \in D : top >= d
    <2>1. CASE last >= 1  BY <1>1, <2>1
    <2>2. CASE ~(last >= 1)  BY <1>1, <2>2
    <2> QED BY <2>1, <2>2
  <1>3. Max(D) \in D /\ \A d \in D : Max(D) >= d  BY <1>2, Zenon DEF Max
  <1>4. PICK top : top = Max(D)  OBVIOUS
  <1>5. top \in Nat /\ top >= 1 /\ \A d \in Notice : top >= d
    <2>1. D \subseteq Nat /\ 1 \in D /\ Notice \subseteq D  BY <1>1
    <2>2. top \in D /\ \A d \in D : top >= d  BY <1>3, <1>4
    <2> HIDE DEF D
    <2> QED BY <2>1, <2>2
  <1>6. Ahead = 0 .. top  BY <1>4 DEF Ahead
  <1>7. Max(Ahead) = top
    <2>1. top \in Ahead /\ \A d \in Ahead : top >= d  BY <1>5, <1>6
    <2>2. Max(Ahead) \in Ahead /\ \A d \in Ahead : Max(Ahead) >= d  BY <2>1, Zenon DEF Max
    <2>3. PICK last_day : last_day = Max(Ahead)  OBVIOUS
    <2>4. last_day \in Int /\ last_day >= top /\ top >= last_day  BY <1>5, <1>6, <2>1, <2>2, <2>3
    <2> QED BY <1>5, <2>3, <2>4
  <1> QED BY <1>1, <1>5, <1>6, <1>7 DEF OpenEnd

Tenancies == [Parcels -> [Members -> Tenancy \cup {NoRow}]]

Memberships == [Members -> Member \cup {NoRow}]

FolderRow == [active : Folder \cup {NoFolder}, scheduled : Ahead \cup {NoFolder}]

FolderRows == [Parcels -> FolderRow]

\* A row that is there carries dates.
LEMMA RowShapes ==
  ASSUME HandoverAssumption, TypeOK
  PROVE  /\ NoRow \notin Tenancy /\ NoRow \notin Member
         /\ \A p \in Parcels, m \in Members :
               tenancy[p][m] # NoRow =>
                  /\ tenancy[p][m] \in Tenancy
                  /\ tenancy[p][m].from \in Ahead
                  /\ tenancy[p][m].until \in Ahead \cup {OpenEnd}
         /\ \A m \in Members :
               member[m] # NoRow =>
                  /\ member[m] \in Member
                  /\ member[m].since \in Ahead
                  /\ member[m].until \in Ahead \cup {-1, OpenEnd}
         /\ \A p \in Parcels :
               folder[p].active # NoFolder =>
                  /\ folder[p].active \in Folder
                  /\ folder[p].active.until \in Ahead \cup {OpenEnd}
                  /\ folder[p].active.household \in SUBSET Members
  BY DEF HandoverAssumption, TypeOK, Tenancy, Member, Folder

\* What the history makes of one folder, given its tenants.
Noted(f, now) ==
    IF f.active = NoFolder \/ now = {} THEN f
    ELSE IF f.active.household = {} \/ f.active.household \cap now # {}
         THEN [f EXCEPT !.active.household = now]
         ELSE f

LEMMA NotedFolder ==
  ASSUME HandoverAssumption, NEW f \in FolderRow, NEW now \in SUBSET Members
  PROVE  /\ Noted(f, now) \in FolderRow
         /\ Noted(f, now).scheduled = f.scheduled
         /\ Noted(f, now).active = NoFolder <=> f.active = NoFolder
         /\ f.active # NoFolder =>
               /\ Noted(f, now).active.until = f.active.until
               /\ Noted(f, now).active.household =
                     IF now # {} /\ (f.active.household = {} \/ f.active.household \cap now # {})
                     THEN now ELSE f.active.household
  <1> DEFINE g == [f EXCEPT !.active.household = now]
  <1>1. CASE f.active = NoFolder \/ now = {}  BY <1>1 DEF Noted
  <1>2. CASE ~(f.active = NoFolder \/ now = {})
    <2>1. f.active \in Folder  BY <1>2 DEF FolderRow
    <2>2. [f.active EXCEPT !.household = now] \in Folder  BY <2>1 DEF Folder
    <2>3. g.active = [f.active EXCEPT !.household = now] /\ g.scheduled = f.scheduled /\ g \in FolderRow
      BY <2>2 DEF FolderRow
    <2>4. g.active # NoFolder /\ g.active.until = f.active.until /\ g.active.household = now
      BY <2>1, <2>2, <2>3 DEF HandoverAssumption, Folder
    <2> HIDE DEF g
    <2>5. CASE f.active.household = {} \/ f.active.household \cap now # {}
      <3>1. Noted(f, now) = g  BY <1>2, <2>5 DEF Noted, g
      <3> QED BY <1>2, <2>3, <2>4, <2>5, <3>1
    <2>6. CASE ~(f.active.household = {} \/ f.active.household \cap now # {})  BY <1>2, <2>6 DEF Noted
    <2> QED BY <2>5, <2>6
  <1> QED BY <1>1, <1>2

LEMMA TrackedFolders ==
  ASSUME HandoverAssumption, NEW f \in FolderRows, NEW t
  PROVE  /\ Tracked(f, t) \in FolderRows
         /\ \A p \in Parcels : Tracked(f, t)[p] = Noted(f[p], CurrentTenants(t, p, 0))
  <1>1. ASSUME NEW p \in Parcels
      PROVE  /\ CurrentTenants(t, p, 0) \in SUBSET Members
             /\ Tracked(f, t)[p] = Noted(f[p], CurrentTenants(t, p, 0))
             /\ Noted(f[p], CurrentTenants(t, p, 0)) \in FolderRow
    <2>1. CurrentTenants(t, p, 0) \in SUBSET Members  BY DEF CurrentTenants, Rows
    <2>2. Tracked(f, t)[p] = Noted(f[p], CurrentTenants(t, p, 0))  BY DEF Tracked, Noted
    <2> QED BY <2>1, <2>2, NotedFolder DEF FolderRows
  <1>2. Tracked(f, t) = [p \in Parcels |-> Noted(f[p], CurrentTenants(t, p, 0))]  BY DEF Tracked, Noted
  <1> QED BY <1>1, <1>2 DEF FolderRows

\* A date comes nearer by a day until it is reached.
LEMMA NearerDates ==
  ASSUME HandoverAssumption
  PROVE  /\ \A d \in Ahead : /\ Nearer(d, 0) = (IF d = 0 THEN 0 ELSE d - 1)
                             /\ Nearer(d, -1) = d - 1
                             /\ d # OpenEnd /\ d # NoFolder
         /\ Nearer(OpenEnd, 0) = OpenEnd /\ Nearer(OpenEnd, -1) = OpenEnd
         /\ Nearer(-1, -1) = -1 /\ Nearer(NoFolder, 0) = NoFolder
         /\ \A d \in Ahead \ {0} : d - 1 \in Ahead
  <1>1. \A d \in Ahead : d # NoFolder /\ d # OpenEnd /\ d \in Nat  BY Dates DEF HandoverAssumption
  <1>2. \A d \in Ahead \ {0} : d - 1 \in Ahead  BY Dates
  <1> QED BY <1>1, <1>2 DEF Nearer

\* The tables a day later.
LEMMA NextDayRows ==
  ASSUME HandoverAssumption, TypeOK, NextDay
  PROVE  /\ member' \in Memberships /\ tenancy' \in Tenancies
         /\ \A m \in Members :
               /\ member'[m] # NoRow <=> member[m] # NoRow
               /\ member[m] # NoRow => /\ member'[m].since = Nearer(member[m].since, 0)
                                       /\ member'[m].until = Nearer(member[m].until, -1)
         /\ \A p \in Parcels, m \in Members :
               /\ tenancy'[p][m] # NoRow <=> tenancy[p][m] # NoRow
               /\ tenancy[p][m] # NoRow =>
                     /\ tenancy'[p][m].from = Nearer(tenancy[p][m].from, 0)
                     /\ tenancy'[p][m].until = Nearer(tenancy[p][m].until, 0)
  <1>1. ASSUME NEW m \in Members, member[m] # NoRow
      PROVE  [since |-> Nearer(member[m].since, 0), until |-> Nearer(member[m].until, -1)] \in Member
    BY <1>1, RowShapes, NearerDates, Dates DEF Member
  <1>2. ASSUME NEW p \in Parcels, NEW m \in Members, tenancy[p][m] # NoRow
      PROVE  [from |-> Nearer(tenancy[p][m].from, 0), until |-> Nearer(tenancy[p][m].until, 0)] \in Tenancy
    BY <1>2, RowShapes, NearerDates, Dates DEF Tenancy
  <1>3. \A m \in Members :
      member'[m] = IF member[m] = NoRow THEN NoRow
                   ELSE [since |-> Nearer(member[m].since, 0), until |-> Nearer(member[m].until, -1)]
    BY DEF NextDay
  <1>4. member' \in Memberships
    <2>1. \A m \in Members : member'[m] \in Member \cup {NoRow}  BY <1>1, <1>3
    <2> QED BY <2>1, Zenon DEF NextDay, Memberships
  <1>5. \A p \in Parcels, m \in Members :
      tenancy'[p][m] = IF tenancy[p][m] = NoRow THEN NoRow
                       ELSE [from |-> Nearer(tenancy[p][m].from, 0),
                             until |-> Nearer(tenancy[p][m].until, 0)]  BY DEF NextDay, Stored
  <1>6. tenancy' \in Tenancies
    <2>1. \A p \in Parcels, m \in Members : tenancy'[p][m] \in Tenancy \cup {NoRow}  BY <1>2, <1>5
    <2>2. tenancy' = [p \in Parcels |-> [m \in Members |-> tenancy'[p][m]]]  BY Zenon DEF NextDay, Stored
    <2> QED BY <2>1, <2>2 DEF Tenancies
  <1>7. ASSUME NEW m \in Members
      PROVE  /\ member'[m] # NoRow <=> member[m] # NoRow
             /\ member[m] # NoRow => /\ member'[m].since = Nearer(member[m].since, 0)
                                     /\ member'[m].until = Nearer(member[m].until, -1)
    <2>1. CASE member[m] = NoRow  BY <2>1, <1>3
    <2>2. CASE member[m] # NoRow
      <3>1. member'[m] = [since |-> Nearer(member[m].since, 0), until |-> Nearer(member[m].until, -1)]
        BY <2>2, <1>3
      <3>2. member'[m] # NoRow  BY <2>2, <3>1, <1>1, RowShapes
      <3> QED BY <2>2, <3>1, <3>2
    <2> QED BY <2>1, <2>2
  <1>8. ASSUME NEW p \in Parcels, NEW m \in Members
      PROVE  /\ tenancy'[p][m] # NoRow <=> tenancy[p][m] # NoRow
             /\ tenancy[p][m] # NoRow => /\ tenancy'[p][m].from = Nearer(tenancy[p][m].from, 0)
                                         /\ tenancy'[p][m].until = Nearer(tenancy[p][m].until, 0)
    <2>1. CASE tenancy[p][m] = NoRow  BY <2>1, <1>5
    <2>2. CASE tenancy[p][m] # NoRow
      <3>1. tenancy'[p][m] = [from |-> Nearer(tenancy[p][m].from, 0), until |-> Nearer(tenancy[p][m].until, 0)]
        BY <2>2, <1>5
      <3>2. tenancy'[p][m] # NoRow  BY <2>2, <3>1, <1>2, RowShapes
      <3> QED BY <2>2, <3>1, <3>2
    <2> QED BY <2>1, <2>2
  <1> QED BY <1>4, <1>6, <1>7, <1>8

\* A folder, a day later and before the loop has run.
DayLater(f) ==
    [active |-> IF f.active = NoFolder THEN NoFolder
                ELSE [f.active EXCEPT !.until = Nearer(f.active.until, 0)],
     scheduled |-> Nearer(f.scheduled, 0)]

LEMMA DayLaterFolder ==
  ASSUME HandoverAssumption, NEW f \in FolderRow
  PROVE  /\ DayLater(f) \in FolderRow
         /\ DayLater(f).active # NoFolder <=> f.active # NoFolder
         /\ f.active # NoFolder => /\ DayLater(f).active.until = Nearer(f.active.until, 0)
                                   /\ DayLater(f).active.household = f.active.household
  <1>1. DayLater(f).scheduled \in Ahead \cup {NoFolder}  BY NearerDates, Dates DEF DayLater, FolderRow
  <1>2. CASE f.active # NoFolder
    <2>1. f.active \in Folder  BY <1>2 DEF FolderRow
    <2>2. Nearer(f.active.until, 0) \in Ahead \cup {OpenEnd}  BY <2>1, NearerDates, Dates DEF Folder
    <2>3. DayLater(f).active = [f.active EXCEPT !.until = Nearer(f.active.until, 0)]  BY <1>2 DEF DayLater
    <2>4. DayLater(f).active \in Folder /\ DayLater(f).active # NoFolder
      BY <2>1, <2>2, <2>3 DEF Folder, HandoverAssumption
    <2>5. DayLater(f) = [active |-> DayLater(f).active, scheduled |-> DayLater(f).scheduled]
      BY DEF DayLater
    <2> QED BY <1>1, <1>2, <2>1, <2>3, <2>4, <2>5 DEF FolderRow, Folder
  <1>3. CASE f.active = NoFolder  BY <1>1, <1>3 DEF DayLater, FolderRow
  <1> QED BY <1>2, <1>3

-----------------------------------------------------------------------------
(* What a request does to the rows.                                         *)

\* Whose membership is active is found again by email.
LEMMA MemberForShape ==
  ASSUME HandoverAssumption, NEW a \in Applications
  PROVE  MemberFor(a) \in Members /\ (~IsNew(a) => active_member(MemberFor(a)))
  <1>1. Applicant[a] \in People  BY DEF HandoverAssumption
  <1> DEFINE K == Known(Applicant[a])
  <1>2. CASE K # {}
    <2>1. K \subseteq {1, 2}  BY DEF Known
    <2>2. \E n \in K : \A k \in K : n <= k  BY <1>2, <2>1
    <2>3. Min(K) \in K  BY <2>2, Zenon DEF Min
    <2>4. MemberFor(a) = <<Applicant[a], Min(K)>>  BY <1>2 DEF MemberFor
    <2>5. PICK n \in K : n = Min(K)  BY <2>3
    <2> QED BY <1>1, <2>1, <2>4, <2>5 DEF Members, Known
  <1>3. CASE K = {}  BY <1>1, <1>3 DEF MemberFor, IsNew, Members
  <1> QED BY <1>2, <1>3

\* On the parcel page: row becomes the row of m and p.
Typed(p, m, row) ==
    /\ Free
    /\ row # NoRow =>
          /\ row \in Tenancy /\ member[m] # NoRow
          /\ row.from \in Starts \/ (m \in Rows(tenancy, p) /\ row.from = tenancy[p][m].from)
          /\ row.until \in Ends
    /\ Stored([tenancy EXCEPT ![p][m] = row], folder)
    /\ byHand' = byHand \cup {m}
    /\ UNCHANGED <<swept, terminated, member, open>>
    /\ \/ ended' = ended \cup {p}
       \/ /\ ended' = ended
          /\ tenancy[p][m] # NoRow => tenancy[p][m].until # OpenEnd
          /\ row # NoRow => row.until # 0

LEMMA OnParcelCases ==
  ASSUME HandoverAssumption, TypeOK, TenantsAreEntered, NEW p \in Parcels, OnParcel(p)
  PROVE  \/ update_parcel(p) \/ set_active_folder(p)
         \/ \E m \in Members, row \in Tenancy \cup {NoRow} : Typed(p, m, row)
         \/ \E apps \in (SUBSET open) \ {{}}, day \in Notice, new \in BOOLEAN :
               hand_over_parcel(p, apps, day, new)
  <1> DEFINE Goal == \E m \in Members, row \in Tenancy \cup {NoRow} : Typed(p, m, row)
  <1>1. /\ Starts \subseteq Ahead /\ Ends \subseteq Ahead \cup {OpenEnd}
        /\ 0 \in Ends /\ OpenEnd # 0
    <2>1. {0, 1} \subseteq Ahead /\ OpenEnd # 0  BY Dates
    <2>2. Starts \subseteq {0, 1} /\ Ends \subseteq {OpenEnd, 0, 1} /\ 0 \in Ends
      BY Zenon DEF Starts, Ends
    <2> QED BY <2>1, <2>2
  <1>2. ASSUME NEW m \in Members, NEW from \in Starts, NEW until \in Ends \ {0},
             assign_member(p, m, from, until)
      PROVE  Goal
    <2> DEFINE row == [from |-> from, until |-> until]
    <2>1. row \in Tenancy /\ row.from = from /\ row.until = until  BY <1>1 DEF Tenancy
    <2> HIDE DEF row
    <2>2. Stored([tenancy EXCEPT ![p][m] = row], folder)  BY <1>2 DEF assign_member, row
    <2>3. /\ Free /\ member[m] # NoRow
          /\ tenancy[p][m] # NoRow => tenancy[p][m].until # OpenEnd
          /\ byHand' = byHand \cup {m} /\ ended' = ended
          /\ UNCHANGED <<swept, terminated, member, open>>  BY <1>2 DEF assign_member
    <2>4. row.from \in Starts /\ row.until \in Ends /\ row.until # 0  BY <2>1
    <2>5. Typed(p, m, row)  BY <2>1, <2>2, <2>3, <2>4, Zenon DEF Typed
    <2> QED BY <2>1, <2>5
  <1>3. ASSUME NEW m \in Members, NEW row \in Tenancy \cup {NoRow}, Free, m \in Rows(tenancy, p),
             row # NoRow => /\ row.from \in Starts \cup {tenancy[p][m].from}
                            /\ row.until \in Ends,
             Edited(p, m, row)
      PROVE  Goal
    <2>1. member[m] # NoRow  BY <1>3 DEF Rows, TenantsAreEntered
    <2>2. /\ Stored([tenancy EXCEPT ![p][m] = row], folder)
          /\ byHand' = byHand \cup {m} /\ ended' = ended \cup {p}
          /\ UNCHANGED <<swept, terminated, member, open>>  BY <1>3 DEF Edited
    <2>3. row # NoRow =>
        /\ row \in Tenancy
        /\ row.from \in Starts \/ (m \in Rows(tenancy, p) /\ row.from = tenancy[p][m].from)
        /\ row.until \in Ends  BY <1>3, Zenon
    <2>4. Typed(p, m, row)  BY <1>3, <2>1, <2>2, <2>3, Zenon DEF Typed
    <2> QED BY <2>4
  <1>4. ASSUME NEW m \in Members, end_assignment(p, m)  PROVE Goal
    <2> DEFINE row == [tenancy[p][m] EXCEPT !.until = 0]
    <2>1. tenancy[p][m] \in Tenancy  BY <1>4, RowShapes DEF end_assignment, Rows
    <2>2. row \in Tenancy /\ row.from = tenancy[p][m].from /\ row.until = 0  BY <2>1, Dates DEF Tenancy
    <2>3. Edited(p, m, row)  BY <1>4 DEF end_assignment
    <2> HIDE DEF row, Goal
    <2> QED BY <1>1, <1>3, <1>4, <2>2, <2>3 DEF end_assignment
  <1>5. ASSUME NEW m \in Members, remove_assignment(p, m)  PROVE Goal
    <2> HIDE DEF Goal
    <2> QED BY <1>3, <1>5 DEF remove_assignment
  <1>6. ASSUME NEW m \in Members, delete_assignment_history(p, m)  PROVE Goal
    <2>1. Typed(p, m, NoRow)  BY <1>6 DEF delete_assignment_history, Typed
    <2> QED BY <2>1
  <1>7. ASSUME NEW m \in Rows(tenancy, p), NEW from \in Starts \cup {tenancy[p][m].from},
             NEW until \in Ends, update_assignment(p, m, from, until)
      PROVE  Goal
    <2> DEFINE row == [from |-> from, until |-> until]
    <2>1. m \in Members /\ tenancy[p][m].from \in Ahead  BY RowShapes DEF Rows
    <2>2. row \in Tenancy /\ row.from = from /\ row.until = until  BY <1>1, <2>1 DEF Tenancy
    <2>3. Edited(p, m, row) /\ Free  BY <1>7 DEF update_assignment
    <2> HIDE DEF row, Goal
    <2> QED BY <1>3, <2>1, <2>2, <2>3
  <1> HIDE DEF Goal
  <1>8. Goal => \E m \in Members, row \in Tenancy \cup {NoRow} : Typed(p, m, row)  BY DEF Goal
  <1> QED BY <1>2, <1>4, <1>5, <1>6, <1>7, <1>8 DEF OnParcel

\* A change by hand leaves every row but one.
LEMMA TypedRows ==
  ASSUME HandoverAssumption, TypeOK,
      NEW p \in Parcels, NEW m \in Members, NEW row \in Tenancy \cup {NoRow}, Typed(p, m, row)
  PROVE  /\ tenancy' \in Tenancies
         /\ tenancy'[p][m] = row
         /\ \A q \in Parcels, k \in Members :
               ~(q = p /\ k = m) => tenancy'[q][k] = tenancy[q][k]
  BY DEF Typed, Stored, TypeOK, Tenancies

\* The rows a handover leaves behind.
Newcomers(apps) == {MemberFor(a) : a \in apps}

EntryAfter(p, apps, day, m) ==
    IF m \in Newcomers(apps) /\ member[m] = NoRow THEN NewMember(day)
    ELSE IF m \in Outgoing(p, apps, day) /\ membership_ends(p, m, day) /\ member[m].until > day - 1
    THEN [member[m] EXCEPT !.until = day - 1]
    ELSE member[m]

RowAfter(p, apps, day, m) ==
    IF m \in Outgoing(p, apps, day) THEN [tenancy[p][m] EXCEPT !.until = day]
    ELSE IF m \in Newcomers(apps) THEN Incoming(tenancy[p][m], day)
    ELSE tenancy[p][m]

LEMMA HandOverRows ==
  ASSUME HandoverAssumption, TypeOK, TenantsAreEntered,
      NEW p \in Parcels, NEW apps \in SUBSET open, NEW day \in Notice, NEW new \in BOOLEAN,
      hand_over_parcel(p, apps, day, new)
  PROVE  /\ Newcomers(apps) \subseteq Members
         /\ member' \in Memberships /\ tenancy' \in Tenancies
         /\ \A m \in Members : member'[m] = EntryAfter(p, apps, day, m)
         /\ \A q \in Parcels \ {p} : tenancy'[q] = tenancy[q]
         /\ \A m \in Members : tenancy'[p][m] = RowAfter(p, apps, day, m)
  <1> DEFINE incoming == Newcomers(apps)
      outgoing == Outgoing(p, apps, day)
      entry(m) == EntryAfter(p, apps, day, m)
      row(m) == RowAfter(p, apps, day, m)
  <1>1. day \in Ahead /\ day - 1 \in Ahead \cup {-1} /\ OpenEnd \notin Ahead  BY Dates
  <1>2. incoming \subseteq Members  BY MemberForShape DEF TypeOK, Newcomers
  <1>3. /\ member' = [m \in Members |-> entry(m)]
        /\ tenancy' = [tenancy EXCEPT ![p] = [m \in Members |-> row(m)]]
    BY DEF hand_over_parcel, Stored, EntryAfter, RowAfter, Newcomers
  <1>4. \A m \in outgoing : m \in Members /\ tenancy[p][m] # NoRow /\ member[m] # NoRow
    BY DEF Outgoing, Rows, TenantsAreEntered
  <1>5. ASSUME NEW m \in Members PROVE entry(m) \in Member \cup {NoRow}
    <2>1. NewMember(day) \in Member  BY <1>1 DEF NewMember, Member
    <2>2. CASE m \in outgoing
      <3>1. member[m] \in Member  BY <2>2, <1>4, RowShapes
      <3>2. [member[m] EXCEPT !.until = day - 1] \in Member  BY <1>1, <3>1 DEF Member
      <3> QED BY <2>1, <3>1, <3>2 DEF EntryAfter
    <2>3. CASE m \notin outgoing
      <3> QED BY <2>1, <2>3 DEF TypeOK, EntryAfter
    <2> QED BY <2>2, <2>3
  <1>6. ASSUME NEW m \in Members PROVE row(m) \in Tenancy \cup {NoRow}
    <2>1. CASE m \in outgoing
      <3>1. tenancy[p][m] \in Tenancy  BY <2>1, <1>4, RowShapes
      <3>2. [tenancy[p][m] EXCEPT !.until = day] \in Tenancy  BY <1>1, <3>1 DEF Tenancy
      <3> QED BY <2>1, <3>2 DEF RowAfter
    <2>2. CASE m \notin outgoing
      <3>1. tenancy[p][m] \in Tenancy \cup {NoRow}  BY DEF TypeOK
      <3>2. Incoming(tenancy[p][m], day) \in Tenancy
        <4>1. [from |-> day, until |-> OpenEnd] \in Tenancy  BY <1>1 DEF Tenancy
        <4>2. tenancy[p][m] # NoRow => [tenancy[p][m] EXCEPT !.until = OpenEnd] \in Tenancy
          BY <3>1 DEF Tenancy
        <4> QED BY <4>1, <4>2 DEF Incoming
      <3> QED BY <2>2, <3>1, <3>2 DEF RowAfter
    <2> QED BY <2>1, <2>2
  <1> HIDE DEF entry, row
  <1>7. member' \in Memberships /\ \A m \in Members : member'[m] = entry(m)  BY <1>3, <1>5 DEF Memberships
  <1>8. /\ tenancy' \in Tenancies
        /\ \A q \in Parcels \ {p} : tenancy'[q] = tenancy[q]
        /\ \A m \in Members : tenancy'[p][m] = row(m)  BY <1>3, <1>6 DEF Tenancies, TypeOK
  <1> QED BY <1>2, <1>7, <1>8, Zenon DEF entry, row, incoming

\* The folders of a request are those it stores, with their history.
LEMMA StoredFolders ==
  ASSUME HandoverAssumption, NEW t, NEW f \in FolderRows, Stored(t, f)
  PROVE  folder' \in FolderRows
  BY TrackedFolders DEF Stored

-----------------------------------------------------------------------------
(* Types, and every tenant in the member table.                             *)

LEMMA TypeStep ==
  ASSUME HandoverAssumption, TypeOK, TenantsAreEntered, [Next]_vars
  PROVE  TypeOK' /\ TenantsAreEntered'
  <1> USE DEF Tenancies, Memberships
  <1>0. folder \in FolderRows  BY DEF TypeOK, FolderRows, FolderRow
  <1>1. ASSUME /\ member' \in Memberships /\ tenancy' \in Tenancies /\ folder' \in FolderRows
               /\ swept' \in BOOLEAN /\ terminated' \subseteq Parcels /\ open' \subseteq Applications
               /\ ended' \subseteq Parcels /\ byHand' \subseteq Members
        PROVE  TypeOK'  BY <1>1 DEF TypeOK, FolderRows, FolderRow
  <1>2. CASE NextDay
    <2>1. \A p \in Parcels : DayLater(folder[p]) \in FolderRow  BY <1>0, DayLaterFolder DEF FolderRows
    <2>2. [p \in Parcels |-> DayLater(folder[p])] \in FolderRows  BY <2>1 DEF FolderRows
    <2>3. \E t : Stored(t, [p \in Parcels |-> DayLater(folder[p])])  BY <1>2, Zenon DEF NextDay, DayLater
    <2>4. folder' \in FolderRows  BY <2>2, <2>3, StoredFolders
    <2>5. member' \in Memberships /\ tenancy' \in Tenancies  BY <1>2, NextDayRows
    <2>6. TypeOK'  BY <1>1, <1>2, <2>4, <2>5 DEF NextDay, TypeOK
    <2>7. TenantsAreEntered'  BY <1>2, NextDayRows DEF TenantsAreEntered
    <2> QED BY <2>6, <2>7
  <1>3. CASE apply_scheduled_folder_switches
    <2>1. ASSUME NEW p \in Parcels PROVE Switched(folder[p]) \in FolderRow
      <3>1. FolderFor(OpenEnd) \in Folder  BY DEF FolderFor, Folder
      <3>2. folder[p] \in FolderRow  BY <1>0 DEF FolderRows
      <3> QED BY <3>1, <3>2 DEF Switched, FolderRow
    <2>2. [p \in Parcels |-> Switched(folder[p])] \in FolderRows  BY <2>1 DEF FolderRows
    <2>3. folder' \in FolderRows  BY <1>3, <2>2, TrackedFolders DEF apply_scheduled_folder_switches
    <2> QED BY <1>3, <2>3 DEF apply_scheduled_folder_switches, TypeOK, TenantsAreEntered, FolderRows, FolderRow
  <1>4. ASSUME NEW p \in Parcels, deactivate_if_vacant(p) \/ CheckIsLost(p)
        PROVE  TypeOK' /\ TenantsAreEntered'
    <2>1. [folder EXCEPT ![p].active = NoFolder] \in FolderRows  BY <1>0 DEF FolderRows, FolderRow
    <2>2. folder' \in FolderRows  BY <1>0, <1>4, <2>1 DEF deactivate_if_vacant, CheckIsLost
    <2>3. /\ UNCHANGED <<swept, terminated, member, tenancy, open, byHand>>
          /\ ended' = ended \ {p}  BY <1>4 DEF deactivate_if_vacant, CheckIsLost
    <2> QED BY <2>2, <2>3 DEF TypeOK, TenantsAreEntered, FolderRows, FolderRow
  <1>5. ASSUME NEW p \in Parcels, update_parcel(p)  PROVE TypeOK' /\ TenantsAreEntered'
    BY <1>5 DEF update_parcel, TypeOK, TenantsAreEntered
  <1>6. ASSUME NEW p \in Parcels, set_active_folder(p)  PROVE TypeOK' /\ TenantsAreEntered'
    <2> DEFINE f == [until |-> IF folder[p].active = NoFolder THEN OpenEnd ELSE folder[p].active.until,
        household |-> CurrentTenants(tenancy, p, 0)]
    <2>1. f \in Folder  BY RowShapes DEF Folder, CurrentTenants, Rows
    <2>2. folder' = [folder EXCEPT ![p].active = f]  BY <1>6 DEF set_active_folder
    <2> HIDE DEF f
    <2>3. folder' \in FolderRows  BY <1>0, <2>1, <2>2 DEF FolderRows, FolderRow
    <2> QED BY <1>6, <2>3 DEF set_active_folder, TypeOK, TenantsAreEntered, FolderRows, FolderRow
  <1>7. ASSUME NEW p \in Parcels, NEW m \in Members, NEW row \in Tenancy \cup {NoRow}, Typed(p, m, row)
      PROVE  TypeOK' /\ TenantsAreEntered'
    <2>1. folder' \in FolderRows  BY <1>0, <1>7, StoredFolders DEF Typed
    <2>2. tenancy' \in Tenancies  BY <1>7, TypedRows
    <2>3. TypeOK'  BY <1>1, <1>7, <2>1, <2>2 DEF Typed, TypeOK
    <2>4. member' = member /\ (row # NoRow => member[m] # NoRow)  BY <1>7 DEF Typed
    <2>5. TenantsAreEntered'  BY <1>7, <2>4, TypedRows DEF TenantsAreEntered
    <2> QED BY <2>3, <2>5
  <1>8. ASSUME NEW p \in Parcels, NEW apps \in SUBSET open, NEW day \in Notice, NEW new \in BOOLEAN,
             hand_over_parcel(p, apps, day, new)
      PROVE  TypeOK' /\ TenantsAreEntered'
    <2>0. day \in Ahead  BY Dates
    <2>1. schedule_handover_folders(folder[p], day, new) \in FolderRow
      <3>1. FolderFor(OpenEnd) \in Folder  BY DEF FolderFor, Folder
      <3>2. folder[p] \in FolderRow  BY <1>0 DEF FolderRows
      <3>3. folder[p].active # NoFolder => [folder[p].active EXCEPT !.until = day] \in Folder
        BY <2>0, <3>2 DEF FolderRow, Folder
      <3>4. 0 \in Ahead  BY Dates
      <3> QED BY <2>0, <3>1, <3>2, <3>3 DEF schedule_handover_folders, FolderRow
    <2>2. [folder EXCEPT ![p] = schedule_handover_folders(folder[p], day, new)] \in FolderRows
      BY <1>0, <2>1 DEF FolderRows
    <2>3. folder' \in FolderRows  BY <1>8, <2>2, StoredFolders DEF hand_over_parcel
    <2>4. member' \in Memberships /\ tenancy' \in Tenancies  BY <1>8, HandOverRows
    <2>5. TypeOK'  BY <1>1, <1>8, <2>3, <2>4 DEF hand_over_parcel, TypeOK
    <2>6. ASSUME NEW q \in Parcels, NEW m \in Members, tenancy'[q][m] # NoRow
        PROVE  member'[m] # NoRow
      <3>1. member[m] # NoRow => member'[m] # NoRow
        <4> SUFFICES ASSUME member[m] # NoRow PROVE member'[m] # NoRow  OBVIOUS
        <4>1. member[m] \in Member /\ NoRow \notin Member  BY RowShapes
        <4>2. [member[m] EXCEPT !.until = day - 1] \in Member  BY <2>0, <4>1, Dates DEF Member
        <4>3. member'[m] = member[m] \/ member'[m] = [member[m] EXCEPT !.until = day - 1]
          BY <1>8, <4>1, HandOverRows DEF EntryAfter
        <4> QED BY <4>1, <4>2, <4>3
      <3>2. CASE tenancy[q][m] # NoRow  BY <3>1, <3>2 DEF TenantsAreEntered
      <3>3. CASE tenancy[q][m] = NoRow
        <4>1. m \notin Outgoing(p, apps, day) \/ q # p  BY <3>3 DEF Outgoing, Rows
        <4>2. m \in Newcomers(apps)
          <5>1. q = p  BY <1>8, <2>6, <3>3, HandOverRows
          <5>2. tenancy'[p][m] = RowAfter(p, apps, day, m) /\ m \notin Outgoing(p, apps, day)
            BY <1>8, <4>1, <5>1, HandOverRows
          <5> QED BY <2>6, <3>3, <5>1, <5>2 DEF RowAfter
        <4>3. member[m] = NoRow => member'[m] = NewMember(day)  BY <1>8, <4>2, HandOverRows DEF EntryAfter
        <4>4. NewMember(day) # NoRow  BY <2>0, Dates DEF NewMember, Member, HandoverAssumption
        <4> QED BY <3>1, <4>3, <4>4
      <3> QED BY <3>2, <3>3
    <2> QED BY <2>5, <2>6 DEF TenantsAreEntered
  <1>9. CASE UNCHANGED vars  BY <1>9 DEF vars, TypeOK, TenantsAreEntered
  <1>10. ASSUME NEW p \in Parcels, OnParcel(p)  PROVE TypeOK' /\ TenantsAreEntered'
    <2>1. CASE update_parcel(p) \/ set_active_folder(p)  BY <1>5, <1>6, <2>1
    <2>2. CASE \E m \in Members, row \in Tenancy \cup {NoRow} : Typed(p, m, row)  BY <1>7, <2>2
    <2>3. CASE \E apps \in (SUBSET open) \ {{}}, day \in Notice, new \in BOOLEAN :
        hand_over_parcel(p, apps, day, new)  BY <1>8, <2>3
    <2> QED BY <1>10, <2>1, <2>2, <2>3, OnParcelCases
  <1> QED BY <1>2, <1>3, <1>4, <1>9, <1>10 DEF Next

-----------------------------------------------------------------------------
(* Membership follows tenancy.                                              *)

\* What is typed in about others, and what happens to folders, changes nothing for m.
LEMMA EntriesKept ==
  ASSUME NEW m \in Members, EntriesAgree(m), member'[m] = member[m],
      \A q \in Parcels : tenancy'[q][m] = tenancy[q][m]
  PROVE  EntriesAgree(m)'
  <1>1. Held(m)' = Held(m)  BY DEF Held
  <1>2. \A q \in Held(m) : q \in Parcels  BY DEF Held
  <1> QED BY <1>1, <1>2 DEF EntriesAgree

\* The tenancies and folder of a parcel that waits for nothing.
LEMMA SettledParcel ==
  ASSUME HandoverAssumption, TypeOK, NEW p \in Parcels, ~Unsettled(p)
  PROVE  /\ \A m \in Members : tenancy[p][m] # NoRow =>
               /\ tenancy[p][m] \in Tenancy
               /\ tenancy[p][m].from = 0 /\ tenancy[p][m].until \in {0, OpenEnd}
         /\ folder[p].scheduled = NoFolder
         /\ folder[p].active # NoFolder => folder[p].active.until = OpenEnd
  <1>1. ASSUME NEW m \in Members, tenancy[p][m] # NoRow
      PROVE  /\ tenancy[p][m] \in Tenancy
             /\ tenancy[p][m].from = 0 /\ tenancy[p][m].until \in {0, OpenEnd}
    <2>1. tenancy[p][m] \in Tenancy /\ tenancy[p][m].from \in Nat  BY <1>1, RowShapes, Dates
    <2>2. ~(tenancy[p][m].from > 0) /\ tenancy[p][m].until \in {0, OpenEnd}  BY <1>1 DEF Unsettled, Rows
    <2> QED BY <2>1, <2>2
  <1> QED BY <1>1, Zenon DEF Unsettled

\* Such a parcel is handed over: its tenants leave that day, but for those who
\* applied for it; the newcomers, who include them, stay.
LEMMA SettledHandOver ==
  ASSUME HandoverAssumption, TypeOK, TenantsAreEntered, NEW p \in Parcels, ~Unsettled(p),
      NEW apps \in SUBSET open, NEW day \in Notice, NEW new \in BOOLEAN,
      hand_over_parcel(p, apps, day, new), NEW m \in Members
  PROVE  /\ m \in Outgoing(p, apps, day) =>
               /\ m \notin Newcomers(apps)
               /\ tenancy[p][m] # NoRow /\ tenancy[p][m].until = OpenEnd
               /\ tenancy'[p][m] # NoRow
               /\ tenancy'[p][m].from = 0 /\ tenancy'[p][m].until = day
         /\ m \in Newcomers(apps) =>
               /\ tenancy'[p][m] # NoRow /\ tenancy'[p][m].until = OpenEnd
               /\ IF tenancy[p][m] # NoRow /\ tenancy[p][m].until = OpenEnd
                  THEN tenancy'[p][m].from = 0
                  ELSE tenancy'[p][m].from = day
               /\ member[m] = NoRow \/ active_member(m)
         /\ m \notin Newcomers(apps) /\ m \notin Outgoing(p, apps, day) =>
               /\ tenancy'[p][m] = tenancy[p][m]
               /\ tenancy[p][m] # NoRow => tenancy[p][m].until = 0
  <1>1. /\ day \in Ahead /\ day \in Nat /\ OpenEnd \in Nat /\ day < OpenEnd /\ OpenEnd > 1
        /\ OpenEnd \in Ahead \cup {OpenEnd}  BY Dates
  <1>2. tenancy'[p][m] = RowAfter(p, apps, day, m) /\ NoRow \notin Tenancy  BY HandOverRows, RowShapes
  <1>3. tenancy[p][m] # NoRow =>
      /\ tenancy[p][m] \in Tenancy
      /\ tenancy[p][m].from = 0 /\ tenancy[p][m].until \in {0, OpenEnd}  BY SettledParcel
  <1>4. ASSUME m \in Newcomers(apps)
      PROVE  /\ member[m] = NoRow \/ active_member(m)
             /\ m \notin Outgoing(p, apps, day)
    <2>1. PICK a \in apps : m = MemberFor(a)  BY <1>4 DEF Newcomers
    <2>2. CASE IsNew(a)
      <3>1. member[m] = NoRow  BY <2>1, <2>2 DEF hand_over_parcel
      <3> QED BY <3>1 DEF TenantsAreEntered, Outgoing, Rows
    <2>3. CASE ~IsNew(a)
      <3>1. active_member(m)  BY <2>1, <2>3, MemberForShape DEF TypeOK
      <3> QED BY <2>1, <2>3, <3>1 DEF Outgoing
    <2> QED BY <2>2, <2>3
  <1>5. ASSUME m \in Outgoing(p, apps, day)
      PROVE  /\ tenancy[p][m] # NoRow /\ tenancy[p][m].until = OpenEnd
             /\ tenancy'[p][m] # NoRow
             /\ tenancy'[p][m].from = 0 /\ tenancy'[p][m].until = day
    <2>1. tenancy[p][m] # NoRow /\ tenancy[p][m].until > day  BY <1>5 DEF Outgoing, Rows
    <2>2. tenancy[p][m] \in Tenancy /\ tenancy[p][m].from = 0 /\ tenancy[p][m].until = OpenEnd
      BY <1>1, <1>3, <2>1
    <2>3. tenancy'[p][m] = [tenancy[p][m] EXCEPT !.until = day]  BY <1>2, <1>5 DEF RowAfter
    <2>4. tenancy'[p][m] \in Tenancy  BY <1>1, <2>2, <2>3 DEF Tenancy
    <2> QED BY <1>2, <2>1, <2>2, <2>3, <2>4 DEF Tenancy
  <1>6. ASSUME m \in Newcomers(apps)
      PROVE  /\ tenancy'[p][m] # NoRow /\ tenancy'[p][m].until = OpenEnd
             /\ IF tenancy[p][m] # NoRow /\ tenancy[p][m].until = OpenEnd
                THEN tenancy'[p][m].from = 0
                ELSE tenancy'[p][m].from = day
    <2>1. tenancy'[p][m] = Incoming(tenancy[p][m], day)  BY <1>2, <1>4, <1>6 DEF RowAfter
    <2>2. CASE tenancy[p][m] # NoRow /\ tenancy[p][m].until = OpenEnd
      <3>1. tenancy'[p][m] = [tenancy[p][m] EXCEPT !.until = OpenEnd]  BY <1>1, <2>1, <2>2 DEF Incoming
      <3> QED BY <1>2, <1>3, <2>2, <3>1 DEF Tenancy
    <2>3. CASE ~(tenancy[p][m] # NoRow /\ tenancy[p][m].until = OpenEnd)
      <3>1. tenancy'[p][m] = [from |-> day, until |-> OpenEnd]  BY <1>1, <1>3, <2>1, <2>3 DEF Incoming
      <3>2. tenancy'[p][m] \in Tenancy  BY <1>1, <3>1 DEF Tenancy
      <3> QED BY <1>2, <2>3, <3>1, <3>2
    <2> QED BY <2>2, <2>3
  <1>7. ASSUME m \notin Newcomers(apps), m \notin Outgoing(p, apps, day)
      PROVE  /\ tenancy'[p][m] = tenancy[p][m]
             /\ tenancy[p][m] # NoRow => tenancy[p][m].until = 0
    <2>1. tenancy'[p][m] = tenancy[p][m]  BY <1>2, <1>7 DEF RowAfter
    <2>2. tenancy[p][m] # NoRow => ~(tenancy[p][m].until > day)  BY <1>7 DEF Outgoing, Rows, Newcomers
    <2> QED BY <1>1, <1>3, <2>1, <2>2
  <1> QED BY <1>4, <1>5, <1>6, <1>7

\* Tenants whose row has one day's dates.
LEMMA CurrentRows ==
  ASSUME NEW t, NEW p, NEW d, NEW m \in Members
  PROVE  m \in CurrentTenants(t, p, d) <=>
            t[p][m] # NoRow /\ t[p][m].from <= d /\ t[p][m].until > d
  BY DEF CurrentTenants, Rows, is_current

LEMMA SettledTurnsOver ==
  ASSUME HandoverAssumption, TypeOK, TenantsAreEntered, NEW p \in Parcels, ~Unsettled(p),
      NEW apps \in SUBSET open, NEW day \in Notice, NEW new \in BOOLEAN,
      hand_over_parcel(p, apps, day, new)
  PROVE  TurnsOver(p, apps, day)
  <1> SUFFICES ASSUME NEW d \in Ahead
      PROVE  CurrentTenants(tenancy', p, d) =
                IF d < day THEN CurrentTenants(tenancy, p, d) ELSE Newcomers(apps)
    BY DEF TurnsOver, Newcomers
  <1>1. /\ d \in Nat /\ day \in Nat /\ OpenEnd \in Nat /\ d < OpenEnd /\ d >= 0  BY Dates
  <1>2. /\ CurrentTenants(tenancy', p, d) \subseteq Members
        /\ CurrentTenants(tenancy, p, d) \subseteq Members
        /\ Newcomers(apps) \subseteq Members  BY HandOverRows DEF CurrentTenants, Rows
  <1>3. ASSUME NEW m \in Members
      PROVE  m \in CurrentTenants(tenancy', p, d) <=>
                IF d < day THEN m \in CurrentTenants(tenancy, p, d) ELSE m \in Newcomers(apps)
    <2>1. tenancy[p][m] # NoRow => tenancy[p][m].from = 0 /\ tenancy[p][m].until \in {0, OpenEnd}
      BY SettledParcel
    <2>2. m \in CurrentTenants(tenancy, p, d) <=> tenancy[p][m] # NoRow /\ tenancy[p][m].until = OpenEnd
      BY <1>1, <2>1, CurrentRows
    <2>3. m \in CurrentTenants(tenancy', p, d) <=>
        tenancy'[p][m] # NoRow /\ tenancy'[p][m].from <= d /\ tenancy'[p][m].until > d
      BY CurrentRows
    <2>4. CASE m \in Outgoing(p, apps, day)  BY <1>1, <2>2, <2>3, <2>4, SettledHandOver
    <2>5. CASE m \in Newcomers(apps)  BY <1>1, <2>2, <2>3, <2>5, SettledHandOver
    <2>6. CASE m \notin Newcomers(apps) /\ m \notin Outgoing(p, apps, day)
      BY <1>1, <2>2, <2>3, <2>6, SettledHandOver
    <2> QED BY <2>4, <2>5, <2>6
  <1> QED BY <1>2, <1>3

\* What a handover does to the rows of one member.
LEMMA EntriesHandedOver ==
  ASSUME HandoverAssumption, TypeOK, TenantsAreEntered, NEW p \in Parcels, ~Unsettled(p),
      NEW apps \in SUBSET open, NEW day \in Notice, NEW new \in BOOLEAN,
      hand_over_parcel(p, apps, day, new), NEW m \in Members, EntriesAgree(m)
  PROVE  EntriesAgree(m)'
  <1>1. /\ day \in Ahead /\ day \in Nat /\ OpenEnd \in Nat /\ day < OpenEnd /\ OpenEnd > 1
        /\ day - 1 \in Ahead \cup {-1} /\ day - 1 # OpenEnd  BY Dates
  <1>2. /\ member'[m] = EntryAfter(p, apps, day, m)
        /\ \A q \in Parcels \ {p} : tenancy'[q][m] = tenancy[q][m]  BY HandOverRows
  <1>3. tenancy[p][m] # NoRow =>
      tenancy[p][m].from = 0 /\ tenancy[p][m].until \in {0, OpenEnd}  BY SettledParcel
  <1>4. member[m] # NoRow => /\ member[m] \in Member /\ member[m].since \in Ahead
                             /\ member[m].until \in Ahead \cup {-1, OpenEnd}  BY RowShapes
  <1>5. /\ \A q \in Parcels : q \in Held(m) <=> tenancy[q][m] # NoRow
        /\ \A q \in Parcels : q \in Held(m)' <=> tenancy'[q][m] # NoRow
        /\ Held(m) \subseteq Parcels /\ Held(m)' \subseteq Parcels  BY DEF Held
  <1>6. CASE m \in Outgoing(p, apps, day)
    <2>1. /\ m \notin Newcomers(apps) /\ tenancy[p][m] # NoRow /\ tenancy[p][m].until = OpenEnd
          /\ tenancy'[p][m] # NoRow /\ tenancy'[p][m].from = 0 /\ tenancy'[p][m].until = day
      BY <1>6, SettledHandOver
    <2>2. Held(m)' = Held(m) /\ p \in Held(m) /\ member[m] # NoRow
      BY <1>2, <1>5, <2>1 DEF TenantsAreEntered
    <2>3. member'[m] = IF membership_ends(p, m, day) /\ member[m].until > day - 1
                       THEN [member[m] EXCEPT !.until = day - 1] ELSE member[m]
      BY <1>2, <1>6, <2>1 DEF EntryAfter
    <2>4. [member[m] EXCEPT !.until = day - 1].since = member[m].since
        /\ [member[m] EXCEPT !.until = day - 1].until = day - 1  BY <1>4, <2>2 DEF Member
    <2>5. member'[m].since = member[m].since  BY <2>3, <2>4
    <2>6. membership_ends(p, m, day) <=> \A q \in Held(m) \ {p} : ~(tenancy[q][m].until > day)
      BY <1>5 DEF membership_ends
    <2>7. ASSUME Held(m)' = {p} PROVE AsLongAs(member'[m], tenancy'[p][m])
      <3>1. AsLongAs(member[m], tenancy[p][m])  BY <2>2, <2>7 DEF EntriesAgree
      <3>2. member[m].since <= 0 /\ member[m].until = OpenEnd  BY <1>3, <2>1, <3>1 DEF AsLongAs, DayBefore
      <3>3. member'[m].until = day - 1  BY <1>1, <2>2, <2>3, <2>4, <2>6, <2>7, <3>2
      <3> QED BY <1>1, <2>1, <2>5, <3>2, <3>3 DEF AsLongAs, DayBefore
    <2>8. ASSUME Notice = {0}
        PROVE  /\ member'[m].since = 0
               /\ \A q \in Held(m)' : tenancy'[q][m].from = 0 /\ tenancy'[q][m].until \in {0, OpenEnd}
               /\ member'[m].until =
                     IF \E q \in Held(m)' : tenancy'[q][m].until = OpenEnd THEN OpenEnd ELSE -1
      <3>1. day = 0  BY <2>8
      <3>2. /\ member[m].since = 0
            /\ \A q \in Held(m) : tenancy[q][m].from = 0 /\ tenancy[q][m].until \in {0, OpenEnd}
            /\ member[m].until = OpenEnd  BY <2>1, <2>2, <2>8 DEF EntriesAgree
      <3>3. \A q \in Held(m)' : tenancy'[q][m].from = 0 /\ tenancy'[q][m].until \in {0, OpenEnd}
        BY <1>2, <1>5, <2>1, <2>2, <3>1, <3>2
      <3>4. membership_ends(p, m, day) <=> ~\E q \in Held(m)' : tenancy'[q][m].until = OpenEnd
        BY <1>1, <1>2, <1>5, <2>1, <2>2, <2>6, <3>1, <3>2
      <3>5. member'[m].until = IF membership_ends(p, m, day) THEN -1 ELSE OpenEnd
        BY <1>1, <2>3, <2>4, <3>1, <3>2
      <3> QED BY <2>5, <3>2, <3>3, <3>4, <3>5
    <2>9. \A q \in Held(m)' : Held(m)' = {q} => q = p  BY <2>2
    <2> QED BY <2>2, <2>7, <2>8, <2>9 DEF EntriesAgree
  <1>7. CASE m \in Newcomers(apps)
    <2>1. /\ tenancy'[p][m] # NoRow /\ tenancy'[p][m].until = OpenEnd
          /\ IF tenancy[p][m] # NoRow /\ tenancy[p][m].until = OpenEnd
             THEN tenancy'[p][m].from = 0 ELSE tenancy'[p][m].from = day
          /\ member[m] = NoRow \/ active_member(m)
          /\ m \notin Outgoing(p, apps, day)  BY <1>7, SettledHandOver
    <2>2. Held(m)' = Held(m) \cup {p}  BY <1>2, <1>5, <2>1
    <2>3. \A q \in Held(m)' : Held(m)' = {q} => q = p  BY <2>2
    <2>4. CASE member[m] = NoRow
      <3>1. Held(m) = {} /\ Held(m)' = {p}  BY <1>5, <2>2, <2>4 DEF TenantsAreEntered
      <3>2. tenancy'[p][m].from = day  BY <1>5, <2>1, <3>1
      <3>3. member'[m].since = day /\ member'[m].until = OpenEnd
        BY <1>2, <1>7, <2>4 DEF EntryAfter, NewMember
      <3>4. AsLongAs(member'[m], tenancy'[p][m])  BY <1>1, <2>1, <3>2, <3>3 DEF AsLongAs, DayBefore
      <3> QED BY <2>1, <2>3, <3>1, <3>2, <3>3, <3>4 DEF EntriesAgree
    <2>5. CASE member[m] # NoRow
      <3>1. member'[m] = member[m] /\ active_member(m)  BY <1>2, <1>7, <2>1, <2>5 DEF EntryAfter
      <3>2. member[m].until >= 0 /\ Held(m) # {}  BY <2>5, <3>1 DEF active_member, EntriesAgree
      <3>3. ASSUME Held(m)' = {p} PROVE AsLongAs(member'[m], tenancy'[p][m])
        <4>1. Held(m) = {p} /\ tenancy[p][m] # NoRow  BY <1>5, <2>2, <3>2, <3>3
        <4>2. AsLongAs(member[m], tenancy[p][m])  BY <4>1 DEF EntriesAgree
        <4>3. tenancy[p][m].until = OpenEnd  BY <1>1, <1>3, <3>2, <4>1, <4>2 DEF AsLongAs, DayBefore
        <4> QED BY <1>3, <2>1, <3>1, <4>1, <4>2, <4>3 DEF AsLongAs, DayBefore
      <3>4. ASSUME Notice = {0}
          PROVE  /\ member'[m].since = 0
                 /\ \A q \in Held(m)' : tenancy'[q][m].from = 0 /\ tenancy'[q][m].until \in {0, OpenEnd}
                 /\ member'[m].until = OpenEnd
        <4>1. day = 0  BY <3>4
        <4>2. /\ member[m].since = 0
              /\ \A q \in Held(m) : tenancy[q][m].from = 0 /\ tenancy[q][m].until \in {0, OpenEnd}
              /\ member[m].until \in {OpenEnd, -1}  BY <3>2, <3>4 DEF EntriesAgree
        <4>3. member[m].until = OpenEnd  BY <3>2, <4>2
        <4>4. tenancy'[p][m].from = 0  BY <2>1, <4>1
        <4> QED BY <1>2, <1>5, <2>1, <2>2, <3>1, <4>2, <4>3, <4>4
      <3> QED BY <2>1, <2>2, <2>3, <3>3, <3>4 DEF EntriesAgree
    <2> QED BY <2>4, <2>5
  <1>8. CASE m \notin Newcomers(apps) /\ m \notin Outgoing(p, apps, day)
    <2>1. tenancy'[p][m] = tenancy[p][m]  BY <1>8, SettledHandOver
    <2>2. member'[m] = member[m]  BY <1>2, <1>8 DEF EntryAfter
    <2>3. \A q \in Parcels : tenancy'[q][m] = tenancy[q][m]  BY <1>2, <2>1
    <2> QED BY <2>2, <2>3, EntriesKept
  <1> QED BY <1>6, <1>7, <1>8

\* A day on, a membership and its tenancy have come nearer alike.
LEMMA EntriesNextDay ==
  ASSUME HandoverAssumption, TypeOK, TenantsAreEntered, NextDay,
      NEW m \in Members, EntriesAgree(m)
  PROVE  EntriesAgree(m)'
  <1>1. OpenEnd \in Nat /\ OpenEnd > 1 /\ Ahead = 0 .. OpenEnd - 1  BY Dates
  <1>2. Held(m)' = Held(m) /\ (member'[m] # NoRow <=> member[m] # NoRow)  BY NextDayRows DEF Held
  <1>3. ASSUME NEW p \in Held(m)
      PROVE  /\ tenancy[p][m].from \in Ahead /\ tenancy[p][m].until \in Ahead \cup {OpenEnd}
             /\ tenancy'[p][m].from = Nearer(tenancy[p][m].from, 0)
             /\ tenancy'[p][m].until = Nearer(tenancy[p][m].until, 0)
             /\ member[m].since \in Ahead /\ member[m].until \in Ahead \cup {-1, OpenEnd}
             /\ member'[m].since = Nearer(member[m].since, 0)
             /\ member'[m].until = Nearer(member[m].until, -1)
    <2>1. p \in Parcels /\ tenancy[p][m] # NoRow /\ member[m] # NoRow  BY DEF Held, TenantsAreEntered
    <2> QED BY <2>1, RowShapes, NextDayRows
  <1>4. ASSUME NEW p \in Held(m), AsLongAs(member[m], tenancy[p][m])
      PROVE  AsLongAs(member'[m], tenancy'[p][m])
    <2>1. member[m].since <= tenancy[p][m].from /\ member[m].until = DayBefore(tenancy[p][m].until)
      BY <1>4 DEF AsLongAs
    <2>2. member'[m].since <= tenancy'[p][m].from  BY <1>1, <1>3, <2>1, NearerDates
    <2>3. CASE tenancy[p][m].until = OpenEnd
      BY <1>3, <2>1, <2>2, <2>3, NearerDates DEF AsLongAs, DayBefore
    <2>4. CASE tenancy[p][m].until = 0
      BY <1>1, <1>3, <2>1, <2>2, <2>4, NearerDates DEF AsLongAs, DayBefore
    <2>5. CASE tenancy[p][m].until \in Ahead \ {0}
      <3>1. member[m].until = tenancy[p][m].until - 1 /\ member[m].until \in Ahead
        BY <1>1, <2>1, <2>5 DEF DayBefore
      <3>2. member'[m].until = tenancy[p][m].until - 2 /\ tenancy'[p][m].until = tenancy[p][m].until - 1
        BY <1>1, <1>3, <2>5, <3>1, NearerDates
      <3> QED BY <1>1, <2>2, <2>5, <3>2 DEF AsLongAs, DayBefore
    <2> QED BY <1>3, <2>3, <2>4, <2>5
  <1>5. ASSUME Notice = {0}, Held(m) # {}
      PROVE  /\ member'[m].since = 0
             /\ \A p \in Held(m) : tenancy'[p][m].from = 0 /\ tenancy'[p][m].until \in {0, OpenEnd}
             /\ member'[m].until =
                   IF \E p \in Held(m) : tenancy'[p][m].until = OpenEnd THEN OpenEnd ELSE -1
    <2>1. /\ member[m].since = 0
          /\ \A p \in Held(m) : tenancy[p][m].from = 0 /\ tenancy[p][m].until \in {0, OpenEnd}
          /\ member[m].until = IF \E p \in Held(m) : tenancy[p][m].until = OpenEnd THEN OpenEnd ELSE -1
      BY <1>5 DEF EntriesAgree
    <2>2. 0 \in Ahead  BY <1>1
    <2>3. \A p \in Held(m) : tenancy'[p][m].from = 0 /\ tenancy'[p][m].until = tenancy[p][m].until
      BY <1>3, <2>1, <2>2, NearerDates
    <2>4. member'[m].since = 0 /\ member'[m].until = member[m].until
      BY <1>3, <1>5, <2>1, <2>2, NearerDates
    <2> QED BY <2>1, <2>3, <2>4
  <1>6. member'[m] # NoRow => Held(m)' # {}  BY <1>2 DEF EntriesAgree
  <1>7. \A p \in Held(m)' : Held(m)' = {p} => AsLongAs(member'[m], tenancy'[p][m])
    BY <1>2, <1>4 DEF EntriesAgree
  <1> QED BY <1>2, <1>5, <1>6, <1>7 DEF EntriesAgree

LEMMA MembershipStep ==
  ASSUME HandoverAssumption, Orderly, TypeOK, MembershipInv, [Next]_vars  PROVE MembershipInv'
  <1>1. TenantsAreEntered /\ TenantsAreEntered'  BY TypeStep DEF MembershipInv
  <1> SUFFICES ASSUME NEW m \in Members, m \notin byHand' PROVE EntriesAgree(m)'
    BY <1>1 DEF MembershipInv
  <1>2. ASSUME m \notin byHand PROVE EntriesAgree(m)  BY <1>2 DEF MembershipInv
  <1>3. ASSUME UNCHANGED <<member, tenancy, byHand>> PROVE EntriesAgree(m)'  BY <1>2, <1>3, EntriesKept
  <1>4. CASE NextDay  BY <1>1, <1>2, <1>4, EntriesNextDay DEF NextDay
  <1>5. CASE apply_scheduled_folder_switches  BY <1>3, <1>5 DEF apply_scheduled_folder_switches
  <1>6. ASSUME NEW p \in Parcels, deactivate_if_vacant(p) \/ CheckIsLost(p)  PROVE EntriesAgree(m)'
    BY <1>3, <1>6 DEF deactivate_if_vacant, CheckIsLost
  <1>7. ASSUME NEW p \in Parcels, update_parcel(p) \/ set_active_folder(p)  PROVE EntriesAgree(m)'
    BY <1>3, <1>7 DEF update_parcel, set_active_folder
  <1>8. ASSUME NEW p \in Parcels, NEW k \in Members, NEW row \in Tenancy \cup {NoRow}, Typed(p, k, row)
      PROVE  EntriesAgree(m)'
    <2>1. member' = member /\ m # k /\ m \notin byHand  BY <1>8 DEF Typed
    <2>2. \A q \in Parcels : tenancy'[q][m] = tenancy[q][m]  BY <1>8, <2>1, TypedRows
    <2> QED BY <1>2, <2>1, <2>2, EntriesKept
  <1>9. ASSUME NEW p \in Parcels, ~Unsettled(p),
             NEW apps \in SUBSET open, NEW day \in Notice, NEW new \in BOOLEAN,
             hand_over_parcel(p, apps, day, new)
      PROVE  EntriesAgree(m)'
    <2>1. m \notin byHand  BY <1>9 DEF hand_over_parcel
    <2> QED BY <1>1, <1>2, <1>9, <2>1, EntriesHandedOver
  <1>10. ASSUME NEW p \in Parcels, ~Unsettled(p), OnParcel(p)  PROVE EntriesAgree(m)'
    BY <1>1, <1>7, <1>8, <1>9, <1>10, OnParcelCases
  <1>11. CASE UNCHANGED vars  BY <1>3, <1>11 DEF vars
  <1> QED BY <1>4, <1>5, <1>6, <1>10, <1>11 DEF Next, Orderly

LEMMA InitHolds ==
  ASSUME HandoverAssumption, Init  PROVE TypeOK /\ MembershipInv
  <1>1. /\ OpenEnd \in Nat /\ OpenEnd # 0 /\ 0 \in Ahead
        /\ [since |-> 0, until |-> OpenEnd] \in Member
        /\ [from |-> 0, until |-> OpenEnd] \in Tenancy  BY Dates DEF Member, Tenancy
  <1>2. TypeOK  BY <1>1 DEF Init, TypeOK
  <1>3. \A p \in Parcels, m \in Members :
      /\ tenancy[p][m] \in {NoRow, [from |-> 0, until |-> OpenEnd]}
      /\ tenancy[p][m] # NoRow <=> m[2] = 1 /\ <<p, m[1]>> \in Lets
    BY <1>1, RowShapes, <1>2 DEF Init
  <1>4. \A m \in Members :
      /\ member[m] \in {NoRow, [since |-> 0, until |-> OpenEnd]}
      /\ member[m] # NoRow <=> m[2] = 1 /\ \E p \in Parcels : <<p, m[1]>> \in Lets
    BY <1>1, RowShapes, <1>2 DEF Init
  <1>5. TenantsAreEntered  BY <1>3, <1>4 DEF TenantsAreEntered
  <1>6. ASSUME NEW m \in Members PROVE EntriesAgree(m)
    <2>1. member[m] # NoRow => Held(m) # {}  BY <1>3, <1>4 DEF Held
    <2>2. \A p \in Held(m) : /\ tenancy[p][m] = [from |-> 0, until |-> OpenEnd]
                             /\ member[m] = [since |-> 0, until |-> OpenEnd]
      BY <1>3, <1>4, <1>5 DEF Held, TenantsAreEntered
    <2> QED BY <2>1, <2>2 DEF EntriesAgree, AsLongAs, DayBefore
  <1> QED BY <1>2, <1>5, <1>6 DEF MembershipInv

-----------------------------------------------------------------------------
(* Every table keeps its type, and every tenant is in the member table,      *)
(* whatever else happens to a parcel meanwhile.                              *)
THEOREM TypeCorrect == ASSUME HandoverAssumption PROVE Spec => [](TypeOK /\ TenantsAreEntered)
  <1>1. Init => TypeOK /\ TenantsAreEntered  BY InitHolds DEF MembershipInv
  <1>2. TypeOK /\ TenantsAreEntered /\ [Next]_vars => (TypeOK /\ TenantsAreEntered)'  BY TypeStep
  <1> QED BY <1>1, <1>2, PTL DEF Spec

(* On the day of a handover the newcomers, and nobody else, are the tenants; *)
(* until then the tenants are who they were (hand_over_parcel).              *)
THEOREM HandoversAreOnTheDay == ASSUME HandoverAssumption, Orderly PROVE Spec => TurnsOverOnTheDay
  <1>1. ASSUME TypeOK, TenantsAreEntered, [Next]_vars PROVE [HandoversTurnOver]_vars
    <2> SUFFICES ASSUME NEW p \in Parcels, NEW apps \in (SUBSET open) \ {{}},
               NEW day \in Notice, NEW new \in BOOLEAN,
               hand_over_parcel(p, apps, day, new)
        PROVE  TurnsOver(p, apps, day)  BY DEF HandoversTurnOver
    <2>1. /\ open' = open \ apps /\ open' # open
          /\ p \in terminated /\ terminated' = terminated \ {p}
      <3>1. open' = open \ apps /\ p \in terminated /\ terminated' = terminated \ {p}
        BY DEF hand_over_parcel
      <3>2. PICK a \in apps : a \in open  OBVIOUS
      <3> QED BY <3>1, <3>2
    <2>2. PICK q \in Parcels : ~Unsettled(q) /\ OnParcel(q)
      BY <1>1, <2>1 DEF Next, vars, NextDay, apply_scheduled_folder_switches,
          deactivate_if_vacant, CheckIsLost, Orderly
    <2>3. \E newcomers \in (SUBSET open) \ {{}}, on \in Notice, with \in BOOLEAN :
        hand_over_parcel(q, newcomers, on, with)
      BY <1>1, <2>1, <2>2, OnParcelCases DEF update_parcel, set_active_folder, Typed
    <2>4. terminated' = terminated \ {q}  BY <2>3 DEF hand_over_parcel
    <2>5. q = p  BY <2>1, <2>4
    <2> QED BY <1>1, <2>2, <2>5, SettledTurnsOver
  <1> QED BY <1>1, TypeCorrect, PTL DEF Spec, TurnsOverOnTheDay

(* Who has a parcel by handover is a member on those days, and who has lost  *)
(* the last one is none any more (hand_over_parcel); whoever has several     *)
(* parcels, only when handovers are dated today.                             *)
THEOREM MembersAreTenants == ASSUME HandoverAssumption, Orderly PROVE Spec => []MembershipFollowsOneTenancy
  <1>1. Init => TypeOK /\ MembershipInv  BY InitHolds
  <1>2. TypeOK /\ MembershipInv /\ [Next]_vars => (TypeOK /\ MembershipInv)'
    BY TypeStep, MembershipStep DEF MembershipInv
  <1>3. ASSUME TypeOK, MembershipInv PROVE MembershipFollowsOneTenancy
    <2> SUFFICES ASSUME NEW m \in Members, m \notin byHand,
               Notice = {0} \/ \A p, q \in Held(m) : p = q
        PROVE  MemberAsTenant(m)  BY DEF MembershipFollowsOneTenancy
    <2>1. EntriesAgree(m) /\ OpenEnd \in Nat /\ OpenEnd > 1 /\ Ahead = 0 .. OpenEnd - 1
      BY <1>3, Dates DEF MembershipInv
    <2>2. ASSUME NEW p \in Held(m)
        PROVE  /\ tenancy[p][m].from \in Ahead /\ tenancy[p][m].until \in Ahead \cup {OpenEnd}
               /\ member[m] # NoRow /\ member[m].since \in Ahead
               /\ member[m].until \in Ahead \cup {-1, OpenEnd}
      BY <1>3, RowShapes DEF MembershipInv, TenantsAreEntered, Held
    <2>3. CASE Notice = {0}
      <3>1. Held(m) # {} =>
          /\ member[m].since = 0
          /\ \A p \in Held(m) : tenancy[p][m].from = 0 /\ tenancy[p][m].until \in {0, OpenEnd}
          /\ member[m].until =
                IF \E p \in Held(m) : tenancy[p][m].until = OpenEnd THEN OpenEnd ELSE -1
        BY <2>1, <2>3 DEF EntriesAgree
      <3>2. ASSUME NEW p \in Held(m), is_current(tenancy[p][m], 0) PROVE active_member(m)
        <4>1. tenancy[p][m].until = OpenEnd /\ member[m].until = OpenEnd
          BY <2>1, <3>1, <3>2 DEF is_current
        <4> QED BY <2>1, <2>2, <3>1, <4>1 DEF active_member
      <3>3. ASSUME Held(m) # {}, \A p \in Held(m) : is_former(tenancy[p][m]) PROVE ~active_member(m)
        <4>1. member[m].until = -1  BY <2>1, <3>1, <3>3 DEF is_former
        <4> QED BY <4>1 DEF active_member
      <3> QED BY <3>2, <3>3 DEF MemberAsTenant
    <2>4. CASE \A p, q \in Held(m) : p = q
      <3>1. ASSUME NEW p \in Held(m) PROVE Held(m) = {p} /\ AsLongAs(member[m], tenancy[p][m])
        BY <2>1, <2>4 DEF EntriesAgree
      <3>2. ASSUME NEW p \in Held(m), is_current(tenancy[p][m], 0) PROVE active_member(m)
        BY <2>1, <2>2, <3>1, <3>2 DEF is_current, active_member, AsLongAs, DayBefore
      <3>3. ASSUME NEW p \in Held(m), is_former(tenancy[p][m]) PROVE ~active_member(m)
        BY <2>1, <2>2, <3>1, <3>3 DEF is_former, active_member, AsLongAs, DayBefore
      <3> QED BY <3>2, <3>3 DEF MemberAsTenant
    <2> QED BY <2>3, <2>4
  <1> QED BY <1>1, <1>2, <1>3, PTL DEF Spec

-----------------------------------------------------------------------------
(* Nobody inherits a folder.                                                *)

\* What Promised rules out.
LEMMA PromisedDates ==
  ASSUME HandoverAssumption, Promised
  PROVE  /\ Orderly
         /\ Free <=> ended = {}
         /\ ~May("failure")
         /\ Starts \subseteq {0, 1} /\ Ends = {0, OpenEnd}
  BY DEF Promised, Orderly, Free, May, Starts, Ends

LEMMA TodayAndTomorrow ==
  ASSUME HandoverAssumption
  PROVE  /\ OpenEnd \in Nat /\ OpenEnd > 1
         /\ 0 \in Ahead /\ 1 \in Ahead
         /\ \A d \in Ahead : d \in Nat /\ d < OpenEnd /\ d # NoFolder
  BY Dates, NearerDates

\* Who is a tenant today, and who stays.
LEMMA TenantsOf ==
  ASSUME NEW p, NEW m \in Members
  PROVE  /\ m \in Now(p) <=>
               tenancy[p][m] # NoRow /\ tenancy[p][m].from <= 0 /\ tenancy[p][m].until > 0
         /\ m \in Staying(p) <=> tenancy[p][m] # NoRow /\ tenancy[p][m].until = OpenEnd
         /\ Now(p) \subseteq Members /\ Staying(p) \subseteq Members
  BY DEF Now, Staying, CurrentTenants, Rows, is_current

LEMMA NowStays ==
  ASSUME HandoverAssumption, NEW p \in Parcels  PROVE NothingDue(p) => Now(p) \subseteq Staying(p)
  <1> SUFFICES ASSUME NothingDue(p), NEW m \in Members, m \in Now(p) PROVE m \in Staying(p)
    BY DEF Now, CurrentTenants, Rows
  <1>1. tenancy[p][m] # NoRow /\ tenancy[p][m].until > 0  BY TenantsOf
  <1>2. tenancy[p][m].until \in {0, OpenEnd}  BY <1>1 DEF NothingDue, Rows
  <1> QED BY <1>1, <1>2, TenantsOf

\* A parcel without a folder that waits for nothing.
LEMMA NoFolderNoHarm ==
  ASSUME HandoverAssumption, NEW p \in Parcels
  PROVE  TypeOK /\ ~Unsettled(p) /\ folder[p].active = NoFolder => Undisturbed(p)
  <1> SUFFICES ASSUME TypeOK, ~Unsettled(p), folder[p].active = NoFolder PROVE Undisturbed(p)  OBVIOUS
  <1>1. \A m \in Rows(tenancy, p) : /\ tenancy[p][m].from \in {0, 1}
                                   /\ tenancy[p][m].until \in {0, OpenEnd}  BY SettledParcel DEF Rows
  <1> QED BY <1>1, SettledParcel DEF Undisturbed, NothingDue, InUse

\* A folder that is switched for the tenants of today.
Switchable(p, active) ==
    /\ \A m \in Rows(tenancy, p) : /\ tenancy[p][m].from \in {0, 1}
                                  /\ tenancy[p][m].until \in {0, OpenEnd}
    /\ folder[p] = Noted([active |-> active, scheduled |-> NoFolder], Now(p))

LEMMA NewFolderInUse ==
  ASSUME HandoverAssumption, NEW p \in Parcels,
      NEW active, active = NoFolder \/ active = FolderFor(OpenEnd)
  PROVE  Switchable(p, active) => Undisturbed(p)
  <1> SUFFICES ASSUME Switchable(p, active) PROVE Undisturbed(p)  OBVIOUS
  <1> DEFINE f == [active |-> active, scheduled |-> NoFolder]
  <1>1. f \in FolderRow /\ FolderFor(OpenEnd).until = OpenEnd /\ FolderFor(OpenEnd).household = {}
    BY DEF FolderRow, FolderFor, Folder
  <1>2. Now(p) \in SUBSET Members  BY DEF Now, CurrentTenants, Rows
  <1>3. f.active = active /\ f.scheduled = NoFolder  OBVIOUS
  <1> HIDE DEF f
  <1>4. /\ folder[p].scheduled = NoFolder
        /\ folder[p].active # NoFolder =>
              /\ folder[p].active.until = OpenEnd
              /\ folder[p].active.household = Now(p)
    <2>1. folder[p] = Noted(f, Now(p))  BY DEF f, Switchable
    <2>2. PICK now \in SUBSET Members : now = Now(p)  BY <1>2
    <2>3. /\ folder[p].scheduled = f.scheduled
          /\ folder[p].active = NoFolder <=> f.active = NoFolder
          /\ f.active # NoFolder =>
                /\ folder[p].active.until = f.active.until
                /\ folder[p].active.household =
                      IF now # {} /\ (f.active.household = {} \/ f.active.household \cap now # {})
                      THEN now ELSE f.active.household  BY <1>1, <2>1, <2>2, NotedFolder
    <2> QED BY <1>1, <1>3, <2>2, <2>3
  <1>5. NothingDue(p)  BY <1>4 DEF NothingDue, Switchable
  <1> QED BY <1>4, <1>5, NowStays DEF Undisturbed, InUse

\* The same of the state a step leads to.
LEMMA Afterwards ==
  ASSUME HandoverAssumption, NEW p \in Parcels,
      NEW active, active = NoFolder \/ active = FolderFor(OpenEnd)
  PROVE  /\ (NothingDue(p) => Now(p) \subseteq Staying(p))'
         /\ (TypeOK /\ ~Unsettled(p) /\ folder[p].active = NoFolder => Undisturbed(p))'
         /\ (Switchable(p, active) => Undisturbed(p))'
  BY NowStays, NoFolderNoHarm, NewFolderInUse, PTL

\* Another parcel, whose folder's history is brought up to date.
LEMMA OtherParcel ==
  ASSUME HandoverAssumption, TypeOK, NEW p \in Parcels,
      tenancy'[p] = tenancy[p], swept' = swept,
      folder'[p] = folder[p] \/ folder'[p] = Noted(folder[p], Now(p))
  PROVE  /\ CheckDue(p) => CheckDue(p)'
         /\ Undisturbed(p) => Undisturbed(p)'
         /\ \A days \in Ahead : HandoverDue(p, days) => HandoverDue(p, days)'
  <1>1. /\ Rows(tenancy, p)' = Rows(tenancy, p) /\ Now(p)' = Now(p) /\ Staying(p)' = Staying(p)
    BY DEF Rows, Now, Staying, CurrentTenants
  <1>2. /\ folder'[p].scheduled = folder[p].scheduled
        /\ folder'[p].active = NoFolder <=> folder[p].active = NoFolder
        /\ folder[p].active # NoFolder => folder'[p].active.until = folder[p].active.until
        /\ InUse(p) /\ folder[p].active # NoFolder =>
              folder'[p].active.household = folder[p].active.household
    <2>1. folder[p] \in FolderRow /\ Now(p) \in SUBSET Members
      BY DEF TypeOK, FolderRow, Now, CurrentTenants, Rows
    <2>2. CASE folder'[p] = folder[p]  BY <2>2
    <2>3. CASE folder'[p] = Noted(folder[p], Now(p))  BY <2>1, <2>3, NotedFolder DEF InUse
    <2> QED BY <2>2, <2>3
  <1>3. Unsettled(p)' <=> Unsettled(p)  BY <1>1, <1>2 DEF Unsettled
  <1>4. NothingDue(p) => NothingDue(p)'  BY <1>1, <1>2 DEF NothingDue
  <1>5. InUse(p) => InUse(p)'  BY <1>1, <1>2 DEF InUse
  <1>6. CheckDue(p) => CheckDue(p)'  BY <1>1, <1>2, <1>4, <1>5 DEF CheckDue
  <1>7. Undisturbed(p) => Undisturbed(p)'  BY <1>1, <1>2, <1>4, <1>5 DEF Undisturbed
  <1>8. ASSUME NEW days \in Ahead, HandoverDue(p, days) PROVE HandoverDue(p, days)'
    BY <1>1, <1>2, <1>3, <1>5, <1>8 DEF HandoverDue
  <1> QED BY <1>6, <1>7, <1>8

\* A parcel that may be changed waits for nothing, and its folder is in use.
LEMMA ChangedParcel ==
  ASSUME HandoverAssumption, TypeOK, FolderInv, NEW p \in Parcels, p \notin ended, ~Unsettled(p)
  PROVE  /\ Undisturbed(p) /\ Staying(p) = Now(p)
         /\ folder[p].active # NoFolder => folder[p].active.household = Now(p)
  <1>1. Undisturbed(p)  BY DEF FolderInv, HandoverDue
  <1>2. ASSUME NEW m \in Members, m \in Staying(p) PROVE m \in Now(p)
    <2>1. tenancy[p][m] # NoRow /\ tenancy[p][m].until = OpenEnd  BY <1>2, TenantsOf
    <2> QED BY <2>1, SettledParcel, TenantsOf, TodayAndTomorrow
  <1>3. Staying(p) = Now(p)  BY <1>1, <1>2, NowStays DEF Undisturbed, Staying, Rows
  <1> QED BY <1>1, <1>3 DEF Undisturbed, InUse

\* What is typed in for one tenant: the folder stays with somebody who is or will
\* be there, or the vacancy check is due.
LEMMA FolderTyped ==
  ASSUME HandoverAssumption, Promised, TypeOK, TypeOK', FolderInv,
      NEW p \in Parcels, ~Unsettled(p),
      NEW m \in Members, NEW row \in Tenancy \cup {NoRow}, Typed(p, m, row)
  PROVE  FolderInv'
  <1>1. ended = {} /\ Starts \subseteq {0, 1} /\ Ends = {0, OpenEnd} /\ swept' = swept
    BY PromisedDates DEF Typed
  <1>2. folder \in FolderRows /\ Stored([tenancy EXCEPT ![p][m] = row], folder)
    BY DEF TypeOK, FolderRows, FolderRow, Typed
  <1>3. /\ tenancy' = [tenancy EXCEPT ![p][m] = row]
        /\ \A q \in Parcels : folder'[q] = Noted(folder[q], Now(q)')
    BY <1>2, TrackedFolders DEF Stored, Now
  <1>4. /\ tenancy'[p][m] = row
        /\ \A k \in Members \ {m} : tenancy'[p][k] = tenancy[p][k]
        /\ \A q \in Parcels \ {p} : tenancy'[q] = tenancy[q]  BY <1>3 DEF TypeOK, Tenancies
  <1>5. ASSUME NEW q \in Parcels, q # p
      PROVE  Undisturbed(q)' \/ \E days \in Ahead : HandoverDue(q, days)'
    <2>1. tenancy'[q] = tenancy[q] /\ Now(q)' = Now(q)  BY <1>4, <1>5 DEF Now, CurrentTenants, Rows
    <2>2. Undisturbed(q) \/ \E days \in Ahead : HandoverDue(q, days)  BY <1>1 DEF FolderInv
    <2> QED BY <1>1, <1>3, <2>1, <2>2, OtherParcel
  <1>6. /\ Undisturbed(p) /\ Staying(p) = Now(p)
        /\ folder[p].active # NoFolder => folder[p].active.household = Now(p)  BY <1>1, ChangedParcel
  <1>7. ASSUME NEW k \in Members, tenancy'[p][k] # NoRow
      PROVE  tenancy'[p][k].from \in {0, 1} /\ tenancy'[p][k].until \in {0, OpenEnd}
    <2>1. CASE k # m  BY <1>4, <1>7, <2>1, SettledParcel
    <2>2. CASE k = m
      <3>1. /\ row # NoRow /\ row.until \in Ends
            /\ row.from \in Starts \/ (m \in Rows(tenancy, p) /\ row.from = tenancy[p][m].from)
        BY <1>4, <1>7, <2>2 DEF Typed
      <3> QED BY <1>1, <1>4, <2>2, <3>1, SettledParcel DEF Rows
    <2> QED BY <2>1, <2>2
  <1>8. PICK now \in SUBSET Members, next \in SUBSET Members, staying \in SUBSET Members :
      now = Now(p) /\ next = Now(p)' /\ staying = Staying(p)'
    BY DEF Now, Staying, CurrentTenants, Rows
  <1>9. folder[p] \in FolderRow /\ folder'[p] = Noted(folder[p], next)  BY <1>2, <1>3, <1>8 DEF FolderRows
  <1>10. /\ folder'[p].scheduled = folder[p].scheduled
         /\ folder'[p].active = NoFolder <=> folder[p].active = NoFolder
         /\ folder[p].active # NoFolder =>
               /\ folder'[p].active.until = folder[p].active.until
               /\ folder'[p].active.household =
                     IF next # {} /\ (folder[p].active.household = {}
                                         \/ folder[p].active.household \cap next # {})
                     THEN next ELSE folder[p].active.household  BY <1>9, NotedFolder
  <1>11. NothingDue(p)'
    <2>1. folder[p].scheduled = NoFolder
        /\ (folder[p].active # NoFolder => folder[p].active.until = OpenEnd)  BY SettledParcel
    <2> QED BY <1>7, <1>10, <2>1 DEF NothingDue, Rows
  <1>12. next \subseteq staying  BY <1>8, <1>11, Afterwards
  <1>13. /\ \A k \in Members \ {m} : k \in next <=> k \in now
         /\ \A k \in Members \ {m} : k \in staying <=> k \in now
    <2>1. ASSUME NEW k \in Members \ {m}
        PROVE  (k \in next <=> k \in now) /\ (k \in staying <=> k \in Staying(p))
      <3>1. tenancy'[p][k] = tenancy[p][k]  BY <1>4
      <3> QED BY <1>8, <3>1 DEF Now, Staying, CurrentTenants, Rows
    <2> QED BY <1>6, <1>8, <2>1
  <1>14. folder'[p].active # NoFolder /\ next # {} => folder'[p].active.household = next
    <2> SUFFICES ASSUME folder[p].active # NoFolder, next # {}  PROVE now = {} \/ now \cap next # {}
      BY <1>6, <1>8, <1>10
    <2>1. CASE \E k \in now : k # m  BY <1>13, <2>1
    <2>2. CASE ~\E k \in now : k # m  BY <1>13, <2>2
    <2> QED BY <2>1, <2>2
  <1>15. InUse(p)'  BY <1>8, <1>14 DEF InUse
  <1>16. ASSUME folder'[p].active # NoFolder, staying # {}, next = {}
      PROVE  folder'[p].active.household \subseteq staying
    <2>1. folder'[p].active.household = now  BY <1>6, <1>8, <1>10, <1>16
    <2>2. now \subseteq {m} /\ staying \subseteq {m}  BY <1>13, <1>16
    <2> QED BY <1>16, <2>1, <2>2
  <1>17. folder'[p].active # NoFolder /\ staying # {} => folder'[p].active.household \subseteq staying
    BY <1>12, <1>14, <1>16
  <1>18. CheckDue(p)'  BY <1>8, <1>11, <1>15, <1>17 DEF CheckDue
  <1>19. CASE ended' = ended \cup {p}  BY <1>1, <1>5, <1>18, <1>19 DEF FolderInv
  <1>20. CASE /\ ended' = ended
              /\ tenancy[p][m] # NoRow => tenancy[p][m].until # OpenEnd
    <2>1. m \notin Staying(p)  BY <1>20, TenantsOf
    <2>2. now \subseteq next  BY <1>6, <1>8, <1>13, <2>1
    <2>3. folder'[p].active # NoFolder => folder'[p].active.household \subseteq staying
      BY <1>6, <1>8, <1>10, <1>12, <1>14, <2>2
    <2>4. Undisturbed(p)'  BY <1>8, <1>11, <1>15, <2>3 DEF Undisturbed
    <2> QED BY <1>1, <1>5, <1>20, <2>4 DEF FolderInv
  <1> QED BY <1>19, <1>20 DEF Typed

\* A handover switches the folder at once or on its day.
LEMMA FolderHandedOver ==
  ASSUME HandoverAssumption, Promised, TypeOK, TypeOK', TenantsAreEntered, FolderInv,
      NEW p \in Parcels, ~Unsettled(p),
      NEW apps \in SUBSET open, NEW day \in Notice, NEW new \in BOOLEAN,
      hand_over_parcel(p, apps, day, new)
  PROVE  FolderInv'
  <1> DEFINE f == schedule_handover_folders(folder[p], day, new)
  <1>1. ended = {} /\ ended' = {} /\ swept' = swept  BY PromisedDates DEF hand_over_parcel
  <1>2. /\ day \in Ahead /\ day \in Nat /\ OpenEnd \in Nat /\ day < OpenEnd  BY Dates
  <1>3. folder \in FolderRows /\ folder[p] \in FolderRow  BY DEF TypeOK, FolderRows, FolderRow
  <1>4. f \in FolderRow
    <2>1. FolderFor(OpenEnd) \in Folder  BY DEF FolderFor, Folder
    <2>2. folder[p].active # NoFolder => [folder[p].active EXCEPT !.until = day] \in Folder
      BY <1>2, <1>3 DEF FolderRow, Folder
    <2> QED BY <1>2, <1>3, <2>1, <2>2 DEF schedule_handover_folders, FolderRow
  <1>5. /\ [folder EXCEPT ![p] = f] \in FolderRows
        /\ \E t : Stored(t, [folder EXCEPT ![p] = f])  BY <1>3, <1>4 DEF FolderRows, hand_over_parcel
  <1>6. \A q \in Parcels : folder'[q] = Noted([folder EXCEPT ![p] = f][q], Now(q)')
    BY <1>5, TrackedFolders DEF Stored, Now
  <1>7. /\ folder'[p] = Noted(f, Now(p)')
        /\ \A q \in Parcels \ {p} : folder'[q] = Noted(folder[q], Now(q)')  BY <1>3, <1>6 DEF FolderRows
  <1>8. ASSUME NEW q \in Parcels, q # p
      PROVE  Undisturbed(q)' \/ \E days \in Ahead : HandoverDue(q, days)'
    <2>1. tenancy'[q] = tenancy[q]  BY <1>8, HandOverRows
    <2>2. Now(q)' = Now(q)  BY <2>1 DEF Now, CurrentTenants, Rows
    <2>3. Undisturbed(q) \/ \E days \in Ahead : HandoverDue(q, days)  BY <1>1 DEF FolderInv
    <2> QED BY <1>1, <1>7, <1>8, <2>1, <2>2, <2>3, OtherParcel
  <1>9. ASSUME NEW m \in Members, tenancy'[p][m] # NoRow
      PROVE  tenancy'[p][m].from \in {0, day} /\ tenancy'[p][m].until \in {0, day, OpenEnd}
    <2>1. tenancy[p][m] # NoRow => tenancy[p][m].from = 0  BY SettledParcel
    <2> QED BY <1>9, <2>1, SettledHandOver
  <1>10. CASE day = 0
    <2>1. PICK active : /\ active = NoFolder \/ active = FolderFor(OpenEnd)
                        /\ f = [active |-> active, scheduled |-> NoFolder]
      BY <1>10 DEF schedule_handover_folders
    <2>2. \A m \in Rows(tenancy', p) : tenancy'[p][m].from \in {0, 1}
        /\ tenancy'[p][m].until \in {0, OpenEnd}  BY <1>9, <1>10 DEF Rows
    <2>3. Undisturbed(p)'
      <3>1. folder'[p] = Noted([active |-> active, scheduled |-> NoFolder], Now(p)')  BY <1>7, <2>1
      <3>2. Switchable(p, active)'  BY <2>2, <3>1 DEF Switchable
      <3> QED BY <2>1, <3>2, Afterwards
    <2> QED BY <1>1, <1>8, <2>3 DEF FolderInv
  <1>11. CASE day > 0
    <2>1. Now(p)' = Now(p)
      <3>1. 0 \in Ahead /\ TurnsOver(p, apps, day)  BY SettledTurnsOver, Dates
      <3>2. CurrentTenants(tenancy', p, 0) = CurrentTenants(tenancy, p, 0)  BY <1>11, <3>1 DEF TurnsOver
      <3> QED BY <3>2 DEF Now
    <2>2. /\ f.scheduled \in {day, NoFolder}
          /\ f.active = NoFolder <=> folder[p].active = NoFolder
          /\ folder[p].active # NoFolder =>
                /\ f.active.until = day
                /\ f.active.household = folder[p].active.household
      <3>1. f = [active |-> IF folder[p].active = NoFolder THEN NoFolder
                     ELSE [folder[p].active EXCEPT !.until = day],
          scheduled |-> IF new THEN day ELSE NoFolder]
        BY <1>2, <1>11 DEF schedule_handover_folders
      <3>2. f.scheduled \in {day, NoFolder}  BY <3>1
      <3>3. CASE folder[p].active = NoFolder  BY <3>1, <3>2, <3>3
      <3>4. CASE folder[p].active # NoFolder
        <4>1. folder[p].active \in Folder  BY <1>3, <3>4 DEF FolderRow
        <4>2. f.active = [folder[p].active EXCEPT !.until = day]  BY <3>1, <3>4
        <4>3. f.active \in Folder  BY <1>2, <4>1, <4>2 DEF Folder
        <4> QED BY <3>2, <3>4, <4>1, <4>2, <4>3 DEF Folder, HandoverAssumption
      <3> QED BY <3>3, <3>4
    <2> HIDE DEF f
    <2>3. /\ folder'[p].scheduled \in {day, NoFolder}
          /\ folder'[p].active # NoFolder => folder'[p].active.until = day
          /\ folder'[p].active # NoFolder /\ Now(p)' # {} => folder'[p].active.household = Now(p)'
      <3>1. PICK now \in SUBSET Members : now = Now(p)  BY DEF Now, CurrentTenants, Rows
      <3>2. folder[p].active # NoFolder => folder[p].active.household = now  BY <1>1, <3>1, ChangedParcel
      <3>3. folder'[p] = Noted(f, now)  BY <1>7, <2>1, <3>1
      <3> QED BY <1>4, <2>1, <2>2, <3>1, <3>2, <3>3, NotedFolder
    <2>4. CASE Unsettled(p)'
      <3>1. HandoverDue(p, day)'  BY <1>9, <1>11, <2>3, <2>4 DEF HandoverDue, Rows, InUse
      <3> QED BY <1>1, <1>2, <1>8, <3>1 DEF FolderInv
    <2>5. CASE ~Unsettled(p)'
      <3>1. folder'[p].active = NoFolder  BY <1>2, <2>3, <2>5 DEF Unsettled
      <3>2. Undisturbed(p)'  BY <2>5, <3>1, Afterwards
      <3> QED BY <1>1, <1>8, <3>2 DEF FolderInv
    <2> QED BY <2>4, <2>5
  <1> QED BY <1>2, <1>10, <1>11

\* A day on: who was to be a tenant tomorrow is one, and a handover is a day nearer.
LEMMA FolderNextDay ==
  ASSUME HandoverAssumption, Promised, TypeOK, TypeOK', FolderInv, NextDay  PROVE FolderInv'
  <1>1. ended = {} /\ ended' = {} /\ swept' = FALSE  BY PromisedDates DEF NextDay
  <1>2. /\ folder \in FolderRows /\ [p \in Parcels |-> DayLater(folder[p])] \in FolderRows
        /\ \E t : Stored(t, [p \in Parcels |-> DayLater(folder[p])])
    <2>1. folder \in FolderRows  BY DEF TypeOK, FolderRows, FolderRow
    <2>2. [p \in Parcels |-> DayLater(folder[p])] \in FolderRows  BY <2>1, DayLaterFolder DEF FolderRows
    <2> QED BY <2>1, <2>2, Zenon DEF NextDay, DayLater
  <1>3. \A p \in Parcels : folder'[p] = Noted(DayLater(folder[p]), Now(p)')
    BY <1>2, TrackedFolders DEF Stored, Now
  <1> SUFFICES ASSUME NEW p \in Parcels
      PROVE  Undisturbed(p)' \/ \E days \in Ahead : HandoverDue(p, days)'  BY <1>1 DEF FolderInv
  <1>4. PICK next \in SUBSET Members : next = Now(p)'  BY DEF Now, CurrentTenants, Rows
  <1>5. /\ folder'[p].scheduled = Nearer(folder[p].scheduled, 0)
        /\ folder'[p].active = NoFolder <=> folder[p].active = NoFolder
        /\ folder[p].active # NoFolder =>
              /\ folder'[p].active.until = Nearer(folder[p].active.until, 0)
              /\ folder'[p].active.household =
                    IF next # {} /\ (folder[p].active.household = {}
                                        \/ folder[p].active.household \cap next # {})
                    THEN next ELSE folder[p].active.household
    <2>1. folder[p] \in FolderRow  BY <1>2 DEF FolderRows
    <2>2. /\ DayLater(folder[p]) \in FolderRow
          /\ DayLater(folder[p]).scheduled = Nearer(folder[p].scheduled, 0)
      BY <2>1, DayLaterFolder DEF DayLater
    <2>3. folder'[p] = Noted(DayLater(folder[p]), next)  BY <1>3, <1>4
    <2> QED BY <2>1, <2>2, <2>3, DayLaterFolder, NotedFolder
  <1>6. ASSUME NEW m \in Members
      PROVE  /\ tenancy'[p][m] # NoRow <=> tenancy[p][m] # NoRow
             /\ tenancy[p][m] # NoRow =>
                   /\ tenancy[p][m].from \in Ahead /\ tenancy[p][m].until \in Ahead \cup {OpenEnd}
                   /\ tenancy'[p][m].from = Nearer(tenancy[p][m].from, 0)
                   /\ tenancy'[p][m].until = Nearer(tenancy[p][m].until, 0)  BY NextDayRows, RowShapes
  <1>7. ASSUME NEW m \in Members
      PROVE  m \in next <=> tenancy'[p][m] # NoRow /\ tenancy'[p][m].from <= 0 /\ tenancy'[p][m].until > 0
    BY <1>4 DEF Now, CurrentTenants, Rows, is_current
  <1>8. CASE Undisturbed(p)
    <2>1. ASSUME NEW m \in Members, tenancy[p][m] # NoRow
        PROVE  /\ tenancy'[p][m].from = 0 /\ tenancy'[p][m].until = tenancy[p][m].until
               /\ tenancy[p][m].until \in {0, OpenEnd}
      <3>1. tenancy[p][m].from \in {0, 1} /\ tenancy[p][m].until \in {0, OpenEnd}
        BY <1>8, <2>1 DEF Undisturbed, NothingDue, Rows
      <3> QED BY <1>6, <2>1, <3>1, NearerDates, TodayAndTomorrow
    <2>2. next = Staying(p) /\ Staying(p)' = next
      <3>1. ASSUME NEW m \in Members PROVE m \in next <=> m \in Staying(p)
        BY <1>6, <1>7, <2>1, TenantsOf, TodayAndTomorrow
      <3>2. ASSUME NEW m \in Members PROVE m \in Staying(p)' <=> m \in Staying(p)
        BY <1>6, <2>1 DEF Staying, Rows
      <3> QED BY <3>1, <3>2 DEF Staying, Rows
    <2>3. /\ folder'[p].scheduled = NoFolder
          /\ folder'[p].active # NoFolder => folder'[p].active.until = OpenEnd
      BY <1>5, <1>8, NearerDates DEF Undisturbed, NothingDue
    <2>4. NothingDue(p)'  BY <1>6, <2>1, <2>3 DEF NothingDue, Rows
    <2>5. folder'[p].active # NoFolder => folder'[p].active.household = next
      <3>1. folder[p].active # NoFolder => folder[p].active.household \subseteq next
        BY <1>8, <2>2 DEF Undisturbed
      <3> QED BY <1>5, <3>1
    <2> QED BY <1>4, <2>2, <2>4, <2>5 DEF Undisturbed, InUse
  <1>9. ASSUME NEW days \in Ahead, HandoverDue(p, days)
      PROVE  Undisturbed(p)' \/ \E d \in Ahead : HandoverDue(p, d)'
    <2> DEFINE nearer == Nearer(days, 0)
    <2>1. /\ nearer = (IF days = 0 THEN 0 ELSE days - 1) /\ nearer \in Ahead /\ nearer \in Nat
          /\ nearer # OpenEnd /\ days \in Nat  BY NearerDates, TodayAndTomorrow
    <2> HIDE DEF nearer
    <2>2. ASSUME NEW m \in Members, tenancy[p][m] # NoRow
        PROVE  /\ tenancy[p][m].from \in {0, days} /\ tenancy[p][m].until \in {0, days, OpenEnd}
               /\ tenancy'[p][m].from \in {0, nearer} /\ tenancy'[p][m].until \in {0, nearer, OpenEnd}
      <3>1. tenancy[p][m].from \in {0, days} /\ tenancy[p][m].until \in {0, days, OpenEnd}
        BY <1>9, <2>2 DEF HandoverDue, Rows
      <3> QED BY <1>6, <2>2, <3>1, NearerDates, TodayAndTomorrow DEF nearer
    <2>3. /\ folder'[p].scheduled \in {nearer, NoFolder}
          /\ folder'[p].active # NoFolder => folder'[p].active.until = nearer
      BY <1>5, <1>9, NearerDates DEF HandoverDue, nearer
    <2>4. ASSUME nearer > 0 PROVE InUse(p)'
      <3>1. days > 1 /\ nearer = days - 1  BY <2>1, <2>4
      <3>2. ASSUME NEW m \in Members, tenancy[p][m] # NoRow
          PROVE  /\ tenancy'[p][m].from <= 0 <=> tenancy[p][m].from <= 0
                 /\ tenancy'[p][m].until > 0 <=> tenancy[p][m].until > 0
        BY <1>6, <2>1, <2>2, <3>1, <3>2, NearerDates, TodayAndTomorrow
      <3>3. \A m \in Members : m \in next <=> m \in Now(p)  BY <1>6, <1>7, <3>2, TenantsOf
      <3>4. next = Now(p)  BY <3>3 DEF Now, CurrentTenants, Rows
      <3>5. folder[p].active # NoFolder /\ next # {} => folder[p].active.household = next
        <4>1. InUse(p)  BY <1>9, <2>1, <3>1 DEF HandoverDue
        <4> QED BY <3>4, <4>1 DEF InUse
      <3> QED BY <1>4, <1>5, <3>5 DEF InUse
    <2>5. CASE Unsettled(p)'
      <3>1. HandoverDue(p, nearer)'  BY <1>1, <1>6, <2>1, <2>2, <2>3, <2>4, <2>5 DEF HandoverDue, Rows
      <3> QED BY <2>1, <3>1
    <2>6. CASE ~Unsettled(p)'
      <3>1. folder'[p].active = NoFolder  BY <2>1, <2>3, <2>6 DEF Unsettled
      <3> QED BY <2>6, <3>1, Afterwards
    <2> QED BY <2>5, <2>6
  <1>10. Undisturbed(p) \/ \E days \in Ahead : HandoverDue(p, days)  BY <1>1 DEF FolderInv
  <1> QED BY <1>8, <1>9, <1>10

\* The loop switches the folders of handovers whose day has come, and no others.
LEMMA FolderSwept ==
  ASSUME HandoverAssumption, Promised, TypeOK, TypeOK', FolderInv, apply_scheduled_folder_switches
  PROVE  FolderInv'
  <1>1. ended = {} /\ ended' = {} /\ swept' = TRUE /\ tenancy' = tenancy
    BY PromisedDates DEF apply_scheduled_folder_switches
  <1>2. folder \in FolderRows /\ [p \in Parcels |-> Switched(folder[p])] \in FolderRows
    <2>1. folder \in FolderRows  BY DEF TypeOK, FolderRows, FolderRow
    <2>2. FolderFor(OpenEnd) \in Folder  BY DEF FolderFor, Folder
    <2>3. \A p \in Parcels : Switched(folder[p]) \in FolderRow
      BY <2>1, <2>2 DEF FolderRows, FolderRow, Switched
    <2> QED BY <2>1, <2>3 DEF FolderRows
  <1>3. \A p \in Parcels : folder'[p] = Noted(Switched(folder[p]), Now(p))
    BY <1>2, TrackedFolders DEF apply_scheduled_folder_switches, Now
  <1> SUFFICES ASSUME NEW p \in Parcels
      PROVE  Undisturbed(p)' \/ \E days \in Ahead : HandoverDue(p, days)'  BY <1>1 DEF FolderInv
  <1>4. /\ Now(p)' = Now(p) /\ Staying(p)' = Staying(p) /\ Rows(tenancy', p) = Rows(tenancy, p)
        /\ tenancy'[p] = tenancy[p]  BY <1>1 DEF Now, Staying, CurrentTenants, Rows
  <1>5. PICK now \in SUBSET Members : now = Now(p)  BY DEF Now, CurrentTenants, Rows
  <1>6. ASSUME Switched(folder[p]) = folder[p], InUse(p)
      PROVE  /\ folder'[p].scheduled = folder[p].scheduled
             /\ folder'[p].active = NoFolder <=> folder[p].active = NoFolder
             /\ folder[p].active # NoFolder =>
                   /\ folder'[p].active.until = folder[p].active.until
                   /\ folder'[p].active.household = folder[p].active.household
             /\ InUse(p)'
    <2>1. folder[p] \in FolderRow /\ folder'[p] = Noted(folder[p], now)
      BY <1>2, <1>3, <1>5, <1>6 DEF FolderRows
    <2>2. folder[p].active # NoFolder /\ now # {} => folder[p].active.household = now
      BY <1>5, <1>6 DEF InUse
    <2> QED BY <1>4, <1>5, <2>1, <2>2, NotedFolder DEF InUse
  <1>7. CASE Undisturbed(p)
    <2>1. /\ folder[p].scheduled = NoFolder /\ NoFolder # 0
          /\ folder[p].active # NoFolder => folder[p].active.until = OpenEnd /\ OpenEnd # 0
      BY <1>7, TodayAndTomorrow DEF Undisturbed, NothingDue
    <2>2. Switched(folder[p]) = folder[p] /\ InUse(p)  BY <1>7, <2>1 DEF Switched, Undisturbed
    <2> QED BY <1>4, <1>6, <1>7, <2>2 DEF Undisturbed, NothingDue
  <1>8. CASE HandoverDue(p, 0)
    <2>1. /\ \A m \in Rows(tenancy', p) : /\ tenancy'[p][m].from \in {0, 1}
                                         /\ tenancy'[p][m].until \in {0, OpenEnd}
          /\ folder[p].scheduled \in {0, NoFolder}
          /\ folder[p].active # NoFolder => folder[p].active.until = 0  BY <1>4, <1>8 DEF HandoverDue
    <2>2. PICK active : /\ active = NoFolder \/ active = FolderFor(OpenEnd)
                        /\ Switched(folder[p]) = [active |-> active, scheduled |-> NoFolder]
      <3>1. folder[p] \in FolderRow /\ NoFolder # 0  BY <1>2, TodayAndTomorrow DEF FolderRows
      <3>2. CASE folder[p].scheduled = 0  BY <3>2 DEF Switched
      <3>3. CASE folder[p].scheduled = NoFolder
        <4>1. Switched(folder[p]) = [active |-> NoFolder, scheduled |-> NoFolder]
          BY <2>1, <3>1, <3>3 DEF Switched, FolderRow
        <4> QED BY <4>1
      <3> QED BY <2>1, <3>2, <3>3
    <2>3. folder'[p] = Noted([active |-> active, scheduled |-> NoFolder], Now(p)')  BY <1>3, <1>4, <2>2
    <2>4. Switchable(p, active)'  BY <2>1, <2>3 DEF Switchable
    <2> QED BY <2>2, <2>4, Afterwards
  <1>9. ASSUME NEW days \in Ahead, days # 0, HandoverDue(p, days)  PROVE HandoverDue(p, days)'
    <2>1. days \in Nat /\ days > 0 /\ NoFolder # 0  BY <1>9, TodayAndTomorrow
    <2>2. /\ folder[p].scheduled \in {days, NoFolder} /\ InUse(p)
          /\ folder[p].active # NoFolder => folder[p].active.until = days  BY <1>9, <2>1 DEF HandoverDue
    <2>3. Switched(folder[p]) = folder[p]  BY <1>9, <2>1, <2>2 DEF Switched
    <2>4. Unsettled(p)' <=> Unsettled(p)  BY <1>4, <1>6, <2>2, <2>3 DEF Unsettled
    <2> QED BY <1>4, <1>6, <1>9, <2>1, <2>2, <2>3, <2>4 DEF HandoverDue
  <1>10. Undisturbed(p) \/ \E days \in Ahead : HandoverDue(p, days)  BY <1>1 DEF FolderInv
  <1> QED BY <1>7, <1>8, <1>9, <1>10

LEMMA FolderStep ==
  ASSUME HandoverAssumption, Promised, TypeOK, TenantsAreEntered, FolderInv, [Next]_vars
  PROVE  FolderInv'
  <1>1. TypeOK' /\ Orderly /\ ~May("failure")  BY TypeStep, PromisedDates
  <1>2. ASSUME UNCHANGED <<tenancy, folder, swept, ended>> PROVE FolderInv'
    <2>1. ASSUME NEW p \in Parcels
        PROVE  /\ CheckDue(p) => CheckDue(p)'
               /\ Undisturbed(p) => Undisturbed(p)'
               /\ \A days \in Ahead : HandoverDue(p, days) => HandoverDue(p, days)'
      BY <1>2, OtherParcel
    <2> QED BY <1>2, <2>1 DEF FolderInv
  <1>3. ASSUME NEW p \in Parcels, deactivate_if_vacant(p) PROVE FolderInv'
    <2>1. /\ p \in ended /\ ended' = ended \ {p} /\ UNCHANGED <<tenancy, swept>>
          /\ folder' = IF Occupied(p) THEN folder ELSE [folder EXCEPT ![p].active = NoFolder]
      BY <1>3 DEF deactivate_if_vacant
    <2>2. folder \in FolderRows  BY DEF TypeOK, FolderRows, FolderRow
    <2>3. \A q \in Parcels \ {p} : folder'[q] = folder[q]  BY <2>1, <2>2 DEF FolderRows
    <2>4. ASSUME NEW q \in Parcels, q # p
        PROVE  /\ CheckDue(q) => CheckDue(q)'
               /\ Undisturbed(q) => Undisturbed(q)'
               /\ \A days \in Ahead : HandoverDue(q, days) => HandoverDue(q, days)'
      BY <2>1, <2>3, <2>4, OtherParcel
    <2>5. CheckDue(p) /\ NothingDue(p) /\ InUse(p)  BY <2>1 DEF FolderInv, CheckDue
    <2>6. CASE Occupied(p)
      <3>1. PICK m \in Members : tenancy[p][m] # NoRow /\ ~is_former(tenancy[p][m])
        BY <2>6 DEF Occupied, Rows
      <3>2. tenancy[p][m].until = OpenEnd  BY <2>5, <3>1 DEF NothingDue, Rows, is_former
      <3>3. Staying(p) # {}  BY <3>1, <3>2, TenantsOf
      <3>4. Undisturbed(p)  BY <2>5, <3>3 DEF CheckDue, Undisturbed
      <3>5. Undisturbed(p)'  BY <2>1, <2>6, <3>4, OtherParcel
      <3> QED BY <2>1, <2>4, <3>5 DEF FolderInv
    <2>7. CASE ~Occupied(p)
      <3>1. folder'[p].active = NoFolder /\ folder'[p].scheduled = folder[p].scheduled
        BY <2>1, <2>2, <2>7 DEF FolderRows, FolderRow
      <3>2. Undisturbed(p)'  BY <2>1, <2>5, <3>1 DEF Undisturbed, NothingDue, InUse, Rows
      <3> QED BY <2>1, <2>4, <3>2 DEF FolderInv
    <2> QED BY <2>6, <2>7
  <1>4. ASSUME NEW p \in Parcels, ~Unsettled(p), set_active_folder(p) PROVE FolderInv'
    <2> DEFINE f == [until |-> IF folder[p].active = NoFolder THEN OpenEnd ELSE folder[p].active.until,
        household |-> Now(p)]
    <2>1. /\ ended = {} /\ ended' = {} /\ UNCHANGED <<tenancy, swept>>
          /\ folder' = [folder EXCEPT ![p].active = f]  BY <1>4, PromisedDates DEF set_active_folder, Now
    <2>2. f.until = OpenEnd /\ f.household = Now(p)  BY <1>4, SettledParcel
    <2> HIDE DEF f
    <2>3. /\ folder'[p].active = f /\ folder'[p].scheduled = folder[p].scheduled
          /\ \A q \in Parcels \ {p} : folder'[q] = folder[q]  BY <2>1 DEF TypeOK
    <2>4. ASSUME NEW q \in Parcels, q # p
        PROVE  /\ Undisturbed(q) => Undisturbed(q)'
               /\ \A days \in Ahead : HandoverDue(q, days) => HandoverDue(q, days)'
      BY <2>1, <2>3, <2>4, OtherParcel
    <2>5. Undisturbed(p) /\ Staying(p) = Now(p)  BY <1>4, <2>1, ChangedParcel
    <2>6. Undisturbed(p)'
      <3>1. Now(p)' = Now(p) /\ Staying(p)' = Staying(p) /\ Rows(tenancy, p)' = Rows(tenancy, p)
        BY <2>1 DEF Now, Staying, CurrentTenants, Rows
      <3>2. NothingDue(p)'  BY <2>1, <2>2, <2>3, <2>5, <3>1 DEF Undisturbed, NothingDue
      <3> QED BY <2>2, <2>3, <2>5, <3>1, <3>2 DEF Undisturbed, InUse
    <2> QED BY <2>1, <2>4, <2>6 DEF FolderInv
  <1>5. ASSUME NEW p \in Parcels, ~Unsettled(p), OnParcel(p) PROVE FolderInv'
    <2>1. CASE update_parcel(p)  BY <1>2, <2>1 DEF update_parcel
    <2>2. CASE set_active_folder(p)  BY <1>4, <1>5, <2>2
    <2>3. CASE \E m \in Members, row \in Tenancy \cup {NoRow} : Typed(p, m, row)
      BY <1>1, <1>5, <2>3, FolderTyped
    <2>4. CASE \E apps \in (SUBSET open) \ {{}}, day \in Notice, new \in BOOLEAN :
        hand_over_parcel(p, apps, day, new)  BY <1>1, <1>5, <2>4, FolderHandedOver
    <2> QED BY <1>5, <2>1, <2>2, <2>3, <2>4, OnParcelCases
  <1>6. CASE NextDay  BY <1>1, <1>6, FolderNextDay
  <1>7. CASE apply_scheduled_folder_switches  BY <1>1, <1>7, FolderSwept
  <1>8. CASE UNCHANGED vars  BY <1>2, <1>8 DEF vars
  <1> QED BY <1>1, <1>3, <1>5, <1>6, <1>7, <1>8 DEF Next, Orderly, CheckIsLost

(* The tenants of a parcel never inherit the folder of others, as long as    *)
(* starts typed in and handovers are all that is dated ahead, changes wait   *)
(* for both, and every ended tenancy is followed by the vacancy check        *)
(* (parcel_cloud_folders.py).                                                *)
THEOREM FoldersAreNotInherited == ASSUME HandoverAssumption, Promised PROVE Spec => []FolderNotInherited
  <1> DEFINE Inv == TypeOK /\ TenantsAreEntered /\ FolderInv
  <1>1. Init => Inv
    <2> SUFFICES ASSUME Init PROVE FolderInv  BY InitHolds DEF MembershipInv
    <2>1. TypeOK  BY InitHolds
    <2>2. ASSUME NEW p \in Parcels
        PROVE  p \notin ended /\ ~Unsettled(p) /\ folder[p].active = NoFolder
      <3>1. folder[p] = [active |-> NoFolder, scheduled |-> NoFolder] /\ ended = {}  BY DEF Init
      <3>2. \A m \in Members : tenancy[p][m] # NoRow =>
          tenancy[p][m] = [from |-> 0, until |-> OpenEnd]  BY DEF Init
      <3> QED BY <3>1, <3>2 DEF Unsettled, Rows
    <2> QED BY <2>1, <2>2, NoFolderNoHarm DEF FolderInv
  <1>2. Inv /\ [Next]_vars => Inv'  BY TypeStep, FolderStep
  <1>3. Inv => FolderNotInherited
    <2> SUFFICES ASSUME TypeOK, FolderInv, swept, ended = {}, NEW p \in Parcels,
               folder[p].active # NoFolder, Now(p) # {}
        PROVE  folder[p].active.household \cap Now(p) # {}  BY DEF FolderNotInherited, Now
    <2>1. ASSUME NEW days \in Ahead, HandoverDue(p, days) PROVE InUse(p)
      BY <2>1, TodayAndTomorrow DEF HandoverDue
    <2>2. InUse(p)  BY <2>1 DEF FolderInv, Undisturbed
    <2> QED BY <2>2 DEF InUse
  <1> HIDE DEF Inv
  <1> QED BY <1>1, <1>2, <1>3, PTL DEF Spec

-----------------------------------------------------------------------------
(* Metering points and their meters (Metering), for any points, meters,      *)
(* years and readings.                                                      *)
(*                                                                         *)
(* That a point has one meter that counts needs every meter to belong to a   *)
(* point that is there (Attached), so that a point that is entered comes     *)
(* with none.  Readings are let in by what is next to them alone; that the   *)
(* meter then runs forward over all its years is ReadingFits.               *)
CONSTANTS Points, Meters, MeteringPointType, Places, LastYear, MaxReading, Initial, None

VARIABLES
    point,     \* rows of MeteringPoint
    meter      \* rows of Meter with their readings

Metering == INSTANCE Metering

\* The sizes that the instance speaks of are those the library's facts are about.
LEMMA MeteringSizes ==
  /\ \A S : Metering!Cardinality(S) = Cardinality(S)
  /\ \A S : Metering!IsFiniteSet(S) <=> IsFiniteSet(S)
  BY Zenon DEF Cardinality, Metering!Cardinality, IsFiniteSet, Metering!IsFiniteSet

\* Read later, a meter shows no less.
Forward(row) == \A y, z \in Metering!ReadIn(row) : y < z => row.readings[y] <= row.readings[z]

\* A meter belongs to a point that is there.
Attached == \A m \in Meters : meter[m] # NoRow => point[meter[m].point] # NoRow

\* One of a point's meters counts.
OneCounts == \A p \in Points : point[p] # NoRow => \E m \in Meters : Metering!Current(p) = {m}

\* Every meter runs forward.
AllForward == \A m \in Meters : meter[m] # NoRow => Forward(meter[m])

MeteringIInv == Metering!TypeOK /\ Attached /\ OneCounts /\ AllForward

-----------------------------------------------------------------------------
\* Min finds the least.
LEMMA LeastYear ==
  ASSUME NEW S \in SUBSET Nat, S # {}
  PROVE  Metering!Min(S) \in S /\ \A n \in S : Metering!Min(S) <= n
  <1> DEFINE below == OpToRel(<, Nat)
  <1>1. IsWellFoundedOn(below, Nat)  BY NatLessThanWellFounded
  <1>2. PICK k \in S : \A n \in S : ~(<<n, k>> \in below)  BY <1>1, WFMin
  <1>3. \A n \in S : ~(n < k)  BY <1>2 DEF OpToRel
  <1>4. \A n \in S : k <= n  BY <1>3
  <1>5. \E x \in S : \A y \in S : x <= y  BY <1>4
  <1> QED BY <1>5, Zenon DEF Metering!Min

\* Max finds the last of some years.
LEMMA LastYearOf ==
  ASSUME NEW n \in Nat, NEW S \in SUBSET (1..n), S # {}
  PROVE  Metering!Max(S) \in S /\ \A k \in S : k <= Metering!Max(S)
  <1> DEFINE T == {n - k : k \in S}
  <1>1. T \in SUBSET Nat /\ T # {}
    <2>1. \A k \in S : n - k \in Nat /\ n - k \in T  OBVIOUS
    <2> QED BY <2>1
  <1>2. PICK x : x = Metering!Min(T)  OBVIOUS
  <1>3. x \in T /\ \A y \in T : x <= y  BY <1>1, <1>2, LeastYear
  <1>4. PICK k \in S : x = n - k  BY <1>3
  <1>5. \A j \in S : k >= j
    <2> SUFFICES ASSUME NEW j \in S PROVE k >= j  OBVIOUS
    <2>1. n - j \in T  OBVIOUS
    <2>2. x <= n - j  BY <1>3, <2>1
    <2> QED BY <1>4, <2>2
  <1>6. \E m \in S : \A j \in S : m >= j  BY <1>5
  <1>7. Metering!Max(S) \in S /\ \A j \in S : Metering!Max(S) >= j  BY <1>6, Zenon DEF Metering!Max
  <1> QED BY <1>7

\* A meter has its columns.
LEMMA RowFacts ==
  ASSUME Metering!MeteringAssumption, NEW row \in Metering!Meter
  PROVE  /\ row # NoRow /\ row.point \in Points /\ row.is_active \in BOOLEAN
         /\ row.readings \in [Metering!Years -> 0..MaxReading \cup {None}]
         /\ Metering!ReadIn(row) \subseteq Metering!Years /\ \A y \in Metering!ReadIn(row) : row.readings[y] \in 0..MaxReading
  BY DEF Metering!MeteringAssumption, Metering!Meter, Metering!ReadIn

\* A reading that is let in lies between those around it, and so the meter runs forward.
LEMMA ReadingFits ==
  ASSUME Metering!MeteringAssumption, NEW row \in Metering!Meter, Forward(row), NEW year \in Metering!Years, NEW value \in 0..MaxReading,
      Metering!Plausible(row, year, value)
  PROVE  /\ \A y \in Metering!ReadIn(row) : y < year => row.readings[y] <= value
         /\ \A y \in Metering!ReadIn(row) : year < y => value <= row.readings[y]
  <1>1. /\ LastYear \in Nat /\ MaxReading \in Nat /\ Metering!ReadIn(row) \subseteq 1..LastYear
        /\ \A y \in Metering!ReadIn(row) : row.readings[y] \in 0..MaxReading
    BY RowFacts DEF Metering!MeteringAssumption, Metering!Years
  <1>2. ASSUME NEW y \in Metering!ReadIn(row), y < year PROVE row.readings[y] <= value
    <2> DEFINE earlier == {z \in Metering!ReadIn(row) : z < year}
    <2>1. earlier \in SUBSET (1..LastYear) /\ y \in earlier  BY <1>1, <1>2
    <2>2. Metering!Max(earlier) \in earlier /\ \A k \in earlier : k <= Metering!Max(earlier)
      BY <1>1, <2>1, LastYearOf
    <2>3. PICK last : last = Metering!Max(earlier)  OBVIOUS
    <2>4. Metering!reading_before_year(row, year) = row.readings[last]
      BY <2>1, <2>3 DEF Metering!reading_before_year
    <2>5. last \in Metering!ReadIn(row) /\ (y = last \/ y < last)
      <3>1. last \in earlier /\ y <= last  BY <2>1, <2>2, <2>3
      <3>2. last \in Nat /\ y \in Nat /\ last \in Metering!ReadIn(row)  BY <1>1, <3>1
      <3> QED BY <3>1, <3>2
    <2>6. row.readings[y] <= row.readings[last]  BY <1>1, <2>5 DEF Forward
    <2>7. value >= row.readings[last]  BY <2>4 DEF Metering!Plausible
    <2> QED BY <1>1, <2>5, <2>6, <2>7
  <1>3. ASSUME NEW y \in Metering!ReadIn(row), year < y PROVE value <= row.readings[y]
    <2> DEFINE later == {z \in Metering!ReadIn(row) : z > year} \cup {LastYear + 1}
    <2>1. later \in SUBSET Nat /\ y \in later  BY <1>1, <1>3
    <2>2. PICK next : next = Metering!Min(later)  OBVIOUS
    <2>3. next \in later /\ next <= y  BY <2>1, <2>2, LeastYear
    <2>4. next \in Metering!ReadIn(row) /\ (y = next \/ next < y)  BY <1>1, <2>3
    <2>5. value <= row.readings[next]  BY <2>2, <2>4 DEF Metering!Plausible
    <2>6. row.readings[next] <= row.readings[y]  BY <1>1, <2>4 DEF Forward
    <2> QED BY <1>1, <2>4, <2>5, <2>6
  <1> QED BY <1>2, <1>3

\* What is recorded of a meter is its readings.
LEMMA RecordedKeeps ==
  ASSUME Metering!MeteringAssumption, NEW rows \in [Meters -> Metering!Meter \cup {NoRow}], NEW m \in Meters, rows[m] # NoRow,
      NEW year \in Metering!Years, NEW value \in 0..MaxReading,
      \A k \in Meters : rows[k] # NoRow => Forward(rows[k]),
      NEW new, new = Metering!Recorded(rows, m, year, value)
  PROVE  /\ new \in [Meters -> Metering!Meter \cup {NoRow}]
         /\ \A k \in Meters : new[k] # NoRow <=> rows[k] # NoRow
         /\ \A k \in Meters : rows[k] # NoRow =>
              new[k].point = rows[k].point /\ new[k].is_active = rows[k].is_active /\ Forward(new[k])
  <1>1. CASE ~ Metering!Plausible(rows[m], year, value)  BY <1>1 DEF Metering!Recorded
  <1>2. CASE Metering!Plausible(rows[m], year, value)
    <2>1. rows[m] \in Metering!Meter  OBVIOUS
    <2>2. PICK readings : readings = [rows[m].readings EXCEPT ![year] = value]  OBVIOUS
    <2>3. PICK row : row = [rows[m] EXCEPT !.readings = readings]  OBVIOUS
    <2>31. new = [rows EXCEPT ![m].readings[year] = value]  BY <1>2 DEF Metering!Recorded
    <2>4. new = [rows EXCEPT ![m] = row]  BY <2>2, <2>3, <2>31
    <2>5. /\ readings \in [Metering!Years -> 0..MaxReading \cup {None}] /\ readings[year] = value
          /\ \A y \in Metering!Years : y # year => readings[y] = rows[m].readings[y]
      BY <2>1, <2>2, RowFacts
    <2>6. /\ row \in Metering!Meter /\ row.readings = readings /\ row.point = rows[m].point
          /\ row.is_active = rows[m].is_active  BY <2>1, <2>3, <2>5 DEF Metering!Meter
    <2>7. \A y \in Metering!Years : y # year => (y \in Metering!ReadIn(row) <=> y \in Metering!ReadIn(rows[m]))
      BY <2>5, <2>6 DEF Metering!ReadIn
    <2>8. Forward(row)
      <3>1. /\ \A y \in Metering!ReadIn(rows[m]) : y < year => rows[m].readings[y] <= value
            /\ \A y \in Metering!ReadIn(rows[m]) : year < y => value <= rows[m].readings[y]
        BY <1>2, <2>1, ReadingFits
      <3>2. Metering!ReadIn(row) \subseteq Metering!Years /\ \A y \in Metering!Years : y \in Nat
        BY DEF Metering!ReadIn, Metering!Years
      <3> SUFFICES ASSUME NEW y \in Metering!ReadIn(row), NEW z \in Metering!ReadIn(row), y < z
          PROVE  row.readings[y] <= row.readings[z]  BY DEF Forward
      <3>3. CASE y = year  BY <2>5, <2>6, <2>7, <3>1, <3>2, <3>3
      <3>4. CASE z = year  BY <2>5, <2>6, <2>7, <3>1, <3>2, <3>4
      <3>5. CASE y # year /\ z # year  BY <2>5, <2>6, <2>7, <3>2, <3>5 DEF Forward
      <3> QED BY <3>3, <3>4, <3>5
    <2>9. row # NoRow  BY <2>6, RowFacts
    <2> QED BY <2>1, <2>4, <2>6, <2>8, <2>9
  <1> QED BY <1>1, <1>2

-----------------------------------------------------------------------------
\* A new meter counts for its point and has no readings.
LEMMA NewMeterFacts ==
  ASSUME Metering!MeteringAssumption, NEW p \in Points, NEW initial \in Initial, NEW row, row = Metering!NewMeter(p, initial)
  PROVE  row \in Metering!Meter /\ row # NoRow /\ row.point = p /\ row.is_active = TRUE /\ Forward(row)
  <1>1. row \in Metering!Meter
    <2>1. initial \in 0..MaxReading /\ [y \in Metering!Years |-> None] \in [Metering!Years -> 0..MaxReading \cup {None}]
      BY DEF Metering!MeteringAssumption
    <2> QED BY <2>1 DEF Metering!NewMeter, Metering!Meter
  <1>2. Metering!ReadIn(row) = {}  BY DEF Metering!NewMeter, Metering!ReadIn
  <1> QED BY <1>1, <1>2, RowFacts DEF Metering!NewMeter, Forward

\* What changes in a meter without changing what it is counted for.
LEMMA OneMeterChanged ==
  ASSUME Metering!MeteringAssumption, MeteringIInv, UNCHANGED point, meter' \in [Meters -> Metering!Meter \cup {NoRow}],
      \A k \in Meters : meter'[k] # NoRow <=> meter[k] # NoRow,
      \A k \in Meters : meter[k] # NoRow =>
          meter'[k].point = meter[k].point /\ meter'[k].is_active = meter[k].is_active /\ Forward(meter'[k])
  PROVE  MeteringIInv'
  <1>1. \A p \in Points : Metering!Current(p)' = Metering!Current(p)
    BY DEF Metering!Current, Metering!MetersOf
  <1>2. Metering!TypeOK'  BY DEF MeteringIInv, Metering!TypeOK
  <1>3. Attached'  BY DEF MeteringIInv, Attached
  <1>4. OneCounts'  BY <1>1 DEF MeteringIInv, OneCounts
  <1>5. AllForward'  BY DEF MeteringIInv, AllForward, Forward, Metering!ReadIn
  <1> QED BY <1>2, <1>3, <1>4, <1>5 DEF MeteringIInv

LEMMA MeteringIInvInit == ASSUME Metering!MeteringAssumption, Metering!Init PROVE MeteringIInv
  BY DEF Metering!Init, MeteringIInv, Metering!TypeOK, Attached, OneCounts, AllForward

\* A point comes with its one meter.
LEMMA CreateKeeps ==
  ASSUME Metering!MeteringAssumption, MeteringIInv, NEW p \in Points, NEW m \in Meters, Metering!metering_point_create(p, m)
  PROVE  MeteringIInv'
  <1>1. PICK row \in Metering!MeteringPoint, initial \in Initial :
      /\ point' = [point EXCEPT ![p] = row]
      /\ meter' = [meter EXCEPT ![m] = Metering!NewMeter(p, initial)]
    BY DEF Metering!metering_point_create
  <1>2. PICK new : new = Metering!NewMeter(p, initial)  OBVIOUS
  <1>3. new \in Metering!Meter /\ new # NoRow /\ new.point = p /\ new.is_active = TRUE /\ Forward(new)
    BY <1>2, NewMeterFacts
  <1>4. point[p] = NoRow /\ meter[m] = NoRow /\ row # NoRow
    BY DEF Metering!metering_point_create, Metering!MeteringAssumption
  <1>5. meter' = [meter EXCEPT ![m] = new]  BY <1>1, <1>2
  <1>6. \A k \in Meters : meter[k] # NoRow => meter[k].point \in Points /\ meter[k].point # p /\ k # m
    BY <1>4, RowFacts DEF MeteringIInv, Metering!TypeOK, Attached
  <1>7. Metering!TypeOK'  BY <1>1, <1>3, <1>5 DEF MeteringIInv, Metering!TypeOK
  <1>8. Attached'  BY <1>1, <1>3, <1>4, <1>5, <1>6 DEF MeteringIInv, Metering!TypeOK, Attached
  <1>9. Metering!Current(p)' = {m}
    BY <1>3, <1>5, <1>6 DEF MeteringIInv, Metering!TypeOK, Metering!Current, Metering!MetersOf
  <1>10. \A q \in Points : q # p => Metering!Current(q)' = Metering!Current(q)
    BY <1>3, <1>4, <1>5, <1>6 DEF MeteringIInv, Metering!TypeOK, Metering!Current, Metering!MetersOf
  <1>11. OneCounts'  BY <1>1, <1>9, <1>10 DEF MeteringIInv, Metering!TypeOK, OneCounts
  <1>12. AllForward'
    BY <1>3, <1>5 DEF MeteringIInv, Metering!TypeOK, AllForward, Forward, Metering!ReadIn
  <1> QED BY <1>7, <1>8, <1>11, <1>12 DEF MeteringIInv

\* A point goes with all its meters.
LEMMA DeletePointKeeps ==
  ASSUME Metering!MeteringAssumption, MeteringIInv, NEW p \in Points, Metering!delete_metering_point(p)
  PROVE  MeteringIInv'
  <1>1. /\ point' = [point EXCEPT ![p] = NoRow]
        /\ meter' = [m \in Meters |-> IF m \in Metering!MetersOf(p) THEN NoRow ELSE meter[m]]
    BY DEF Metering!delete_metering_point
  <1>2. \A m \in Meters : meter'[m] # NoRow => meter'[m] = meter[m] /\ meter[m] # NoRow /\ meter[m].point # p
    BY <1>1 DEF Metering!MetersOf
  <1>3. \A q \in Points : q # p => Metering!Current(q)' = Metering!Current(q)
    BY <1>1 DEF Metering!Current, Metering!MetersOf
  <1>4. Metering!TypeOK'  BY <1>1 DEF MeteringIInv, Metering!TypeOK
  <1>5. Attached'  BY <1>1, <1>2, RowFacts DEF MeteringIInv, Metering!TypeOK, Attached
  <1>6. OneCounts'  BY <1>1, <1>3 DEF MeteringIInv, Metering!TypeOK, OneCounts
  <1>7. AllForward'  BY <1>2 DEF MeteringIInv, AllForward, Forward, Metering!ReadIn
  <1> QED BY <1>4, <1>5, <1>6, <1>7 DEF MeteringIInv

LEMMA UpdatePointKeeps ==
  ASSUME Metering!MeteringAssumption, MeteringIInv, NEW p \in Points, Metering!update_metering_point(p)
  PROVE  MeteringIInv'
  <1>1. PICK place \in Places \cup {None} : point' = [point EXCEPT ![p].place = place]
    BY DEF Metering!update_metering_point
  <1>2. point[p] # NoRow /\ point[p] \in Metering!MeteringPoint /\ UNCHANGED meter
    BY DEF Metering!update_metering_point, MeteringIInv, Metering!TypeOK
  <1>3. [point[p] EXCEPT !.place = place] \in Metering!MeteringPoint  BY <1>2 DEF Metering!MeteringPoint
  <1>4. Metering!TypeOK'  BY <1>1, <1>2, <1>3 DEF MeteringIInv, Metering!TypeOK
  <1>5. \A q \in Points : point'[q] # NoRow <=> point[q] # NoRow
    BY <1>1, <1>2, <1>3 DEF MeteringIInv, Metering!TypeOK, Metering!MeteringAssumption
  <1>6. Attached'  BY <1>2, <1>5, RowFacts DEF MeteringIInv, Metering!TypeOK, Attached
  <1>7. OneCounts'  BY <1>2, <1>5 DEF MeteringIInv, OneCounts, Metering!Current, Metering!MetersOf
  <1>8. AllForward'  BY <1>2 DEF MeteringIInv, AllForward, Forward, Metering!ReadIn
  <1> QED BY <1>4, <1>6, <1>7, <1>8 DEF MeteringIInv

LEMMA UpdateMeterKeeps ==
  ASSUME Metering!MeteringAssumption, MeteringIInv, NEW m \in Meters, Metering!update_meter(m)
  PROVE  MeteringIInv'
  <1>1. PICK initial \in Initial : meter' = [meter EXCEPT ![m].initial_reading = initial]
    BY DEF Metering!update_meter
  <1>2. meter[m] # NoRow /\ meter[m] \in Metering!Meter /\ initial \in 0..MaxReading
    BY DEF Metering!update_meter, MeteringIInv, Metering!TypeOK, Metering!MeteringAssumption
  <1>3. PICK row : row = [meter[m] EXCEPT !.initial_reading = initial]  OBVIOUS
  <1>4. /\ row \in Metering!Meter /\ row.readings = meter[m].readings /\ row.point = meter[m].point
        /\ row.is_active = meter[m].is_active  BY <1>2, <1>3 DEF Metering!Meter
  <1>5. meter' = [meter EXCEPT ![m] = row]  BY <1>1, <1>3
  <1>6. row # NoRow /\ Forward(row)
    BY <1>2, <1>4, RowFacts DEF MeteringIInv, AllForward, Forward, Metering!ReadIn
  <1> QED BY <1>2, <1>4, <1>5, <1>6, OneMeterChanged DEF MeteringIInv, Metering!TypeOK, AllForward,
     Metering!update_meter

\* The meter that is exchanged counts no more, and its successor does.
LEMMA ExchangeKeeps ==
  ASSUME Metering!MeteringAssumption, MeteringIInv, NEW p \in Points, NEW m \in Meters, Metering!exchange_meter(p, m)
  PROVE  MeteringIInv'
  <1>1. PICK initial \in Initial :
      meter' = [k \in Meters |->
        IF k = m THEN Metering!NewMeter(p, initial)
        ELSE IF k \in Metering!Current(p) THEN [meter[k] EXCEPT !.is_active = FALSE] ELSE meter[k]]
    BY DEF Metering!exchange_meter
  <1>2. PICK new : new = Metering!NewMeter(p, initial)  OBVIOUS
  <1>3. new \in Metering!Meter /\ new # NoRow /\ new.point = p /\ new.is_active = TRUE /\ Forward(new)
    BY <1>2, NewMeterFacts
  <1>4. point[p] # NoRow /\ meter[m] = NoRow /\ UNCHANGED point  BY DEF Metering!exchange_meter
  <1>5. \A k \in Meters : k \in Metering!Current(p) =>
      /\ meter[k] \in Metering!Meter /\ meter[k] # NoRow /\ k # m /\ meter[k].point = p
      /\ meter'[k] \in Metering!Meter /\ meter'[k] # NoRow /\ meter'[k].point = p /\ meter'[k].is_active = FALSE
      /\ meter'[k].readings = meter[k].readings
    <2> SUFFICES ASSUME NEW k \in Meters, k \in Metering!Current(p)
        PROVE  /\ meter[k] \in Metering!Meter /\ meter[k] # NoRow /\ k # m /\ meter[k].point = p
               /\ meter'[k] \in Metering!Meter /\ meter'[k] # NoRow /\ meter'[k].point = p
               /\ meter'[k].is_active = FALSE /\ meter'[k].readings = meter[k].readings  OBVIOUS
    <2>1. meter[k] \in Metering!Meter /\ meter[k] # NoRow /\ k # m /\ meter[k].point = p
      BY <1>4 DEF MeteringIInv, Metering!TypeOK, Metering!Current, Metering!MetersOf
    <2>2. meter'[k] = [meter[k] EXCEPT !.is_active = FALSE]  BY <1>1, <2>1
    <2>3. PICK row : row = [meter[k] EXCEPT !.is_active = FALSE]  OBVIOUS
    <2>4. row \in Metering!Meter /\ row.point = p /\ row.is_active = FALSE /\ row.readings = meter[k].readings
      BY <2>1, <2>3 DEF Metering!Meter
    <2> QED BY <2>1, <2>2, <2>3, <2>4, RowFacts
  <1>6. meter'[m] = new  BY <1>1, <1>2
  <1>7. \A k \in Meters : k # m /\ k \notin Metering!Current(p) => meter'[k] = meter[k]  BY <1>1
  <1>8. meter' \in [Meters -> Metering!Meter \cup {NoRow}]
    <2>1. \A k \in Meters : meter'[k] \in Metering!Meter \cup {NoRow}
      BY <1>3, <1>5, <1>6, <1>7 DEF MeteringIInv, Metering!TypeOK
    <2>2. meter' = [k \in Meters |-> meter'[k]]  BY <1>1
    <2> QED BY <2>1, <2>2
  <1>9. Metering!TypeOK'  BY <1>4, <1>8 DEF MeteringIInv, Metering!TypeOK
  <1>10. Attached'  BY <1>3, <1>4, <1>5, <1>6, <1>7 DEF MeteringIInv, Attached
  <1>11. Metering!Current(p)' = {m}  BY <1>3, <1>5, <1>6, <1>7 DEF Metering!Current, Metering!MetersOf
  <1>12. \A q \in Points : q # p => Metering!Current(q)' = Metering!Current(q)
    <2> SUFFICES ASSUME NEW q \in Points, q # p, NEW k \in Meters
        PROVE  k \in Metering!Current(q)' <=> k \in Metering!Current(q)
      BY DEF Metering!Current, Metering!MetersOf
    <2>1. CASE k = m  BY <1>3, <1>4, <1>6, <2>1 DEF Metering!Current, Metering!MetersOf
    <2>2. CASE k \in Metering!Current(p)  BY <1>5, <2>2 DEF Metering!Current, Metering!MetersOf
    <2>3. CASE k # m /\ k \notin Metering!Current(p)
      BY <1>7, <2>3 DEF Metering!Current, Metering!MetersOf
    <2> QED BY <2>1, <2>2, <2>3
  <1>13. OneCounts'  BY <1>4, <1>11, <1>12 DEF MeteringIInv, OneCounts
  <1>14. AllForward'  BY <1>3, <1>5, <1>6, <1>7 DEF MeteringIInv, AllForward, Forward, Metering!ReadIn
  <1> QED BY <1>9, <1>10, <1>13, <1>14 DEF MeteringIInv

LEMMA RecordKeeps ==
  ASSUME Metering!MeteringAssumption, MeteringIInv, NEW m \in Meters, NEW year \in Metering!Years, NEW value \in 0..MaxReading,
      Metering!record_reading(m, year, value)
  PROVE  MeteringIInv'
  <1>1. meter[m] # NoRow /\ meter' = Metering!Recorded(meter, m, year, value) /\ UNCHANGED point
    BY DEF Metering!record_reading
  <1>2. meter \in [Meters -> Metering!Meter \cup {NoRow}] /\ \A k \in Meters : meter[k] # NoRow => Forward(meter[k])
    BY DEF MeteringIInv, Metering!TypeOK, AllForward
  <1>3. /\ meter' \in [Meters -> Metering!Meter \cup {NoRow}]
        /\ \A k \in Meters : meter'[k] # NoRow <=> meter[k] # NoRow
        /\ \A k \in Meters : meter[k] # NoRow =>
             meter'[k].point = meter[k].point /\ meter'[k].is_active = meter[k].is_active /\ Forward(meter'[k])
    BY <1>1, <1>2, RecordedKeeps
  <1> QED BY <1>1, <1>3, OneMeterChanged

\* A row of a file is taken like a reading, against those taken before it.
LEMMA TakenKeeps ==
  ASSUME Metering!MeteringAssumption, NEW rows \in [Meters -> Metering!Meter \cup {NoRow}], NEW row \in Metering!ImportRow,
      \A k \in Meters : rows[k] # NoRow <=> meter[k] # NoRow,
      \A k \in Meters : rows[k] # NoRow => Forward(rows[k]),
      NEW new, new = Metering!Taken(rows, row)
  PROVE  /\ new \in [Meters -> Metering!Meter \cup {NoRow}]
         /\ \A k \in Meters : new[k] # NoRow <=> rows[k] # NoRow
         /\ \A k \in Meters : rows[k] # NoRow =>
              new[k].point = rows[k].point /\ new[k].is_active = rows[k].is_active /\ Forward(new[k])
  <1>1. row.meter \in Meters /\ row.year \in Metering!Years /\ row.value \in 0..MaxReading
    BY DEF Metering!ImportRow
  <1>2. CASE meter[row.meter] # NoRow /\ meter[row.meter].is_active
    <2>1. new = Metering!Recorded(rows, row.meter, row.year, row.value) /\ rows[row.meter] # NoRow
      BY <1>1, <1>2 DEF Metering!Taken
    <2> QED BY <1>1, <2>1, RecordedKeeps
  <1>3. CASE ~ (meter[row.meter] # NoRow /\ meter[row.meter].is_active)  BY <1>3 DEF Metering!Taken
  <1> QED BY <1>2, <1>3

LEMMA ReadingsImportKeeps ==
  ASSUME Metering!MeteringAssumption, MeteringIInv, NEW first \in Metering!ImportRow, NEW second \in Metering!ImportRow, Metering!readings_import(first, second)
  PROVE  MeteringIInv'
  <1>1. meter \in [Meters -> Metering!Meter \cup {NoRow}] /\ \A k \in Meters : meter[k] # NoRow => Forward(meter[k])
    BY DEF MeteringIInv, Metering!TypeOK, AllForward
  <1>2. PICK once : once = Metering!Taken(meter, first)  OBVIOUS
  <1>3. /\ once \in [Meters -> Metering!Meter \cup {NoRow}]
        /\ \A k \in Meters : once[k] # NoRow <=> meter[k] # NoRow
        /\ \A k \in Meters : meter[k] # NoRow =>
             once[k].point = meter[k].point /\ once[k].is_active = meter[k].is_active /\ Forward(once[k])
    BY <1>1, <1>2, TakenKeeps
  <1>4. meter' = Metering!Taken(once, second) /\ UNCHANGED point  BY <1>2 DEF Metering!readings_import
  <1>5. /\ meter' \in [Meters -> Metering!Meter \cup {NoRow}]
        /\ \A k \in Meters : meter'[k] # NoRow <=> once[k] # NoRow
        /\ \A k \in Meters : once[k] # NoRow =>
             meter'[k].point = once[k].point /\ meter'[k].is_active = once[k].is_active /\ Forward(meter'[k])
    BY <1>3, <1>4, TakenKeeps
  <1> QED BY <1>3, <1>4, <1>5, OneMeterChanged

LEMMA DeleteReadingKeeps ==
  ASSUME Metering!MeteringAssumption, MeteringIInv, NEW m \in Meters, NEW year \in Metering!Years, Metering!delete_reading(m, year)
  PROVE  MeteringIInv'
  <1>1. meter[m] # NoRow /\ meter[m] \in Metering!Meter /\ meter' = [meter EXCEPT ![m].readings[year] = None] /\ UNCHANGED point
    BY DEF Metering!delete_reading, MeteringIInv, Metering!TypeOK
  <1>2. PICK readings : readings = [meter[m].readings EXCEPT ![year] = None]  OBVIOUS
  <1>3. PICK row : row = [meter[m] EXCEPT !.readings = readings]  OBVIOUS
  <1>4. meter' = [meter EXCEPT ![m] = row]  BY <1>1, <1>2, <1>3
  <1>5. /\ readings \in [Metering!Years -> 0..MaxReading \cup {None}] /\ readings[year] = None
        /\ \A y \in Metering!Years : y # year => readings[y] = meter[m].readings[y]
    BY <1>1, <1>2, RowFacts
  <1>6. /\ row \in Metering!Meter /\ row.readings = readings /\ row.point = meter[m].point
        /\ row.is_active = meter[m].is_active  BY <1>1, <1>3, <1>5 DEF Metering!Meter
  <1>7. Metering!ReadIn(row) \subseteq Metering!ReadIn(meter[m]) \ {year}
    BY <1>5, <1>6 DEF Metering!ReadIn
  <1>8. \A y \in Metering!ReadIn(row) : y \in Metering!Years /\ y # year /\ row.readings[y] = meter[m].readings[y]
    BY <1>5, <1>6, <1>7 DEF Metering!ReadIn
  <1>9. row # NoRow /\ Forward(row)
    BY <1>1, <1>6, <1>7, <1>8, RowFacts DEF MeteringIInv, AllForward, Forward
  <1> QED BY <1>1, <1>4, <1>6, <1>9, OneMeterChanged DEF MeteringIInv, Metering!TypeOK, AllForward

\* Every point an import creates gets a meter of its own.
LEMMA PointsImportKeeps ==
  ASSUME Metering!MeteringAssumption, MeteringIInv, NEW first \in Metering!MeteringPoint, NEW second \in Metering!MeteringPoint,
      Metering!metering_points_import(<<first, second>>)
  PROVE  MeteringIInv'
  <1> DEFINE rows == <<first, second>>
      known == {Metering!Identity(point[p]) : p \in {q \in Points : point[q] # NoRow}}
      Fresh(n) == \/ Metering!Identity(rows[n]) = None
                  \/ Metering!Identity(rows[n]) \notin known \cup {Metering!Identity(rows[k]) : k \in 1..(n - 1)}
      new == {n \in DOMAIN rows : Fresh(n)}
  <1>2. \A n \in new : rows[n] \in Metering!MeteringPoint  OBVIOUS
  <1>4. PICK p \in Metering!Injection(new, {q \in Points : point[q] = NoRow}),
       m \in Metering!Injection(new, {k \in Meters : meter[k] = NoRow}), initial \in Initial :
      /\ point' = [q \in Points |->
              IF q \in Metering!Range(p) THEN rows[CHOOSE n \in new : p[n] = q] ELSE point[q]]
      /\ meter' = [k \in Meters |->
              IF k \in Metering!Range(m) THEN Metering!NewMeter(p[CHOOSE n \in new : m[n] = k], initial) ELSE meter[k]]
    BY Zenon DEF Metering!metering_points_import
  <1> HIDE DEF rows, new
  <1>5. /\ p \in [new -> {q \in Points : point[q] = NoRow}] /\ m \in [new -> {k \in Meters : meter[k] = NoRow}]
        /\ \A a, b \in new : (p[a] = p[b] => a = b) /\ (m[a] = m[b] => a = b)
    BY DEF Metering!Injection, Metering!IsInjective
  <1>6. Metering!Range(p) = {p[n] : n \in new} /\ Metering!Range(m) = {m[n] : n \in new}
    BY <1>5 DEF Metering!Range
  <1>7. \A n \in new : (CHOOSE a \in new : p[a] = p[n]) = n /\ (CHOOSE a \in new : m[a] = m[n]) = n
    <2> SUFFICES ASSUME NEW n \in new
        PROVE  (CHOOSE a \in new : p[a] = p[n]) = n /\ (CHOOSE a \in new : m[a] = m[n]) = n
      OBVIOUS
    <2>1. PICK a : a = CHOOSE c \in new : p[c] = p[n]  OBVIOUS
    <2>2. a \in new /\ p[a] = p[n]  BY <2>1
    <2>3. PICK b : b = CHOOSE c \in new : m[c] = m[n]  OBVIOUS
    <2>4. b \in new /\ m[b] = m[n]  BY <2>3
    <2> QED BY <1>5, <2>1, <2>2, <2>3, <2>4
  <1>8. /\ \A n \in new : p[n] \in Points /\ point[p[n]] = NoRow /\ m[n] \in Meters /\ meter[m[n]] = NoRow
        /\ \A n \in new : point'[p[n]] = rows[n] /\ meter'[m[n]] = Metering!NewMeter(p[n], initial)
        /\ \A q \in Points \ Metering!Range(p) : point'[q] = point[q]
        /\ \A k \in Meters \ Metering!Range(m) : meter'[k] = meter[k]
    <2>1. \A n \in new : p[n] \in Points /\ point[p[n]] = NoRow /\ m[n] \in Meters /\ meter[m[n]] = NoRow
      BY <1>5
    <2>2. ASSUME NEW n \in new PROVE point'[p[n]] = rows[n] /\ meter'[m[n]] = Metering!NewMeter(p[n], initial)
      <3>1. point'[p[n]] = rows[CHOOSE a \in new : p[a] = p[n]]  BY <1>4, <1>6, <2>1
      <3>2. meter'[m[n]] = Metering!NewMeter(p[CHOOSE a \in new : m[a] = m[n]], initial)
        BY <1>4, <1>6, <2>1
      <3> QED BY <1>7, <3>1, <3>2
    <2>3. \A q \in Points \ Metering!Range(p) : point'[q] = point[q]  BY <1>4
    <2>4. \A k \in Meters \ Metering!Range(m) : meter'[k] = meter[k]  BY <1>4
    <2> QED BY <2>1, <2>2, <2>3, <2>4
  <1>9. \A n \in new : /\ meter'[m[n]] \in Metering!Meter /\ meter'[m[n]] # NoRow /\ meter'[m[n]].point = p[n]
                       /\ meter'[m[n]].is_active = TRUE /\ Forward(meter'[m[n]])
    <2> SUFFICES ASSUME NEW n \in new
        PROVE  /\ meter'[m[n]] \in Metering!Meter /\ meter'[m[n]] # NoRow /\ meter'[m[n]].point = p[n]
               /\ meter'[m[n]].is_active = TRUE /\ Forward(meter'[m[n]])  OBVIOUS
    <2>1. PICK row : row = Metering!NewMeter(p[n], initial)  OBVIOUS
    <2>2. p[n] \in Points /\ meter'[m[n]] = row  BY <1>8, <2>1
    <2>3. row \in Metering!Meter /\ row # NoRow /\ row.point = p[n] /\ row.is_active = TRUE /\ Forward(row)
      BY <2>1, <2>2, NewMeterFacts
    <2> QED BY <2>2, <2>3
  <1>10. /\ \A q \in Points : point'[q] \in Metering!MeteringPoint \cup {NoRow}
         /\ \A q \in Points : point[q] # NoRow => point'[q] # NoRow
         /\ \A n \in new : point'[p[n]] # NoRow
    BY <1>2, <1>6, <1>8 DEF MeteringIInv, Metering!TypeOK, Metering!MeteringAssumption
  <1>11. \A k \in Meters : meter'[k] \in Metering!Meter \cup {NoRow}
    BY <1>6, <1>8, <1>9 DEF MeteringIInv, Metering!TypeOK
  <1>12. Metering!TypeOK'
    <2>1. point' = [q \in Points |-> point'[q]] /\ meter' = [k \in Meters |-> meter'[k]]  BY <1>4
    <2> QED BY <1>10, <1>11, <2>1 DEF Metering!TypeOK
  <1>13. Attached'
    <2> SUFFICES ASSUME NEW k \in Meters, meter'[k] # NoRow PROVE point'[meter'[k].point] # NoRow
      BY DEF Attached
    <2>1. CASE k \in Metering!Range(m)  BY <1>6, <1>9, <1>10, <2>1
    <2>2. CASE k \notin Metering!Range(m)
      <3>1. meter[k] # NoRow /\ meter[k] \in Metering!Meter /\ meter'[k] = meter[k]
        BY <1>8, <2>2 DEF MeteringIInv, Metering!TypeOK
      <3> QED BY <1>10, <3>1, RowFacts DEF MeteringIInv, Attached
    <2> QED BY <2>1, <2>2
  <1>14. OneCounts'
    <2> SUFFICES ASSUME NEW q \in Points, point'[q] # NoRow PROVE \E k \in Meters : Metering!Current(q)' = {k}
      BY DEF OneCounts
    <2>1. \A k \in Meters \ Metering!Range(m) : meter'[k] # NoRow => point[meter[k].point] # NoRow
      BY <1>8 DEF MeteringIInv, Attached
    <2>2. CASE q \in Metering!Range(p)
      <3>1. PICK n \in new : q = p[n]  BY <1>6, <2>2
      <3>2. \A k \in Meters : meter'[k] # NoRow /\ meter'[k].point = q => k = m[n]
        BY <1>5, <1>6, <1>8, <1>9, <2>1, <3>1
      <3>3. Metering!Current(q)' = {m[n]}
        BY <1>8, <1>9, <3>1, <3>2 DEF Metering!Current, Metering!MetersOf
      <3> QED BY <1>8, <3>3
    <2>3. CASE q \notin Metering!Range(p)
      <3>1. \A k \in Meters : k \in Metering!Range(m) => k \notin Metering!Current(q)' /\ k \notin Metering!Current(q)
        BY <1>6, <1>8, <1>9, <2>3 DEF Metering!Current, Metering!MetersOf
      <3>2. \A k \in Meters : k \notin Metering!Range(m) => (k \in Metering!Current(q)' <=> k \in Metering!Current(q))
        BY <1>8 DEF Metering!Current, Metering!MetersOf
      <3>3. Metering!Current(q)' = Metering!Current(q)
        BY <3>1, <3>2 DEF Metering!Current, Metering!MetersOf
      <3>4. point[q] # NoRow  BY <1>8, <2>3
      <3> QED BY <3>3, <3>4 DEF MeteringIInv, OneCounts
    <2> QED BY <2>2, <2>3
  <1>15. AllForward'
    <2> SUFFICES ASSUME NEW k \in Meters, meter'[k] # NoRow PROVE Forward(meter'[k])
      BY DEF AllForward, Forward, Metering!ReadIn
    <2>1. CASE k \in Metering!Range(m)  BY <1>6, <1>9, <2>1
    <2>2. CASE k \notin Metering!Range(m)  BY <1>8, <2>2 DEF MeteringIInv, AllForward
    <2> QED BY <2>1, <2>2
  <1> QED BY <1>12, <1>13, <1>14, <1>15 DEF MeteringIInv

\* Every way to points, meters and readings keeps the invariant.
LEMMA MeteringIInvNext ==
  ASSUME Metering!MeteringAssumption, MeteringIInv, [Metering!Next]_(Metering!vars)
  PROVE  MeteringIInv'
  <1>1. CASE UNCHANGED Metering!vars
    BY <1>1 DEF Metering!vars, MeteringIInv, Metering!TypeOK, Attached, OneCounts, AllForward,
       Metering!Current, Metering!MetersOf, Forward, Metering!ReadIn
  <1>2. CASE Metering!Next
    BY <1>2, CreateKeeps, DeletePointKeeps, UpdatePointKeeps, UpdateMeterKeeps, ExchangeKeeps, RecordKeeps,
       DeleteReadingKeeps, ReadingsImportKeeps, PointsImportKeeps, Zenon
       DEF Metering!Next, Metering!metering_point_update, Metering!reading_delete, Metering!create_metering_point_endpoint,
           Metering!update_metering_point_endpoint, Metering!delete_metering_point_endpoint, Metering!update_meter_endpoint,
           Metering!exchange_meter_endpoint, Metering!create_reading, Metering!delete_reading_endpoint
  <1> QED BY <1>1, <1>2

\* Points and meters keep their types through entry, exchange, correction and import.
THEOREM MeteringTypeCorrect ==
  ASSUME Metering!MeteringAssumption  PROVE Metering!Spec => []Metering!TypeOK
  <1>1. Metering!Init => MeteringIInv  BY MeteringIInvInit
  <1>2. MeteringIInv /\ [Metering!Next]_(Metering!vars) => MeteringIInv'  BY MeteringIInvNext
  <1>3. MeteringIInv => Metering!TypeOK  BY DEF MeteringIInv
  <1> QED BY <1>1, <1>2, <1>3, PTL DEF Metering!Spec

\* MetersRunForward: a point that is there has exactly one meter that counts, and a
\* meter read later shows no less, whatever was recorded out of order, corrected,
\* deleted or imported in between.
THEOREM ReadingsRunForward ==
  ASSUME Metering!MeteringAssumption  PROVE Metering!Spec => []Metering!MetersRunForward
  <1>1. Metering!Init => MeteringIInv  BY MeteringIInvInit
  <1>2. MeteringIInv /\ [Metering!Next]_(Metering!vars) => MeteringIInv'  BY MeteringIInvNext
  <1>3. MeteringIInv => Metering!MetersRunForward
    <2> SUFFICES ASSUME MeteringIInv PROVE Metering!MetersRunForward  OBVIOUS
    <2>1. ASSUME NEW p \in Points, point[p] # NoRow PROVE Cardinality(Metering!Current(p)) = 1
      <3>1. PICK m \in Meters : Metering!Current(p) = {m}  BY <2>1 DEF MeteringIInv, OneCounts
      <3> QED BY <3>1, FS_Singleton
    <2>2. \A m \in Meters : meter[m] # NoRow =>
        \A y, z \in Metering!ReadIn(meter[m]) : y < z => meter[m].readings[y] <= meter[m].readings[z]
      BY DEF MeteringIInv, AllForward, Forward
    <2> QED BY <2>1, <2>2, MeteringSizes DEF Metering!MetersRunForward
  <1> QED BY <1>1, <1>2, <1>3, PTL DEF Metering!Spec

-----------------------------------------------------------------------------
(* What the club owns and lends (InventoryBook), for any items, loans,       *)
(* quantities and entries.                                                  *)
(*                                                                         *)
(* That a checkout lends what is there is no matter of its commit: it rests  *)
(* on what it has read still being so (NothingBetween), which is so while    *)
(* checkouts come one at a time; the sums are those of the loans of one item *)
(* (LessIsOut, MoreIsOut).  Saving an item as shown rests on every row       *)
(* having a quantity (Given) and naming an owner where there is one (Owned). *)
CONSTANTS
    Categories, Items, Loans, Handlers, Overlap, Names, Borrowers, Fees, MaxQuantity, Entries

VARIABLES
    category, renamed,   \* the categories' names, and those the API's PUT has written
    item, loan,          \* rows of InventoryItem and ItemLoan
    active,              \* members whom active_member_filter finds
    handler              \* the checkouts

Inventory == INSTANCE InventoryBook WITH Members <- Borrowers

\* What the instance's fold gives.
LEMMA InventoryFold ==
  ASSUME NEW U, IsFiniteSet(U), NEW q, \A x \in U : q[x] \in Int
  PROVE  Inventory!MapThenSumSet(LAMBDA z : q[z], U) = Sum(q, U)
  <1>1. MapThenSumSet(LAMBDA z : q[z], U) = Sum(q, U)  BY FoldIsSum
  <1>2. Inventory!MapThenSumSet(LAMBDA z : q[z], U) = MapThenSumSet(LAMBDA z : q[z], U)
    BY Zenon DEF Inventory!MapThenSumSet, Inventory!MapThenFoldSet, MapThenSumSet, MapThenFoldSet
  <1> QED BY <1>1, <1>2

\* Who fills in a form names a quantity, or one is taken.
Given == \A i \in Inventory!There(item) : item[i].of.quantity_total \in 0 .. MaxQuantity

\* An owner is named where there is one.
Owned == \A i \in Inventory!There(item) : item[i].of.owner_type = "MEMBER" <=> item[i].of.owner_member_id # None

\* A name is stripped unless it came by the API's PUT.
Stripped == \A c \in Inventory!There(category) \ renamed : category[c].padded = FALSE

\* A checkout is for an item and a member, and what was checked is something.
Fitting ==
    \A h \in Handlers :
        /\ ~ Inventory!At(h, "idle") => handler[h].item \in Items /\ handler[h].member \in Borrowers
        /\ Inventory!At(h, "checked") => handler[h].quantity >= 1

\* Nothing has come between what a checkout has read and what it is about to do.
NothingBetween ==
    \A h \in Handlers : ~ Inventory!At(h, "idle") =>
        /\ \A k \in Handlers \ {h} : Inventory!At(k, "idle")
        /\ handler[h].item \in Inventory!There(item)
        /\ handler[h].total = item[handler[h].item].of.quantity_total
        /\ Inventory!At(h, "checked") => handler[h].quantity <= Inventory!available_quantity(handler[h].item, handler[h].total)

InventoryIInv ==
    /\ Inventory!TypeOK /\ IsFiniteSet(Inventory!There(loan)) /\ IsFiniteSet(Inventory!There(item))
    /\ Given /\ Owned /\ Stripped /\ Fitting
    /\ ~ Overlap => NothingBetween

-----------------------------------------------------------------------------
(* What is out. *)

Out(i) == {l \in Inventory!There(loan) : loan[l].item = i /\ ~ loan[l].returned}

Quantities == [l \in Loans |-> loan[l].quantity]

LEMMA OnLoanIsSum ==
  ASSUME Inventory!BookAssumption, Inventory!TypeOK, IsFiniteSet(Inventory!There(loan)), NEW i
  PROVE  Inventory!quantity_on_loan(i) = Sum(Quantities, Out(i))
  <1>1. IsFiniteSet(Out(i)) /\ Out(i) \subseteq Loans
    BY FS_Subset DEF Out, Inventory!There, Inventory!TypeOK
  <1>2. PICK q : q = Quantities  OBVIOUS
  <1>3. \A l \in Out(i) : q[l] = loan[l].quantity /\ q[l] \in Int
    BY <1>2 DEF Out, Inventory!There, Inventory!TypeOK, Quantities, Inventory!ItemLoan,
       Inventory!BookAssumption
  <1>4. PICK U : U = Out(i)  OBVIOUS
  <1> DEFINE P(f) == f = [s \in SUBSET U |-> IF s = {} THEN 0 
                               ELSE LET x == CHOOSE y \in s : TRUE IN q[x] + f[s \ {x}]]
      Q(f) == f = [s \in SUBSET U |-> IF s = {} THEN 0 
                               ELSE LET x == CHOOSE y \in s : TRUE IN loan[x].quantity + f[s \ {x}]]
  <1>5. ASSUME NEW f PROVE P(f) <=> Q(f)
    <2>1. ASSUME NEW s \in SUBSET U, s # {}, NEW x, x = CHOOSE y \in s : TRUE PROVE q[x] = loan[x].quantity
      BY <1>3, <1>4, <2>1
    <2>2. [s \in SUBSET U |-> IF s = {} THEN 0 
                                      ELSE LET x == CHOOSE y \in s : TRUE IN q[x] + f[s \ {x}]]
      = [s \in SUBSET U |-> IF s = {} THEN 0 
                                      ELSE LET x == CHOOSE y \in s : TRUE IN loan[x].quantity + f[s \ {x}]]
      BY <2>1
    <2> QED BY <2>2
  <1>6. (CHOOSE e : P(e)) = (CHOOSE e : Q(e))
    <2> HIDE DEF P, Q
    <2> QED BY <1>5, Zenon
  <1>7. Inventory!quantity_on_loan(i) = (CHOOSE e : Q(e))[U]
    BY <1>4, Zenon DEF Inventory!quantity_on_loan, Inventory!MapThenSumSet, Inventory!MapThenFoldSet, Out
  <1>8. Inventory!MapThenSumSet(LAMBDA z : q[z], U) = (CHOOSE e : P(e))[U]
    BY Zenon DEF Inventory!MapThenSumSet, Inventory!MapThenFoldSet
  <1>9. Inventory!MapThenSumSet(LAMBDA z : q[z], U) = Sum(q, U)  BY <1>1, <1>3, <1>4, InventoryFold
  <1> QED BY <1>2, <1>4, <1>6, <1>7, <1>8, <1>9

LEMMA OnLoanAlways ==
  Inventory!BookAssumption /\ Inventory!TypeOK /\ IsFiniteSet(Inventory!There(loan))
      => \A j \in Items : Inventory!quantity_on_loan(j) = Sum(Quantities, Out(j))
  BY OnLoanIsSum

LEMMA LoansOut ==
  ASSUME Inventory!BookAssumption, Inventory!TypeOK, NEW i
  PROVE  /\ Out(i) \subseteq Inventory!There(loan) /\ Out(i) \subseteq Loans
         /\ \A l \in Out(i) : Quantities[l] = loan[l].quantity /\ Quantities[l] \in Nat
         /\ IsFiniteSet(Inventory!There(loan)) => IsFiniteSet(Out(i))
  <1>1. Out(i) \subseteq Inventory!There(loan) /\ Inventory!There(loan) \subseteq Loans
    BY DEF Out, Inventory!There, Inventory!TypeOK
  <1>2. \A l \in Inventory!There(loan) : loan[l] \in Inventory!ItemLoan
    BY DEF Inventory!There, Inventory!TypeOK
  <1>3. \A l \in Out(i) : Quantities[l] = loan[l].quantity /\ Quantities[l] \in Nat
    BY <1>1, <1>2 DEF Quantities, Inventory!ItemLoan, Inventory!BookAssumption
  <1>4. IsFiniteSet(Inventory!There(loan)) => IsFiniteSet(Out(i))  BY <1>1, FS_Subset
  <1> QED BY <1>1, <1>3, <1>4

LEMMA SumShrinks ==
  ASSUME NEW A, NEW B, IsFiniteSet(B), A \subseteq B, NEW q, \A x \in B : q[x] \in Nat,
      NEW r, \A x \in A : r[x] = q[x]
  PROVE  Sum(r, A) \in Nat /\ Sum(q, B) \in Nat /\ Sum(r, A) <= Sum(q, B)
  <1>1. IsFiniteSet(A) /\ IsFiniteSet(B \ A)  BY FS_Subset
  <1>2. /\ \A x \in A : q[x] \in Int
        /\ \A x \in A : r[x] \in Nat
        /\ \A x \in B \ A : q[x] \in Nat  OBVIOUS
  <1>3. Sum(q, A) = Sum(r, A)  BY <1>1, <1>2, SumSame
  <1>4. Sum(r, A) \in Nat  BY <1>1, <1>2, SumNatural
  <1>41. Sum(q, B \ A) \in Nat  BY <1>1, <1>2, SumNatural
  <1>5. A \cup (B \ A) = B /\ A \cap (B \ A) = {}  OBVIOUS
  <1>6. \A x \in A \cup (B \ A) : q[x] \in Int  OBVIOUS
  <1>7. Sum(q, A \cup (B \ A)) = Sum(q, A) + Sum(q, B \ A)  BY <1>1, <1>5, <1>6, SumOfParts
  <1>8. Sum(q, B) = Sum(r, A) + Sum(q, B \ A)  BY <1>3, <1>5, <1>7
  <1> QED BY <1>4, <1>41, <1>8

LEMMA LoansOutAlways ==
  Inventory!BookAssumption /\ Inventory!TypeOK => \A j \in Items :
      /\ Out(j) \subseteq Inventory!There(loan) /\ Out(j) \subseteq Loans
      /\ \A l \in Out(j) : Quantities[l] = loan[l].quantity /\ Quantities[l] \in Nat
      /\ IsFiniteSet(Inventory!There(loan)) => IsFiniteSet(Out(j))
  BY LoansOut

LEMMA LoansOutNext ==
  ASSUME Inventory!BookAssumption, Inventory!TypeOK'
  PROVE  (\A j \in Items :
             /\ Out(j) \subseteq Inventory!There(loan) /\ Out(j) \subseteq Loans
             /\ \A l \in Out(j) : Quantities[l] = loan[l].quantity /\ Quantities[l] \in Nat
             /\ IsFiniteSet(Inventory!There(loan)) => IsFiniteSet(Out(j)))'
  BY LoansOutAlways, PTL

LEMMA OutIsNatural ==
  ASSUME Inventory!BookAssumption, Inventory!TypeOK, IsFiniteSet(Inventory!There(loan)), NEW i \in Items
  PROVE  Inventory!quantity_on_loan(i) \in Nat
  <1>1. Inventory!quantity_on_loan(i) = Sum(Quantities, Out(i))  BY OnLoanIsSum
  <1>2. IsFiniteSet(Out(i)) /\ \A l \in Out(i) : Quantities[l] \in Nat  BY LoansOut
  <1> QED BY <1>1, <1>2, SumNatural

\* The loans that are left of an item have no more out than there were.
LEMMA LessIsOut ==
  ASSUME Inventory!BookAssumption, Inventory!TypeOK, IsFiniteSet(Inventory!There(loan)), Inventory!TypeOK', IsFiniteSet(Inventory!There(loan))',
      NEW i \in Items, Out(i)' \subseteq Out(i), \A l \in Out(i)' : loan'[l].quantity = loan[l].quantity
  PROVE  ~ (Inventory!quantity_on_loan(i)' > Inventory!quantity_on_loan(i))
  <1>1. \A j \in Items : Inventory!quantity_on_loan(j) = Sum(Quantities, Out(j))  BY OnLoanIsSum
  <1>2. (\A j \in Items : Inventory!quantity_on_loan(j) = Sum(Quantities, Out(j)))'  BY OnLoanAlways, PTL
  <1>3. /\ \A l \in Out(i) : Quantities[l] = loan[l].quantity /\ Quantities[l] \in Nat
        /\ IsFiniteSet(Out(i))  BY LoansOut
  <1>4. (\A j \in Items :
      /\ Out(j) \subseteq Inventory!There(loan) /\ Out(j) \subseteq Loans
      /\ \A l \in Out(j) : Quantities[l] = loan[l].quantity /\ Quantities[l] \in Nat
      /\ IsFiniteSet(Inventory!There(loan)) => IsFiniteSet(Out(j)))'  BY LoansOutNext
  <1>5. PICK A : A = Out(i)'  OBVIOUS
  <1>6. PICK B : B = Out(i)  OBVIOUS
  <1>7. PICK r : r = Quantities'  OBVIOUS
  <1>8. PICK q : q = Quantities  OBVIOUS
  <1>9. \A l \in A : r[l] = loan'[l].quantity  BY <1>4, <1>5, <1>7
  <1>10. A \subseteq B /\ IsFiniteSet(B) /\ \A x \in B : q[x] \in Nat /\ q[x] = loan[x].quantity
    BY <1>3, <1>5, <1>6, <1>8
  <1>11. \A x \in A : r[x] = q[x]  BY <1>5, <1>9, <1>10
  <1>12. Sum(r, A) \in Nat /\ Sum(q, B) \in Nat /\ Sum(r, A) <= Sum(q, B)  BY <1>10, <1>11, SumShrinks
  <1>13. Inventory!quantity_on_loan(i) = Sum(q, B) /\ Inventory!quantity_on_loan(i)' = Sum(r, A)
    BY <1>1, <1>2, <1>5, <1>6, <1>7, <1>8
  <1> QED BY <1>12, <1>13

\* A loan more is its quantity more.
LEMMA MoreIsOut ==
  ASSUME Inventory!BookAssumption, Inventory!TypeOK, IsFiniteSet(Inventory!There(loan)), Inventory!TypeOK', IsFiniteSet(Inventory!There(loan))',
      NEW i \in Items, NEW n \in Loans, n \notin Inventory!There(loan), Out(i)' = Out(i) \cup {n},
      \A k \in Out(i) : loan'[k].quantity = loan[k].quantity
  PROVE  /\ Inventory!quantity_on_loan(i) \in Nat /\ loan'[n].quantity \in Nat
         /\ Inventory!quantity_on_loan(i)' = loan'[n].quantity + Inventory!quantity_on_loan(i)
  <1>1. \A j \in Items : Inventory!quantity_on_loan(j) = Sum(Quantities, Out(j))  BY OnLoanIsSum
  <1>2. (\A j \in Items : Inventory!quantity_on_loan(j) = Sum(Quantities, Out(j)))'  BY OnLoanAlways, PTL
  <1>3. /\ \A k \in Out(i) : Quantities[k] = loan[k].quantity /\ Quantities[k] \in Nat
        /\ IsFiniteSet(Out(i)) /\ Out(i) \subseteq Inventory!There(loan)  BY LoansOut
  <1>4. (\A j \in Items :
      /\ Out(j) \subseteq Inventory!There(loan) /\ Out(j) \subseteq Loans
      /\ \A l \in Out(j) : Quantities[l] = loan[l].quantity /\ Quantities[l] \in Nat
      /\ IsFiniteSet(Inventory!There(loan)) => IsFiniteSet(Out(j)))'  BY LoansOutNext
  <1>5. PICK A : A = Out(i)'  OBVIOUS
  <1>6. PICK B : B = Out(i)  OBVIOUS
  <1>7. PICK r : r = Quantities'  OBVIOUS
  <1>8. PICK q : q = Quantities  OBVIOUS
  <1>9. A = B \cup {n} /\ n \notin B /\ IsFiniteSet(A) /\ IsFiniteSet(B)  BY <1>3, <1>4, <1>5, <1>6
  <1>10. \A k \in A : r[k] = loan'[k].quantity /\ r[k] \in Nat  BY <1>4, <1>5, <1>7
  <1>11. \A k \in B : q[k] \in Int /\ q[k] = r[k]  BY <1>3, <1>6, <1>8, <1>9, <1>10
  <1>12. Sum(q, B) = Sum(r, B)  BY <1>9, <1>11, SumSame
  <1>13. Sum(r, B \cup {n}) = r[n] + Sum(r, B)
    <2>1. \A x \in A : r[x] \in Int  BY <1>10
    <2>2. B \in SUBSET A /\ n \in A  BY <1>9
    <2> QED BY <1>9, <2>1, <2>2, SumRules
  <1>14. Inventory!quantity_on_loan(i) = Sum(q, B) /\ Inventory!quantity_on_loan(i)' = Sum(r, A)
    BY <1>1, <1>2, <1>5, <1>6, <1>7, <1>8
  <1> QED BY <1>9, <1>10, <1>12, <1>13, <1>14, OutIsNatural

-----------------------------------------------------------------------------
(* The rows. *)

\* What is written of an item.
ItemWritten(of) ==
    /\ of \in Inventory!InventoryItemBase /\ of.quantity_total \in 0 .. MaxQuantity
    /\ of.owner_type = "MEMBER" <=> of.owner_member_id # None
    /\ of.category_id \in Inventory!There(category) \cup {None}

LEMMA EntryGood ==
  ASSUME Inventory!BookAssumption, NEW form \in Inventory!InventoryItemBase
  PROVE  /\ Inventory!_item_fields_from_form(form) \in Inventory!InventoryItemBase
         /\ Inventory!_item_fields_from_form(form).quantity_total \in 0 .. MaxQuantity
         /\ Inventory!Body(form) \in Inventory!InventoryItemBase
         /\ Inventory!Body(form).quantity_total \in 0 .. MaxQuantity
  <1>1. 1 \in 0 .. MaxQuantity  BY DEF Inventory!BookAssumption
  <1>2. Inventory!_item_fields_from_form(form).quantity_total = IF form.quantity_total = None THEN 1 ELSE form.quantity_total
    BY DEF Inventory!_item_fields_from_form, Inventory!InventoryItemBase
  <1>3. Inventory!Body(form).quantity_total = IF form.quantity_total = None THEN 1 ELSE form.quantity_total
    BY DEF Inventory!Body, Inventory!InventoryItemBase
  <1>4. form.quantity_total \in (0 .. MaxQuantity) \cup {None}  BY DEF Inventory!InventoryItemBase
  <1>5. Inventory!_item_fields_from_form(form) \in Inventory!InventoryItemBase
    BY <1>1 DEF Inventory!_item_fields_from_form, Inventory!InventoryItemBase
  <1>6. Inventory!Body(form) \in Inventory!InventoryItemBase
    BY <1>1 DEF Inventory!Body, Inventory!InventoryItemBase
  <1> QED BY <1>1, <1>2, <1>3, <1>4, <1>5, <1>6

LEMMA ContextGood ==
  ASSUME Inventory!BookAssumption, Inventory!TypeOK, NEW i \in Inventory!There(item)
  PROVE  Inventory!_item_form_context(i) \in Inventory!InventoryItemBase
  <1>1. item[i] \in Inventory!InventoryItem  BY DEF Inventory!TypeOK, Inventory!There
  <1>2. PICK of \in Inventory!InventoryItemBase : of = item[i].of  BY <1>1 DEF Inventory!InventoryItem
  <1>3. [of EXCEPT !.text = IF @ = None THEN "none" ELSE @,
      !.owner_member_id = IF @ \in active THEN @ ELSE None] \in Inventory!InventoryItemBase
    BY DEF Inventory!InventoryItemBase
  <1> QED BY <1>2, <1>3 DEF Inventory!_item_form_context

LEMMA RowGood ==
  ASSUME Inventory!BookAssumption, NEW of \in Inventory!InventoryItemBase, of.quantity_total \in 0 .. MaxQuantity,
      Inventory!validate_owner(of), Inventory!ForeignKeys(of)
  PROVE  ItemWritten(Inventory!Row(of))
  <1>1. /\ Inventory!Row(of).quantity_total = of.quantity_total /\ Inventory!Row(of).category_id = of.category_id
        /\ Inventory!Row(of).owner_type = of.owner_type
        /\ Inventory!Row(of).owner_member_id = IF of.owner_type = "MEMBER" THEN of.owner_member_id ELSE None
    BY DEF Inventory!Row, Inventory!_owner_member_id, Inventory!InventoryItemBase
  <1>2. Inventory!Row(of) \in Inventory!InventoryItemBase
    BY DEF Inventory!Row, Inventory!_owner_member_id, Inventory!InventoryItemBase
  <1> QED BY <1>1, <1>2 DEF ItemWritten, Inventory!validate_owner, Inventory!ForeignKeys

\* Every row of an item is as it should be.
LEMMA RowsGood ==
  ASSUME Inventory!BookAssumption, InventoryIInv, NEW i \in Inventory!There(item)
  PROVE  i \in Items /\ item[i] \in Inventory!InventoryItem /\ ItemWritten(item[i].of)
  BY DEF InventoryIInv, Inventory!TypeOK, Given, Owned, Inventory!There, Inventory!InventoryItem, ItemWritten

\* While a checkout is under way no other request comes, unless they may overlap.
LEMMA NoCheckoutDisturbed ==
  ASSUME Inventory!BookAssumption, InventoryIInv, Inventory!Free, handler' = handler
  PROVE  Fitting' /\ (~ Overlap => NothingBetween')
  BY DEF InventoryIInv, Fitting, NothingBetween, Inventory!Free, Inventory!At

\* One item's row is written.
LEMMA PutItem ==
  ASSUME Inventory!BookAssumption, InventoryIInv, Inventory!Free, NEW i \in Items, NEW row \in Inventory!InventoryItem, ItemWritten(row.of),
      item' = [item EXCEPT ![i] = row], UNCHANGED <<category, renamed, loan, active, handler>>
  PROVE  InventoryIInv'
  <1>1. row # NoRow  BY DEF Inventory!BookAssumption
  <1>2. item \in [Items -> Inventory!InventoryItem \cup {NoRow}]  BY DEF InventoryIInv, Inventory!TypeOK
  <1>3. /\ item' \in [Items -> Inventory!InventoryItem \cup {NoRow}]
        /\ Inventory!There(item)' = Inventory!There(item) \cup {i}
        /\ item'[i] = row /\ \A j \in Items \ {i} : item'[j] = item[j]  BY <1>1, <1>2 DEF Inventory!There
  <1>4. Inventory!There(category)' = Inventory!There(category) /\ Inventory!There(loan)' = Inventory!There(loan)
    BY DEF Inventory!There
  <1>5. \A j \in Inventory!There(item)' : item'[j] \in Inventory!InventoryItem /\ ItemWritten(item'[j].of)
    BY <1>2, <1>3, RowsGood DEF Inventory!There
  <1>6. Given' /\ Owned'  BY <1>5 DEF Given, Owned, ItemWritten
  <1>7. Inventory!TypeOK'
    <2>1. \A l \in Inventory!There(loan) : loan[l].item \in Inventory!There(item)'
      BY <1>3 DEF InventoryIInv, Inventory!TypeOK
    <2>2. \A j \in Inventory!There(item)' : item'[j].of.category_id \in Inventory!There(category) \cup {None}
      BY <1>5 DEF ItemWritten
    <2> QED BY <1>3, <1>4, <2>1, <2>2 DEF InventoryIInv, Inventory!TypeOK
  <1>8. Stripped'  BY <1>4 DEF InventoryIInv, Stripped
  <1>9. IsFiniteSet(Inventory!There(item)')
    <2>1. IsFiniteSet(Inventory!There(item) \cup {i})  BY FS_AddElement DEF InventoryIInv
    <2> QED BY <1>3, <2>1
  <1> QED BY <1>4, <1>6, <1>7, <1>8, <1>9, NoCheckoutDisturbed DEF InventoryIInv

LEMMA CreateItem ==
  ASSUME Inventory!BookAssumption, InventoryIInv, Inventory!Free, NEW of \in Inventory!InventoryItemBase, of.quantity_total \in 0 .. MaxQuantity,
      Inventory!create_item(of), UNCHANGED handler
  PROVE  InventoryIInv'
  <1>1. ItemWritten(Inventory!Row(of))  BY RowGood DEF Inventory!create_item
  <1>2. PICK i \in Items \ Inventory!There(item) : item' = [item EXCEPT ![i] = [of |-> Inventory!Row(of), retired |-> FALSE]]
    BY DEF Inventory!create_item
  <1>3. [of |-> Inventory!Row(of), retired |-> FALSE] \in Inventory!InventoryItem
    BY <1>1 DEF ItemWritten, Inventory!InventoryItem
  <1>4. UNCHANGED <<category, renamed, loan, active>>  BY DEF Inventory!create_item
  <1>5. PICK row \in Inventory!InventoryItem : row = [of |-> Inventory!Row(of), retired |-> FALSE]
    BY <1>3
  <1>6. ItemWritten(row.of)  BY <1>1, <1>5
  <1> QED BY <1>2, <1>4, <1>5, <1>6, PutItem

LEMMA UpdateItem ==
  ASSUME Inventory!BookAssumption, InventoryIInv, Inventory!Free, NEW i \in Inventory!There(item), NEW of \in Inventory!InventoryItemBase,
      of.quantity_total \in 0 .. MaxQuantity, Inventory!update_item(i, of), UNCHANGED handler
  PROVE  InventoryIInv'
  <1>1. ItemWritten(Inventory!Row(of))  BY RowGood DEF Inventory!update_item
  <1>2. PICK row : row = [item[i] EXCEPT !.of = Inventory!Row(of)]  OBVIOUS
  <1>3. i \in Items /\ item[i] \in Inventory!InventoryItem  BY RowsGood
  <1>4. row \in Inventory!InventoryItem /\ row.of = Inventory!Row(of)
    BY <1>1, <1>2, <1>3 DEF ItemWritten, Inventory!InventoryItem
  <1>5. item' = [item EXCEPT ![i] = row] /\ UNCHANGED <<category, renamed, loan, active>>
    BY <1>2 DEF Inventory!update_item
  <1>6. ItemWritten(row.of)  BY <1>1, <1>4
  <1> QED BY <1>3, <1>4, <1>5, <1>6, PutItem

LEMMA RetireItem ==
  ASSUME Inventory!BookAssumption, InventoryIInv, Inventory!Free, NEW i \in Inventory!There(item), Inventory!retire_item(i), UNCHANGED handler
  PROVE  InventoryIInv'
  <1>2. PICK row : row = [item[i] EXCEPT !.retired = TRUE]  OBVIOUS
  <1>3. i \in Items /\ item[i] \in Inventory!InventoryItem /\ ItemWritten(item[i].of)  BY RowsGood
  <1>4. row \in Inventory!InventoryItem /\ row.of = item[i].of  BY <1>2, <1>3 DEF Inventory!InventoryItem
  <1>5. item' = [item EXCEPT ![i] = row] /\ UNCHANGED <<category, renamed, loan, active>>
    BY <1>2 DEF Inventory!retire_item
  <1>6. ItemWritten(row.of)  BY <1>3, <1>4
  <1> QED BY <1>3, <1>4, <1>5, <1>6, PutItem

\* An item goes with its loans.
LEMMA DeleteItem ==
  ASSUME Inventory!BookAssumption, InventoryIInv, Inventory!Free, Inventory!item_delete, UNCHANGED handler
  PROVE  InventoryIInv'
  <1>1. PICK i \in Inventory!There(item) :
      /\ item' = [item EXCEPT ![i] = NoRow]
      /\ loan' = [l \in Loans |-> IF loan[l] # NoRow /\ loan[l].item = i THEN NoRow ELSE loan[l]]
    BY DEF Inventory!item_delete
  <1>2. UNCHANGED <<category, renamed, active>>  BY DEF Inventory!item_delete
  <1>3. /\ item \in [Items -> Inventory!InventoryItem \cup {NoRow}] /\ loan \in [Loans -> Inventory!ItemLoan \cup {NoRow}]
        /\ i \in Items  BY DEF InventoryIInv, Inventory!TypeOK, Inventory!There
  <1>4. /\ item' \in [Items -> Inventory!InventoryItem \cup {NoRow}]
        /\ Inventory!There(item)' = Inventory!There(item) \ {i}
        /\ \A j \in Inventory!There(item)' : item'[j] = item[j]  BY <1>1, <1>3 DEF Inventory!There
  <1>5. /\ loan' \in [Loans -> Inventory!ItemLoan \cup {NoRow}]
        /\ Inventory!There(loan)' \subseteq Inventory!There(loan)
        /\ \A l \in Inventory!There(loan)' : loan'[l] = loan[l] /\ loan[l].item # i
    BY <1>1, <1>3 DEF Inventory!There
  <1>6. Inventory!There(category)' = Inventory!There(category)  BY <1>2 DEF Inventory!There
  <1>7. IsFiniteSet(Inventory!There(loan)') /\ IsFiniteSet(Inventory!There(item)')
    BY <1>4, <1>5, FS_Subset DEF InventoryIInv
  <1>8. Inventory!TypeOK'
    <2>1. \A l \in Inventory!There(loan)' : loan'[l].item \in Inventory!There(item)'
      BY <1>4, <1>5 DEF InventoryIInv, Inventory!TypeOK
    <2>2. \A j \in Inventory!There(item)' : item'[j].of.category_id \in Inventory!There(category)' \cup {None}
      BY <1>4, <1>6 DEF InventoryIInv, Inventory!TypeOK
    <2> QED BY <1>2, <1>4, <1>5, <1>6, <2>1, <2>2 DEF InventoryIInv, Inventory!TypeOK
  <1>9. Given' /\ Owned'  BY <1>4 DEF InventoryIInv, Given, Owned
  <1>10. Stripped'  BY <1>2, <1>6 DEF InventoryIInv, Stripped
  <1> QED BY <1>7, <1>8, <1>9, <1>10, NoCheckoutDisturbed DEF InventoryIInv

\* A category's name is written.
LEMMA PutCategory ==
  ASSUME Inventory!BookAssumption, InventoryIInv, Inventory!Free, NEW c \in Categories, NEW name \in Inventory!Name,
      category' = [category EXCEPT ![c] = name], \A other \in Inventory!There(category) \ {c} : category[other] # name,
      renamed \subseteq renamed', renamed' \subseteq renamed \cup {c}, c \in renamed' \/ name.padded = FALSE,
      UNCHANGED <<item, loan, active, handler>>
  PROVE  InventoryIInv'
  <1>1. name # NoRow  BY DEF Inventory!BookAssumption
  <1>2. category \in [Categories -> Inventory!Name \cup {NoRow}]  BY DEF InventoryIInv, Inventory!TypeOK
  <1>3. /\ category' \in [Categories -> Inventory!Name \cup {NoRow}]
        /\ Inventory!There(category)' = Inventory!There(category) \cup {c}
        /\ category'[c] = name /\ \A b \in Categories \ {c} : category'[b] = category[b]
    BY <1>1, <1>2 DEF Inventory!There
  <1>4. Inventory!There(item)' = Inventory!There(item) /\ Inventory!There(loan)' = Inventory!There(loan) /\ Inventory!There(category) \subseteq Categories
    BY <1>2 DEF Inventory!There
  <1>5. \A c1, c2 \in Inventory!There(category)' : category'[c1] = category'[c2] => c1 = c2
    <2>1. \A c1, c2 \in Inventory!There(category) : category[c1] = category[c2] => c1 = c2
      BY DEF InventoryIInv, Inventory!TypeOK
    <2>2. \A b \in Inventory!There(category)' : b # c => category'[b] = category[b] /\ b \in Inventory!There(category) /\ category[b] # name
      BY <1>3, <1>4
    <2> QED BY <1>3, <2>1, <2>2
  <1>6. Inventory!TypeOK'
    <2>1. renamed' \subseteq Inventory!There(category)'  BY <1>3 DEF InventoryIInv, Inventory!TypeOK
    <2>2. \A i \in Inventory!There(item) : item[i].of.category_id \in Inventory!There(category)' \cup {None}
      BY <1>3 DEF InventoryIInv, Inventory!TypeOK
    <2> QED BY <1>3, <1>4, <1>5, <2>1, <2>2 DEF InventoryIInv, Inventory!TypeOK
  <1>7. Stripped'
    <2>1. \A b \in Inventory!There(category)' \ renamed' : category'[b].padded = FALSE
      BY <1>3, <1>4 DEF InventoryIInv, Stripped
    <2> QED BY <2>1 DEF Stripped
  <1>8. Given' /\ Owned'  BY <1>4 DEF InventoryIInv, Given, Owned
  <1> QED BY <1>4, <1>6, <1>7, <1>8, NoCheckoutDisturbed DEF InventoryIInv

LEMMA CreateCategory ==
  ASSUME Inventory!BookAssumption, InventoryIInv, Inventory!Free, NEW name \in Inventory!Name, Inventory!create_category(name), UNCHANGED handler
  PROVE  InventoryIInv'
  <1>1. PICK c \in Categories \ Inventory!There(category) : category' = [category EXCEPT ![c] = Inventory!strip(name)]
    BY DEF Inventory!create_category
  <1>2. Inventory!strip(name) \in Inventory!Name /\ Inventory!strip(name).padded = FALSE
    BY DEF Inventory!strip, Inventory!Name
  <1>3. PICK n \in Inventory!Name : n = Inventory!strip(name)  BY <1>2
  <1>4. /\ category' = [category EXCEPT ![c] = n] /\ \A other \in Inventory!There(category) \ {c} : category[other] # n
        /\ n.padded = FALSE /\ UNCHANGED <<renamed, item, loan, active>>
    BY <1>1, <1>2, <1>3 DEF Inventory!create_category
  <1> QED BY <1>1, <1>4, PutCategory

LEMMA UpdateCategory ==
  ASSUME Inventory!BookAssumption, InventoryIInv, Inventory!Free, Inventory!update_category, UNCHANGED handler
  PROVE  InventoryIInv'
  <1>1. PICK c \in Inventory!There(category), name \in Inventory!Name :
      /\ \A other \in Inventory!There(category) \ {c} : category[other] # name
      /\ category' = [category EXCEPT ![c] = name]
      /\ renamed' = renamed \cup {c}  BY DEF Inventory!update_category
  <1>2. c \in Categories  BY DEF InventoryIInv, Inventory!TypeOK, Inventory!There
  <1>3. UNCHANGED <<item, loan, active>>  BY DEF Inventory!update_category
  <1> QED BY <1>1, <1>2, <1>3, PutCategory

\* Items whose category goes are in none.
LEMMA DeleteCategory ==
  ASSUME Inventory!BookAssumption, InventoryIInv, Inventory!Free, NEW c \in Categories, Inventory!delete_category(c), UNCHANGED handler
  PROVE  InventoryIInv'
  <1>1. /\ category' = [category EXCEPT ![c] = NoRow]
        /\ renamed' = renamed \ {c}
        /\ item' = [i \in Items |->
               IF item[i] # NoRow /\ item[i].of.category_id = c THEN [item[i] EXCEPT !.of.category_id = None] ELSE item[i]]
        /\ UNCHANGED <<loan, active>>  BY DEF Inventory!delete_category
  <1>2. category \in [Categories -> Inventory!Name \cup {NoRow}] /\ item \in [Items -> Inventory!InventoryItem \cup {NoRow}]
    BY DEF InventoryIInv, Inventory!TypeOK
  <1>3. /\ category' \in [Categories -> Inventory!Name \cup {NoRow}]
        /\ Inventory!There(category)' = Inventory!There(category) \ {c}
        /\ \A b \in Inventory!There(category)' : category'[b] = category[b]
    BY <1>1, <1>2 DEF Inventory!There
  <1>4. ASSUME NEW i \in Inventory!There(item)
      PROVE  /\ item'[i] \in Inventory!InventoryItem /\ item'[i].of.category_id \in Inventory!There(category)' \cup {None}
             /\ item'[i].of.quantity_total \in 0 .. MaxQuantity
             /\ item'[i].of.owner_type = "MEMBER" <=> item'[i].of.owner_member_id # None
    <2>1. i \in Items /\ item[i] \in Inventory!InventoryItem /\ item[i] # NoRow /\ ItemWritten(item[i].of)
      BY RowsGood DEF Inventory!There
    <2>2. PICK row \in Inventory!InventoryItem : row = item[i] /\ ItemWritten(row.of)  BY <2>1
    <2>3. CASE row.of.category_id = c
      <3>1. item'[i] = [row EXCEPT !.of.category_id = None]  BY <1>1, <2>1, <2>2, <2>3
      <3>2. [row EXCEPT !.of.category_id = None] \in Inventory!InventoryItem
        BY DEF Inventory!InventoryItem, Inventory!InventoryItemBase
      <3>3. /\ [row EXCEPT !.of.category_id = None].of.category_id = None
            /\ [row EXCEPT !.of.category_id = None].of.quantity_total = row.of.quantity_total
            /\ [row EXCEPT !.of.category_id = None].of.owner_type = row.of.owner_type
            /\ [row EXCEPT !.of.category_id = None].of.owner_member_id = row.of.owner_member_id
        BY DEF Inventory!InventoryItem, Inventory!InventoryItemBase
      <3> QED BY <2>2, <3>1, <3>2, <3>3 DEF ItemWritten
    <2>4. CASE row.of.category_id # c
      <3>1. item'[i] = row  BY <1>1, <2>1, <2>2, <2>4
      <3> QED BY <1>3, <2>2, <2>4, <3>1 DEF ItemWritten
    <2> QED BY <2>3, <2>4
  <1>5. Inventory!There(item)' = Inventory!There(item)
    <2>1. DOMAIN item' = Items /\ DOMAIN item = Items  BY <1>1, <1>2
    <2>2. \A i \in Items : item[i] = NoRow => item'[i] = NoRow  BY <1>1
    <2>3. \A i \in Inventory!There(item) : item'[i] # NoRow  BY <1>4 DEF Inventory!BookAssumption
    <2> QED BY <2>1, <2>2, <2>3 DEF Inventory!There
  <1>6. item' \in [Items -> Inventory!InventoryItem \cup {NoRow}]
    <2>1. \A i \in Items : item'[i] \in Inventory!InventoryItem \cup {NoRow}
      <3>1. \A i \in Items \ Inventory!There(item) : item'[i] = NoRow  BY <1>1, <1>2 DEF Inventory!There
      <3> QED BY <1>4, <3>1
    <2>2. item' = [i \in Items |-> item'[i]]  BY <1>1
    <2> QED BY <2>1, <2>2
  <1>7. Inventory!There(loan)' = Inventory!There(loan)  BY <1>1 DEF Inventory!There
  <1>8. Inventory!TypeOK'
    <2>1. renamed' \subseteq Inventory!There(category)'  BY <1>1, <1>3 DEF InventoryIInv, Inventory!TypeOK
    <2>2. \A c1, c2 \in Inventory!There(category)' : category'[c1] = category'[c2] => c1 = c2
      BY <1>3 DEF InventoryIInv, Inventory!TypeOK
    <2>3. \A l \in Inventory!There(loan)' : loan'[l].item \in Inventory!There(item)'
      BY <1>1, <1>5, <1>7 DEF InventoryIInv, Inventory!TypeOK
    <2>4. \A i \in Inventory!There(item)' : item'[i].of.category_id \in Inventory!There(category)' \cup {None}
      BY <1>4, <1>5
    <2> QED BY <1>1, <1>3, <1>6, <2>1, <2>2, <2>3, <2>4 DEF InventoryIInv, Inventory!TypeOK
  <1>9. Given' /\ Owned'  BY <1>4, <1>5 DEF Given, Owned
  <1>10. Stripped'  BY <1>1, <1>3 DEF InventoryIInv, Stripped
  <1> QED BY <1>5, <1>7, <1>8, <1>9, <1>10, NoCheckoutDisturbed DEF InventoryIInv

-----------------------------------------------------------------------------
(* The loans. *)

\* What is out is counted in the loans, by item.
LEMMA SameOut ==
  ASSUME loan' = loan  PROVE \A i : Inventory!quantity_on_loan(i)' = Inventory!quantity_on_loan(i)
  BY DEF Inventory!quantity_on_loan, Inventory!There, Inventory!MapThenSumSet, Inventory!MapThenFoldSet

\* The rows of items and categories are as they were.
LEMMA RowsStay ==
  ASSUME InventoryIInv, UNCHANGED <<category, renamed, item, active>>
  PROVE  Given' /\ Owned' /\ Stripped' /\ Inventory!There(item)' = Inventory!There(item) /\ Inventory!There(category)' = Inventory!There(category)
  BY DEF InventoryIInv, Given, Owned, Stripped, Inventory!There

\* A checkout goes on; what it has read is no other's business while it is alone.
LEMMA CheckoutGoesOn ==
  ASSUME Inventory!BookAssumption, InventoryIInv, NEW h \in Handlers, NEW new \in Inventory!Checkout,
      handler' = [handler EXCEPT ![h] = new], UNCHANGED <<category, renamed, item, loan, active>>,
      new.step # "idle" => new.item \in Items /\ new.member \in Borrowers,
      new.step = "checked" => new.quantity >= 1,
      ~ Overlap /\ new.step # "idle" =>
          /\ \A k \in Handlers \ {h} : Inventory!At(k, "idle")
          /\ new.item \in Inventory!There(item)
          /\ new.total = item[new.item].of.quantity_total
          /\ new.step = "checked" => new.quantity <= Inventory!available_quantity(new.item, new.total)
  PROVE  InventoryIInv'
  <1>1. handler \in [Handlers -> Inventory!Checkout]  BY DEF InventoryIInv, Inventory!TypeOK
  <1>2. handler' \in [Handlers -> Inventory!Checkout] /\ handler'[h] = new /\ \A k \in Handlers \ {h} : handler'[k] = handler[k]
    BY <1>1
  <1>3. Inventory!There(item)' = Inventory!There(item) /\ Inventory!There(category)' = Inventory!There(category) /\ Inventory!There(loan)' = Inventory!There(loan)
    BY DEF Inventory!There
  <1>4. Inventory!TypeOK'  BY <1>2, <1>3 DEF InventoryIInv, Inventory!TypeOK
  <1>5. Fitting'  BY <1>2 DEF InventoryIInv, Fitting, Inventory!At
  <1>6. \A i, total : Inventory!available_quantity(i, total)' = Inventory!available_quantity(i, total)
    BY SameOut DEF Inventory!available_quantity
  <1>7. ~ Overlap => NothingBetween'
    <2> SUFFICES ASSUME ~ Overlap, NEW k \in Handlers, ~ Inventory!At(k, "idle")'
        PROVE  (/\ \A j \in Handlers \ {k} : Inventory!At(j, "idle")
                /\ handler[k].item \in Inventory!There(item)
                /\ handler[k].total = item[handler[k].item].of.quantity_total
                /\ Inventory!At(k, "checked") => handler[k].quantity <= Inventory!available_quantity(handler[k].item, handler[k].total))'
      BY DEF NothingBetween
    <2>1. CASE k = h
      <3>1. handler'[k] = new /\ new.step # "idle"  BY <1>2, <2>1 DEF Inventory!At
      <3>2. \A j \in Handlers \ {k} : Inventory!At(j, "idle")'  BY <1>2, <2>1, <3>1 DEF Inventory!At
      <3>3. new.step = "checked" => new.quantity <= Inventory!available_quantity(new.item, new.total)'
        BY <1>6, <3>1
      <3> QED BY <1>3, <3>1, <3>2, <3>3 DEF Inventory!At
    <2>2. CASE k # h
      <3>1. handler'[k] = handler[k] /\ ~ Inventory!At(k, "idle")  BY <1>2, <2>2 DEF Inventory!At
      <3>2. /\ \A j \in Handlers \ {k} : Inventory!At(j, "idle")
            /\ handler[k].item \in Inventory!There(item)
            /\ handler[k].total = item[handler[k].item].of.quantity_total
            /\ Inventory!At(k, "checked") => handler[k].quantity <= Inventory!available_quantity(handler[k].item, handler[k].total)
        BY <3>1 DEF InventoryIInv, NothingBetween
      <3>3. new.step = "idle"  BY <2>2, <3>1
      <3>4. \A j \in Handlers \ {k} : Inventory!At(j, "idle")'  BY <1>2, <3>2, <3>3 DEF Inventory!At
      <3>5. Inventory!At(k, "checked")' => handler[k].quantity <= Inventory!available_quantity(handler[k].item, handler[k].total)'
        BY <1>6, <3>1, <3>2 DEF Inventory!At
      <3> QED BY <1>3, <3>1, <3>2, <3>4, <3>5
    <2> QED BY <2>1, <2>2
  <1> QED BY <1>3, <1>4, <1>5, <1>7, RowsStay DEF InventoryIInv

LEMMA IdleGood ==
  ASSUME Inventory!BookAssumption
  PROVE  Inventory!Idle \in Inventory!Checkout /\ Inventory!Idle.step = "idle"
  BY DEF Inventory!Idle, Inventory!Checkout, Inventory!BookAssumption

LEMMA ItemRead ==
  ASSUME Inventory!BookAssumption, InventoryIInv, NEW h \in Handlers, NEW i \in Inventory!There(item), NEW m \in Borrowers,
      NEW quantity \in 0 .. MaxQuantity, NEW fee \in Fees \cup {None}, Inventory!CheckoutReadItem(h, i, m, quantity, fee)
  PROVE  InventoryIInv'
  <1>1. i \in Items /\ item[i] \in Inventory!InventoryItem /\ ItemWritten(item[i].of)  BY RowsGood
  <1>2. PICK new : new = [step |-> "item_read", item |-> i, member |-> m, quantity |-> quantity,
      fee |-> IF fee # None THEN fee ELSE item[i].of.default_loan_fee,
      total |-> item[i].of.quantity_total]  OBVIOUS
  <1>3. item[i].of.default_loan_fee \in Fees \cup {None} /\ item[i].of.quantity_total \in 0 .. MaxQuantity
    BY <1>1 DEF ItemWritten, Inventory!InventoryItemBase
  <1>4. new \in Inventory!Checkout  BY <1>1, <1>2, <1>3 DEF Inventory!Checkout
  <1>5. handler' = [handler EXCEPT ![h] = new] /\ UNCHANGED <<category, renamed, item, loan, active>> /\ Inventory!Free
    BY <1>2 DEF Inventory!CheckoutReadItem
  <1>6. ~ Overlap => \A k \in Handlers \ {h} : Inventory!At(k, "idle")  BY <1>5 DEF Inventory!Free
  <1>7. new.step = "item_read" /\ new.item = i /\ new.member = m /\ new.total = item[i].of.quantity_total
    BY <1>2
  <1> QED BY <1>1, <1>4, <1>5, <1>6, <1>7, CheckoutGoesOn

LEMMA CheckoutAnswered ==
  ASSUME Inventory!BookAssumption, InventoryIInv, NEW h \in Handlers, Inventory!Answer(h), UNCHANGED <<category, renamed, item, loan, active>>
  PROVE  InventoryIInv'
  <1>1. PICK new \in Inventory!Checkout : new = Inventory!Idle /\ new.step = "idle"  BY IdleGood
  <1>2. handler' = [handler EXCEPT ![h] = new]  BY <1>1 DEF Inventory!Answer
  <1> QED BY <1>1, <1>2, CheckoutGoesOn

LEMMA LoansRead ==
  ASSUME Inventory!BookAssumption, InventoryIInv, NEW h \in Handlers, Inventory!CheckoutReadLoans(h)
  PROVE  InventoryIInv'
  <1>1. PICK me \in Inventory!Checkout : me = handler[h]  BY DEF InventoryIInv, Inventory!TypeOK
  <1>2. me.step = "item_read" /\ UNCHANGED <<category, renamed, item, loan, active>>
    BY <1>1 DEF Inventory!CheckoutReadLoans, Inventory!At
  <1>3. CASE me.quantity < 1 \/ me.quantity > Inventory!available_quantity(me.item, me.total)
    <2>1. Inventory!Answer(h)  BY <1>1, <1>3 DEF Inventory!CheckoutReadLoans
    <2> QED BY <1>2, <2>1, CheckoutAnswered
  <1>4. CASE ~ (me.quantity < 1 \/ me.quantity > Inventory!available_quantity(me.item, me.total))
    <2>1. PICK new : new = [me EXCEPT !.step = "checked"]  OBVIOUS
    <2>2. handler' = [handler EXCEPT ![h] = new]  BY <1>1, <1>4, <2>1 DEF Inventory!CheckoutReadLoans
    <2>3. /\ new \in Inventory!Checkout /\ new.step = "checked" /\ new.item = me.item /\ new.member = me.member
          /\ new.quantity = me.quantity /\ new.total = me.total  BY <2>1 DEF Inventory!Checkout
    <2>4. me.item \in Items /\ me.member \in Borrowers
      BY <1>1, <1>2 DEF InventoryIInv, Fitting, Inventory!At
    <2>5. IsFiniteSet(Inventory!There(loan)) /\ Inventory!TypeOK  BY DEF InventoryIInv
    <2>6. PICK n \in Nat : n = Inventory!quantity_on_loan(me.item)  BY <2>4, <2>5, OutIsNatural
    <2>7. PICK q \in Nat, t \in Nat : q = me.quantity /\ t = me.total
      BY DEF Inventory!Checkout, Inventory!BookAssumption
    <2>8. Inventory!available_quantity(me.item, me.total) = IF t > n THEN t - n ELSE 0
      BY <2>6, <2>7 DEF Inventory!available_quantity
    <2>9. q >= 1 /\ q <= (IF t > n THEN t - n ELSE 0)  BY <1>4, <2>6, <2>7, <2>8
    <2>10. ~ Overlap => /\ \A k \in Handlers \ {h} : Inventory!At(k, "idle")
                        /\ me.item \in Inventory!There(item)
                        /\ me.total = item[me.item].of.quantity_total
      BY <1>1, <1>2 DEF InventoryIInv, NothingBetween, Inventory!At
    <2>11. new.quantity >= 1 /\ new.quantity <= Inventory!available_quantity(new.item, new.total)
      BY <2>3, <2>7, <2>8, <2>9
    <2> QED BY <1>2, <2>2, <2>3, <2>4, <2>10, <2>11, CheckoutGoesOn
  <1> QED BY <1>3, <1>4

\* Every checkout is done, and no other is disturbed, since there is none unless they overlap.
LEMMA CheckoutDone ==
  ASSUME Inventory!BookAssumption, InventoryIInv, NEW h \in Handlers, ~ Inventory!At(h, "idle"), Inventory!Answer(h)
  PROVE  /\ handler' \in [Handlers -> Inventory!Checkout] /\ Fitting'
         /\ ~ Overlap => NothingBetween'
  <1>1. handler \in [Handlers -> Inventory!Checkout]  BY DEF InventoryIInv, Inventory!TypeOK
  <1>2. PICK new \in Inventory!Checkout : new = Inventory!Idle /\ new.step = "idle"  BY IdleGood
  <1>3. handler' = [handler EXCEPT ![h] = new]  BY <1>2 DEF Inventory!Answer
  <1>4. handler' \in [Handlers -> Inventory!Checkout] /\ handler'[h] = new /\ \A k \in Handlers \ {h} : handler'[k] = handler[k]
    BY <1>1, <1>3
  <1>5. Fitting'  BY <1>2, <1>4 DEF InventoryIInv, Fitting, Inventory!At
  <1>6. ASSUME ~ Overlap PROVE \A k \in Handlers : Inventory!At(k, "idle")'
    <2>1. \A k \in Handlers \ {h} : Inventory!At(k, "idle")  BY <1>6 DEF InventoryIInv, NothingBetween
    <2> QED BY <1>2, <1>4, <2>1 DEF Inventory!At
  <1>7. ~ Overlap => NothingBetween'  BY <1>6 DEF NothingBetween
  <1> QED BY <1>4, <1>5, <1>7

\* What a commit does to the loans.
LEMMA Lends ==
  ASSUME Inventory!BookAssumption, InventoryIInv, NEW h \in Handlers, Inventory!CheckoutCommit(h), item[handler[h].item] # NoRow
  PROVE  \E n \in Loans \ Inventory!There(loan) :
             /\ loan'[n] \in Inventory!ItemLoan /\ loan'[n].item = handler[h].item
             /\ loan'[n].quantity = handler[h].quantity /\ loan'[n].returned = FALSE
             /\ loan'[n].item \in Inventory!There(item)
             /\ loan' \in [Loans -> Inventory!ItemLoan \cup {NoRow}]
             /\ Inventory!There(loan)' = Inventory!There(loan) \cup {n}
             /\ \A l \in Inventory!There(loan) : loan'[l] = loan[l]
  <1>1. PICK me \in Inventory!Checkout : me = handler[h]  BY DEF InventoryIInv, Inventory!TypeOK
  <1>2. Inventory!At(h, "checked")  BY DEF Inventory!CheckoutCommit
  <1>3. me.item \in Items /\ me.member \in Borrowers /\ me.quantity >= 1
    BY <1>1, <1>2 DEF InventoryIInv, Fitting, Inventory!At
  <1>4. PICK row : row = [item |-> me.item, member |-> me.member, quantity |-> me.quantity,
      fee_charged |-> me.fee, returned |-> FALSE]  OBVIOUS
  <1>5. me.quantity \in 1 .. MaxQuantity  BY <1>3 DEF Inventory!Checkout, Inventory!BookAssumption
  <1>6. row \in Inventory!ItemLoan  BY <1>3, <1>4, <1>5 DEF Inventory!ItemLoan, Inventory!Checkout
  <1>7. PICK n \in Loans \ Inventory!There(loan) : loan' = [loan EXCEPT ![n] = row]
    BY <1>1, <1>4 DEF Inventory!CheckoutCommit
  <1>8. row # NoRow  BY <1>6 DEF Inventory!BookAssumption
  <1>9. loan \in [Loans -> Inventory!ItemLoan \cup {NoRow}]  BY DEF InventoryIInv, Inventory!TypeOK
  <1>10. /\ loan'[n] = row /\ loan' \in [Loans -> Inventory!ItemLoan \cup {NoRow}]
         /\ Inventory!There(loan)' = Inventory!There(loan) \cup {n}
         /\ \A l \in Inventory!There(loan) : loan'[l] = loan[l]
    BY <1>6, <1>7, <1>8, <1>9 DEF Inventory!There
  <1>11. me.item \in Inventory!There(item)
    BY <1>1, <1>3 DEF InventoryIInv, Inventory!TypeOK, Inventory!There
  <1> QED BY <1>1, <1>4, <1>6, <1>7, <1>10, <1>11

LEMMA CheckoutCommitted ==
  ASSUME Inventory!BookAssumption, InventoryIInv, NEW h \in Handlers, Inventory!CheckoutCommit(h)
  PROVE  InventoryIInv'
  <1>1. UNCHANGED <<category, renamed, item, active>> /\ Inventory!Answer(h) /\ ~ Inventory!At(h, "idle")
    BY DEF Inventory!CheckoutCommit, Inventory!At
  <1>2. CASE item[handler[h].item] = NoRow
    <2>1. UNCHANGED loan  BY <1>2 DEF Inventory!CheckoutCommit
    <2> QED BY <1>1, <2>1, CheckoutAnswered
  <1>3. CASE item[handler[h].item] # NoRow
    <2>1. PICK n \in Loans \ Inventory!There(loan) :
        /\ loan'[n].item \in Inventory!There(item)
        /\ loan' \in [Loans -> Inventory!ItemLoan \cup {NoRow}]
        /\ Inventory!There(loan)' = Inventory!There(loan) \cup {n}
        /\ \A l \in Inventory!There(loan) : loan'[l] = loan[l]  BY <1>3, Lends
    <2>2. IsFiniteSet(Inventory!There(loan)')  BY <2>1, FS_AddElement DEF InventoryIInv
    <2>3. \A l \in Inventory!There(loan)' : loan'[l].item \in Inventory!There(item)'
      BY <1>1, <2>1, RowsStay DEF InventoryIInv, Inventory!TypeOK
    <2>4. Inventory!TypeOK'
      BY <1>1, <2>1, <2>3, CheckoutDone, RowsStay DEF InventoryIInv, Inventory!TypeOK
    <2> QED BY <1>1, <2>2, <2>4, CheckoutDone, RowsStay DEF InventoryIInv
  <1> QED BY <1>2, <1>3

\* A loan is returned.
LEMMA LoanReturned ==
  ASSUME Inventory!BookAssumption, InventoryIInv, Inventory!Free, NEW l \in Inventory!There(loan), Inventory!return_loan(l), UNCHANGED handler
  PROVE  /\ InventoryIInv'
         /\ Inventory!There(loan)' = Inventory!There(loan)
         /\ \A k \in Inventory!There(loan) : loan'[k].item = loan[k].item /\ loan'[k].quantity = loan[k].quantity
                                   /\ (loan[k].returned => loan'[k].returned)
  <1>1. loan \in [Loans -> Inventory!ItemLoan \cup {NoRow}] /\ l \in Loans
    BY DEF InventoryIInv, Inventory!TypeOK, Inventory!There
  <1>2. PICK row \in Inventory!ItemLoan : row = loan[l]  BY <1>1 DEF Inventory!There
  <1>3. PICK new : new = [row EXCEPT !.returned = TRUE]  OBVIOUS
  <1>4. new \in Inventory!ItemLoan /\ new.item = row.item /\ new.quantity = row.quantity /\ new.returned
    BY <1>3 DEF Inventory!ItemLoan
  <1>5. new # NoRow  BY <1>4 DEF Inventory!BookAssumption
  <1>6. loan' = [loan EXCEPT ![l] = new] /\ UNCHANGED <<category, renamed, item, active>>
    BY <1>2, <1>3 DEF Inventory!return_loan
  <1>7. /\ loan' \in [Loans -> Inventory!ItemLoan \cup {NoRow}] /\ Inventory!There(loan)' = Inventory!There(loan)
        /\ loan'[l] = new /\ \A k \in Loans \ {l} : loan'[k] = loan[k]
    BY <1>1, <1>4, <1>5, <1>6 DEF Inventory!There
  <1>8. \A k \in Inventory!There(loan) : loan'[k].item = loan[k].item /\ loan'[k].quantity = loan[k].quantity
                               /\ (loan[k].returned => loan'[k].returned)
    <2>1. Inventory!There(loan) \subseteq Loans  BY <1>1 DEF Inventory!There
    <2> QED BY <1>2, <1>4, <1>7, <2>1
  <1>9. \A k \in Inventory!There(loan)' : loan'[k].item \in Inventory!There(item)'
    BY <1>6, <1>7, <1>8, RowsStay DEF InventoryIInv, Inventory!TypeOK
  <1>10. Inventory!TypeOK'  BY <1>6, <1>7, <1>9, RowsStay DEF InventoryIInv, Inventory!TypeOK
  <1> QED BY <1>6, <1>7, <1>8, <1>10, NoCheckoutDisturbed, RowsStay DEF InventoryIInv

LEMMA MembersChange ==
  ASSUME Inventory!BookAssumption, InventoryIInv, Inventory!Free, Inventory!MembershipChanges, UNCHANGED handler
  PROVE  InventoryIInv'
  <1>1. UNCHANGED <<category, renamed, item, loan>> /\ active' \subseteq Borrowers
    BY DEF Inventory!MembershipChanges, InventoryIInv, Inventory!TypeOK
  <1>2. Inventory!There(item)' = Inventory!There(item) /\ Inventory!There(category)' = Inventory!There(category) /\ Inventory!There(loan)' = Inventory!There(loan)
    BY <1>1 DEF Inventory!There
  <1>3. Inventory!TypeOK'  BY <1>1, <1>2 DEF InventoryIInv, Inventory!TypeOK
  <1>4. Given' /\ Owned' /\ Stripped'  BY <1>1, <1>2 DEF InventoryIInv, Given, Owned, Stripped
  <1> QED BY <1>2, <1>3, <1>4, NoCheckoutDisturbed DEF InventoryIInv

-----------------------------------------------------------------------------
(* The invariant. *)

LEMMA InventoryIInvInit == Inventory!BookAssumption /\ Inventory!Init => InventoryIInv
  <1> SUFFICES ASSUME Inventory!BookAssumption, Inventory!Init PROVE InventoryIInv  OBVIOUS
  <1>1. Inventory!There(category) = {} /\ Inventory!There(item) = {} /\ Inventory!There(loan) = {}
    BY DEF Inventory!Init, Inventory!There
  <1>2. \A h \in Handlers : handler[h] = Inventory!Idle  BY DEF Inventory!Init
  <1>3. Inventory!TypeOK
    <2>1. handler \in [Handlers -> Inventory!Checkout]  BY IdleGood DEF Inventory!Init
    <2> QED BY <1>1, <2>1 DEF Inventory!Init, Inventory!TypeOK
  <1>4. IsFiniteSet(Inventory!There(loan)) /\ IsFiniteSet(Inventory!There(item))  BY <1>1, FS_EmptySet
  <1>5. Fitting /\ NothingBetween  BY <1>2, IdleGood DEF Fitting, NothingBetween, Inventory!At
  <1> QED BY <1>1, <1>3, <1>4, <1>5 DEF InventoryIInv, Given, Owned, Stripped

LEMMA CheckoutsStep ==
  ASSUME Inventory!BookAssumption, InventoryIInv, NEW h \in Handlers, Inventory!Checkouts(h)
  PROVE  InventoryIInv'
  <1>1. CASE Inventory!loan_checkout(h)
    <2>1. PICK i \in Inventory!There(item), m \in active, quantity \in 0 .. MaxQuantity, fee \in Fees \cup {None} :
        Inventory!CheckoutReadItem(h, i, m, quantity, fee)
      BY <1>1, Zenon DEF Inventory!loan_checkout
    <2>2. m \in Borrowers  BY DEF InventoryIInv, Inventory!TypeOK
    <2> QED BY <2>1, <2>2, ItemRead
  <1>2. CASE Inventory!create_loan(h)  BY <1>2, ItemRead DEF Inventory!create_loan
  <1>3. CASE Inventory!CheckoutReadLoans(h)  BY <1>3, LoansRead
  <1>4. CASE Inventory!CheckoutCommit(h)  BY <1>4, CheckoutCommitted
  <1>5. CASE Inventory!Rollback(h)  BY <1>5, CheckoutAnswered DEF Inventory!Rollback
  <1> QED BY <1>1, <1>2, <1>3, <1>4, <1>5 DEF Inventory!Checkouts

LEMMA RequestsStep ==
  ASSUME Inventory!BookAssumption, InventoryIInv, Inventory!Free, Inventory!Requests, UNCHANGED handler
  PROVE  InventoryIInv'
  <1>0. Inventory!TypeOK /\ Entries \subseteq Inventory!InventoryItemBase
    BY DEF InventoryIInv, Inventory!BookAssumption
  <1>1. CASE Inventory!category_create \/ Inventory!create_category_endpoint
    BY <1>1, CreateCategory DEF Inventory!category_create, Inventory!create_category_endpoint
  <1>2. CASE Inventory!update_category  BY <1>2, UpdateCategory
  <1>3. CASE Inventory!category_delete \/ Inventory!delete_category_endpoint
    BY <1>3, DeleteCategory DEF Inventory!category_delete, Inventory!delete_category_endpoint
  <1>4. CASE Inventory!item_create
    <2>1. PICK form \in Entries : Inventory!create_item(Inventory!_item_fields_from_form(form))
      BY <1>4 DEF Inventory!item_create
    <2> QED BY <1>0, <2>1, EntryGood, CreateItem
  <1>5. CASE Inventory!create_item_endpoint
    <2>1. PICK entry \in Entries : Inventory!create_item(Inventory!Body(entry))
      BY <1>5 DEF Inventory!create_item_endpoint
    <2> QED BY <1>0, <2>1, EntryGood, CreateItem
  <1>6. CASE Inventory!item_update
    <2>1. PICK i \in Inventory!There(item) : \E form \in Entries \cup {Inventory!_item_form_context(i)} :
        Inventory!update_item(i, Inventory!_item_fields_from_form(form))
      BY <1>6 DEF Inventory!item_update
    <2>2. PICK form \in Entries \cup {Inventory!_item_form_context(i)} : Inventory!update_item(i, Inventory!_item_fields_from_form(form))
      BY <2>1
    <2>3. form \in Inventory!InventoryItemBase  BY <1>0, ContextGood
    <2> QED BY <2>2, <2>3, EntryGood, UpdateItem
  <1>7. CASE Inventory!update_item_endpoint
    <2>1. PICK i \in Inventory!There(item), entry \in Entries : Inventory!update_item(i, Inventory!Body(entry))
      BY <1>7 DEF Inventory!update_item_endpoint
    <2> QED BY <1>0, <2>1, EntryGood, UpdateItem
  <1>8. CASE Inventory!item_retire \/ Inventory!retire_item_endpoint
    BY <1>8, RetireItem DEF Inventory!item_retire, Inventory!retire_item_endpoint
  <1>9. CASE Inventory!item_delete \/ Inventory!delete_item  BY <1>9, DeleteItem DEF Inventory!delete_item
  <1>10. CASE Inventory!loan_return \/ Inventory!return_loan_endpoint
    BY <1>10, LoanReturned DEF Inventory!loan_return, Inventory!return_loan_endpoint
  <1>11. CASE Inventory!MembershipChanges  BY <1>11, MembersChange
  <1> QED BY <1>1, <1>2, <1>3, <1>4, <1>5, <1>6, <1>7, <1>8, <1>9, <1>10, <1>11 DEF Inventory!Requests

LEMMA IInvStep == Inventory!BookAssumption /\ InventoryIInv /\ [Inventory!Next]_(Inventory!vars) => InventoryIInv'
  <1> SUFFICES ASSUME Inventory!BookAssumption, InventoryIInv, [Inventory!Next]_(Inventory!vars) PROVE InventoryIInv'
    OBVIOUS
  <1>1. CASE \E h \in Handlers : Inventory!Checkouts(h)  BY <1>1, CheckoutsStep
  <1>2. CASE Inventory!Free /\ Inventory!Requests /\ UNCHANGED handler  BY <1>2, RequestsStep
  <1>3. CASE UNCHANGED Inventory!vars
    <2>1. UNCHANGED <<category, renamed, item, loan, active, handler>>  BY <1>3 DEF Inventory!vars
    <2>2. Inventory!There(item)' = Inventory!There(item) /\ Inventory!There(category)' = Inventory!There(category) /\ Inventory!There(loan)' = Inventory!There(loan)
      BY <2>1 DEF Inventory!There
    <2>3. \A i, total : Inventory!available_quantity(i, total)' = Inventory!available_quantity(i, total)
      BY <2>1, SameOut DEF Inventory!available_quantity
    <2>4. Inventory!TypeOK'  BY <2>1, <2>2 DEF InventoryIInv, Inventory!TypeOK
    <2>5. Given' /\ Owned' /\ Stripped'  BY <2>1, <2>2 DEF InventoryIInv, Given, Owned, Stripped
    <2>6. Fitting'  BY <2>1 DEF InventoryIInv, Fitting, Inventory!At
    <2>7. ~ Overlap => NothingBetween'
      BY <2>1, <2>2, <2>3 DEF InventoryIInv, NothingBetween, Inventory!At
    <2> QED BY <2>2, <2>4, <2>5, <2>6, <2>7 DEF InventoryIInv
  <1> QED BY <1>1, <1>2, <1>3 DEF Inventory!Next

LEMMA InventoryInvariance == ASSUME Inventory!BookAssumption PROVE Inventory!Spec => []InventoryIInv
  <1>1. Inventory!Init => InventoryIInv  BY InventoryIInvInit
  <1>2. InventoryIInv /\ [Inventory!Next]_(Inventory!vars) => InventoryIInv'  BY IInvStep
  <1> QED BY <1>1, <1>2, PTL DEF Inventory!Spec

-----------------------------------------------------------------------------
(* Theorems. *)

\* For any ids and names and whatever is filled in, the tables hold well-formed rows
\* whose references lead to rows, and no name of a category is there twice.
THEOREM InventoryTypeCorrect ==
  ASSUME Inventory!BookAssumption  PROVE Inventory!Spec => []Inventory!TypeOK
  <1>1. InventoryIInv => Inventory!TypeOK  BY DEF InventoryIInv
  <1> QED BY <1>1, InventoryInvariance, PTL

LEMMA NothingLent ==
  ASSUME Inventory!BookAssumption, InventoryIInv, UNCHANGED loan  PROVE Inventory!NeverOverLent
  <1> SUFFICES ASSUME NEW i \in Inventory!There(item)
      PROVE  ~ (Inventory!quantity_on_loan(i)' > Inventory!quantity_on_loan(i))
    BY DEF Inventory!NeverOverLent
  <1>1. i \in Items /\ Inventory!TypeOK /\ IsFiniteSet(Inventory!There(loan))
    BY RowsGood DEF InventoryIInv
  <1>2. PICK n \in Nat : n = Inventory!quantity_on_loan(i)  BY <1>1, OutIsNatural
  <1>3. Inventory!quantity_on_loan(i)' = n  BY <1>2, SameOut
  <1> QED BY <1>2, <1>3

\* Loans that end lend nothing.
LEMMA LoansEnd ==
  ASSUME Inventory!BookAssumption, InventoryIInv, InventoryIInv', Inventory!There(loan)' \subseteq Inventory!There(loan),
      \A l \in Inventory!There(loan)' : loan'[l].item = loan[l].item /\ loan'[l].quantity = loan[l].quantity
                              /\ (loan[l].returned => loan'[l].returned)
  PROVE  Inventory!NeverOverLent
  <1> SUFFICES ASSUME NEW i \in Inventory!There(item)
      PROVE  ~ (Inventory!quantity_on_loan(i)' > Inventory!quantity_on_loan(i))
    BY DEF Inventory!NeverOverLent
  <1>1. i \in Items  BY RowsGood
  <1>2. Out(i)' \subseteq Out(i) /\ \A l \in Out(i)' : loan'[l].quantity = loan[l].quantity  BY DEF Out
  <1> QED BY <1>1, <1>2, LessIsOut DEF InventoryIInv

\* The one checkout that commits lends what its reads found to be there.
LEMMA CommitLends ==
  ASSUME Inventory!BookAssumption, ~ Overlap, InventoryIInv, NEW h \in Handlers, Inventory!CheckoutCommit(h)
  PROVE  Inventory!NeverOverLent
  <1>0. InventoryIInv'  BY CheckoutCommitted
  <1>1. CASE item[handler[h].item] = NoRow
    <2>1. UNCHANGED loan  BY <1>1 DEF Inventory!CheckoutCommit
    <2> QED BY <2>1, NothingLent
  <1>2. CASE item[handler[h].item] # NoRow
    <2>1. PICK n \in Loans \ Inventory!There(loan) :
        /\ loan'[n] \in Inventory!ItemLoan /\ loan'[n].item = handler[h].item
        /\ loan'[n].quantity = handler[h].quantity /\ loan'[n].returned = FALSE
        /\ Inventory!There(loan)' = Inventory!There(loan) \cup {n}
        /\ \A l \in Inventory!There(loan) : loan'[l] = loan[l]  BY <1>2, Lends
    <2>2. PICK me \in Inventory!Checkout : me = handler[h]  BY DEF InventoryIInv, Inventory!TypeOK
    <2>3. /\ me.item \in Inventory!There(item) /\ me.total = item[me.item].of.quantity_total
          /\ me.quantity <= Inventory!available_quantity(me.item, me.total) /\ me.quantity >= 1
      BY <2>2 DEF Inventory!CheckoutCommit, InventoryIInv, NothingBetween, Fitting, Inventory!At
    <2>4. UNCHANGED item  BY DEF Inventory!CheckoutCommit
    <2> SUFFICES ASSUME NEW i \in Inventory!There(item), Inventory!quantity_on_loan(i)' > Inventory!quantity_on_loan(i)
        PROVE  Inventory!quantity_on_loan(i)' <= item'[i].of.quantity_total
      BY DEF Inventory!NeverOverLent
    <2>5. i \in Items  BY RowsGood
    <2>6. i = me.item
      <3> SUFFICES ASSUME i # me.item PROVE FALSE  OBVIOUS
      <3>1. Out(i)' \subseteq Out(i) /\ \A l \in Out(i)' : loan'[l].quantity = loan[l].quantity
        BY <2>1, <2>2 DEF Out
      <3> QED BY <1>0, <2>5, <3>1, LessIsOut DEF InventoryIInv
    <2>7. Out(i)' = Out(i) \cup {n} /\ \A k \in Out(i) : loan'[k].quantity = loan[k].quantity
      BY <2>1, <2>2, <2>6 DEF Out
    <2>8. /\ Inventory!quantity_on_loan(i) \in Nat /\ loan'[n].quantity \in Nat
          /\ Inventory!quantity_on_loan(i)' = loan'[n].quantity + Inventory!quantity_on_loan(i)
      BY <1>0, <2>1, <2>5, <2>7, MoreIsOut DEF InventoryIInv
    <2>9. PICK o \in Nat, q \in Nat, t \in Nat : o = Inventory!quantity_on_loan(i) /\ q = me.quantity /\ t = me.total
      BY <2>8 DEF Inventory!Checkout, Inventory!BookAssumption
    <2>10. Inventory!available_quantity(me.item, me.total) = IF t > o THEN t - o ELSE 0
      BY <2>6, <2>9 DEF Inventory!available_quantity
    <2>11. q >= 1 /\ q <= (IF t > o THEN t - o ELSE 0)  BY <2>3, <2>9, <2>10
    <2>12. q + o <= t  BY <2>11
    <2>13. Inventory!quantity_on_loan(i)' = q + o  BY <2>1, <2>2, <2>8, <2>9
    <2> QED BY <2>3, <2>4, <2>6, <2>9, <2>12, <2>13
  <1> QED BY <1>1, <1>2

LEMMA RequestsLend ==
  ASSUME Inventory!BookAssumption, InventoryIInv, Inventory!Free, Inventory!Requests, UNCHANGED handler
  PROVE  Inventory!NeverOverLent
  <1>0. InventoryIInv'  BY RequestsStep
  <1>1. CASE Inventory!item_delete \/ Inventory!delete_item
    <2>1. PICK i \in Inventory!There(item) :
        loan' = [l \in Loans |-> IF loan[l] # NoRow /\ loan[l].item = i THEN NoRow ELSE loan[l]]
      BY <1>1 DEF Inventory!item_delete, Inventory!delete_item
    <2>2. loan \in [Loans -> Inventory!ItemLoan \cup {NoRow}]  BY DEF InventoryIInv, Inventory!TypeOK
    <2>3. Inventory!There(loan)' \subseteq Inventory!There(loan) /\ \A l \in Inventory!There(loan)' : loan'[l] = loan[l]
      BY <2>1, <2>2 DEF Inventory!There
    <2> QED BY <1>0, <2>3, LoansEnd
  <1>2. CASE Inventory!loan_return \/ Inventory!return_loan_endpoint
    <2>1. PICK l \in Inventory!There(loan) : Inventory!return_loan(l)
      BY <1>2 DEF Inventory!loan_return, Inventory!return_loan_endpoint
    <2>2. /\ Inventory!There(loan)' = Inventory!There(loan)
          /\ \A k \in Inventory!There(loan) : loan'[k].item = loan[k].item /\ loan'[k].quantity = loan[k].quantity
                                     /\ (loan[k].returned => loan'[k].returned)  BY <2>1, LoanReturned
    <2> QED BY <1>0, <2>2, LoansEnd
  <1>3. CASE Inventory!category_create \/ Inventory!create_category_endpoint \/ Inventory!update_category \/ Inventory!category_delete \/ Inventory!delete_category_endpoint
    BY <1>3, NothingLent
       DEF Inventory!category_create, Inventory!create_category_endpoint, Inventory!update_category, Inventory!category_delete, Inventory!delete_category_endpoint,
           Inventory!create_category, Inventory!delete_category
  <1>4. CASE Inventory!item_create \/ Inventory!create_item_endpoint \/ Inventory!item_update \/ Inventory!update_item_endpoint
    BY <1>4, NothingLent
       DEF Inventory!item_create, Inventory!create_item_endpoint, Inventory!item_update, Inventory!update_item_endpoint, Inventory!create_item, Inventory!update_item
  <1>5. CASE Inventory!item_retire \/ Inventory!retire_item_endpoint \/ Inventory!MembershipChanges
    BY <1>5, NothingLent DEF Inventory!item_retire, Inventory!retire_item_endpoint,
       Inventory!retire_item, Inventory!MembershipChanges
  <1> QED BY <1>1, <1>2, <1>3, <1>4, <1>5 DEF Inventory!Requests

\* While nothing comes between a checkout's reads and its commit, no step ever lends
\* more units of an item than exist and are not lent yet (loan_checkout, create_loan).
THEOREM LendsOnlyWhatIsThere ==
  ASSUME Inventory!BookAssumption, ~ Overlap
  PROVE  Inventory!Spec => [][Inventory!NeverOverLent]_(Inventory!vars)
  <1>1. InventoryIInv /\ [Inventory!Next]_(Inventory!vars) => [Inventory!NeverOverLent]_(Inventory!vars)
    <2> SUFFICES ASSUME InventoryIInv, Inventory!Next PROVE Inventory!NeverOverLent  OBVIOUS
    <2>1. CASE \E h \in Handlers : Inventory!Checkouts(h)
      <3>1. PICK h \in Handlers : Inventory!Checkouts(h)  BY <2>1
      <3>2. CASE Inventory!CheckoutCommit(h)  BY <3>2, CommitLends
      <3>3. CASE Inventory!loan_checkout(h) \/ Inventory!create_loan(h) \/ Inventory!CheckoutReadLoans(h) \/ Inventory!Rollback(h)
        BY <3>3, NothingLent DEF Inventory!loan_checkout, Inventory!create_loan,
           Inventory!CheckoutReadItem, Inventory!CheckoutReadLoans, Inventory!Rollback
      <3> QED BY <3>1, <3>2, <3>3 DEF Inventory!Checkouts
    <2>2. CASE Inventory!Free /\ Inventory!Requests /\ UNCHANGED handler  BY <2>2, RequestsLend
    <2> QED BY <2>1, <2>2 DEF Inventory!Next
  <1>2. Inventory!Spec => []InventoryIInv  BY InventoryInvariance
  <1> QED BY <1>1, <1>2, PTL DEF Inventory!Spec

\* Saving an item as its page shows it (_item_form_context) changes nothing but a text
\* there was not, unless its owner has left the active members.
THEOREM SavedAsShown ==
  ASSUME Inventory!BookAssumption  PROVE Inventory!Spec => []Inventory!SavingAsShownKeepsTheItem
  <1>1. ASSUME InventoryIInv PROVE Inventory!SavingAsShownKeepsTheItem
    <2> SUFFICES ASSUME NEW i \in Inventory!There(item),
               NEW saved, saved = Inventory!_item_fields_from_form(Inventory!_item_form_context(i))
        PROVE  IF Inventory!validate_owner(saved)
               THEN [Inventory!Row(saved) EXCEPT !.text = None] = [item[i].of EXCEPT !.text = None]
                    /\ (item[i].of.text \in {"none", "text"} => saved.text = item[i].of.text)
               ELSE item[i].of.owner_member_id \notin active
      BY DEF Inventory!SavingAsShownKeepsTheItem
    <2>1. PICK of \in Inventory!InventoryItemBase : of = item[i].of /\ ItemWritten(of)
      BY <1>1, RowsGood DEF ItemWritten
    <2>2. PICK shown : shown = Inventory!_item_form_context(i)  OBVIOUS
    <2>3. shown = [of EXCEPT !.text = IF @ = None THEN "none" ELSE @,
        !.owner_member_id = IF @ \in active THEN @ ELSE None]
      BY <2>1, <2>2 DEF Inventory!_item_form_context
    <2>4. shown \in Inventory!InventoryItemBase  BY <1>1, <2>2, ContextGood DEF InventoryIInv
    <2>5. /\ shown.text = (IF of.text = None THEN "none" ELSE of.text)
          /\ shown.owner_member_id = (IF of.owner_member_id \in active THEN of.owner_member_id ELSE None)
          /\ shown.quantity_total = of.quantity_total /\ shown.category_id = of.category_id
          /\ shown.owner_type = of.owner_type /\ shown.is_borrowable = of.is_borrowable
          /\ shown.default_loan_fee = of.default_loan_fee  BY <2>3 DEF Inventory!InventoryItemBase
    <2>6. of.quantity_total # None  BY <2>1 DEF ItemWritten, Inventory!BookAssumption
    <2>7. saved \in Inventory!InventoryItemBase  BY <2>2, <2>4, EntryGood
    <2>8. /\ saved.text = (IF shown.text = "blank" THEN None ELSE shown.text)
          /\ saved.owner_member_id = shown.owner_member_id
          /\ saved.quantity_total = of.quantity_total /\ saved.category_id = of.category_id
          /\ saved.owner_type = of.owner_type /\ saved.is_borrowable = of.is_borrowable
          /\ saved.default_loan_fee = of.default_loan_fee
      BY <2>2, <2>4, <2>5, <2>6 DEF Inventory!_item_fields_from_form, Inventory!InventoryItemBase
    <2>9. of.owner_type = "MEMBER" <=> of.owner_member_id # None  BY <2>1 DEF ItemWritten
    <2>10. CASE Inventory!validate_owner(saved)
      <3>1. (IF saved.owner_type = "MEMBER" THEN saved.owner_member_id ELSE None) = of.owner_member_id
        BY <2>5, <2>8, <2>9, <2>10 DEF Inventory!validate_owner
      <3>2. Inventory!Row(saved) = [saved EXCEPT !.owner_member_id = of.owner_member_id]
        BY <3>1 DEF Inventory!Row, Inventory!_owner_member_id
      <3>3. [[saved EXCEPT !.owner_member_id = of.owner_member_id] EXCEPT !.text = None] = [of EXCEPT !.text = None]
        BY <2>7, <2>8 DEF Inventory!InventoryItemBase
      <3>4. of.text \in {"none", "text"} => saved.text = of.text
        BY <2>5, <2>8 DEF Inventory!BookAssumption
      <3> QED BY <2>1, <2>10, <3>2, <3>3, <3>4
    <2>11. CASE ~ Inventory!validate_owner(saved)
      <3>1. of.owner_member_id \notin active  BY <2>5, <2>8, <2>9, <2>11 DEF Inventory!validate_owner
      <3> QED BY <2>1, <2>11, <3>1
    <2> QED BY <2>10, <2>11
  <1>2. InventoryIInv => Inventory!SavingAsShownKeepsTheItem  BY <1>1
  <1> QED BY <1>2, InventoryInvariance, PTL

\* Two categories never look the same unless a name came by the API's PUT, and who owns
\* an item is named (create_category, validate_owner).
THEOREM NamesAreTold ==
  ASSUME Inventory!BookAssumption  PROVE Inventory!Spec => []Inventory!NamesTellApart
  <1>1. ASSUME InventoryIInv PROVE Inventory!NamesTellApart
    <2>1. ASSUME NEW c1 \in Inventory!There(category) \ renamed, NEW c2 \in Inventory!There(category) \ renamed,
               Inventory!strip(category[c1]) = Inventory!strip(category[c2])
        PROVE  c1 = c2
      <3>1. category[c1] \in Inventory!Name /\ category[c2] \in Inventory!Name
        BY <1>1 DEF InventoryIInv, Inventory!TypeOK, Inventory!There
      <3>2. category[c1].padded = FALSE /\ category[c2].padded = FALSE
        BY <1>1 DEF InventoryIInv, Stripped
      <3>3. Inventory!strip(category[c1]) = category[c1] /\ Inventory!strip(category[c2]) = category[c2]
        BY <3>1, <3>2 DEF Inventory!strip, Inventory!Name
      <3> QED BY <1>1, <2>1, <3>3 DEF InventoryIInv, Inventory!TypeOK
    <2>2. \A i \in Inventory!There(item) : item[i].of.owner_type = "MEMBER" <=> item[i].of.owner_member_id # None
      BY <1>1 DEF InventoryIInv, Owned
    <2> QED BY <2>1, <2>2 DEF Inventory!NamesTellApart
  <1>2. InventoryIInv => Inventory!NamesTellApart  BY <1>1
  <1> QED BY <1>2, InventoryInvariance, PTL

\* The board's overview has out what the items' own pages have, and every loan and every
\* item is on a list whatever becomes of its category (active_loans_overview,
\* list_item_loans, inventory_list).
THEOREM ListsDoAddUp ==
  ASSUME Inventory!BookAssumption  PROVE Inventory!Spec => []Inventory!ListsAddUp
  <1>1. ASSUME InventoryIInv PROVE Inventory!ListsAddUp
    <2>0. Inventory!TypeOK /\ IsFiniteSet(Inventory!There(loan)) /\ IsFiniteSet(Inventory!There(item))
      BY <1>1 DEF InventoryIInv
    <2>1. Inventory!MapThenSumSet(LAMBDA l : loan[l].quantity, Inventory!active_loans_overview)
        = Inventory!MapThenSumSet(Inventory!quantity_on_loan, Inventory!There(item))
      <3>1. PICK U : U = Inventory!active_loans_overview  OBVIOUS
      <3>2. PICK V : V = Inventory!There(item)  OBVIOUS
      <3>3. PICK q : q = Quantities  OBVIOUS
      <3>4. PICK r : r = [i \in Items |-> Inventory!quantity_on_loan(i)]  OBVIOUS
      <3>5. PICK sort : sort = [l \in Loans |-> loan[l].item]  OBVIOUS
      <3>6. U \subseteq Inventory!There(loan) /\ IsFiniteSet(U) /\ Inventory!There(loan) \subseteq Loans
        BY <2>0, <3>1, FS_Subset DEF Inventory!active_loans_overview, Inventory!There, Inventory!TypeOK
      <3>7. \A l \in U : q[l] = loan[l].quantity /\ q[l] \in Int /\ sort[l] \in V
        <4>1. \A l \in Inventory!There(loan) : loan[l] \in Inventory!ItemLoan
          BY <2>0 DEF Inventory!There, Inventory!TypeOK
        <4>2. \A l \in U : q[l] = loan[l].quantity /\ q[l] \in Int
          BY <3>3, <3>6, <4>1 DEF Quantities, Inventory!ItemLoan, Inventory!BookAssumption
        <4>3. \A l \in U : sort[l] \in V  BY <2>0, <3>2, <3>5, <3>6 DEF Inventory!TypeOK
        <4> QED BY <4>2, <4>3
      <3>8. V \subseteq Items /\ IsFiniteSet(V)  BY <2>0, <3>2 DEF Inventory!There, Inventory!TypeOK
      <3>9. \A i \in V : r[i] = Sum(q, {l \in U : sort[l] = i})
        <4> SUFFICES ASSUME NEW i \in V PROVE r[i] = Sum(q, {l \in U : sort[l] = i})  OBVIOUS
        <4>1. r[i] = Sum(q, Out(i))  BY <2>0, <3>3, <3>4, <3>8, OnLoanIsSum
        <4>2. Out(i) = {l \in U : sort[l] = i}
          BY <3>1, <3>5, <3>6 DEF Out, Inventory!active_loans_overview
        <4> QED BY <4>1, <4>2
      <3>10. \A i \in V : r[i] = Inventory!quantity_on_loan(i) /\ r[i] \in Int
        <4>1. \A i \in V : r[i] = Inventory!quantity_on_loan(i)  BY <3>4, <3>8
        <4> QED BY <2>0, <3>8, <4>1, OutIsNatural
      <3>11. Sum(r, V) = Sum(q, U)
        <4>1. BySort(U, q, sort, V, r)  BY <3>6, <3>7, <3>8, <3>9 DEF BySort
        <4> QED BY <4>1, SumBySorts
      <3>12. Inventory!MapThenSumSet(LAMBDA l : loan[l].quantity, U) = Sum(q, U)
        <4> DEFINE P(f) == f = [s \in SUBSET U |-> IF s = {} THEN 0
                               ELSE LET x == CHOOSE y \in s : TRUE IN q[x] + f[s \ {x}]]
            Q(f) == f = [s \in SUBSET U |-> IF s = {} THEN 0
                               ELSE LET x == CHOOSE y \in s : TRUE IN loan[x].quantity + f[s \ {x}]]
        <4>1. ASSUME NEW f PROVE P(f) <=> Q(f)
          <5>1. ASSUME NEW s \in SUBSET U, s # {}, NEW x, x = CHOOSE y \in s : TRUE PROVE q[x] = loan[x].quantity
            BY <3>7, <5>1
          <5>2. [s \in SUBSET U |-> IF s = {} THEN 0
                                      ELSE LET x == CHOOSE y \in s : TRUE IN q[x] + f[s \ {x}]]
            = [s \in SUBSET U |-> IF s = {} THEN 0
                                      ELSE LET x == CHOOSE y \in s : TRUE IN loan[x].quantity + f[s \ {x}]]
            BY <5>1
          <5> QED BY <5>2
        <4>2. (CHOOSE e : P(e)) = (CHOOSE e : Q(e))
          <5> HIDE DEF P, Q
          <5> QED BY <4>1, Zenon
        <4>3. Inventory!MapThenSumSet(LAMBDA l : loan[l].quantity, U) = (CHOOSE e : Q(e))[U]
          BY Zenon DEF Inventory!MapThenSumSet, Inventory!MapThenFoldSet
        <4>4. Inventory!MapThenSumSet(LAMBDA z : q[z], U) = (CHOOSE e : P(e))[U]
          BY Zenon DEF Inventory!MapThenSumSet, Inventory!MapThenFoldSet
        <4>5. Inventory!MapThenSumSet(LAMBDA z : q[z], U) = Sum(q, U)  BY <3>6, <3>7, InventoryFold
        <4> QED BY <4>2, <4>3, <4>4, <4>5
      <3>13. Inventory!MapThenSumSet(Inventory!quantity_on_loan, V) = Sum(r, V)
        <4> DEFINE P(f) == f = [s \in SUBSET V |-> IF s = {} THEN 0
                               ELSE LET x == CHOOSE y \in s : TRUE IN r[x] + f[s \ {x}]]
            Q(f) == f = [s \in SUBSET V |-> IF s = {} THEN 0
                               ELSE LET x == CHOOSE y \in s : TRUE IN Inventory!quantity_on_loan(x) + f[s \ {x}]]
        <4>1. ASSUME NEW f PROVE P(f) <=> Q(f)
          <5>1. ASSUME NEW s \in SUBSET V, s # {}, NEW x, x = CHOOSE y \in s : TRUE PROVE r[x] = Inventory!quantity_on_loan(x)
            BY <3>10, <5>1
          <5>2. [s \in SUBSET V |-> IF s = {} THEN 0
                                      ELSE LET x == CHOOSE y \in s : TRUE IN r[x] + f[s \ {x}]]
            = [s \in SUBSET V |-> IF s = {} THEN 0
                                      ELSE LET x == CHOOSE y \in s : TRUE IN Inventory!quantity_on_loan(x) + f[s \ {x}]]
            BY <5>1
          <5> QED BY <5>2
        <4>2. (CHOOSE e : P(e)) = (CHOOSE e : Q(e))
          <5> HIDE DEF P, Q
          <5> QED BY <4>1, Zenon
        <4>3. Inventory!MapThenSumSet(Inventory!quantity_on_loan, V) = (CHOOSE e : Q(e))[V]
          BY Zenon DEF Inventory!MapThenSumSet, Inventory!MapThenFoldSet
        <4>4. Inventory!MapThenSumSet(LAMBDA z : r[z], V) = (CHOOSE e : P(e))[V]
          BY Zenon DEF Inventory!MapThenSumSet, Inventory!MapThenFoldSet
        <4>5. Inventory!MapThenSumSet(LAMBDA z : r[z], V) = Sum(r, V)  BY <3>8, <3>10, InventoryFold
        <4> QED BY <4>2, <4>3, <4>4, <4>5
      <3> QED BY <3>1, <3>2, <3>11, <3>12, <3>13
    <2>2. UNION {Inventory!list_item_loans(i) : i \in Inventory!inventory_list(None, TRUE)} = Inventory!list_all_loans(FALSE)
      BY <2>0 DEF Inventory!list_item_loans, Inventory!inventory_list, Inventory!list_all_loans,
         Inventory!TypeOK
    <2>3. (UNION {Inventory!inventory_list(c, TRUE) : c \in Inventory!There(category)})
        \cup {i \in Inventory!There(item) : item[i].of.category_id = None} = Inventory!There(item)
      <3>1. None \notin Inventory!There(category)
        BY <2>0 DEF Inventory!TypeOK, Inventory!There, Inventory!BookAssumption
      <3>2. \A c : Inventory!inventory_list(c, TRUE) = {i \in Inventory!There(item) : c # None => item[i].of.category_id = c}
        BY DEF Inventory!inventory_list
      <3>3. \A i \in Inventory!There(item) : item[i].of.category_id \in Inventory!There(category) \cup {None}
        BY <2>0 DEF Inventory!TypeOK
      <3>4. ASSUME NEW i \in Inventory!There(item), item[i].of.category_id # None
          PROVE  \E c \in Inventory!There(category) : i \in Inventory!inventory_list(c, TRUE)
        BY <3>2, <3>3, <3>4
      <3>5. \A c : Inventory!inventory_list(c, TRUE) \subseteq Inventory!There(item)  BY <3>2
      <3>6. UNION {Inventory!inventory_list(c, TRUE) : c \in Inventory!There(category)} \subseteq Inventory!There(item)
        BY <3>5, Zenon
      <3>7. ASSUME NEW i \in Inventory!There(item), item[i].of.category_id # None
          PROVE  i \in UNION {Inventory!inventory_list(c, TRUE) : c \in Inventory!There(category)}
        BY <3>4, <3>7, Zenon
      <3>8. PICK X : X = UNION {Inventory!inventory_list(c, TRUE) : c \in Inventory!There(category)}
        OBVIOUS
      <3>9. X \subseteq Inventory!There(item) /\ \A i \in Inventory!There(item) : item[i].of.category_id # None => i \in X
        BY <3>6, <3>7, <3>8
      <3>10. X \cup {i \in Inventory!There(item) : item[i].of.category_id = None} = Inventory!There(item)
        BY <3>9
      <3> QED BY <3>8, <3>10
    <2>4. \A borrowable \in BOOLEAN :
        Inventory!list_items(None, FALSE, borrowable) \cap Inventory!list_items(None, TRUE, ~ borrowable) = {}
      <3> SUFFICES ASSUME NEW borrowable \in BOOLEAN, NEW i,
                 i \in Inventory!list_items(None, FALSE, borrowable), i \in Inventory!list_items(None, TRUE, ~ borrowable)
          PROVE  FALSE  OBVIOUS
      <3> QED BY DEF Inventory!list_items
    <2> QED BY <2>1, <2>2, <2>3, <2>4 DEF Inventory!ListsAddUp
  <1>2. InventoryIInv => Inventory!ListsAddUp  BY <1>1
  <1> QED BY <1>2, InventoryInvariance, PTL

(* All that the register of the inventory promises, for any categories,      *)
(* items, loans and people (inventory.py).                                  *)
THEOREM BookDoesAddUp == ASSUME Inventory!BookAssumption PROVE Inventory!Spec => []Inventory!BookAddsUp
  <1>1. (/\ Inventory!TypeOK /\ Inventory!SavingAsShownKeepsTheItem
         /\ Inventory!NamesTellApart /\ Inventory!ListsAddUp) => Inventory!BookAddsUp
    BY DEF Inventory!BookAddsUp
  <1> QED BY <1>1, InventoryTypeCorrect, SavedAsShown, NamesAreTold, ListsDoAddUp, PTL

-----------------------------------------------------------------------------
(* What is consumed (Metering), for any meters, years and readings.          *)
(*                                                                         *)
(* Up to a year, a meter's years add up to the last reading less what it     *)
(* started with (YearsAddUp).  The pages add the same up by meter, by point  *)
(* and by row, and agree since a point has one meter that counts; that there *)
(* are only finitely many to add up is an invariant too (Finitely).          *)

\* What the instance's fold gives.
LEMMA MeteringFold ==
  ASSUME NEW U, IsFiniteSet(U), NEW q, \A x \in U : q[x] \in Int
  PROVE  Metering!MapThenSumSet(LAMBDA z : q[z], U) = Sum(q, U)
  <1>1. MapThenSumSet(LAMBDA z : q[z], U) = Sum(q, U)  BY FoldIsSum
  <1>2. Metering!MapThenSumSet(LAMBDA z : q[z], U) = MapThenSumSet(LAMBDA z : q[z], U)
    BY Zenon DEF Metering!MapThenSumSet, Metering!MapThenFoldSet, MapThenSumSet, MapThenFoldSet
  <1> QED BY <1>1, <1>2

\* There are never more than finitely many points and meters.
Entered(rows) == {k \in DOMAIN rows : rows[k] # NoRow}

Finitely == IsFiniteSet(Entered(point)) /\ IsFiniteSet(Entered(meter))

\* A request brings at most two points and two meters: a file of two rows.
LEMMA ImportsFew ==
  ASSUME Metering!MeteringAssumption, Metering!TypeOK, NEW first, NEW second, Metering!metering_points_import(<<first, second>>)
  PROVE  /\ \E x, y : Entered(point)' \subseteq Entered(point) \cup {x, y}
         /\ \E x, y : Entered(meter)' \subseteq Entered(meter) \cup {x, y}
  <1> DEFINE rows == <<first, second>>
      known == {Metering!Identity(point[p]) : p \in {q \in Points : point[q] # NoRow}}
      Fresh(n) == \/ Metering!Identity(rows[n]) = None
                  \/ Metering!Identity(rows[n]) \notin known \cup {Metering!Identity(rows[k]) : k \in 1..(n - 1)}
      new == {n \in DOMAIN rows : Fresh(n)}
  <1>1. new \subseteq {1, 2}
    <2>1. DOMAIN rows = {1, 2}  OBVIOUS
    <2> QED BY <2>1, Zenon
  <1>2. PICK p \in Metering!Injection(new, {q \in Points : point[q] = NoRow}),
       m \in Metering!Injection(new, {k \in Meters : meter[k] = NoRow}), initial \in Initial :
      /\ point' = [q \in Points |->
              IF q \in Metering!Range(p) THEN rows[CHOOSE n \in new : p[n] = q] ELSE point[q]]
      /\ meter' = [k \in Meters |->
              IF k \in Metering!Range(m) THEN Metering!NewMeter(p[CHOOSE n \in new : m[n] = k], initial) ELSE meter[k]]
    BY Zenon DEF Metering!metering_points_import
  <1> HIDE DEF rows, new
  <1>3. p \in [new -> {q \in Points : point[q] = NoRow}] /\ m \in [new -> {k \in Meters : meter[k] = NoRow}]
    BY DEF Metering!Injection
  <1>4. Metering!Range(p) \subseteq {p[1], p[2]} /\ Metering!Range(m) \subseteq {m[1], m[2]}
    BY <1>1, <1>3 DEF Metering!Range
  <1>5. DOMAIN point' = Points /\ DOMAIN meter' = Meters /\ DOMAIN point = Points /\ DOMAIN meter = Meters
    BY <1>2 DEF Metering!TypeOK
  <1>6. \A q \in Points \ Metering!Range(p) : point'[q] = point[q]  BY <1>2
  <1>7. \A k \in Meters \ Metering!Range(m) : meter'[k] = meter[k]  BY <1>2
  <1>8. Entered(point)' \subseteq Entered(point) \cup {p[1], p[2]}  BY <1>4, <1>5, <1>6 DEF Entered
  <1>9. Entered(meter)' \subseteq Entered(meter) \cup {m[1], m[2]}  BY <1>4, <1>5, <1>7 DEF Entered
  <1> QED BY <1>8, <1>9

LEMMA RecordsFew ==
  ASSUME NEW rows, NEW m, NEW year, NEW value
  PROVE  Entered(Metering!Recorded(rows, m, year, value)) \subseteq Entered(rows) \cup {m}
  BY DEF Metering!Recorded, Entered

LEMMA TakesFew ==
  ASSUME NEW rows, NEW row
  PROVE  Entered(Metering!Taken(rows, row)) \subseteq Entered(rows) \cup {row.meter}
  BY RecordsFew DEF Metering!Taken

LEMMA FewChange ==
  ASSUME Metering!MeteringAssumption, Metering!TypeOK, [Metering!Next]_(Metering!vars)
  PROVE  /\ \E x, y : Entered(point)' \subseteq Entered(point) \cup {x, y}
         /\ \E x, y : Entered(meter)' \subseteq Entered(meter) \cup {x, y}
  <1>0. DOMAIN point = Points /\ DOMAIN meter = Meters  BY DEF Metering!TypeOK
  <1>1. CASE UNCHANGED Metering!vars  BY <1>1 DEF Metering!vars, Entered
  <1>2. ASSUME NEW p \in Points, NEW m \in Meters, Metering!metering_point_create(p, m)
      PROVE  /\ \E x, y : Entered(point)' \subseteq Entered(point) \cup {x, y}
             /\ \E x, y : Entered(meter)' \subseteq Entered(meter) \cup {x, y}
    <2>1. Entered(point)' \subseteq Entered(point) \cup {p, p} /\ Entered(meter)' \subseteq Entered(meter) \cup {m, m}
      BY <1>0, <1>2 DEF Metering!metering_point_create, Entered
    <2> QED BY <2>1
  <1>3. ASSUME NEW p \in Points, Metering!delete_metering_point(p)
      PROVE  Entered(point)' \subseteq Entered(point) /\ Entered(meter)' \subseteq Entered(meter)
    BY <1>0, <1>3 DEF Metering!delete_metering_point, Entered
  <1>4. ASSUME NEW p \in Points, Metering!update_metering_point(p)
      PROVE  Entered(point)' \subseteq Entered(point) /\ Entered(meter)' \subseteq Entered(meter)
    BY <1>0, <1>4 DEF Metering!update_metering_point, Entered
  <1>5. ASSUME NEW m \in Meters, Metering!update_meter(m)
      PROVE  Entered(point)' \subseteq Entered(point) /\ Entered(meter)' \subseteq Entered(meter)
    BY <1>0, <1>5 DEF Metering!update_meter, Entered
  <1>6. ASSUME NEW p \in Points, NEW m \in Meters, Metering!exchange_meter(p, m)
      PROVE  Entered(point)' \subseteq Entered(point) /\ Entered(meter)' \subseteq Entered(meter) \cup {m, m}
    BY <1>0, <1>6 DEF Metering!exchange_meter, Metering!Current, Metering!MetersOf, Entered
  <1>7. ASSUME NEW m \in Meters, NEW y \in Metering!Years, NEW value \in 0..MaxReading, Metering!record_reading(m, y, value)
      PROVE  Entered(point)' \subseteq Entered(point) /\ Entered(meter)' \subseteq Entered(meter) \cup {m, m}
    <2>1. point' = point /\ meter' = Metering!Recorded(meter, m, y, value)
      BY <1>7 DEF Metering!record_reading
    <2> QED BY <2>1, RecordsFew DEF Entered
  <1>8. ASSUME NEW m \in Meters, NEW y \in Metering!Years, Metering!delete_reading(m, y)
      PROVE  Entered(point)' \subseteq Entered(point) /\ Entered(meter)' \subseteq Entered(meter)
    BY <1>0, <1>8 DEF Metering!delete_reading, Entered
  <1>9. ASSUME NEW first \in Metering!ImportRow, NEW second \in Metering!ImportRow, Metering!readings_import(first, second)
      PROVE  /\ Entered(point)' \subseteq Entered(point)
             /\ Entered(meter)' \subseteq Entered(meter) \cup {first.meter, second.meter}
    <2>1. point' = point /\ meter' = Metering!Taken(Metering!Taken(meter, first), second)
      BY <1>9 DEF Metering!readings_import
    <2>2. PICK once : once = Metering!Taken(meter, first)  OBVIOUS
    <2>3. Entered(once) \subseteq Entered(meter) \cup {first.meter}  BY <2>2, TakesFew
    <2>4. Entered(meter') \subseteq Entered(once) \cup {second.meter}  BY <2>1, <2>2, TakesFew
    <2>5. Entered(meter)' = Entered(meter')  BY DEF Entered
    <2> QED BY <2>1, <2>3, <2>4, <2>5 DEF Entered
  <1>10. ASSUME NEW first, NEW second, Metering!metering_points_import(<<first, second>>)
      PROVE  /\ \E x, y : Entered(point)' \subseteq Entered(point) \cup {x, y}
             /\ \E x, y : Entered(meter)' \subseteq Entered(meter) \cup {x, y}  BY <1>10, ImportsFew
  <1>11. CASE Metering!Next
    <2>1. CASE Metering!metering_point_update \/ Metering!reading_delete \/ Metering!update_metering_point_endpoint \/ Metering!update_meter_endpoint
               \/ Metering!delete_metering_point_endpoint \/ Metering!delete_reading_endpoint
               \/ (\E p \in Points : Metering!delete_metering_point(p)) \/ (\E m \in Meters : Metering!update_meter(m))
      <3>1. Entered(point)' \subseteq Entered(point) /\ Entered(meter)' \subseteq Entered(meter)
        BY <1>3, <1>4, <1>5, <1>8, <2>1, Zenon
           DEF Metering!metering_point_update, Metering!reading_delete, Metering!update_metering_point_endpoint, Metering!update_meter_endpoint,
               Metering!delete_metering_point_endpoint, Metering!delete_reading_endpoint
      <3> QED BY <3>1
    <2>2. CASE (\E p \in Points, m \in Meters : Metering!metering_point_create(p, m) \/ Metering!exchange_meter(p, m))
               \/ Metering!create_metering_point_endpoint \/ Metering!exchange_meter_endpoint
      <3>1. PICK p \in Points, m \in Meters : Metering!metering_point_create(p, m) \/ Metering!exchange_meter(p, m)
        BY <2>2, Zenon DEF Metering!create_metering_point_endpoint, Metering!exchange_meter_endpoint
      <3>2. CASE Metering!metering_point_create(p, m)  BY <1>2, <3>2
      <3>3. CASE Metering!exchange_meter(p, m)  BY <1>6, <3>3
      <3> QED BY <3>1, <3>2, <3>3
    <2>3. CASE (\E m \in Meters, y \in Metering!Years, value \in 0..MaxReading : Metering!record_reading(m, y, value)) \/ Metering!create_reading
      <3>1. PICK m \in Meters, y \in Metering!Years, value \in 0..MaxReading : Metering!record_reading(m, y, value)
        BY <2>3, Zenon DEF Metering!create_reading
      <3> QED BY <1>7, <3>1
    <2>4. CASE \E first, second \in {row \in Metering!MeteringPoint : row.type = "PARCEL" => row.place # None} :
        Metering!metering_points_import(<<first, second>>)  BY <1>10, <2>4, Zenon
    <2>5. CASE \E first, second \in Metering!ImportRow : first.meter = second.meter /\ Metering!readings_import(first, second)
      <3>1. PICK first \in Metering!ImportRow, second \in Metering!ImportRow : Metering!readings_import(first, second)
        BY <2>5, Zenon
      <3> QED BY <1>9, <3>1
    <2> QED BY <1>11, <2>1, <2>2, <2>3, <2>4, <2>5, Zenon DEF Metering!Next
  <1> QED BY <1>1, <1>11

LEMMA FinitelyInvariant ==
  ASSUME Metering!MeteringAssumption  PROVE Metering!Spec => [](MeteringIInv /\ Finitely)
  <1>1. Metering!Init => MeteringIInv /\ Finitely
    <2> SUFFICES ASSUME Metering!Init PROVE MeteringIInv /\ Finitely  OBVIOUS
    <2>1. Entered(point) = {} /\ Entered(meter) = {}  BY DEF Metering!Init, Entered
    <2> QED BY <2>1, MeteringIInvInit, FS_EmptySet DEF Finitely
  <1>2. MeteringIInv /\ Finitely /\ [Metering!Next]_(Metering!vars) => MeteringIInv' /\ Finitely'
    <2> SUFFICES ASSUME MeteringIInv, Finitely, [Metering!Next]_(Metering!vars) PROVE MeteringIInv' /\ Finitely'
      OBVIOUS
    <2>1. Metering!TypeOK  BY DEF MeteringIInv
    <2>2. PICK x, y : Entered(point)' \subseteq Entered(point) \cup {x, y}  BY <2>1, FewChange
    <2>3. PICK u, v : Entered(meter)' \subseteq Entered(meter) \cup {u, v}  BY <2>1, FewChange
    <2>4. IsFiniteSet(Entered(point)')  BY <2>2, FewMore DEF Finitely
    <2>5. IsFiniteSet(Entered(meter)')  BY <2>3, FewMore DEF Finitely
    <2> QED BY <2>4, <2>5, MeteringIInvNext DEF Finitely
  <1> QED BY <1>1, <1>2, PTL DEF Metering!Spec

-----------------------------------------------------------------------------
(* What is consumed. *)

LEMMA ReadingBefore ==
  ASSUME Metering!MeteringAssumption, NEW row \in Metering!Meter, NEW n \in Nat
  PROVE  /\ {y \in Metering!ReadIn(row) : y < n} = {} => Metering!reading_before_year(row, n) = row.initial_reading
         /\ {y \in Metering!ReadIn(row) : y < n} # {} =>
               \E last \in Metering!ReadIn(row) : /\ last < n /\ Metering!reading_before_year(row, n) = row.readings[last]
                                                  /\ \A y \in Metering!ReadIn(row) : y < n => y <= last
         /\ Metering!reading_before_year(row, n) \in Int
  <1>1. row.initial_reading \in Int  BY DEF Metering!Meter, Metering!MeteringAssumption
  <1>2. \A y \in Metering!ReadIn(row) : row.readings[y] \in Int
    BY RowFacts DEF Metering!MeteringAssumption
  <1>3. CASE {y \in Metering!ReadIn(row) : y < n} = {}  BY <1>1, <1>3 DEF Metering!reading_before_year
  <1>4. CASE {y \in Metering!ReadIn(row) : y < n} # {}
    <2>1. PICK earlier : earlier = {y \in Metering!ReadIn(row) : y < n}  OBVIOUS
    <2>2. earlier \in SUBSET (1..LastYear) /\ earlier # {} /\ LastYear \in Nat
      BY <1>4, <2>1, RowFacts DEF Metering!Years, Metering!MeteringAssumption
    <2>3. PICK last : last = Metering!Max(earlier)  OBVIOUS
    <2>4. last \in earlier /\ \A k \in earlier : k <= last  BY <2>2, <2>3, LastYearOf
    <2>5. Metering!reading_before_year(row, n) = row.readings[last]
      BY <1>4, <2>1, <2>3 DEF Metering!reading_before_year
    <2> QED BY <1>2, <1>4, <2>1, <2>4, <2>5
  <1> QED BY <1>3, <1>4

\* A year's reading adds what the meter advanced by since the one before.
LEMMA YearAdds ==
  ASSUME Metering!MeteringAssumption, NEW row \in Metering!Meter, NEW year \in Metering!Years
  PROVE  /\ Metering!Consumed(row, year) \in Int
         /\ Metering!reading_before_year(row, year + 1) = Metering!Consumed(row, year) + Metering!reading_before_year(row, year)
  <1>1. year \in Nat /\ year + 1 \in Nat /\ Metering!ReadIn(row) \subseteq Nat
    BY RowFacts DEF Metering!Years, Metering!MeteringAssumption
  <1>2. \A y \in Metering!ReadIn(row) : row.readings[y] \in Int
    BY RowFacts DEF Metering!MeteringAssumption
  <1>3. PICK b \in Int : b = Metering!reading_before_year(row, year)  BY <1>1, ReadingBefore
  <1>4. CASE year \in Metering!ReadIn(row)
    <2>1. {y \in Metering!ReadIn(row) : y < year + 1} # {}  BY <1>1, <1>4
    <2>2. PICK last \in Metering!ReadIn(row) : /\ last < year + 1 /\ Metering!reading_before_year(row, year + 1) = row.readings[last]
                                               /\ \A y \in Metering!ReadIn(row) : y < year + 1 => y <= last
      BY <1>1, <2>1, ReadingBefore
    <2>3. last = year  BY <1>1, <1>4, <2>2
    <2>4. Metering!Consumed(row, year) = row.readings[year] - b
      BY <1>3, <1>4 DEF Metering!Consumed, Metering!calculate_consumption
    <2> QED BY <1>2, <1>3, <1>4, <2>2, <2>3, <2>4
  <1>5. CASE year \notin Metering!ReadIn(row)
    <2>1. \A y \in Metering!ReadIn(row) : y < year + 1 <=> y < year  BY <1>1, <1>5
    <2>2. {y \in Metering!ReadIn(row) : y < year + 1} = {y \in Metering!ReadIn(row) : y < year}  BY <2>1
    <2>3. Metering!reading_before_year(row, year + 1) = b  BY <1>3, <2>2 DEF Metering!reading_before_year
    <2>4. Metering!Consumed(row, year) = 0  BY <1>5 DEF Metering!Consumed
    <2> QED BY <1>3, <2>3, <2>4
  <1> QED BY <1>4, <1>5

LEMMA LeastNumber ==
  ASSUME NEW S \in SUBSET Nat, S # {}  PROVE \E k \in S : \A n \in S : k <= n
  BY LeastYear

\* Up to a year, the years add up to the last reading less what the meter started with.
LEMMA YearsAddUp ==
  ASSUME Metering!MeteringAssumption, NEW row \in Metering!Meter, NEW q, \A y \in Metering!Years : q[y] = Metering!Consumed(row, y),
      NEW n \in Nat, n <= LastYear
  PROVE  Sum(q, 1..n) = Metering!reading_before_year(row, n + 1) - row.initial_reading
  <1>0. LastYear \in Nat /\ row.initial_reading \in Int
    BY DEF Metering!MeteringAssumption, Metering!Meter
  <1>1. \A y \in Metering!Years : q[y] \in Int  BY YearAdds
  <1>2. IsFiniteSet(Metering!Years)  BY <1>0, FS_Interval DEF Metering!Years
  <1>21. \A s \in SUBSET Metering!Years, x \in Metering!Years : x \in s => Sum(q, s) = q[x] + Sum(q, s \ {x})
    BY <1>1, <1>2, SumRules
  <1> DEFINE Fails(k) == k <= LastYear /\ Sum(q, 1..k) # Metering!reading_before_year(row, k + 1) - row.initial_reading
             C == {k \in Nat : Fails(k)}
  <1>3. C = {}
    <2> SUFFICES ASSUME C # {} PROVE FALSE  OBVIOUS
    <2>1. PICK k \in C : \A j \in C : k <= j
      <3>1. C \in SUBSET Nat  OBVIOUS
      <3> HIDE DEF C
      <3> QED BY <3>1, LeastNumber
    <2>2. k \in Nat /\ k <= LastYear /\ Sum(q, 1..k) # Metering!reading_before_year(row, k + 1) - row.initial_reading
      BY <2>1
    <2>3. k # 0
      <3> SUFFICES ASSUME k = 0 PROVE FALSE  OBVIOUS
      <3>1. 1..k = {}  OBVIOUS
      <3>2. Sum(q, {}) = 0  BY <1>1, <1>2, SumRules
      <3>3. {y \in Metering!ReadIn(row) : y < 1} = {}  BY RowFacts DEF Metering!Years
      <3>4. Metering!reading_before_year(row, 1) = row.initial_reading  BY <3>3, ReadingBefore
      <3> QED BY <1>0, <2>2, <3>1, <3>2, <3>4
    <2>4. k - 1 \in Nat /\ k - 1 <= LastYear /\ (k - 1) + 1 = k /\ k \in Metering!Years
      BY <1>0, <2>2, <2>3 DEF Metering!Years
    <2>5. k - 1 \notin C  BY <2>1, <2>2
    <2>6. Sum(q, 1..(k - 1)) = Metering!reading_before_year(row, k) - row.initial_reading  BY <2>4, <2>5
    <2>7. Sum(q, 1..k) = q[k] + Sum(q, 1..(k - 1))
      <3>1. 1..k \in SUBSET Metering!Years /\ k \in 1..k /\ (1..k) \ {k} = 1..(k - 1)
        BY <1>0, <2>2, <2>3 DEF Metering!Years
      <3>2. PICK s \in SUBSET Metering!Years : s = 1..k  BY <3>1
      <3>3. Sum(q, s) = q[k] + Sum(q, s \ {k})  BY <1>21, <2>4, <3>1, <3>2
      <3> QED BY <3>1, <3>2, <3>3
    <2>8. /\ q[k] \in Int /\ Metering!reading_before_year(row, k + 1) = q[k] + Metering!reading_before_year(row, k)
          /\ Metering!reading_before_year(row, k) \in Int  BY <2>2, <2>4, YearAdds, ReadingBefore
    <2> QED BY <1>0, <2>2, <2>6, <2>7, <2>8
  <1>4. n \notin C  BY <1>3
  <1>5. ~ Fails(n)  BY <1>4
  <1> QED BY <1>5

LEMMA FoldOfYears ==
  ASSUME NEW row, NEW q, \A y \in Metering!Years : q[y] = Metering!Consumed(row, y) /\ q[y] \in Int, IsFiniteSet(Metering!Years)
  PROVE  Metering!MapThenSumSet(LAMBDA y : Metering!Consumed(row, y), Metering!Years) = Sum(q, Metering!Years)
  <1> DEFINE P(f) == f = [s \in SUBSET Metering!Years |-> IF s = {} THEN 0
                         ELSE LET x == CHOOSE y \in s : TRUE IN q[x] + f[s \ {x}]]
      Q(f) == f = [s \in SUBSET Metering!Years |-> IF s = {} THEN 0
                         ELSE LET x == CHOOSE y \in s : TRUE IN Metering!Consumed(row, x) + f[s \ {x}]]
  <1>1. ASSUME NEW f PROVE P(f) <=> Q(f)
    <2>1. ASSUME NEW s \in SUBSET Metering!Years, s # {}, NEW x, x = CHOOSE y \in s : TRUE PROVE q[x] = Metering!Consumed(row, x)
      BY <2>1
    <2>2. [s \in SUBSET Metering!Years |-> IF s = {} THEN 0
                                ELSE LET x == CHOOSE y \in s : TRUE IN q[x] + f[s \ {x}]]
      = [s \in SUBSET Metering!Years |-> IF s = {} THEN 0
                                ELSE LET x == CHOOSE y \in s : TRUE IN Metering!Consumed(row, x) + f[s \ {x}]]
      BY <2>1
    <2> QED BY <2>2
  <1>2. (CHOOSE e : P(e)) = (CHOOSE e : Q(e))
    <2> HIDE DEF P, Q
    <2> QED BY <1>1, Zenon
  <1>3. Metering!MapThenSumSet(LAMBDA y : Metering!Consumed(row, y), Metering!Years) = (CHOOSE e : Q(e))[Metering!Years]
    BY Zenon DEF Metering!MapThenSumSet, Metering!MapThenFoldSet
  <1>4. Metering!MapThenSumSet(LAMBDA z : q[z], Metering!Years) = (CHOOSE e : P(e))[Metering!Years]
    BY Zenon DEF Metering!MapThenSumSet, Metering!MapThenFoldSet
  <1>5. Metering!MapThenSumSet(LAMBDA z : q[z], Metering!Years) = Sum(q, Metering!Years)  BY MeteringFold
  <1> QED BY <1>2, <1>3, <1>4, <1>5

\* Over all years a meter's consumption is what it advanced by.
LEMMA MeterAddsUp ==
  ASSUME Metering!MeteringAssumption, NEW row \in Metering!Meter, Metering!ReadIn(row) # {}
  PROVE  Metering!MapThenSumSet(LAMBDA y : Metering!Consumed(row, y), Metering!Years)
           = row.readings[Metering!Max(Metering!ReadIn(row))] - row.initial_reading
  <1>0. LastYear \in Nat /\ Metering!ReadIn(row) \in SUBSET (1..LastYear)
    BY RowFacts DEF Metering!MeteringAssumption, Metering!Years
  <1>1. PICK q : q = [y \in Metering!Years |-> Metering!Consumed(row, y)]  OBVIOUS
  <1>2. \A y \in Metering!Years : q[y] = Metering!Consumed(row, y)  BY <1>1
  <1>3. IsFiniteSet(Metering!Years) /\ \A y \in Metering!Years : q[y] \in Int
    <2>1. IsFiniteSet(Metering!Years)  BY <1>0, FS_Interval DEF Metering!Years
    <2>2. \A y \in Metering!Years : q[y] \in Int  BY <1>2, YearAdds
    <2> QED BY <2>1, <2>2
  <1>4. Sum(q, Metering!Years) = Metering!reading_before_year(row, LastYear + 1) - row.initial_reading
    <2>1. LastYear <= LastYear  BY <1>0
    <2>2. Sum(q, 1..LastYear) = Metering!reading_before_year(row, LastYear + 1) - row.initial_reading
      BY <1>0, <1>2, <2>1, YearsAddUp
    <2> QED BY <2>2 DEF Metering!Years
  <1>5. Metering!MapThenSumSet(LAMBDA y : Metering!Consumed(row, y), Metering!Years) = Sum(q, Metering!Years)
    BY <1>2, <1>3, FoldOfYears
  <1>6. Metering!reading_before_year(row, LastYear + 1) = row.readings[Metering!Max(Metering!ReadIn(row))]
    <2>1. \A y \in Metering!ReadIn(row) : y < LastYear + 1  BY <1>0
    <2>2. {y \in Metering!ReadIn(row) : y < LastYear + 1} = Metering!ReadIn(row)  BY <2>1
    <2> QED BY <2>2 DEF Metering!reading_before_year
  <1> QED BY <1>4, <1>5, <1>6

-----------------------------------------------------------------------------
(* The pages. *)

\* What a meter has consumed in a year, whatever meter it is.
LEMMA FoldOfMeters ==
  ASSUME NEW U, IsFiniteSet(U), NEW year, NEW q, \A m \in U : q[m] = Metering!Consumed(meter[m], year) /\ q[m] \in Int
  PROVE  Metering!MapThenSumSet(LAMBDA m : Metering!Consumed(meter[m], year), U) = Sum(q, U)
  <1> DEFINE P(f) == f = [s \in SUBSET U |-> IF s = {} THEN 0
                         ELSE LET x == CHOOSE y \in s : TRUE IN q[x] + f[s \ {x}]]
      Q(f) == f = [s \in SUBSET U |-> IF s = {} THEN 0
                         ELSE LET x == CHOOSE y \in s : TRUE IN Metering!Consumed(meter[x], year) + f[s \ {x}]]
  <1>1. ASSUME NEW f PROVE P(f) <=> Q(f)
    <2>1. ASSUME NEW s \in SUBSET U, s # {}, NEW x, x = CHOOSE y \in s : TRUE PROVE q[x] = Metering!Consumed(meter[x], year)
      BY <2>1
    <2>2. [s \in SUBSET U |-> IF s = {} THEN 0
                                ELSE LET x == CHOOSE y \in s : TRUE IN q[x] + f[s \ {x}]]
      = [s \in SUBSET U |-> IF s = {} THEN 0
                                ELSE LET x == CHOOSE y \in s : TRUE IN Metering!Consumed(meter[x], year) + f[s \ {x}]]
      BY <2>1
    <2> QED BY <2>2
  <1>2. (CHOOSE e : P(e)) = (CHOOSE e : Q(e))
    <2> HIDE DEF P, Q
    <2> QED BY <1>1, Zenon
  <1>3. Metering!MapThenSumSet(LAMBDA m : Metering!Consumed(meter[m], year), U) = (CHOOSE e : Q(e))[U]
    BY Zenon DEF Metering!MapThenSumSet, Metering!MapThenFoldSet
  <1>4. Metering!MapThenSumSet(LAMBDA z : q[z], U) = (CHOOSE e : P(e))[U]
    BY Zenon DEF Metering!MapThenSumSet, Metering!MapThenFoldSet
  <1>5. Metering!MapThenSumSet(LAMBDA z : q[z], U) = Sum(q, U)  BY MeteringFold
  <1> QED BY <1>2, <1>3, <1>4, <1>5

\* What a row of a page counts for.
Counted(r) == IF r.consumption = None THEN 0 ELSE r.consumption

LEMMA FoldOfRows ==
  ASSUME NEW U, IsFiniteSet(U), NEW q, \A r \in U : q[r] = Counted(r) /\ q[r] \in Int
  PROVE  Metering!MapThenSumSet(LAMBDA r : IF r.consumption = None THEN 0 ELSE r.consumption, U) = Sum(q, U)
  <1> DEFINE P(f) == f = [s \in SUBSET U |-> IF s = {} THEN 0
                         ELSE LET x == CHOOSE y \in s : TRUE IN q[x] + f[s \ {x}]]
      Q(f) == f = [s \in SUBSET U |-> IF s = {} THEN 0
                         ELSE LET x == CHOOSE y \in s : TRUE
                              IN  (IF x.consumption = None THEN 0 ELSE x.consumption) + f[s \ {x}]]
  <1>1. ASSUME NEW f PROVE P(f) <=> Q(f)
    <2>1. ASSUME NEW s \in SUBSET U, s # {}, NEW x, x = CHOOSE y \in s : TRUE
        PROVE  q[x] = IF x.consumption = None THEN 0 ELSE x.consumption  BY <2>1 DEF Counted
    <2>2. [s \in SUBSET U |-> IF s = {} THEN 0
                                ELSE LET x == CHOOSE y \in s : TRUE IN q[x] + f[s \ {x}]]
      = [s \in SUBSET U |-> IF s = {} THEN 0
                                ELSE LET x == CHOOSE y \in s : TRUE
                                     IN  (IF x.consumption = None THEN 0 ELSE x.consumption) + f[s \ {x}]]
      BY <2>1
    <2> QED BY <2>2
  <1>2. (CHOOSE e : P(e)) = (CHOOSE e : Q(e))
    <2> HIDE DEF P, Q
    <2> QED BY <1>1, Zenon
  <1>3. Metering!MapThenSumSet(LAMBDA r : IF r.consumption = None THEN 0 ELSE r.consumption, U) = (CHOOSE e : Q(e))[U]
    BY Zenon DEF Metering!MapThenSumSet, Metering!MapThenFoldSet
  <1>4. Metering!MapThenSumSet(LAMBDA z : q[z], U) = (CHOOSE e : P(e))[U]
    BY Zenon DEF Metering!MapThenSumSet, Metering!MapThenFoldSet
  <1>5. Metering!MapThenSumSet(LAMBDA z : q[z], U) = Sum(q, U)  BY MeteringFold
  <1> QED BY <1>2, <1>3, <1>4, <1>5

\* The rows of a point's own page for a year, and what they come to.
RowsOf(p, year) == {r \in Metering!readings_with_consumption(p) : r.year = year}

RowsSum(p, year) ==
    Metering!MapThenSumSet(LAMBDA r : IF r.consumption = None THEN 0 ELSE r.consumption, RowsOf(p, year))

LEMMA FoldOfPoints ==
  ASSUME NEW U, IsFiniteSet(U), NEW year, NEW q, \A p \in U : q[p] = RowsSum(p, year) /\ q[p] \in Int
  PROVE  Metering!MapThenSumSet(LAMBDA p : RowsSum(p, year), U) = Sum(q, U)
  <1> DEFINE P(f) == f = [s \in SUBSET U |-> IF s = {} THEN 0
                         ELSE LET x == CHOOSE y \in s : TRUE IN q[x] + f[s \ {x}]]
      Q(f) == f = [s \in SUBSET U |-> IF s = {} THEN 0
                         ELSE LET x == CHOOSE y \in s : TRUE IN RowsSum(x, year) + f[s \ {x}]]
  <1>1. ASSUME NEW f PROVE P(f) <=> Q(f)
    <2>1. ASSUME NEW s \in SUBSET U, s # {}, NEW x, x = CHOOSE y \in s : TRUE PROVE q[x] = RowsSum(x, year)
      BY <2>1
    <2>2. [s \in SUBSET U |-> IF s = {} THEN 0
                                ELSE LET x == CHOOSE y \in s : TRUE IN q[x] + f[s \ {x}]]
      = [s \in SUBSET U |-> IF s = {} THEN 0
                                ELSE LET x == CHOOSE y \in s : TRUE IN RowsSum(x, year) + f[s \ {x}]]
      BY <2>1
    <2> QED BY <2>2
  <1>2. (CHOOSE e : P(e)) = (CHOOSE e : Q(e))
    <2> HIDE DEF P, Q
    <2> QED BY <1>1, Zenon
  <1>3. Metering!MapThenSumSet(LAMBDA p : RowsSum(p, year), U) = (CHOOSE e : Q(e))[U]
    BY Zenon DEF Metering!MapThenSumSet, Metering!MapThenFoldSet
  <1>4. Metering!MapThenSumSet(LAMBDA z : q[z], U) = (CHOOSE e : P(e))[U]
    BY Zenon DEF Metering!MapThenSumSet, Metering!MapThenFoldSet
  <1>5. Metering!MapThenSumSet(LAMBDA z : q[z], U) = Sum(q, U)  BY MeteringFold
  <1> QED BY <1>2, <1>3, <1>4, <1>5

-----------------------------------------------------------------------------
(* What the lists hold. *)

AllMeters(type) == UNION {Metering!MetersOf(p) : p \in Metering!PointsOf(type)}

CurrentMeters(type) == UNION {Metering!Current(p) : p \in Metering!PointsOf(type)}

LEMMA ListsOfMeters ==
  ASSUME Metering!MeteringAssumption, MeteringIInv, Finitely, NEW type
  PROVE  /\ IsFiniteSet(Metering!PointsOf(type)) /\ IsFiniteSet(AllMeters(type)) /\ IsFiniteSet(CurrentMeters(type))
         /\ \A m \in AllMeters(type) : /\ m \in Meters /\ meter[m] \in Metering!Meter /\ meter[m].point \in Metering!PointsOf(type)
         /\ CurrentMeters(type) = {m \in AllMeters(type) : meter[m].is_active}
         /\ \A p \in Metering!PointsOf(type) : p \in Points /\ point[p] # NoRow /\ \E c \in CurrentMeters(type) :
               Metering!Current(p) = {c} /\ {m \in CurrentMeters(type) : meter[m].point = p} = {c}
  <1>1. Metering!TypeOK /\ DOMAIN point = Points /\ DOMAIN meter = Meters
    BY DEF MeteringIInv, Metering!TypeOK
  <1>2. Metering!PointsOf(type) \subseteq Entered(point) /\ Metering!PointsOf(type) \subseteq Points
    BY <1>1 DEF Metering!PointsOf, Entered
  <1>3. \A m : m \in AllMeters(type) <=> m \in Meters /\ meter[m] # NoRow /\ meter[m].point \in Metering!PointsOf(type)
    <2>1. \A m : m \in AllMeters(type) <=> \E p \in Metering!PointsOf(type) : m \in Metering!MetersOf(p)
      BY Zenon DEF AllMeters
    <2> QED BY <2>1 DEF Metering!MetersOf
  <1>4. \A m : m \in CurrentMeters(type) <=> m \in AllMeters(type) /\ meter[m].is_active
    <2>1. \A m : m \in CurrentMeters(type) <=> \E p \in Metering!PointsOf(type) : m \in Metering!Current(p)
      BY Zenon DEF CurrentMeters
    <2> QED BY <1>3, <2>1 DEF Metering!Current, Metering!MetersOf
  <1>5. AllMeters(type) \subseteq Entered(meter)  BY <1>1, <1>3 DEF Entered
  <1>6. CurrentMeters(type) = {m \in AllMeters(type) : meter[m].is_active}  BY <1>4
  <1>7. IsFiniteSet(Metering!PointsOf(type)) /\ IsFiniteSet(AllMeters(type)) /\ IsFiniteSet(CurrentMeters(type))
    <2>1. IsFiniteSet(Metering!PointsOf(type)) /\ IsFiniteSet(AllMeters(type))
      BY <1>2, <1>5, FS_Subset DEF Finitely
    <2>2. CurrentMeters(type) \subseteq AllMeters(type)  BY <1>4
    <2> QED BY <2>1, <2>2, FS_Subset
  <1>8. \A m \in AllMeters(type) : m \in Meters /\ meter[m] \in Metering!Meter /\ meter[m].point \in Metering!PointsOf(type)
    BY <1>1, <1>3 DEF Metering!TypeOK
  <1>9. ASSUME NEW p \in Metering!PointsOf(type)
      PROVE  p \in Points /\ point[p] # NoRow /\ \E c \in CurrentMeters(type) :
                Metering!Current(p) = {c} /\ {m \in CurrentMeters(type) : meter[m].point = p} = {c}
    <2>1. p \in Points /\ point[p] # NoRow  BY DEF Metering!PointsOf
    <2>2. PICK c \in Meters : Metering!Current(p) = {c}  BY <2>1 DEF MeteringIInv, OneCounts
    <2>3. \A m \in CurrentMeters(type) : meter[m].point = p <=> m \in Metering!Current(p)
      BY <1>3, <1>4 DEF Metering!Current, Metering!MetersOf
    <2>4. c \in CurrentMeters(type)
      <3>1. c \in Metering!MetersOf(p) /\ meter[c].is_active  BY <2>2 DEF Metering!Current
      <3> QED BY <1>3, <1>4, <3>1 DEF Metering!MetersOf
    <2>5. {m \in CurrentMeters(type) : meter[m].point = p} = {c}  BY <2>2, <2>3, <2>4
    <2> QED BY <2>1, <2>2, <2>4, <2>5
  <1> QED BY <1>6, <1>7, <1>8, <1>9

\* Consumption is no number only for a year without a reading.
LEMMA ConsumptionOf ==
  ASSUME Metering!MeteringAssumption, NEW row \in Metering!Meter, NEW year \in Metering!Years
  PROVE  /\ Metering!Consumed(row, year) \in Int
         /\ Metering!Consumed(row, year) = IF Metering!calculate_consumption(row, year) = None THEN 0 ELSE Metering!calculate_consumption(row, year)
  <1>1. Metering!Consumed(row, year) \in Int  BY YearAdds
  <1>2. CASE year \in Metering!ReadIn(row)
    <2>1. Metering!Consumed(row, year) = Metering!calculate_consumption(row, year)
      BY <1>2 DEF Metering!Consumed
    <2> QED BY <1>1, <2>1 DEF Metering!MeteringAssumption
  <1>3. CASE year \notin Metering!ReadIn(row)
    BY <1>1, <1>3 DEF Metering!Consumed, Metering!calculate_consumption
  <1> QED BY <1>2, <1>3

\* The overview counts all meters, the evaluation those that count.
LEMMA OverviewTells ==
  ASSUME Metering!MeteringAssumption, MeteringIInv, Finitely, NEW year \in Metering!Years,
      \A m \in Meters : meter[m] # NoRow /\ ~ meter[m].is_active => year \notin Metering!ReadIn(meter[m])
  PROVE  Metering!overview(year) = Metering!evaluation(year)
  <1> SUFFICES ASSUME NEW type \in MeteringPointType PROVE Metering!overview(year)[type] = Metering!evaluation(year)[type]
    BY DEF Metering!overview, Metering!evaluation
  <1>1. PICK A : A = CurrentMeters(type)  OBVIOUS
  <1>2. PICK B : B = AllMeters(type)  OBVIOUS
  <1>3. PICK q : q = [m \in Meters |-> Metering!Consumed(meter[m], year)]  OBVIOUS
  <1>4. /\ IsFiniteSet(A) /\ IsFiniteSet(B) /\ A = {m \in B : meter[m].is_active}
        /\ \A m \in B : m \in Meters /\ meter[m] \in Metering!Meter  BY <1>1, <1>2, ListsOfMeters
  <1>5. \A m \in B : q[m] = Metering!Consumed(meter[m], year) /\ q[m] \in Int
    BY <1>3, <1>4, ConsumptionOf
  <1>6. \A m \in A : q[m] = Metering!Consumed(meter[m], year) /\ q[m] \in Int  BY <1>4, <1>5
  <1>7. \A m \in B \ A : q[m] = 0
    <2>1. \A m \in B \ A : meter[m] # NoRow /\ ~ meter[m].is_active /\ m \in Meters
      BY <1>4 DEF Metering!MeteringAssumption
    <2> QED BY <1>5, <2>1 DEF Metering!Consumed
  <1>8. Sum(q, B) = Sum(q, A)
    <2>1. A \subseteq B /\ \A m \in A : q[m] \in Int  BY <1>4, <1>6
    <2> QED BY <1>4, <1>7, <2>1, SumOfTheRest
  <1>9. Metering!MapThenSumSet(LAMBDA m : Metering!Consumed(meter[m], year), A) = Sum(q, A)
    BY <1>4, <1>6, FoldOfMeters
  <1>10. Metering!MapThenSumSet(LAMBDA m : Metering!Consumed(meter[m], year), B) = Sum(q, B)
    BY <1>4, <1>5, FoldOfMeters
  <1>11. Metering!evaluation(year)[type] = Metering!MapThenSumSet(LAMBDA m : Metering!Consumed(meter[m], year), CurrentMeters(type))
    BY Zenon DEF Metering!evaluation, CurrentMeters
  <1>12. Metering!overview(year)[type] = Metering!MapThenSumSet(LAMBDA m : Metering!Consumed(meter[m], year), AllMeters(type))
    BY Zenon DEF Metering!overview, Metering!total_consumption_for_type, AllMeters
  <1> QED BY <1>1, <1>2, <1>8, <1>9, <1>10, <1>11, <1>12

\* What the meters that count have consumed, point by point.
LEMMA PointByPoint ==
  ASSUME Metering!MeteringAssumption, MeteringIInv, Finitely, NEW year \in Metering!Years, NEW type \in MeteringPointType,
      NEW r, \A p \in Metering!PointsOf(type) : \A c \in Metering!Current(p) : r[p] = Metering!Consumed(meter[c], year)
  PROVE  Metering!evaluation(year)[type] = Sum(r, Metering!PointsOf(type)) /\ \A p \in Metering!PointsOf(type) : r[p] \in Int
  <1>1. PICK U : U = CurrentMeters(type)  OBVIOUS
  <1>2. PICK V : V = Metering!PointsOf(type)  OBVIOUS
  <1>3. PICK q : q = [m \in Meters |-> Metering!Consumed(meter[m], year)]  OBVIOUS
  <1>4. PICK sort : sort = [m \in Meters |-> meter[m].point]  OBVIOUS
  <1>5. /\ IsFiniteSet(U) /\ IsFiniteSet(V)
        /\ \A m \in U : m \in Meters /\ meter[m] \in Metering!Meter /\ meter[m].point \in V
        /\ \A p \in V : \E c \in U : Metering!Current(p) = {c} /\ {m \in U : meter[m].point = p} = {c}
    BY <1>1, <1>2, ListsOfMeters
  <1>6. \A m \in U : q[m] = Metering!Consumed(meter[m], year) /\ q[m] \in Int
    BY <1>3, <1>5, ConsumptionOf
  <1>7. \A m \in U : sort[m] = meter[m].point  BY <1>4, <1>5
  <1>8. ASSUME NEW p \in V PROVE r[p] = Sum(q, {m \in U : sort[m] = p}) /\ r[p] \in Int
    <2>1. PICK c \in U : Metering!Current(p) = {c} /\ {m \in U : meter[m].point = p} = {c}  BY <1>5
    <2>2. {m \in U : sort[m] = p} = {c}  BY <1>7, <2>1
    <2>3. Sum(q, {c}) = q[c]  BY <1>6, SumOne
    <2>4. r[p] = q[c]  BY <1>2, <1>6, <2>1
    <2> QED BY <1>6, <2>2, <2>3, <2>4
  <1>9. BySort(U, q, sort, V, r)  BY <1>5, <1>6, <1>7, <1>8 DEF BySort
  <1>10. Sum(r, V) = Sum(q, U)  BY <1>9, SumBySorts
  <1>11. Metering!MapThenSumSet(LAMBDA m : Metering!Consumed(meter[m], year), U) = Sum(q, U)
    BY <1>5, <1>6, FoldOfMeters
  <1>12. Metering!evaluation(year)[type] = Metering!MapThenSumSet(LAMBDA m : Metering!Consumed(meter[m], year), CurrentMeters(type))
    BY Zenon DEF Metering!evaluation, CurrentMeters
  <1> QED BY <1>1, <1>2, <1>8, <1>10, <1>11, <1>12

\* The points' own pages add up to the evaluation.
LEMMA OwnPagesTell ==
  ASSUME Metering!MeteringAssumption, MeteringIInv, Finitely, NEW year \in Metering!Years, NEW type \in MeteringPointType
  PROVE  Metering!MapThenSumSet(LAMBDA p : RowsSum(p, year), Metering!PointsOf(type)) = Metering!evaluation(year)[type]
  <1>1. PICK V : V = Metering!PointsOf(type)  OBVIOUS
  <1>2. PICK r : r = [p \in Points |-> RowsSum(p, year)]  OBVIOUS
  <1>3. /\ IsFiniteSet(V)
        /\ \A p \in V : p \in Points /\ \E c \in Meters : Metering!Current(p) = {c} /\ meter[c] \in Metering!Meter
    BY <1>1, ListsOfMeters
  <1>4. ASSUME NEW p \in V, NEW c \in Metering!Current(p) PROVE r[p] = Metering!Consumed(meter[c], year) /\ r[p] \in Int
    <2>1. Metering!Current(p) = {c} /\ meter[c] \in Metering!Meter /\ p \in Points  BY <1>3
    <2>2. PICK row : row = [year |-> year, consumption |-> Metering!calculate_consumption(meter[c], year)]
      OBVIOUS
    <2>3. RowsOf(p, year) = {row}  BY <2>1, <2>2 DEF RowsOf, Metering!readings_with_consumption
    <2>4. Counted(row) = Metering!Consumed(meter[c], year) /\ Counted(row) \in Int
      BY <2>1, <2>2, ConsumptionOf DEF Counted
    <2>5. PICK q : q = [x \in {row} |-> Counted(x)]  OBVIOUS
    <2>6. q[row] = Counted(row) /\ q[row] \in Int /\ IsFiniteSet({row})  BY <2>4, <2>5, FS_Singleton
    <2>7. \A x \in {row} : q[x] = Counted(x) /\ q[x] \in Int  BY <2>6
    <2>8. Metering!MapThenSumSet(LAMBDA x : IF x.consumption = None THEN 0 ELSE x.consumption, {row}) = Sum(q, {row})
      BY <2>6, <2>7, FoldOfRows
    <2>9. Sum(q, {row}) = q[row]  BY <2>6, SumOne
    <2>10. RowsSum(p, year) = Metering!MapThenSumSet(LAMBDA x : IF x.consumption = None THEN 0 ELSE x.consumption, {row})
      BY <2>3, Zenon DEF RowsSum
    <2> QED BY <1>2, <2>1, <2>4, <2>6, <2>8, <2>9, <2>10
  <1>5. \A p \in Metering!PointsOf(type) : \A c \in Metering!Current(p) : r[p] = Metering!Consumed(meter[c], year)
    BY <1>1, <1>4
  <1>6. Metering!evaluation(year)[type] = Sum(r, Metering!PointsOf(type))  BY <1>5, PointByPoint
  <1>7. \A p \in V : r[p] = RowsSum(p, year) /\ r[p] \in Int  BY <1>2, <1>3, <1>4
  <1>8. Metering!MapThenSumSet(LAMBDA p : RowsSum(p, year), V) = Sum(r, V)  BY <1>3, <1>7, FoldOfPoints
  <1> QED BY <1>1, <1>6, <1>8

\* So do the API's rows.
LEMMA RowsTell ==
  ASSUME Metering!MeteringAssumption, MeteringIInv, Finitely, NEW year \in Metering!Years, NEW type \in MeteringPointType
  PROVE  Metering!MapThenSumSet(LAMBDA r : IF r.consumption = None THEN 0 ELSE r.consumption, Metering!evaluation_rows(type, year))
           = Metering!evaluation(year)[type]
  <1>1. PICK V : V = Metering!PointsOf(type)  OBVIOUS
  <1>2. PICK U : U = CurrentMeters(type)  OBVIOUS
  <1>3. PICK f : f = [m \in Meters |-> [metering_point |-> meter[m].point,
      consumption |-> Metering!calculate_consumption(meter[m], year)]]
    OBVIOUS
  <1>4. PICK W : W = Metering!evaluation_rows(type, year)  OBVIOUS
  <1>5. /\ IsFiniteSet(U) /\ IsFiniteSet(V)
        /\ \A m \in U : m \in Meters /\ meter[m] \in Metering!Meter /\ meter[m].point \in V
        /\ \A p \in V : \E c \in U : Metering!Current(p) = {c} /\ {m \in U : meter[m].point = p} = {c}
    BY <1>1, <1>2, ListsOfMeters
  <1>6. W = {f[m] : m \in U}
    <2>1. W = {[metering_point |-> meter[m].point, consumption |-> Metering!calculate_consumption(meter[m], year)] : m \in U}
      BY <1>2, <1>4, Zenon DEF Metering!evaluation_rows, CurrentMeters
    <2>2. \A m \in U : f[m] = [metering_point |-> meter[m].point, consumption |-> Metering!calculate_consumption(meter[m], year)]
      BY <1>3, <1>5
    <2> QED BY <2>1, <2>2
  <1>7. IsFiniteSet(W)  BY <1>5, <1>6, FiniteImage
  <1>8. PICK q : q = [w \in W |-> Counted(w)]  OBVIOUS
  <1>9. PICK sort : sort = [w \in W |-> w.metering_point]  OBVIOUS
  <1>10. ASSUME NEW m \in U
      PROVE  f[m] \in W /\ sort[f[m]] = meter[m].point /\ q[f[m]] = Metering!Consumed(meter[m], year) /\ q[f[m]] \in Int
    <2>1. f[m] \in W  BY <1>6
    <2>2. PICK w : w = f[m]  OBVIOUS
    <2>3. w.metering_point = meter[m].point /\ w.consumption = Metering!calculate_consumption(meter[m], year)
      BY <1>3, <1>5, <2>2
    <2>4. meter[m] \in Metering!Meter  BY <1>5
    <2>5. Counted(w) = Metering!Consumed(meter[m], year) /\ Counted(w) \in Int
      BY <2>3, <2>4, ConsumptionOf DEF Counted
    <2> QED BY <1>8, <1>9, <2>1, <2>2, <2>3, <2>5
  <1>11. \A w \in W : q[w] = Counted(w) /\ q[w] \in Int /\ sort[w] \in V
    <2>1. \A w \in W : q[w] = Counted(w)  BY <1>8
    <2>2. \A w \in W : \E m \in U : w = f[m]  BY <1>6
    <2> QED BY <1>5, <1>10, <2>1, <2>2
  <1>12. PICK r : r = [p \in Points |-> Sum(q, {w \in W : sort[w] = p})]  OBVIOUS
  <1>13. V \subseteq Points  BY <1>1 DEF Metering!PointsOf
  <1>14. \A p \in V : r[p] = Sum(q, {w \in W : sort[w] = p})  BY <1>12, <1>13
  <1>15. ASSUME NEW p \in V, NEW c \in Metering!Current(p) PROVE r[p] = Metering!Consumed(meter[c], year)
    <2>1. c \in U /\ {m \in U : meter[m].point = p} = {c}  BY <1>5
    <2>2. {w \in W : sort[w] = p} = {f[c]}
      <3>1. \A w \in W : sort[w] = p => w = f[c]
        <4> SUFFICES ASSUME NEW w \in W, sort[w] = p PROVE w = f[c]  OBVIOUS
        <4>1. PICK m \in U : w = f[m]  BY <1>6
        <4>2. meter[m].point = p  BY <1>10, <4>1
        <4>3. m = c  BY <2>1, <4>2
        <4> QED BY <4>1, <4>3
      <3>2. f[c] \in W /\ sort[f[c]] = p  BY <1>10, <2>1
      <3> QED BY <3>1, <3>2
    <2>3. Sum(q, {f[c]}) = q[f[c]] /\ q[f[c]] = Metering!Consumed(meter[c], year)  BY <1>10, <2>1, SumOne
    <2> QED BY <1>14, <2>2, <2>3
  <1>16. BySort(W, q, sort, V, r)  BY <1>5, <1>7, <1>11, <1>14 DEF BySort
  <1>17. Sum(r, V) = Sum(q, W)  BY <1>16, SumBySorts
  <1>18. Metering!MapThenSumSet(LAMBDA x : IF x.consumption = None THEN 0 ELSE x.consumption, W) = Sum(q, W)
    BY <1>7, <1>11, FoldOfRows
  <1>19. Metering!evaluation(year)[type] = Sum(r, Metering!PointsOf(type))
    <2>1. \A p \in Metering!PointsOf(type) : \A c \in Metering!Current(p) : r[p] = Metering!Consumed(meter[c], year)
      BY <1>1, <1>15
    <2> QED BY <2>1, PointByPoint
  <1> QED BY <1>1, <1>4, <1>17, <1>18, <1>19

\* A reading that is exported is taken back.
LEMMA ExportIsTaken ==
  ASSUME Metering!MeteringAssumption, MeteringIInv, NEW year \in Metering!Years, NEW row \in Metering!readings_export_csv(year)
  PROVE  /\ Metering!Recorded(meter, row.meter, year, row.value) = meter
         /\ row.value >= meter[row.meter].initial_reading => Metering!Plausible(meter[row.meter], year, row.value)
  <1>1. PICK m \in {k \in UNION {Metering!Current(p) : p \in Points} : year \in Metering!ReadIn(meter[k])} :
      row = [meter |-> m, year |-> year, value |-> meter[m].readings[year]]
    BY DEF Metering!readings_export_csv
  <1>2. year \in Metering!ReadIn(meter[m]) /\ \E p \in Points : m \in Metering!Current(p)  BY <1>1, Zenon
  <1>3. m \in Meters /\ meter[m] # NoRow  BY <1>2 DEF Metering!Current, Metering!MetersOf
  <1>4. row.meter = m /\ row.value = meter[m].readings[year]  BY <1>1
  <1>5. meter \in [Meters -> Metering!Meter \cup {NoRow}]  BY DEF MeteringIInv, Metering!TypeOK
  <1>6. PICK old \in Metering!Meter : old = meter[m]  BY <1>3, <1>5
  <1>7. Metering!Recorded(meter, m, year, old.readings[year]) = meter
    <2>1. PICK readings : readings = [old.readings EXCEPT ![year] = old.readings[year]]  OBVIOUS
    <2>2. readings = old.readings  BY <2>1 DEF Metering!Meter
    <2>3. [old EXCEPT !.readings = readings] = old  BY <2>2 DEF Metering!Meter
    <2>4. [meter EXCEPT ![m] = [old EXCEPT !.readings = readings]] = meter  BY <1>3, <1>5, <1>6, <2>3
    <2>5. [meter EXCEPT ![m].readings[year] = old.readings[year]] = meter  BY <1>6, <2>1, <2>4
    <2> QED BY <2>5 DEF Metering!Recorded
  <1>8. PICK value \in Int : value = old.readings[year]
    BY <1>2, <1>6, RowFacts DEF Metering!MeteringAssumption
  <1>9. year \in Nat /\ Metering!ReadIn(old) \in SUBSET (1..LastYear) /\ LastYear \in Nat
    BY RowFacts DEF Metering!Years, Metering!MeteringAssumption
  <1>10. Forward(old)  BY <1>3, <1>6 DEF MeteringIInv, AllForward
  <1>11. ASSUME value >= old.initial_reading PROVE Metering!Plausible(old, year, value)
    <2>1. value >= Metering!reading_before_year(old, year)
      <3>1. CASE {y \in Metering!ReadIn(old) : y < year} = {}  BY <1>9, <1>11, <3>1, ReadingBefore
      <3>2. CASE {y \in Metering!ReadIn(old) : y < year} # {}
        <4>1. PICK last \in Metering!ReadIn(old) : last < year /\ Metering!reading_before_year(old, year) = old.readings[last]
          BY <1>9, <3>2, ReadingBefore
        <4>2. old.readings[last] <= old.readings[year]  BY <1>2, <1>6, <1>10, <4>1 DEF Forward
        <4>3. old.readings[last] \in Int  BY <4>1, RowFacts DEF Metering!MeteringAssumption
        <4> QED BY <1>8, <4>1, <4>2, <4>3
      <3> QED BY <3>1, <3>2
    <2>2. ASSUME NEW y \in Metering!ReadIn(old), y = Metering!Min({z \in Metering!ReadIn(old) : z > year} \cup {LastYear + 1})
        PROVE  value <= old.readings[y]
      <3>1. {z \in Metering!ReadIn(old) : z > year} \cup {LastYear + 1} \in SUBSET Nat  BY <1>9
      <3>2. y \in {z \in Metering!ReadIn(old) : z > year} \cup {LastYear + 1}  BY <2>2, <3>1, LeastYear
      <3>3. year < y  BY <1>9, <3>2
      <3>4. old.readings[year] <= old.readings[y]  BY <1>2, <1>6, <1>10, <3>3 DEF Forward
      <3> QED BY <1>8, <3>4
    <2> QED BY <2>1, <2>2 DEF Metering!Plausible
  <1> QED BY <1>4, <1>6, <1>7, <1>8, <1>11

-----------------------------------------------------------------------------
\* ConsumptionAddsUp: over the years a meter's consumption is what it advanced by, with
\* gaps between the readings and whatever was corrected (calculate_consumption).
THEOREM ConsumptionIsAdvance ==
  ASSUME Metering!MeteringAssumption  PROVE Metering!Spec => []Metering!ConsumptionAddsUp
  <1>1. ASSUME MeteringIInv, Finitely PROVE Metering!ConsumptionAddsUp
    <2>1. ASSUME NEW m \in Meters, meter[m] # NoRow, Metering!ReadIn(meter[m]) # {}
        PROVE  Metering!MapThenSumSet(LAMBDA y : Metering!Consumed(meter[m], y), Metering!Years)
                 = meter[m].readings[Metering!Max(Metering!ReadIn(meter[m]))] - meter[m].initial_reading
      <3>1. meter[m] \in Metering!Meter  BY <1>1, <2>1 DEF MeteringIInv, Metering!TypeOK
      <3> QED BY <2>1, <3>1, MeterAddsUp
    <2>2. ASSUME NEW y \in Metering!Years,
               \A m \in Meters : meter[m] # NoRow /\ ~meter[m].is_active => y \notin Metering!ReadIn(meter[m])
        PROVE  Metering!overview(y) = Metering!evaluation(y)  BY <1>1, <2>2, OverviewTells
    <2> QED BY <2>1, <2>2, Zenon DEF Metering!ConsumptionAddsUp
  <1>2. MeteringIInv /\ Finitely => Metering!ConsumptionAddsUp  BY <1>1
  <1> QED BY <1>2, FinitelyInvariant, PTL

\* PagesAgree: the API's rows and the points' own pages add up to the evaluation of the
\* year, and an exported reading is taken back (evaluation, readings_export_csv).
THEOREM PagesDoAgree ==
  ASSUME Metering!MeteringAssumption  PROVE Metering!Spec => []Metering!PagesAgree
  <1>1. ASSUME MeteringIInv, Finitely PROVE Metering!PagesAgree
    <2>1. ASSUME NEW y \in Metering!Years, NEW type \in MeteringPointType
        PROVE  /\ Metering!MapThenSumSet(LAMBDA r : IF r.consumption = None THEN 0 ELSE r.consumption,
                                Metering!evaluation_rows(type, y)) = Metering!evaluation(y)[type]
               /\ Metering!MapThenSumSet(LAMBDA p :
                      Metering!MapThenSumSet(LAMBDA r : IF r.consumption = None THEN 0 ELSE r.consumption,
                                    {r \in Metering!readings_with_consumption(p) : r.year = y}),
                      Metering!PointsOf(type)) = Metering!evaluation(y)[type]
      <3>1. Metering!MapThenSumSet(LAMBDA p : RowsSum(p, y), Metering!PointsOf(type)) = Metering!evaluation(y)[type]
        BY <1>1, OwnPagesTell
      <3> QED BY <1>1, <3>1, RowsTell, Zenon DEF RowsSum, RowsOf
    <2>2. ASSUME NEW y \in Metering!Years, NEW row \in Metering!readings_export_csv(y)
        PROVE  /\ Metering!Recorded(meter, row.meter, y, row.value) = meter
               /\ row.value >= meter[row.meter].initial_reading => Metering!Plausible(meter[row.meter], y, row.value)
      BY <1>1, ExportIsTaken
    <2> QED BY <2>1, <2>2, Zenon DEF Metering!PagesAgree
  <1>2. MeteringIInv /\ Finitely => Metering!PagesAgree  BY <1>1
  <1> QED BY <1>2, FinitelyInvariant, PTL

(* All that the metering promises, for any points, meters, years and readings *)
(* (metering.py, meter_utils.py).                                            *)
THEOREM MetersDoAddUp == ASSUME Metering!MeteringAssumption PROVE Metering!Spec => []Metering!MetersAddUp
  <1>1. (/\ Metering!TypeOK /\ Metering!MetersRunForward
         /\ Metering!ConsumptionAddsUp /\ Metering!PagesAgree) => Metering!MetersAddUp
    BY DEF Metering!MetersAddUp
  <1> QED BY <1>1, MeteringTypeCorrect, ReadingsRunForward, ConsumptionIsAdvance, PagesDoAgree, PTL

-----------------------------------------------------------------------------
(* What work hours are credited from (WorkHoursBook), for any sessions,      *)
(* people, sponsorships, roles and years of any length.                     *)
(*                                                                         *)
(* A sponsorship reaches the year it begins in because its dates are in      *)
(* order (DatesInOrder), whichever of them a request has named.  The list    *)
(* below a member has a row per session, and the number in the navigation is *)
(* counted twice over: by sessions, then by years.                           *)
CONSTANTS
    Volunteers, Sessions, Sponsorships, Roles, YearLength, LastDay, Hours, Required,
    NEW_PARTICIPATION_WINDOW_DAYS

VARIABLES
    today, configuration, session, participation, sponsorship, exempting, holds

HoursBook == INSTANCE WorkHoursBook WITH Members <- Volunteers

Pairs == Sessions \X Volunteers

SignedUp == {p \in Pairs : participation[p] # NoRow}

OnTheBook == {s \in Sessions : session[s] # NoRow}

DatesInOrder ==
    \A s \in Sponsorships : sponsorship[s] # NoRow =>
        (sponsorship[s].valid_from # None /\ sponsorship[s].valid_until # None
            => sponsorship[s].valid_from <= sponsorship[s].valid_until)

HoursIInv ==
    /\ HoursBook!TypeOK /\ DatesInOrder
    /\ IsFiniteSet(SignedUp) /\ IsFiniteSet(OnTheBook)

LEMMA HoursInit == ASSUME HoursBook!HoursBookAssumption, HoursBook!Init PROVE HoursIInv
  <1>1. SignedUp = {} /\ OnTheBook = {}  BY DEF HoursBook!Init, SignedUp, OnTheBook, Pairs
  <1>2. IsFiniteSet(SignedUp) /\ IsFiniteSet(OnTheBook)  BY <1>1, FS_EmptySet
  <1>3. DatesInOrder  BY DEF HoursBook!Init, DatesInOrder
  <1>4. HoursBook!TypeOK
    BY DEF HoursBook!Init, HoursBook!TypeOK, HoursBook!HoursBookAssumption, HoursBook!Days
  <1> QED BY <1>2, <1>3, <1>4 DEF HoursIInv

\* A step that leaves the rows of sessions and sign-ups alone leaves them finite.
LEMMA OtherRows ==
  ASSUME HoursIInv, UNCHANGED <<session, participation>>
  PROVE  IsFiniteSet(SignedUp') /\ IsFiniteSet(OnTheBook')
  BY DEF HoursIInv, SignedUp, OnTheBook

-----------------------------------------------------------------------------
(* Sessions and who took part. *)

LEMMA SessionWritten ==
  ASSUME HoursBook!HoursBookAssumption, HoursIInv, NEW s \in Sessions, NEW row \in HoursBook!WorkSession,
      session' = [session EXCEPT ![s] = row],
      UNCHANGED <<today, configuration, participation, sponsorship, exempting, holds>>
  PROVE  HoursIInv'
  <1>1. HoursBook!TypeOK'  BY DEF HoursIInv, HoursBook!TypeOK, HoursBook!HoursBookAssumption
  <1>2. OnTheBook' \subseteq OnTheBook \cup {s} /\ SignedUp' = SignedUp
    BY DEF HoursIInv, HoursBook!TypeOK, OnTheBook, SignedUp
  <1>3. IsFiniteSet(OnTheBook') /\ IsFiniteSet(SignedUp')  BY <1>2, FS_AddElement, FS_Subset DEF HoursIInv
  <1>4. DatesInOrder'  BY DEF HoursIInv, DatesInOrder
  <1> QED BY <1>1, <1>3, <1>4 DEF HoursIInv

LEMMA SessionsStep ==
  ASSUME HoursBook!HoursBookAssumption, HoursIInv, NEW s \in Sessions,
      \/ HoursBook!create_session(s) \/ HoursBook!session_update(s) \/ HoursBook!api_session_update(s)
  PROVE  HoursIInv'
  <1>1. CASE HoursBook!create_session(s)  BY <1>1, SessionWritten DEF HoursBook!create_session
  <1>2. CASE HoursBook!session_update(s)
    BY <1>2, SessionWritten DEF HoursBook!session_update, HoursBook!update_session
  <1>3. CASE HoursBook!api_session_update(s)
    <2>1. PICK row \in HoursBook!WorkSession : HoursBook!update_session(s, [row EXCEPT !.date = session[s].date])
      BY <1>3 DEF HoursBook!api_session_update
    <2>2. session[s] \in HoursBook!WorkSession
      BY <1>3 DEF HoursBook!api_session_update, HoursIInv, HoursBook!TypeOK
    <2>3. [row EXCEPT !.date = session[s].date] \in HoursBook!WorkSession
      BY <2>2 DEF HoursBook!WorkSession
    <2> QED BY <2>1, <2>3, SessionWritten DEF HoursBook!update_session
  <1> QED BY <1>1, <1>2, <1>3

LEMMA SessionGone ==
  ASSUME HoursBook!HoursBookAssumption, HoursIInv, NEW s \in Sessions, HoursBook!session_delete(s)
  PROVE  HoursIInv'
  <1> USE DEF HoursBook!session_delete
  <1>1. HoursBook!TypeOK'  BY DEF HoursIInv, HoursBook!TypeOK
  <1>2. OnTheBook' \subseteq OnTheBook /\ SignedUp' \subseteq SignedUp
    BY DEF HoursIInv, HoursBook!TypeOK, OnTheBook, SignedUp, Pairs
  <1>3. IsFiniteSet(OnTheBook') /\ IsFiniteSet(SignedUp')  BY <1>2, FS_Subset DEF HoursIInv
  <1>4. DatesInOrder'  BY DEF HoursIInv, DatesInOrder
  <1> QED BY <1>1, <1>3, <1>4 DEF HoursIInv

LEMMA Reviewed ==
  ASSUME HoursBook!HoursBookAssumption, HoursIInv, NEW s \in Sessions, HoursBook!mark_signups_reviewed(s)
  PROVE  HoursIInv'
  <1> USE DEF HoursBook!mark_signups_reviewed
  <1>0. \A p \in Pairs : participation[p] # NoRow =>
      [participation[p] EXCEPT !.reviewed = TRUE] \in HoursBook!SessionParticipation
    BY DEF HoursIInv, HoursBook!TypeOK, HoursBook!SessionParticipation, Pairs
  <1>1. HoursBook!TypeOK'
    <2>1. participation' \in [Pairs -> HoursBook!SessionParticipation \cup {NoRow}]
      BY <1>0 DEF HoursIInv, HoursBook!TypeOK, Pairs
    <2>2. \A p \in Pairs : session[p[1]] = NoRow => participation'[p] = NoRow
      BY DEF HoursIInv, HoursBook!TypeOK, Pairs
    <2> QED BY <2>1, <2>2 DEF HoursIInv, HoursBook!TypeOK, Pairs
  <1>2. OnTheBook' = OnTheBook /\ SignedUp' \subseteq SignedUp
    BY DEF HoursIInv, HoursBook!TypeOK, OnTheBook, SignedUp, Pairs
  <1>3. IsFiniteSet(OnTheBook') /\ IsFiniteSet(SignedUp')  BY <1>2, FS_Subset DEF HoursIInv
  <1>4. DatesInOrder'  BY DEF HoursIInv, DatesInOrder
  <1> QED BY <1>1, <1>3, <1>4 DEF HoursIInv

LEMMA ParticipationWritten ==
  ASSUME HoursBook!HoursBookAssumption, HoursIInv, NEW p \in Pairs,
      NEW row \in HoursBook!SessionParticipation \cup {NoRow}, session[p[1]] # NoRow,
      participation' = [participation EXCEPT ![p] = row],
      UNCHANGED <<today, configuration, session, sponsorship, exempting, holds>>
  PROVE  HoursIInv'
  <1>1. HoursBook!TypeOK'
    <2>1. participation' \in [Pairs -> HoursBook!SessionParticipation \cup {NoRow}]
      BY DEF HoursIInv, HoursBook!TypeOK, Pairs
    <2>2. \A q \in Pairs : session[q[1]] = NoRow => participation'[q] = NoRow
      BY DEF HoursIInv, HoursBook!TypeOK, Pairs
    <2> QED BY <2>1, <2>2 DEF HoursIInv, HoursBook!TypeOK, Pairs
  <1>2. OnTheBook' = OnTheBook /\ SignedUp' \subseteq SignedUp \cup {p}
    BY DEF HoursIInv, HoursBook!TypeOK, OnTheBook, SignedUp, Pairs
  <1>3. IsFiniteSet(OnTheBook') /\ IsFiniteSet(SignedUp')  BY <1>2, FS_AddElement, FS_Subset DEF HoursIInv
  <1>4. DatesInOrder'  BY DEF HoursIInv, DatesInOrder
  <1> QED BY <1>1, <1>3, <1>4 DEF HoursIInv

LEMMA ParticipationsStep ==
  ASSUME HoursBook!HoursBookAssumption, HoursIInv, NEW p \in Pairs,
      \/ HoursBook!add_participation(p) \/ HoursBook!participation_status_change(p)
      \/ HoursBook!api_participation_update(p) \/ HoursBook!participation_remove(p)
  PROVE  HoursIInv'
  <1>0. participation[p] # NoRow =>
      participation[p] \in HoursBook!SessionParticipation /\ session[p[1]] # NoRow
    BY DEF HoursIInv, HoursBook!TypeOK, Pairs
  <1>1. CASE HoursBook!add_participation(p)  BY <1>1, ParticipationWritten DEF HoursBook!add_participation
  <1>2. CASE HoursBook!participation_status_change(p)
    <2>1. PICK sent \in HoursBook!SessionParticipation :
        HoursBook!update_participation(p, [participation[p] EXCEPT !.status = sent.status,
            !.hours_completed = IF sent.hours_completed = None THEN @ ELSE sent.hours_completed])
      BY <1>2 DEF HoursBook!participation_status_change
    <2>2. participation[p] # NoRow  BY <2>1 DEF HoursBook!update_participation
    <2>3. [participation[p] EXCEPT !.status = sent.status,
        !.hours_completed = IF sent.hours_completed = None THEN @ ELSE sent.hours_completed]
           \in HoursBook!SessionParticipation  BY <1>0, <2>2 DEF HoursBook!SessionParticipation
    <2> QED BY <1>0, <2>1, <2>2, <2>3, ParticipationWritten DEF HoursBook!update_participation
  <1>3. CASE HoursBook!api_participation_update(p)
    <2>1. PICK sent \in HoursBook!SessionParticipation :
        \/ HoursBook!update_participation(p, [participation[p] EXCEPT !.hours_completed = sent.hours_completed])
        \/ HoursBook!update_participation(p, [participation[p] EXCEPT !.status = sent.status])
      BY <1>3 DEF HoursBook!api_participation_update
    <2>2. participation[p] # NoRow  BY <2>1 DEF HoursBook!update_participation
    <2>3. /\ [participation[p] EXCEPT !.hours_completed = sent.hours_completed] \in HoursBook!SessionParticipation
          /\ [participation[p] EXCEPT !.status = sent.status] \in HoursBook!SessionParticipation
      BY <1>0, <2>2 DEF HoursBook!SessionParticipation
    <2> QED BY <1>0, <2>1, <2>2, <2>3, ParticipationWritten DEF HoursBook!update_participation
  <1>4. CASE HoursBook!participation_remove(p)
    BY <1>0, <1>4, ParticipationWritten DEF HoursBook!participation_remove
  <1> QED BY <1>1, <1>2, <1>3, <1>4

-----------------------------------------------------------------------------
(* Sponsorships, and the rest. *)

LEMMA SponsorshipWritten ==
  ASSUME HoursBook!HoursBookAssumption, HoursIInv, NEW s \in Sponsorships, NEW row \in HoursBook!Sponsorship,
      NEW sent, HoursBook!Saved(s, row, sent),
      UNCHANGED <<today, configuration, session, participation, exempting, holds>>
  PROVE  HoursIInv'
  <1> USE DEF HoursBook!Saved, HoursBook!_check_sponsorship_dates
  <1>1. HoursBook!TypeOK'  BY DEF HoursIInv, HoursBook!TypeOK
  <1>2. DatesInOrder'  BY DEF HoursIInv, HoursBook!TypeOK, DatesInOrder
  <1> QED BY <1>1, <1>2, OtherRows DEF HoursIInv

LEMMA SponsorshipsStep ==
  ASSUME HoursBook!HoursBookAssumption, HoursIInv, NEW s \in Sponsorships,
      \/ HoursBook!create_sponsorship(s) \/ HoursBook!sponsorship_update(s)
      \/ HoursBook!api_sponsorship_update(s) \/ HoursBook!sponsorship_delete(s)
  PROVE  HoursIInv'
  <1>1. CASE HoursBook!create_sponsorship(s)  BY <1>1, SponsorshipWritten DEF HoursBook!create_sponsorship
  <1>2. CASE HoursBook!sponsorship_update(s)  BY <1>2, SponsorshipWritten DEF HoursBook!sponsorship_update
  <1>3. CASE HoursBook!api_sponsorship_update(s)
    <2>1. PICK d \in HoursBook!Days \cup {None} :
        \/ HoursBook!Saved(s, [sponsorship[s] EXCEPT !.valid_from = d], {"valid_from"})
        \/ HoursBook!Saved(s, [sponsorship[s] EXCEPT !.valid_until = d], {"valid_until"})
      BY <1>3 DEF HoursBook!api_sponsorship_update
    <2>2. sponsorship[s] \in HoursBook!Sponsorship
      BY <1>3 DEF HoursBook!api_sponsorship_update, HoursIInv, HoursBook!TypeOK
    <2>3. /\ [sponsorship[s] EXCEPT !.valid_from = d] \in HoursBook!Sponsorship
          /\ [sponsorship[s] EXCEPT !.valid_until = d] \in HoursBook!Sponsorship
      BY <2>2 DEF HoursBook!Sponsorship
    <2> QED BY <1>3, <2>1, <2>3, SponsorshipWritten DEF HoursBook!api_sponsorship_update
  <1>4. CASE HoursBook!sponsorship_delete(s)
    <2> USE <1>4 DEF HoursBook!sponsorship_delete
    <2>1. HoursBook!TypeOK'  BY DEF HoursIInv, HoursBook!TypeOK
    <2>2. DatesInOrder'  BY DEF HoursIInv, HoursBook!TypeOK, DatesInOrder
    <2> QED BY <2>1, <2>2, OtherRows DEF HoursIInv
  <1> QED BY <1>1, <1>2, <1>3, <1>4

\* Requirements, roles, who holds them, and the day.
LEMMA YearsAndRolesStep ==
  ASSUME HoursBook!HoursBookAssumption, HoursIInv, UNCHANGED <<session, participation, sponsorship>>,
      today' \in HoursBook!Days,
      configuration' \in [HoursBook!Years -> HoursBook!WorkHoursConfiguration \cup {NoRow}],
      exempting' \in [Roles -> HoursBook!ClubRole \cup {NoRow}],
      holds' \subseteq {h \in HoursBook!MemberClubRole : exempting'[h[2]] # NoRow}
  PROVE  HoursIInv'
  <1>1. HoursBook!TypeOK'  BY DEF HoursIInv, HoursBook!TypeOK
  <1>2. DatesInOrder'  BY DEF HoursIInv, DatesInOrder
  <1> QED BY <1>1, <1>2, OtherRows DEF HoursIInv

LEMMA RequirementsStep ==
  ASSUME HoursBook!HoursBookAssumption, HoursIInv, NEW y \in HoursBook!Years,
      \/ HoursBook!save_configuration_for_year(y) \/ HoursBook!configuration_delete(y)
      \/ \E z \in HoursBook!Years : HoursBook!configuration_update(y, z)
  PROVE  HoursIInv'
  <1>1. configuration' \in [HoursBook!Years -> HoursBook!WorkHoursConfiguration \cup {NoRow}]
    BY DEF HoursBook!save_configuration_for_year, HoursBook!configuration_delete, HoursBook!configuration_update,
        HoursIInv, HoursBook!TypeOK, HoursBook!WorkHoursConfiguration
  <1>2. UNCHANGED <<today, session, participation, sponsorship, exempting, holds>>
    BY DEF HoursBook!save_configuration_for_year, HoursBook!configuration_delete, HoursBook!configuration_update
  <1> QED BY <1>1, <1>2, YearsAndRolesStep DEF HoursIInv, HoursBook!TypeOK

LEMMA RolesStep ==
  ASSUME HoursBook!HoursBookAssumption, HoursIInv, NEW r \in Roles,
      HoursBook!club_role_create(r) \/ HoursBook!club_role_update(r) \/ HoursBook!club_role_delete(r)
  PROVE  HoursIInv'
  <1> USE DEF HoursBook!club_role_create, HoursBook!club_role_update, HoursBook!club_role_delete
  <1>1. UNCHANGED <<today, configuration, session, participation, sponsorship, holds>>  OBVIOUS
  <1>2. exempting' \in [Roles -> HoursBook!ClubRole \cup {NoRow}]
    BY DEF HoursIInv, HoursBook!TypeOK, HoursBook!ClubRole
  <1>3. holds' \subseteq {h \in HoursBook!MemberClubRole : exempting'[h[2]] # NoRow}
    <2>1. CASE HoursBook!club_role_delete(r)
      BY <2>1 DEF HoursIInv, HoursBook!TypeOK, HoursBook!MemberClubRole
    <2>2. CASE HoursBook!club_role_create(r) \/ HoursBook!club_role_update(r)
      <3>1. PICK e \in HoursBook!ClubRole : exempting' = [exempting EXCEPT ![r] = e] /\ holds' = holds
        BY <2>2 DEF HoursBook!ClubRole
      <3>2. exempting \in [Roles -> HoursBook!ClubRole \cup {NoRow}] /\ NoRow \notin HoursBook!ClubRole
        BY DEF HoursIInv, HoursBook!TypeOK, HoursBook!HoursBookAssumption
      <3>3. ASSUME NEW h \in holds PROVE h \in HoursBook!MemberClubRole /\ exempting'[h[2]] # NoRow
        <4>1. h \in HoursBook!MemberClubRole /\ exempting[h[2]] # NoRow
          BY DEF HoursIInv, HoursBook!TypeOK
        <4>2. h[2] \in Roles  BY <4>1 DEF HoursBook!MemberClubRole
        <4> QED BY <3>1, <3>2, <4>1, <4>2
      <3> QED BY <3>1, <3>3
    <2> QED BY <2>1, <2>2
  <1> QED BY <1>1, <1>2, <1>3, YearsAndRolesStep DEF HoursIInv, HoursBook!TypeOK

LEMMA HoldersStep ==
  ASSUME HoursBook!HoursBookAssumption, HoursIInv, NEW h \in HoursBook!MemberClubRole,
      \/ HoursBook!assign_member_to_club_role(h) \/ HoursBook!member_club_role_remove(h)
      \/ \E new \in HoursBook!MemberClubRole : HoursBook!member_club_role_update(h, new)
  PROVE  HoursIInv'
  <1> USE DEF HoursBook!assign_member_to_club_role, HoursBook!member_club_role_remove, HoursBook!member_club_role_update
  <1>1. UNCHANGED <<today, configuration, session, participation, sponsorship, exempting>>  OBVIOUS
  <1>2. holds' \subseteq {k \in HoursBook!MemberClubRole : exempting[k[2]] # NoRow}
    BY DEF HoursIInv, HoursBook!TypeOK
  <1> QED BY <1>1, <1>2, YearsAndRolesStep DEF HoursIInv, HoursBook!TypeOK

LEMMA HoursStep ==
  ASSUME HoursBook!HoursBookAssumption, HoursIInv, [HoursBook!Next]_(HoursBook!vars)
  PROVE  HoursIInv'
  <1>1. CASE HoursBook!Entered
    <2> USE DEF HoursBook!configuration_create, HoursBook!session_create, HoursBook!participant_add,
        HoursBook!sponsorship_create, HoursBook!member_club_role_assign
    <2>1. CASE \E y \in HoursBook!Years :
        \/ HoursBook!configuration_create(y) \/ HoursBook!configuration_delete(y)
        \/ \E z \in HoursBook!Years : HoursBook!configuration_update(y, z)
      BY <2>1, RequirementsStep
    <2>2. CASE \E s \in Sessions : \/ HoursBook!session_create(s) \/ HoursBook!session_update(s)
                                   \/ HoursBook!session_delete(s) \/ HoursBook!mark_signups_reviewed(s)
      BY <2>2, SessionsStep, SessionGone, Reviewed
    <2>3. CASE \E p \in Sessions \X Volunteers :
        HoursBook!participant_add(p) \/ HoursBook!participation_status_change(p) \/ HoursBook!participation_remove(p)
      BY <2>3, ParticipationsStep DEF Pairs
    <2>4. CASE \E s \in Sponsorships :
        HoursBook!sponsorship_create(s) \/ HoursBook!sponsorship_update(s) \/ HoursBook!sponsorship_delete(s)
      BY <2>4, SponsorshipsStep
    <2>5. CASE \E r \in Roles :
        HoursBook!club_role_create(r) \/ HoursBook!club_role_update(r) \/ HoursBook!club_role_delete(r)
      BY <2>5, RolesStep
    <2>6. CASE \E h \in HoursBook!MemberClubRole :
        \/ HoursBook!member_club_role_assign(h) \/ HoursBook!member_club_role_remove(h)
        \/ \E new \in HoursBook!MemberClubRole : HoursBook!member_club_role_update(h, new)
      BY <2>6, HoldersStep
    <2> QED BY <1>1, <2>1, <2>2, <2>3, <2>4, <2>5, <2>6 DEF HoursBook!Entered
  <1>2. CASE HoursBook!Called
    <2>1. CASE \E y \in HoursBook!Years : HoursBook!configuration_set(y)
      BY <2>1, RequirementsStep DEF HoursBook!configuration_set
    <2>2. CASE \E s \in Sessions : \/ HoursBook!api_session_create(s) \/ HoursBook!api_session_update(s)
                                   \/ HoursBook!api_session_delete(s)
      BY <2>2, SessionsStep, SessionGone DEF HoursBook!api_session_create, HoursBook!api_session_delete
    <2>3. CASE \E p \in Sessions \X Volunteers : \/ HoursBook!participation_create(p) \/ HoursBook!api_participation_update(p)
                                                 \/ HoursBook!participation_delete(p)
      BY <2>3, ParticipationsStep DEF Pairs, HoursBook!participation_create, HoursBook!participation_delete
    <2>4. CASE \E s \in Sponsorships : \/ HoursBook!api_sponsorship_create(s) \/ HoursBook!api_sponsorship_update(s)
                                       \/ HoursBook!api_sponsorship_delete(s)
      BY <2>4, SponsorshipsStep DEF HoursBook!api_sponsorship_create, HoursBook!api_sponsorship_delete
    <2>5. CASE \E r \in Roles : \/ HoursBook!api_club_role_create(r) \/ HoursBook!api_club_role_update(r)
                                \/ HoursBook!api_club_role_delete(r)
      BY <2>5, RolesStep
         DEF HoursBook!api_club_role_create, HoursBook!api_club_role_update, HoursBook!api_club_role_delete
    <2>6. CASE \E h \in HoursBook!MemberClubRole : HoursBook!assignment_create(h) \/ HoursBook!assignment_delete(h)
      BY <2>6, HoldersStep DEF HoursBook!assignment_create, HoursBook!assignment_delete
    <2> QED BY <1>2, <2>1, <2>2, <2>3, <2>4, <2>5, <2>6 DEF HoursBook!Called
  <1>3. CASE HoursBook!NextDay
    <2>1. today' \in HoursBook!Days
      BY <1>3 DEF HoursBook!NextDay, HoursIInv, HoursBook!TypeOK, HoursBook!Days, HoursBook!HoursBookAssumption
    <2> QED BY <1>3, <2>1, YearsAndRolesStep DEF HoursBook!NextDay, HoursIInv, HoursBook!TypeOK
  <1>4. CASE UNCHANGED HoursBook!vars
    BY <1>4, YearsAndRolesStep DEF HoursBook!vars, HoursIInv, HoursBook!TypeOK
  <1> QED BY <1>1, <1>2, <1>3, <1>4 DEF HoursBook!Next

LEMMA HoursInvariance == ASSUME HoursBook!HoursBookAssumption PROVE HoursBook!Spec => []HoursIInv
  <1>1. HoursBook!Init => HoursIInv  BY HoursInit
  <1>2. HoursIInv /\ [HoursBook!Next]_(HoursBook!vars) => HoursIInv'  BY HoursStep
  <1> QED BY <1>1, <1>2, PTL DEF HoursBook!Spec

-----------------------------------------------------------------------------
(* Sponsorships, by their dates. *)

LEMMA DaysOfAYear ==
  ASSUME HoursBook!HoursBookAssumption, NEW d \in HoursBook!Days
  PROVE  /\ HoursBook!Year(d) \in Int /\ d \in Int
         /\ HoursBook!January1(HoursBook!Year(d)) <= d /\ d <= HoursBook!December31(HoursBook!Year(d))
         /\ HoursBook!January1(HoursBook!Year(d)) \in Int /\ HoursBook!December31(HoursBook!Year(d)) \in Int
  <1>1. YearLength \in Nat \ {0} /\ d \in Nat  BY DEF HoursBook!HoursBookAssumption, HoursBook!Days
  <1>2. d \div YearLength \in Int /\ d % YearLength \in 0..(YearLength - 1)  BY <1>1
  <1>3. d = YearLength * (d \div YearLength) + (d % YearLength)  BY <1>1
  <1>4. PICK k \in Int, r \in Int : /\ k = (d \div YearLength) * YearLength /\ k = YearLength * (d \div YearLength)
                                    /\ r = d % YearLength  BY <1>1, <1>2
  <1>5. d = k + r /\ 0 <= r /\ r <= YearLength - 1  BY <1>1, <1>2, <1>3, <1>4
  <1>6. HoursBook!January1(HoursBook!Year(d)) = k /\ HoursBook!December31(HoursBook!Year(d)) = k + YearLength - 1
    BY <1>4 DEF HoursBook!January1, HoursBook!December31, HoursBook!Year
  <1> QED BY <1>1, <1>2, <1>5, <1>6 DEF HoursBook!Year

LEMMA DatedCounts ==
  ASSUME HoursBook!HoursBookAssumption, HoursIInv  PROVE HoursBook!SponsorshipsCount
  <1>1. ASSUME NEW s \in Sponsorships, sponsorship[s] # NoRow,
             sponsorship[s].member # None, sponsorship[s].valid_from # None
      PROVE  s \in HoursBook!Credited(sponsorship[s].member, HoursBook!Year(sponsorship[s].valid_from))
    <2>1. sponsorship[s] \in HoursBook!Sponsorship  BY <1>1 DEF HoursIInv, HoursBook!TypeOK
    <2>2. /\ sponsorship[s].valid_from \in HoursBook!Days
          /\ sponsorship[s].valid_until # None => sponsorship[s].valid_until \in HoursBook!Days
      BY <1>1, <2>1 DEF HoursBook!Sponsorship
    <2>3. sponsorship[s].valid_until # None => sponsorship[s].valid_from <= sponsorship[s].valid_until
      BY <1>1 DEF HoursIInv, DatesInOrder
    <2>4. HoursBook!Overlaps(sponsorship[s], HoursBook!Year(sponsorship[s].valid_from))
      <3>1. sponsorship[s].valid_until # None =>
          sponsorship[s].valid_until >= HoursBook!January1(HoursBook!Year(sponsorship[s].valid_from))
        <4> SUFFICES ASSUME sponsorship[s].valid_until # None
            PROVE  sponsorship[s].valid_until >= HoursBook!January1(HoursBook!Year(sponsorship[s].valid_from))
          OBVIOUS
        <4>1. sponsorship[s].valid_until \in Int  BY <2>2, DaysOfAYear
        <4> QED BY <2>2, <2>3, <4>1, DaysOfAYear
      <3> QED BY <1>1, <2>2, <3>1, DaysOfAYear DEF HoursBook!Overlaps
    <2> QED BY <1>1, <2>4 DEF HoursBook!Credited
  <1>2. ASSUME NEW y \in HoursBook!Years
      PROVE  LET page == HoursBook!sponsorships_page(y) IN
             /\ page.sponsorships \cap page.former_sponsorships = {}
             /\ \A m \in Volunteers : HoursBook!Credited(m, y) \subseteq page.sponsorships \cup page.former_sponsorships
    BY DEF HoursBook!sponsorships_page, HoursBook!Credited
  <1> QED BY <1>1, <1>2 DEF HoursBook!SponsorshipsCount

-----------------------------------------------------------------------------
(* Hours, row by row. *)

LEMMA HoursFold ==
  ASSUME NEW U, IsFiniteSet(U), NEW q, \A x \in U : q[x] \in Int
  PROVE  HoursBook!MapThenSumSet(LAMBDA z : q[z], U) = Sum(q, U)
  <1>1. MapThenSumSet(LAMBDA z : q[z], U) = Sum(q, U)  BY FoldIsSum
  <1>2. HoursBook!MapThenSumSet(LAMBDA z : q[z], U) = MapThenSumSet(LAMBDA z : q[z], U)
    BY Zenon DEF HoursBook!MapThenSumSet, HoursBook!MapThenFoldSet, MapThenSumSet, MapThenFoldSet
  <1> QED BY <1>1, <1>2

\* The hours of sign-ups.
LEMMA FoldOfHours ==
  ASSUME NEW U, IsFiniteSet(U), NEW q, \A u \in U : q[u] = HoursBook!HoursOf(u) /\ q[u] \in Int
  PROVE  HoursBook!Total(U, HoursBook!HoursOf) = Sum(q, U)
  <1> DEFINE P(f) == f = [s \in SUBSET U |-> IF s = {} THEN 0
                         ELSE LET x == CHOOSE y \in s : TRUE IN q[x] + f[s \ {x}]]
      Q(f) == f = [s \in SUBSET U |-> IF s = {} THEN 0
                         ELSE LET x == CHOOSE y \in s : TRUE IN HoursBook!HoursOf(x) + f[s \ {x}]]
  <1>1. ASSUME NEW f PROVE P(f) <=> Q(f)
    <2>1. ASSUME NEW s \in SUBSET U, s # {}, NEW x, x = CHOOSE y \in s : TRUE PROVE q[x] = HoursBook!HoursOf(x)
      BY <2>1
    <2>2. [s \in SUBSET U |-> IF s = {} THEN 0
                                ELSE LET x == CHOOSE y \in s : TRUE IN q[x] + f[s \ {x}]]
      = [s \in SUBSET U |-> IF s = {} THEN 0
                                ELSE LET x == CHOOSE y \in s : TRUE IN HoursBook!HoursOf(x) + f[s \ {x}]]
      BY <2>1
    <2> QED BY <2>2
  <1>2. (CHOOSE e : P(e)) = (CHOOSE e : Q(e))
    <2> HIDE DEF P, Q
    <2> QED BY <1>1, Zenon
  <1>3. HoursBook!Total(U, HoursBook!HoursOf) = (CHOOSE e : Q(e))[U]
    BY Zenon DEF HoursBook!Total, HoursBook!MapThenSumSet, HoursBook!MapThenFoldSet
  <1>4. HoursBook!MapThenSumSet(LAMBDA z : q[z], U) = (CHOOSE e : P(e))[U]
    BY Zenon DEF HoursBook!MapThenSumSet, HoursBook!MapThenFoldSet
  <1>5. HoursBook!MapThenSumSet(LAMBDA z : q[z], U) = Sum(q, U)  BY HoursFold
  <1> QED BY <1>2, <1>3, <1>4, <1>5

\* A list's rows.
LEMMA FoldOfList ==
  ASSUME NEW U, IsFiniteSet(U), NEW q, \A u \in U : q[u] = u.hours /\ q[u] \in Int
  PROVE  HoursBook!Total(U, LAMBDA row : row.hours) = Sum(q, U)
  <1> DEFINE P(f) == f = [s \in SUBSET U |-> IF s = {} THEN 0
                         ELSE LET x == CHOOSE y \in s : TRUE IN q[x] + f[s \ {x}]]
      Q(f) == f = [s \in SUBSET U |-> IF s = {} THEN 0
                         ELSE LET x == CHOOSE y \in s : TRUE IN x.hours + f[s \ {x}]]
  <1>1. ASSUME NEW f PROVE P(f) <=> Q(f)
    <2>1. ASSUME NEW s \in SUBSET U, s # {}, NEW x, x = CHOOSE y \in s : TRUE PROVE q[x] = x.hours
      BY <2>1
    <2>2. [s \in SUBSET U |-> IF s = {} THEN 0
                                ELSE LET x == CHOOSE y \in s : TRUE IN q[x] + f[s \ {x}]]
      = [s \in SUBSET U |-> IF s = {} THEN 0
                                ELSE LET x == CHOOSE y \in s : TRUE IN x.hours + f[s \ {x}]]  BY <2>1
    <2> QED BY <2>2
  <1>2. (CHOOSE e : P(e)) = (CHOOSE e : Q(e))
    <2> HIDE DEF P, Q
    <2> QED BY <1>1, Zenon
  <1>3. HoursBook!Total(U, LAMBDA row : row.hours) = (CHOOSE e : Q(e))[U]
    BY Zenon DEF HoursBook!Total, HoursBook!MapThenSumSet, HoursBook!MapThenFoldSet
  <1>4. HoursBook!MapThenSumSet(LAMBDA z : q[z], U) = (CHOOSE e : P(e))[U]
    BY Zenon DEF HoursBook!MapThenSumSet, HoursBook!MapThenFoldSet
  <1>5. HoursBook!MapThenSumSet(LAMBDA z : q[z], U) = Sum(q, U)  BY HoursFold
  <1> QED BY <1>2, <1>3, <1>4, <1>5

\* The badges of sessions.
LEMMA FoldOfBadges ==
  ASSUME NEW U, IsFiniteSet(U), NEW q, \A u \in U : q[u] = HoursBook!NewBadges(u) /\ q[u] \in Int
  PROVE  HoursBook!Total(U, HoursBook!NewBadges) = Sum(q, U)
  <1> DEFINE P(f) == f = [s \in SUBSET U |-> IF s = {} THEN 0
                         ELSE LET x == CHOOSE y \in s : TRUE IN q[x] + f[s \ {x}]]
      Q(f) == f = [s \in SUBSET U |-> IF s = {} THEN 0
                         ELSE LET x == CHOOSE y \in s : TRUE IN HoursBook!NewBadges(x) + f[s \ {x}]]
  <1>1. ASSUME NEW f PROVE P(f) <=> Q(f)
    <2>1. ASSUME NEW s \in SUBSET U, s # {}, NEW x, x = CHOOSE y \in s : TRUE PROVE q[x] = HoursBook!NewBadges(x)
      BY <2>1
    <2>2. [s \in SUBSET U |-> IF s = {} THEN 0
                                ELSE LET x == CHOOSE y \in s : TRUE IN q[x] + f[s \ {x}]]
      = [s \in SUBSET U |-> IF s = {} THEN 0
                                ELSE LET x == CHOOSE y \in s : TRUE IN HoursBook!NewBadges(x) + f[s \ {x}]]
      BY <2>1
    <2> QED BY <2>2
  <1>2. (CHOOSE e : P(e)) = (CHOOSE e : Q(e))
    <2> HIDE DEF P, Q
    <2> QED BY <1>1, Zenon
  <1>3. HoursBook!Total(U, HoursBook!NewBadges) = (CHOOSE e : Q(e))[U]
    BY Zenon DEF HoursBook!Total, HoursBook!MapThenSumSet, HoursBook!MapThenFoldSet
  <1>4. HoursBook!MapThenSumSet(LAMBDA z : q[z], U) = (CHOOSE e : P(e))[U]
    BY Zenon DEF HoursBook!MapThenSumSet, HoursBook!MapThenFoldSet
  <1>5. HoursBook!MapThenSumSet(LAMBDA z : q[z], U) = Sum(q, U)  BY HoursFold
  <1> QED BY <1>2, <1>3, <1>4, <1>5

\* The overviews of years.
LEMMA FoldOfOverviews ==
  ASSUME NEW U, IsFiniteSet(U), NEW q, \A u \in U : q[u] = HoursBook!work_hours_overview(u) /\ q[u] \in Int
  PROVE  HoursBook!Total(U, HoursBook!work_hours_overview) = Sum(q, U)
  <1> DEFINE P(f) == f = [s \in SUBSET U |-> IF s = {} THEN 0
                         ELSE LET x == CHOOSE y \in s : TRUE IN q[x] + f[s \ {x}]]
      Q(f) == f = [s \in SUBSET U |-> IF s = {} THEN 0
                         ELSE LET x == CHOOSE y \in s : TRUE IN HoursBook!work_hours_overview(x) + f[s \ {x}]]
  <1>1. ASSUME NEW f PROVE P(f) <=> Q(f)
    <2>1. ASSUME NEW s \in SUBSET U, s # {}, NEW x, x = CHOOSE y \in s : TRUE PROVE q[x] = HoursBook!work_hours_overview(x)
      BY <2>1
    <2>2. [s \in SUBSET U |-> IF s = {} THEN 0
                                ELSE LET x == CHOOSE y \in s : TRUE IN q[x] + f[s \ {x}]]
      = [s \in SUBSET U |-> IF s = {} THEN 0
                                ELSE LET x == CHOOSE y \in s : TRUE IN HoursBook!work_hours_overview(x) + f[s \ {x}]]
      BY <2>1
    <2> QED BY <2>2
  <1>2. (CHOOSE e : P(e)) = (CHOOSE e : Q(e))
    <2> HIDE DEF P, Q
    <2> QED BY <1>1, Zenon
  <1>3. HoursBook!Total(U, HoursBook!work_hours_overview) = (CHOOSE e : Q(e))[U]
    BY Zenon DEF HoursBook!Total, HoursBook!MapThenSumSet, HoursBook!MapThenFoldSet
  <1>4. HoursBook!MapThenSumSet(LAMBDA z : q[z], U) = (CHOOSE e : P(e))[U]
    BY Zenon DEF HoursBook!MapThenSumSet, HoursBook!MapThenFoldSet
  <1>5. HoursBook!MapThenSumSet(LAMBDA z : q[z], U) = Sum(q, U)  BY HoursFold
  <1> QED BY <1>2, <1>3, <1>4, <1>5

-----------------------------------------------------------------------------
(* A list has a row per session, and every new sign-up one session and year. *)

LEMMA ListAddsUp ==
  ASSUME HoursBook!HoursBookAssumption, HoursIInv, NEW m \in Volunteers, NEW y \in HoursBook!Years
  PROVE  HoursBook!Total(HoursBook!attended_sessions_by_member(m, y), LAMBDA row : row.hours)
             = HoursBook!calculate_hours_for_member(m, y).session_hours
  <1>1. PICK A : A = {p \in HoursBook!Attended(y) : p[2] = m}  OBVIOUS
  <1>2. A \subseteq Pairs /\ IsFiniteSet(A)
    <2>1. A \subseteq SignedUp /\ A \subseteq Pairs  BY <1>1 DEF HoursBook!Attended, SignedUp, Pairs
    <2> QED BY <2>1, FS_Subset DEF HoursIInv
  <1>3. \A p \in A : HoursBook!HoursOf(p) \in Int
    <2>1. ASSUME NEW p \in A PROVE HoursBook!HoursOf(p) \in Int
      <3>1. p \in Pairs /\ participation[p] # NoRow  BY <1>1, <1>2 DEF HoursBook!Attended
      <3>2. participation[p] \in HoursBook!SessionParticipation /\ session[p[1]] \in HoursBook!WorkSession
        BY <3>1 DEF HoursIInv, HoursBook!TypeOK, Pairs
      <3>3. /\ participation[p].hours_completed # None => participation[p].hours_completed \in Nat
            /\ session[p[1]].hours_per_participant # None => session[p[1]].hours_per_participant \in Nat
        BY <3>2 DEF HoursBook!SessionParticipation, HoursBook!WorkSession, HoursBook!HoursBookAssumption
      <3> QED BY <3>3 DEF HoursBook!HoursOf
    <2> QED BY <2>1
  <1>4. PICK q : q = [p \in A |-> HoursBook!HoursOf(p)]  OBVIOUS
  <1>5. PICK row : row = [p \in A |-> [session |-> p[1], hours |-> HoursBook!HoursOf(p)]]  OBVIOUS
  <1>6. PICK R : R = {row[p] : p \in A}  OBVIOUS
  <1>7. PICK r : r = [v \in R |-> v.hours]  OBVIOUS
  <1>8. IsFiniteSet(R)  BY <1>2, <1>6, FiniteImage
  <1>9. \A p \in A : q[p] = HoursBook!HoursOf(p) /\ q[p] \in Int /\ row[p] \in R /\ row[p].hours = q[p]
    BY <1>3, <1>4, <1>5, <1>6
  <1>10. ASSUME NEW v \in R PROVE r[v] = v.hours /\ r[v] \in Int /\ r[v] = Sum(q, {p \in A : row[p] = v})
    <2>1. PICK p \in A : v = row[p]  BY <1>6
    <2>2. r[v] = v.hours /\ r[v] = q[p] /\ q[p] \in Int  BY <1>7, <1>9, <2>1
    <2>3. {o \in A : row[o] = v} = {p}
      <3>1. ASSUME NEW o \in A, row[o] = v PROVE o = p
        <4>1. o[1] = p[1]  BY <1>5, <2>1, <3>1
        <4>2. o[2] = m /\ p[2] = m /\ o \in Sessions \X Volunteers /\ p \in Sessions \X Volunteers
          BY <1>1, <1>2 DEF Pairs
        <4> QED BY <4>1, <4>2
      <3> QED BY <2>1, <3>1
    <2>4. Sum(q, {p}) = q[p]  BY <2>2, SumOne
    <2> QED BY <2>2, <2>3, <2>4
  <1>11. BySort(A, q, row, R, r)  BY <1>2, <1>8, <1>9, <1>10 DEF BySort
  <1>12. Sum(r, R) = Sum(q, A)  BY <1>11, SumBySorts
  <1>13. HoursBook!Total(R, LAMBDA z : z.hours) = Sum(r, R)  BY <1>8, <1>10, FoldOfList
  <1>14. HoursBook!Total(A, HoursBook!HoursOf) = Sum(q, A)  BY <1>2, <1>9, FoldOfHours
  <1>15. HoursBook!attended_sessions_by_member(m, y) = R
    <2>1. HoursBook!attended_sessions_by_member(m, y) = {[session |-> p[1], hours |-> HoursBook!HoursOf(p)] : p \in A}
      BY <1>1 DEF HoursBook!attended_sessions_by_member
    <2> QED BY <1>5, <1>6, <2>1
  <1>16. HoursBook!calculate_hours_for_member(m, y).session_hours = HoursBook!Total(A, HoursBook!HoursOf)
    BY <1>1, Zenon DEF HoursBook!calculate_hours_for_member
  <1> QED BY <1>12, <1>13, <1>14, <1>15, <1>16, Zenon

\* A set has as many members as ones.
LEMMA CountIsSum ==
  ASSUME NEW U, IsFiniteSet(U), NEW q, \A u \in U : q[u] = 1
  PROVE  \A s \in SUBSET U : Cardinality(s) = Sum(q, s)
  <1>1. PICK g : Adds(g, U, q) /\ \A s \in SUBSET U : Sum(q, s) = g[s]  BY SumOfSubsets
  <1>2. PICK h : h = [s \in SUBSET U |-> Cardinality(s)]  OBVIOUS
  <1>3. \A s \in SUBSET U : IsFiniteSet(s) /\ Cardinality(s) \in Nat /\ h[s] = Cardinality(s)
    BY <1>2, FS_Subset, FS_CardinalityType
  <1>4. h[{}] = 0  BY <1>3, FS_EmptySet
  <1>5. ASSUME NEW s \in SUBSET U, NEW x \in U, x \notin s PROVE h[s \cup {x}] = q[x] + h[s]
    <2>1. Cardinality(s \cup {x}) = Cardinality(s) + 1  BY <1>3, <1>5, FS_AddElement
    <2>2. s \cup {x} \in SUBSET U  OBVIOUS
    <2> QED BY <1>3, <2>1, <2>2
  <1>6. Adds(h, U, q)
    <2>1. \A s \in SUBSET U : Cardinality(s) \in Int  BY <1>3
    <2>2. h \in [SUBSET U -> Int]  BY <1>2, <2>1
    <2> QED BY <1>4, <1>5, <2>2 DEF Adds
  <1>7. \A s \in SUBSET U : g[s] = h[s]  BY <1>1, <1>6, SumsAgree
  <1> QED BY <1>1, <1>3, <1>7

LEMMA HoursCount == \A S : HoursBook!Cardinality(S) = Cardinality(S)
  BY Zenon DEF Cardinality, HoursBook!Cardinality, IsFiniteSet, HoursBook!IsFiniteSet

NewSignups ==
    {p \in Pairs : HoursBook!IsNew(p) /\ session[p[1]].type = "STANDARD" /\ session[p[1]].date >= today}

LEMMA BadgesOfASession ==
  ASSUME HoursBook!HoursBookAssumption, HoursIInv, NEW s \in OnTheBook
  PROVE  HoursBook!NewBadges(s) = Cardinality({p \in NewSignups : p[1] = s})
  <1>1. PICK C : C = {p \in NewSignups : p[1] = s}  OBVIOUS
  <1>2. NewSignups \subseteq SignedUp /\ s \in Sessions /\ session[s] # NoRow /\ C \subseteq Pairs
    BY <1>1 DEF NewSignups, HoursBook!IsNew, SignedUp, OnTheBook
  <1>3. IsFiniteSet(C)  BY <1>1, <1>2, FS_Subset DEF HoursIInv
  <1>4. CASE session[s].type = "STANDARD" /\ session[s].date >= today
    <2>1. PICK M : M = {m \in Volunteers : HoursBook!IsNew(<<s, m>>)}  OBVIOUS
    <2>2. \A p : p \in C <=> \E m \in M : p = <<s, m>>
      <3>1. ASSUME NEW p \in C PROVE \E m \in M : p = <<s, m>>
        <4>1. p \in Sessions \X Volunteers /\ p[1] = s /\ HoursBook!IsNew(p)
          BY <1>1 DEF NewSignups, Pairs
        <4>2. p = <<s, p[2]>> /\ p[2] \in Volunteers  BY <4>1
        <4> QED BY <2>1, <4>1, <4>2
      <3>2. ASSUME NEW m \in M PROVE <<s, m>> \in C  BY <1>1, <1>2, <1>4, <2>1 DEF NewSignups, Pairs
      <3> QED BY <3>1, <3>2
    <2>3. PICK f : f = [p \in C |-> p[2]]  OBVIOUS
    <2>4. f \in Bijection(C, M)
      <3>1. \A p \in C : f[p] \in M /\ p = <<s, f[p]>>  BY <2>2, <2>3
      <3>2. \A m \in M : \E p \in C : f[p] = m
        <4> TAKE m \in M
        <4>1. <<s, m>> \in C  BY <2>2
        <4>2. f[<<s, m>>] = m  BY <2>3, <4>1
        <4> QED BY <4>1, <4>2
      <3>3. \A p, o \in C : f[p] = f[o] => p = o  BY <3>1, Zenon
      <3>4. f \in [C -> M]  BY <2>3, <3>1
      <3> QED BY <3>2, <3>3, <3>4 DEF Bijection, Injection, IsInjective, Surjection
    <2>5. ExistsBijection(C, M)  BY <2>4 DEF ExistsBijection
    <2>6. Cardinality(M) = Cardinality(C)  BY <1>3, <2>5, FS_Bijection
    <2>7. HoursBook!NewBadges(s) = HoursBook!Cardinality(M)  BY <1>2, <1>4, <2>1 DEF HoursBook!NewBadges
    <2> QED BY <1>1, <2>6, <2>7, HoursCount
  <1>5. CASE ~ (session[s].type = "STANDARD" /\ session[s].date >= today)
    <2>1. C = {}  BY <1>1, <1>5 DEF NewSignups
    <2>2. HoursBook!NewBadges(s) = 0  BY <1>5 DEF HoursBook!NewBadges
    <2> QED BY <1>1, <2>1, <2>2, FS_EmptySet
  <1> QED BY <1>4, <1>5

LEMMA FiniteYears == ASSUME HoursBook!HoursBookAssumption PROVE IsFiniteSet(HoursBook!Years)
  <1>1. IsFiniteSet(HoursBook!Days)  BY FS_Interval DEF HoursBook!Days, HoursBook!HoursBookAssumption
  <1>2. PICK f : f = [d \in HoursBook!Days |-> HoursBook!Year(d)]  OBVIOUS
  <1>3. IsFiniteSet({f[d] : d \in HoursBook!Days})  BY <1>1, FiniteImage
  <1>4. {f[d] : d \in HoursBook!Days} = HoursBook!Years  BY <1>2 DEF HoursBook!Years
  <1> QED BY <1>3, <1>4

LEMMA BadgesAddUp ==
  ASSUME HoursBook!HoursBookAssumption, HoursIInv
  PROVE  HoursBook!count_new_participations = HoursBook!Total(HoursBook!Years, HoursBook!work_hours_overview)
  <1>1. IsFiniteSet(NewSignups) /\ IsFiniteSet(OnTheBook) /\ IsFiniteSet(HoursBook!Years)
    <2>1. NewSignups \subseteq SignedUp  BY DEF NewSignups, HoursBook!IsNew, SignedUp
    <2> QED BY <2>1, FS_Subset, FiniteYears DEF HoursIInv
  <1>2. PICK one : one = [p \in NewSignups |-> 1]  OBVIOUS
  <1>3. \A U \in SUBSET NewSignups : Cardinality(U) = Sum(one, U)
    <2>1. \A p \in NewSignups : one[p] = 1  BY <1>2
    <2> QED BY <1>1, <2>1, CountIsSum
  <1>4. PICK at : at = [p \in NewSignups |-> p[1]]  OBVIOUS
  <1>5. PICK r : r = [s \in OnTheBook |-> HoursBook!NewBadges(s)]  OBVIOUS
  <1>6. ASSUME NEW s \in OnTheBook
      PROVE  r[s] = HoursBook!NewBadges(s) /\ r[s] \in Int /\ r[s] = Sum(one, {p \in NewSignups : at[p] = s})
    <2>1. {p \in NewSignups : at[p] = s} = {p \in NewSignups : p[1] = s}  BY <1>4
    <2>2. PICK C : C = {p \in NewSignups : p[1] = s}  OBVIOUS
    <2>3. C \in SUBSET NewSignups  BY <2>2
    <2>4. IsFiniteSet(C) /\ Cardinality(C) \in Nat  BY <1>1, <2>3, FS_Subset, FS_CardinalityType
    <2>5. r[s] = HoursBook!NewBadges(s) /\ HoursBook!NewBadges(s) = Cardinality(C)
      BY <1>5, <2>2, BadgesOfASession
    <2>6. Cardinality(C) = Sum(one, C)  BY <1>3, <2>3
    <2>7. r[s] \in Int /\ r[s] = Sum(one, C)  BY <2>4, <2>5, <2>6
    <2> QED BY <2>1, <2>2, <2>5, <2>7
  <1>7. \A p \in NewSignups : one[p] \in Int /\ at[p] \in OnTheBook
    <2>1. ASSUME NEW p \in NewSignups PROVE p[1] \in OnTheBook
      <3>1. p \in Sessions \X Volunteers /\ participation[p] # NoRow
        BY DEF NewSignups, Pairs, HoursBook!IsNew
      <3> QED BY <3>1 DEF HoursIInv, HoursBook!TypeOK, OnTheBook
    <2> QED BY <1>2, <1>4, <2>1
  <1>8. BySort(NewSignups, one, at, OnTheBook, r)  BY <1>1, <1>6, <1>7 DEF BySort
  <1>9. Sum(r, OnTheBook) = Sum(one, NewSignups)  BY <1>8, SumBySorts
  <1>10. PICK in : in = [s \in OnTheBook |-> HoursBook!Year(session[s].date)]  OBVIOUS
  <1>11. PICK w : w = [y \in HoursBook!Years |-> HoursBook!work_hours_overview(y)]  OBVIOUS
  <1>12. ASSUME NEW y \in HoursBook!Years
      PROVE  w[y] = HoursBook!work_hours_overview(y) /\ w[y] \in Int /\ w[y] = Sum(r, {s \in OnTheBook : in[s] = y})
    <2>1. PICK D : D = {s \in OnTheBook : in[s] = y}  OBVIOUS
    <2>2. D = {s \in Sessions : session[s] # NoRow /\ HoursBook!Year(session[s].date) = y}
      BY <1>10, <2>1 DEF OnTheBook
    <2>3. D \in SUBSET OnTheBook /\ IsFiniteSet(D)  BY <1>1, <2>1, FS_Subset
    <2>4. \A s \in D : r[s] = HoursBook!NewBadges(s) /\ r[s] \in Int  BY <1>6, <2>3
    <2>5. HoursBook!Total(D, HoursBook!NewBadges) = Sum(r, D)  BY <2>3, <2>4, FoldOfBadges
    <2>6. HoursBook!work_hours_overview(y) = HoursBook!Total(D, HoursBook!NewBadges)
      BY <2>2, Zenon DEF HoursBook!work_hours_overview
    <2>7. Sum(r, D) \in Int
      <3>1. D \in SUBSET D  OBVIOUS
      <3> QED BY <2>3, <2>4, <3>1, SumRules
    <2> QED BY <1>11, <2>1, <2>5, <2>6, <2>7
  <1>13. \A s \in OnTheBook : r[s] \in Int /\ in[s] \in HoursBook!Years
    <2>1. ASSUME NEW s \in OnTheBook PROVE HoursBook!Year(session[s].date) \in HoursBook!Years
      <3>1. session[s] \in HoursBook!WorkSession  BY DEF OnTheBook, HoursIInv, HoursBook!TypeOK
      <3> QED BY <3>1 DEF HoursBook!WorkSession, HoursBook!Years
    <2> QED BY <1>6, <1>10, <2>1
  <1>14. BySort(OnTheBook, r, in, HoursBook!Years, w)  BY <1>1, <1>12, <1>13 DEF BySort
  <1>15. Sum(w, HoursBook!Years) = Sum(r, OnTheBook)  BY <1>14, SumBySorts
  <1>16. HoursBook!Total(HoursBook!Years, HoursBook!work_hours_overview) = Sum(w, HoursBook!Years)
    BY <1>1, <1>12, FoldOfOverviews
  <1>17. HoursBook!count_new_participations = Cardinality(NewSignups)
    BY HoursCount DEF HoursBook!count_new_participations, NewSignups, Pairs
  <1>18. Cardinality(NewSignups) = Sum(one, NewSignups)  BY <1>3
  <1> QED BY <1>9, <1>15, <1>16, <1>17, <1>18

(* The sessions below a member add up to the hours that are evaluated, the   *)
(* new sign-ups in the navigation are those of the sessions of all years,    *)
(* and a sponsorship that was taken on is credited in the year it begins and *)
(* is on one table of the page: for any sessions, people and dates, after    *)
(* any requests of the pages and of the API.                                *)
THEOREM HoursBookDoesAddUp ==
  ASSUME HoursBook!HoursBookAssumption PROVE HoursBook!Spec => []HoursBook!HoursBookAddsUp
  <1>1. HoursIInv => HoursBook!HoursBookAddsUp
    BY DatedCounts, ListAddsUp, BadgesAddUp DEF HoursBook!HoursBookAddsUp, HoursBook!SessionsAddUp, HoursIInv
  <1> QED BY <1>1, HoursInvariance, PTL
=============================================================================
