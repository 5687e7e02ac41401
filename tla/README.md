# A TLA+ model of Parcella

Parcella is a web application for allotment-garden clubs: Python, FastAPI,
async SQLAlchemy and PostgreSQL, one process with one event loop.  This
directory holds a formal model of it: TLA+ modules translated from the Python
sources, TLC configurations that check them on small instances, and theorems
that the TLA+ proof system checks for every instance.

## 1. The system

### How it runs

Every HTTP request is a coroutine with a database session of its own
(`app/database.py`, `get_db`).  The default isolation level of PostgreSQL, READ
COMMITTED, applies: a statement sees what was committed when it started, what a
session writes is invisible to the others until its `commit()`, and a session
that ends without one is rolled back.  Between two `await`s a coroutine is not
interrupted; at each `await` any other coroutine may run.  Few operations take a
row lock (`SELECT ... FOR UPDATE`); most read a row, decide in Python, and write
it back.  Five background loops (`app/main.py`) run in the same process.

Two kinds of mistake follow from that.  Where the unit of concurrency matters,
the models have the *handler*: a coroutine that serves one request, whose
actions are the stretches of it between two awaited statements; what it read,
what it has flushed and which locks it therefore holds are part of the state.
Where it is the sequence of requests that is hard, because a rule is kept up by
six of them in three files, a request is one action, and the module says so.

### Components

| component | state it keeps | operations | what is hard about it | what must hold |
|---|---|---|---|---|
| purchase requests | requests, approvals, comments | create, comment, approve, reject, delete, delete a user | approvals counted from a snapshot; approve against reject | four eyes; a decision stands |
| user administration, groups | users, groups, memberships | invite, deactivate, edit role, delete, edit groups | lock-out guard is check-then-write | somebody reaches the admin panel |
| sessions, passwords, invitations | `session_version`, cookies, invitations | log in, change, reset, invite, resend, accept | read-modify-write of the version; accounts moved onto an invited address | sessions end with their password; one invitation |
| login throttle | counters in memory | record, check, clear | attempts in flight | failures bounded |
| members, tags | members, tags, links | edit, delete, import, export, tag | three conditions over nullable dates; tags under translations | nobody on no list; a name means one tag |
| parcels | parcels, history | edit on four surfaces, import, delete | two snapshots make the history | the history leads to the present |
| parcel handover, cloud folders | tenancies, applications, folders | assign, end, hand over, vacancy check, hourly loop | dates ahead, many rows in many statements | no folder is inherited; membership follows |
| applicants | applications | register, mail, close, purge | deletion without a job | what has expired goes |
| work hours | requirement, participations, sponsorships, roles, transfers | record, evaluate, transfer | pooled plots, co-tenants, transfers that cross | hours count once |
| work sessions | sessions, sign-ups, tasks | sign up, move, assign, review | places, whole households | places, badges |
| metering | points, meters, readings | read, correct, swap, import | chains with gaps | meters run forward |
| insurance | packages, coverage | insure, end, change year | four places add up the costs, residents move | the sums agree, a saved page keeps the cover |
| finances | runs, invoices, payments, reminders, bookings, incoming invoices, categories | compute, number, finalize, deliver, remind, match, state | numbers, rounding, stale offers, mails before the commit | no gap, nothing twice, sums |
| inventory | categories, items, loans | lend, return, edit, retire | over-lending, forms that write every field | what is lent is there |
| task board | lists, cards, tags, history | move, edit, report | dense positions, a commit in the middle of a form | rows are the board |
| deck sync, helpdesk | mirrored cards; conversations | pull, poll, adopt, associate | two masters, lists fetched one by one | a mark vouches |
| announcements | deliveries, drafts | send, resend, publish | restart in a paced send, lost answers | nobody mailed twice |
| calendar, feeds, birthdays | events, presences | edit, subscribe | months, leap days | page and feed agree |
| external contacts | companies, people | edit, merge, import | five kinds of references, four lists | nothing is left behind, everybody is on the lists |
| settings, modules, integrations | rows with a text | save, test, switch | one form writes everything; secrets not shown | saving unedited changes nothing |
| backup, update check | archives, the run marker | run, restore, prune | a psql that outlives its request | the newest survives, what is due runs |
| rendering, schema, sample data | none | - | - | - |

`PROJECT.json` lists the same parts with their files, what is modelled of each
and what is not, and the hazards with the properties about them.

## 2. The modules and the code

`services/` and `routers/` are directories of `src/app`.

| module | code | state in the model | what its actions are |
|---|---|---|---|
| `PurchaseRequests` | `services/purchase_requests.py`, its routers, `user_delete` of `routers/admin.py` | users, requests, approvals, comments; the handlers; `granted`, a history of committed approvals | approve in four steps (row read, approvals read, flushed, committed), reject in three, deletion of an account in two, creation, comment, failure |
| `FourEyes` | what the docstrings promise | the decision on each request | approve, veto, or nothing: the abstract specification |
| `AdminAccess` | `routers/admin.py`, `routers/admin_groups.py`, the guards of `permissions.py`, the start-up account of `main.py` | accounts, groups, memberships, handlers | each guarded request is a check and a commit; restart |
| `Accounts` | `auth.py`, `api_auth.py`, `routers/auth.py`, `routers/api_auth.py`, `routers/admin.py`, `login_throttle.py`, `rate_limit.py` | accounts with password and `session_version`, cookies, invitations; the failed logins in the window, the clock | log in (the check of the budget, then the answer), change, reset, invite, resend, withdraw, accept; each a read and a commit; a tick, a restart |
| `ClubSettings` | the settings page and form of `routers/admin.py`, `module_flags.py`, `nav_order.py`, `branding.py`, `update_check.py` | rows of settings, the logo's row and file, the board, the release | save in two steps, API, check for a release |
| `Integrations` | `provider_registry.py`, `crypto_utils.py`, the integrations routes | the choice, each provider's stored fields, folders | save a card, switch, disable, API, lost key |
| `ExternalContacts` | `services/external_contacts.py` and its routers | contacts with their IBANs, what hangs on them | enter, edit, import (with what it copies into a company), merge, delete; lists, pickers, pages and the file are operators |
| `TagPool` | tags in `services/members.py`, `tag_translations.py` | tags, links | type names, rename, translate, delete |
| `HelpdeskSync` | `helpdesk/sync.py`, `helpdesk/freescout.py`, `routers/support.py` | the remote conversations, links, the poll under way | poll list by list, customers and board in FreeScout, associate |
| `MemberRegister` | `services/members.py`, `database.py`, `member_filters.py`, the import | members, the day | enter, edit, delete, restore, import, a day passes |
| `ParcelRegister` | `services/parcels.py`, `change_tracker.py`, the import | parcels, their history | edit by form, API, import; delete, restore, purge |
| `InsuranceBook` | `services/insurance.py`, `insurance_utils.py` and its routers | packages, configurations, coverage, residents | every form and API request; people move; the sums, filters and the page are operators |
| `WorkHoursBook` | `services/work_hours.py` and its routers | requirement, sessions, participations, sponsorships, roles | every service and every page and API request that calls one |
| `ClubCalendar` | `routers/calendar.py`, `ics_utils.py`, `birthdays.py` | events, presences, absences, secrets, the day | edit, rotate a secret; pages and feeds are operators |
| `TaskCards` | `task_board.py`, `task_report.py`, task routers | cards with their history, tags, comments | edit by form (moving commits in the middle), API, tags |
| `HoursTransfers` | the evaluation engine, transfers, attendance and role changes of `services/work_hours.py` | a club, attended hours, transfers, handlers, the lock on the giver | lock, check of the surplus, insert, correction, deletion; the evaluation of a year is operators |
| `CloudBackup` | `backup.py`, `cloud_backup.py`, `cloud_storage.py`, the loop of `main.py` | database, files, changes to files whose rows are yet to follow (`form`), the cloud's archives, runs, restore | a form writes or unlinks a file, then commits its row or fails; dump, zip, upload, prune, commit; psql, mirror; restart, failure |
| `WorkSessions` | sign-ups and tasks of work days; `routers/api_public.py` | sessions, participations, tasks, handlers | edits and deletions, sign-up of a household, a task moved or assigned in two steps |
| `AnnouncementMailer` | `announcement_mailer.py`, `routers/announcements.py` | the announcement, its audience and delivery row, requests and tasks, what everybody was mailed | click, commit, load, audience, one mail, one batch, end, failure, restart |
| `Applicants` | `services/applicants.py` and its routers | applications, the retention, the last purge, a mail under way | enter, edit, mail, delete, visits that purge, the clock |
| `WebsiteDraft` | `push_website_draft` and what it calls | the announcement, its delivery row, the posts on the website | push in three steps: call, answer or lost answer, commit |
| `InventoryBook` | `services/inventory.py` and its routers | categories, items, loans, who is active, checkouts | every request, a checkout in three steps; forms, lists and checks are operators |
| `Metering` | `services/metering.py`, `meter_utils.py` and its routers | points, meters with their readings | read, correct, delete, swap, bulk entry, import |
| `DeckSync` | `deck_sync.py`, `task_sync.py` | Deck's cards, tasks, links with their marks, the run | fetch, upsert card by card with the commit in the middle, detach, failure, users |
| `TaskBoard` | `task_board.py`, `routers/tasks.py` | cards and lists with positions, requests under way, lists with a gap left (`torn`) | create, move, tick, delete (two commits), lists; a request that stops before it has committed, or between the two |
| `KanbanBoard` | what the board shows its users | an ordered list of ordered cards | the abstract specification of `TaskBoard` |
| `InvoiceComputation` | `compute_invoices_for_run` of `invoice_generation.py` | the items entered, the club, the invoices | one action: compute |
| `InvoiceNumbering` | `finalize_run`, the numbers, the run handlers of `routers/finances.py` | runs, invoices, start number and format, handlers, every number issued | create, edit, delete, finalize in three steps, settings |
| `InvoiceDelivery` | `invoice_delivery.py` and its handlers | marks and reminders, handlers, what went out | deliver, remind, send again; the commit is the last step |
| `AccountBookings` | `routers/finances.py`, `invoice_matching.py` | accounts, entries, what is owed, the two-step forms | book, offer, match, import, pay, delete |
| `ChartOfAccounts` | `accounting_statement.py`, `budget_plan.py`, `bookings.py` | categories, positions, payments | edit the chart, pay; statement and plan are operators |
| `ParcelHandover` | `services/parcels.py`, `services/parcel_handover.py`, `parcel_cloud_folders.py`, the parcel page, the hourly loop | members, tenancies with dates, applications, folders, vacancy checks still to come | assign, edit, end, hand over, vacancy check and its loss, a day, the loop |

*Hosts.*  One TLC run checks several modules that share no state.  A host
extends the module whose theorems are proved, so that what the run checks is by
name what the theorem states, and has the other modules as instances:
`MCRegisters` extends `PurchaseRequests`, `MCAdminAccess` extends `AdminAccess`,
`MCInvoices` extends `InvoiceNumbering`, `MCParcelHandover` extends
`ParcelHandover`, `MCCloudBackup` extends `CloudBackup` and `MCSmallParts`
extends `HelpdeskSync`; `AnnouncementMailer` is checked without a host.  A
variable (`part` or `scene`) is set in the initial state, never changes, and says
which module a behaviour is of.  The variables of the other parts do not move
then: those of an instance are a null value, those of the extended module stay in
an initial state.  The state space is the sum of the parts and not their product.
A component with several properties has one that joins them (`AccountsHold`,
`SettingsHold`, `ConnectionsHold`, `MetersAddUp`, `BookAddsUp`,
`HoursBookAddsUp`, `MarksVouch`, `PostIsOne`, `DeliveryHolds`, ...): it is what
the theorems state, and the host's properties conjoin those of its parts, each
under its own `part`: `part = "x" => X!P`.  `*_proofs.tla` hold the theorems, a
host's proofs also those of the modules it has as instances.

Names are the source's wherever TLA+ lets them be.  A handler is a record: where
it stands, and what it has read and will still use.  Its steps are named by
what it has done (`row_read`, `checked`, `flushed`), so the guard of the next
action says which stretch of the coroutine it is.  A request that is refused
(403, 404, 409, a redirect with an error) writes nothing, so it is a stuttering
step and not an action.

Pages, lists, feeds, exports and invoices, which read and do not write, are
operators over the state, and properties compare them: the page with the feed,
the form with what saving it as it is shown would write, the badge with the
list it counts.

Definitions whose comment begins with *Slip* are not part of any specification:
each is what a definition next to it would be after a plausible programming
mistake.  `PROJECT.json` pairs each property with one that it notices; the others
belong to the further conjuncts of the properties that join several parts.

## 3. What the runs check

| run | property | of the parts | what it says |
|---|---|---|---|
| `purchase_overlap` | `FourEyesHold`, `NoSelfApproval` | 3 accounts, 2 of them board members, 1 request, 2 handlers | overlapping approvals, vetoes and account deletions never approve what two different board members did not, or the requester did |
| | `SettledForGood` | | a decision stands once no request with an older snapshot is under way |
| | `EveryRequestAnswered` | fair | the waits on locks form no cycle |
| `registers` | `PromisedSpec` | purchases: 4 accounts, 3 board, 1 handler | one at a time, the code implements `FourEyes` |
| | `ApprovalsStayOnRecord` | | ... and a deletion leaves the record of an approval alone |
| | `BooksHold` | members | every member is on the list the badge says (`ListsAgree`); an export imported again changes nobody (`ReimportChangesNothing`) |
| | | parcels | `PlotNumbersUnique`, `HistoryLeadsToThePresent` |
| | | insurance; coverage; households | `InsuranceAddsUp`, `FiltersAddUp`; `SavingAsShownKeepsTheCover`; `HouseholdsShareAnAddress` |
| | | calendar; birthdays | `FeedsShowWhatIsEntered`; `BirthdaysComeRound` |
| | | cards; labels | `HistoryLeadsToTheCard`, `ReportTellsWhatChanged`; `NamesStandForOneTag` |
| | `HoursBookAddsUp` | sessions; sponsorships | the sessions listed add up to the hours credited and to the badges; a sponsorship counts from the year it begins |
| `purchase_threshold` | `ThresholdSwitches` | 4 accounts, 3 board, 2 handlers | fails: section 7 |
| `admin_serial` | `AdminRemains` | access: the first account and 2 more, the seeded group and 1 more | no sequence of the administration's operations locks everybody out |
| | `AccountsHold` | accounts; throttle, with two logins in flight | `SessionsEndWithThePassword`, `OneInvitation`; `FailuresBounded` |
| | `DirectoryHolds` | contacts: 3, with a number, a tag, an invoice; ibans: 3, with 1 name and 2 IBANs | `ContactsHold`, `ContactsListed` |
| | | tags; support: 2 conversations | `TypedNamesUnambiguous`; `PolledMeansCurrent` |
| | `SettingsHold` | providers, deck, folders; modules, fields, update, saves, logo | `SwitchingBackNeedsNoRetyping`, `SecretsAreTyped`, `TestedIsSaved`, `OnlyCleanValues`; `SavingUneditedChangesNothing`, `NoticeIsTrue`, `LogoShown` |
| `background` | `RowsHaveTheirFiles` | logo: 1 file, 2 forms, a download, 2 backups, 2 troubles; pictures: 2 files, 2 forms, 1 backup, 1 trouble | every row has its file, whatever forms, backups and restores overlap or fail, but those the property names: section 7 |
| | `NewestSurvives` | and schedule: all three triggers, 1 hour, 1 trouble | pruning leaves the newest backup alone |
| | `ScheduledBackupsRun` | schedule, fair | a backup that is due runs |
| | `TransfersKeepFulfilled`, `TransfersAnswered` | transfers: members owing, 3 transfers, 2 handlers, fair | a transfer leaves whoever had fulfilled the year fulfilled, and crossed transfers end although they deadlock in the database |
| | `ApplicationsExpire` | applicants: 1 application, fair | what has outlived its retention goes |
| `hours_three_plots` | `TransfersKeepFulfilled` | one member on three plots, another on two of them | fails: section 7 |
| `mailer` | `NobodyMailedTwice`, `RecordedIsWhatWentOut`, `EverySendEnds` | 2 addressees, 2 texts, 2 clicks, batches of 1, one restart, fair | each names the mishaps it does not survive; it holds under all others |
| `small_parts` | `PolledMeansCurrent`, `BoardHasTheLastWord` | support: 1 conversation, 2 members | what a poll has seen without a change is shown as it is; what the board chose outlives the polls |
| | `MarksVouch` | draft; deck | one post, and no button only if it is current (`PostIsOne`); a mark vouches for title and list (`UpToTheMark`) |
| | `PartsAddUp` | meters; book | meters run forward, years and pages add up (`MetersAddUp`); saving as shown, names, lists (`BookAddsUp`) |
| | `NeverOverLent` | loans: 2 items, 3 loans, up to 3 units | what is lent is there |
| | `SessionsHold` | sessions | sign-ups keep to the places; a task's participant is of its session |
| | `ImplementsBoard` | board: 3 cards, 2 lists, stops before each commit | the rows implement `KanbanBoard`, and every list is numbered without gaps (`PositionsGapless`), but where a deletion stopped half way |
| `invoices` | `FinalizedAsDefined` | settings: 2 runs of 2 years, 1 request, numbers to 6 | finalizing bills everybody once and entirely |
| | `NumbersHold` | settings | a number names one invoice (`SequenceNamesOneInvoice`) and a year has no gap (`NoNumberSkipped`) |
| | `CrowdHolds` | crowd: 2 overlapping, numbers to 4, the parcel removable | under overlap and deletions the numbers still have no gap |
| | `BilledInFull` | computation: 3 parcels, 2 members, every pair of 12 items, 288 clubs | `LevySharedOut`, `CommunalAreaSharedOut`, `ShortfallBilled` |
| | `DeliveryHolds` | delivery; rush: 2 overlapping | `DeliveredAsMarked`, `RemindersEscalate` |
| | `StartDecidesNextRun` | settings, 1 request | the start number an admin fixes is the next run's, and is used up by it |
| | `BooksBalance` | bookings; chart | `BookingsAddUp`, `SettlesWhatItTook`; rearranging the chart changes no result, and statement, plan and payments agree (`StatementStepsAddUp`) |
| `handover` | `FolderNotInherited` | one plot: a folder, a couple, 2 applications, handovers 0 to 2 days ahead | a folder is never in use for people of whom none is a tenant any more while others are |
| | `MembershipFollowsOneTenancy` | | whoever rents one parcel by handover is a member, whoever handed over the only one is none |
| | `TurnsOverOnTheDay` | | a handover changes who is a tenant from its day on and on no day before |
| | `TenantsAndHoursHold` | two plots: no folders, 2 applications of one person, handovers of today; hours: 3 members, 2 plots, five clubs, 2 transfers, up to 2 hours each | whoever has a parcel by handover is a member, whoever lost the last one is none (`MembershipFollowsTenancy`); the sharing out counts no hour twice (`CreditedOnce`) and loses none that is needed (`NothingWasted`) |
| | `GivingKeepsFulfilled` | hours | a transfer leaves whoever had fulfilled the year fulfilled, corrections in between included |
| `handover_notice` | `FolderNotInherited` | the same, and a tenancy may be given an end in the future | fails: section 7 |
| `handover_two_plots` | `MembershipFollowsTenancy` | two plots, handovers up to 2 days ahead | fails: section 7 |

The `TypeOK` of each part is checked in its run: as `TypeOK` of the host, or as
the first conjunct of the host's property about the part.  The comment of a
property names the code that promises it.

**Bounds, and why they are enough.** Nothing in the code compares more than two
accounts, transfers or requests with each other, and `REQUIRED_APPROVALS` is 2:
a third board member is there so that an approval can be one too many.  Ids of
rows are used once, as the database's sequences are, so their number
(`Transfers`, `Posts`, `Cards`, `Loans`) bounds the length of a behaviour, not
its shape; three cards are what it takes for a move to pass over one card and
leave another alone.  `MaxHours`, `MaxQuantity`, `MaxPlaces` bound what somebody
may type; the code only compares and subtracts these, and the bound is reached
in every run.  `MaxSequence` cuts off the numbers where two runs of three
invoices with one start number cannot reach; a run of the program would go on.
One restart is enough for the mailer, because a restart loses every task: a
second one meets either nothing or a send that began after the first.
In `handover` a date is the number of days to it, so days pass without end; two
days ahead are what it takes for a day to pass that is neither the day of the
entry nor that of the handover.  Nobody is entered as a member a third time.
On two plots handovers are of today: with one dated ahead the rule fails, which
is what `handover_two_plots` shows; there are no folders there, so a vacancy
check that is lost (`Allowed = {"failure"}`) has nothing to lose.
The folder rule does not survive everything, so `Liberties` lists what the board
and the server may do and `Allowed` what they do in an instance: in `handover`
nobody touches a parcel that has a date still to come (`Unsettled`) or types in
a tenancy that ends in the future.  Section 7 says what happens otherwise.

In the registers two rows are what a duplicate, a merge or an import needs, and
two days (`LastDay`) what a comparison with today does; three years of meters
have a year between two readings that has none.  The birthdays run over every
day from 2023 to the middle of 2025 with a leap day in it, and the seven dates
of birth are those around the ends of February, of a month and of the year.
`MaxTrail` cuts a parcel's history after two entries of a field: the next one
relates to the last.  `MaxVersion` counts passwords, releases or versions of a
card: three are a change and a change of the change.  `MaxPasswords` is what the
two accounts of that part have between them: their first ones and two changes, of
one account or of both.  `MaxRuns` and
`MaxTroubles` bound the backups and the failures between their steps: two
failures are what it takes to take a backup between the two halves of a restore
and then restore it.  Two forms may overtake each other at the one logo; two
pictures tell a form's file from the one beside it.  The liveness property says
that the schedule goes on or has spent its runs.
`MaxTime` and `Clock` are the seconds in which a window closes or a poll's lists
are fetched; the accounts stand still in time and have a budget of one failure,
the throttle has one account, whose password nobody changes.  `MaxReminders` bounds the reminders on record: the second is one
more than the first, as the third is one more than the second.

`CHECK_DEADLOCK FALSE` stands where ids or bounds run out and nothing is left to
do (`background`, `mailer`, `small_parts`): the program would go on with
new ids.  Symmetry is used in `admin_serial`, `handover`, `small_parts` and
`invoices` only, which check no liveness.

## 4. Plan

Every component that keeps state has a module.  What is left, in this order:

1. Two handovers, or a handover and an edit, that overlap: `ParcelHandover` has
   the handover as one step, with a failure or a request before its last one.
2. The prices of metering and of insurance as a configuration that changes while
   runs are computed; `InvoiceComputation` takes them as given.
3. Composing what a bill is made of: `HoursTransfers`, `Metering` and
   `InsuranceBook` as the inputs of `InvoiceComputation`, and its invoices as
   those that `InvoiceDelivery` sends and `AccountBookings` settles.
4. Theorems that are left: the registers of parcels, of insurance and of the
   calendar, and the sharing out of hours (`HoursTransfers`).

## 5. Concurrency, failure and fairness

*Isolation.* A flushed, uncommitted write is part of the handler and not of the
table; it becomes visible with the commit.  A unique index makes an insert wait
for an uncommitted equal one, a foreign key takes a key-share lock on the row it
names, an UPDATE or DELETE waits for such locks.  Where a wait can occur, the
action's guard has it.

*Failure.* An exception or a lost connection between two steps rolls a handler
back (`Rollback`, `TaskFails`).  A restart loses the coroutines and tasks and
keeps the tables.  What a handler has committed, written or unlinked by then
stays: the deletion of a card whose gap is not closed yet (`TaskBoard`), a
picture without its row or a row without its picture (`CloudBackup`).  Mails and files that went out before a rollback have gone
out: `InvoiceDelivery`, `Applicants` and `AnnouncementMailer` keep a history of
them.  A Deck run keeps what was committed in its middle, a backup what is in
the cloud, and a `psql` that was given up on goes on.  Not modelled: a mail
server that accepts a mail and reports failure, and a crash between a website's
answer and the commit (the latter has the effect of the lost answer, which is
modelled).

*Fairness.* Every handler that can take its next step eventually does: the event
loop runs a coroutine whose awaited statement has returned.  That is weak
fairness, except where a handler waits for a lock that others take and release
over and over (`Proceed` in `PurchaseRequests`, `InsertTransfer` in
`HoursTransfers`): PostgreSQL queues the waiters of a row, so these are strongly
fair.  With three handlers, a never-ending stream of failing requests could
still keep the deletion of an account waiting, because a key-share lock does not
queue behind it; `EveryRequestAnswered` speaks of the cycles of two.  Nobody is
obliged to click: no request is fair in its beginning.  `EverySendEnds` assumes
that the background task runs on and that the mail server answers, with success
or failure.  `ScheduledBackupsRun` assumes that the loop takes its steps, each of which
may fail, and that `psql` ends.  `ApplicationsExpire` assumes that time passes,
that the site goes on being visited, and that a purge which can begin again and
again does not fail for ever: without visits nothing is deleted, as ADR 0114
accepts.

*Coarser than the code.* The evaluation of a year is one step in
`HoursTransfers`: it is many SELECTs, and a commit between two of them can show
a giver a mixture.  A request of `TaskBoard` loads all rows at once.  The forms
of `InvoiceComputation` are entered at once.  A handover is one step, and a
request of `ParcelHandover` waits for the one before it, except that the server
may fail between the end of a tenancy and the vacancy check (the liberty
"failure") or let others in there ("overlap").  The modules whose head says
"requests are atomic" have no overlap at all; what overlap would do to them is
in section 7 where reading the code showed it.

## 6. What is proved

Each module of proofs extends its component, and has the others it is about as
instances whose constants and variables are its own: the theorems about them
hold for every value, too, that the named assumptions allow.  The assumptions
about constants only say that null values are no rows, that counters are numbers
and, where something is counted or added up, that it is finite.  A rule that the
code keeps for one request at a time has that as its hypothesis, or says so in the
property itself; section 7 says what happens without it.  The invariants below are
inductive: each proof has a lemma per part and a step per action.  The proofs of a
component that has several properties end in the one that joins them.

| in | about | theorem | what it states, beyond its property's name | hypotheses |
|---|---|---|---|---|
| `PurchaseRequests_proofs` | `PurchaseRequests` | `TypeCorrect`, `FourEyesAlways`, `NoSelfApprovalEver`, `SettledDecisionsStand` | `TypeOK`, `FourEyesHold`, `NoSelfApproval`, `SettledForGood` under every overlap | `UsersAssumption` |
| | | `ApprovalsRecorded`, `ImplementsFourEyes` | `ApprovalsStayOnRecord`; the service implements `FourEyes` (`PromisedSpec`) | and `OneHandler` |
| | `WorkSessions` | `SessionsDoHold` | `TypeOK`; sign-ups keep to the places and a task's participant is of its session, without overlap, which `SessionsHold` says itself | `SessionsAssumption` |
| | `TaskCards` | `CardsTellTheTruth` | `HistoryLeadsToTheCard`, `ReportTellsWhatChanged`, `NamesStandForOneTag` | `TaskCardsAssumption` |
| | `MemberRegister` | `MembersAreListed` | `ListsAgree`, `ReimportChangesNothing` | `MembersAssumption` |
| `AdminAccess_proofs` | `AdminAccess` | `TypeCorrect` | `TypeOK` | `AccountsAssumption` |
| | | `AdminNeverLost` | `AdminRemains` | and `OneAtATime` |
| | `Accounts` | `AccountsDoHold` | `FailuresBounded` for every budget and window, however logins overlap; `SessionsEndWithThePassword` and `OneInvitation` whatever is deactivated, edited, deleted or withdrawn in between, one request at a time, which `AccountsHold` says itself | `AccountsAssumption` (finitely many requests) |
| | `TagPool` | `NamesMeanOneTag` | `TypedNamesUnambiguous` | `TagAssumption` |
| | `ClubSettings` | `SettingsDoHold` | `SavingUneditedChangesNothing`, `LogoShown`, `NoticeIsTrue` | `SettingsAssumption` |
| | `ExternalContacts` | `NothingIsLeftBehind`, `NobodyGetsLost` | `ContactsHold`; `ContactsListed`, which names what a file imported again changes | `ContactsAssumption` |
| `AnnouncementMailer_proofs` | `AnnouncementMailer` | `TypeCorrect`, `NobodyIsMailedTwice`, `RecordIsWhatWentOut` | `TypeOK`, `NobodyMailedTwice`, `RecordedIsWhatWentOut`: under restarts, failed mails and deletions; the properties name the mishaps they except | `MailerAssumption` (finitely many people) |
| | `WebsiteDraft` | `PostIsOneAndCurrent` | `OnePost`, `NothingToDeliverMeansCurrent`; the same | `DraftAssumption` |
| `InvoiceNumbering_proofs` | `InvoiceNumbering` | `TypeCorrect`, `NoGaps` | `TypeOK`, `NoNumberSkipped` under every overlap and deletion | `NumberingAssumption` |
| | | `AllOrNothing`, `NumbersSound`, `StartIsSpent` | `FinalizedAsDefined`, `NumbersHold`, `StartDecidesNextRun`: they state in themselves that requests, settings included, do not overlap, `NumbersHold` also that no parcel is deleted for the numbers to be unique | the same |
| | `InvoiceDelivery` | `DeliveryDoesHold` | `DeliveredAsMarked`, `RemindersEscalate`; what needs no failure or no overlap says so itself | `DeliveryAssumption` |
| | `InvoiceComputation` | `RunsBillInFull` | `LevySharedOut`, `CommunalAreaSharedOut`, `ShortfallBilled` | `InputAssumption` |
| | `AccountBookings` | `BookingsTellWhatMoved`, `MatchedBillsAreSettled` | `BookingsAddUp`; `SettlesWhatItTook` | `BookingsAssumption` |
| | `ChartOfAccounts` | `StatementsStand` | `StatementStepsAddUp` and what it joins | `ChartAssumption` |
| `ParcelHandover_proofs` | `ParcelHandover` | `TypeCorrect` | `TypeOK`, and tenants are in the member table | `HandoverAssumption` |
| | | `HandoversAreOnTheDay`, `MembersAreTenants` | `TurnsOverOnTheDay`, `MembershipFollowsOneTenancy` | and `Orderly`: parcels with a date still to come are left alone |
| | | `FoldersAreNotInherited` | `FolderNotInherited` | and `Promised`: nothing but the start of a tenancy is dated ahead by hand, no vacancy check is lost |
| | `Metering` | `MetersDoAddUp` | `MetersRunForward`, `ConsumptionAddsUp`, `PagesAgree` | `MeteringAssumption` |
| | `InventoryBook` | `BookDoesAddUp` | `SavingAsShownKeepsTheItem`, `NamesTellApart`, `ListsAddUp` | `BookAssumption` |
| | | `LendsOnlyWhatIsThere` | `NeverOverLent` | and `~Overlap` |
| | `WorkHoursBook` | `HoursBookDoesAddUp` | `SessionsAddUp`, `SponsorshipsCount` | `HoursBookAssumption` |
| `CloudBackup_proofs` | `CloudBackup` | `TypeCorrect`, `RowsKeepTheirFiles`, `NewestIsKept` | `TypeOK`, `RowsHaveTheirFiles`, `NewestSurvives` under every overlap, failure and restart; `RowsHaveTheirFiles` names the rows it excepts | `BackupAssumption` |
| | `Integrations` | `ConnectionsDoHold` | `SwitchingBackNeedsNoRetyping`, `SecretsAreTyped`, `TestedIsSaved`, `OnlyCleanValues` | `IntegrationsAssumption` |
| `HelpdeskSync_proofs` | `HelpdeskSync` | `TypeCorrect`, `PolledIsCurrent`, `BoardDecides` | `TypeOK`, `PolledMeansCurrent`, `BoardHasTheLastWord`: what changed while a list was fetched and what was chosen between a poll's look and its commit are excepted in the properties | `HelpdeskAssumption` |
| | `DeckSync` | `MarksDoVouch` | `UpToTheMark` | `DeckAssumption` |
| | `TaskBoard` | `BoardIsImplemented`, `BoardStaysGapless` | the rows implement `KanbanBoard` (`ImplementsBoard`); `PositionsGapless`: with stops, without overlap; both except the list in which a deletion has left its gap | `TaskBoardAssumption`, `Overlap` is `FALSE` |

`SumTheorems` has what the three modules with figures share: a sum over a finite
set is what one gets by adding its elements in whatever order, of a part and the
rest, of a set by its sorts, of terms that are each within a bound.  Such facts
want an induction, and the library's cannot be used (its predicate is a
parameter); instead, of the subsets for which a fact fails, a smallest one is
taken (`SmallestSet`) and an element removed.

Some properties of the runs are proved in pieces.  `DirectoryHolds` is proved
conjunct by conjunct, in three modules; `CrowdHolds` is an instance of
`TypeCorrect` and `NumbersSound`; `BooksBalance` is `BookingsTellWhatMoved`,
`MatchedBillsAreSettled` and `StatementsStand` together.

Why the properties are not inductive themselves, and what the invariants add:

* *Purchases.*  An approving handler counts approvals it read some steps ago.
  `IInv` adds what that memory still means: the approvals a handler saw are among
  those granted (`MemorySound`), those on record were granted (`ApprovalsSound`),
  granted ones are the board's (`GrantedSound`), and the people the handler was
  compared with include today's requester and creator.  With one handler what it
  read is what the tables say (`SoloInv`); from that every commit is a step of
  `FourEyes`, and an approval on record outlives the deletion of accounts.
* *Administration.*  The invariant says of a handler between its check and its
  commit what the check established and nobody else can have undone
  (`StillSafe`); that is where `OneAtATime` is used.
* *Accounts.*  Every version that is written comes with a new password
  (`Counted`), so versions stay below the number of passwords.  One request at a
  time a version is exactly one behind, in the table and in the cookies
  (`InStep`), because what a request has read is still so at its commit
  (`Fresh`).  The failures that are kept are the end of those that were recorded,
  and what is not kept has left the window (`Accounted`); each request that is
  past the check has one failure of the budget to itself, and older failures than
  the rest of it have left the window, too (`Awaited`).  Recording one uses up its
  request's share; that is why overlapping logins cost one failure each and no more.
* *Mails.*  While the retry is offered nobody has the mail and no task runs; a
  task has SENDING behind it, has mailed nobody it is still going to try, and knows
  by its count whether anybody has the mail (`StepSound`, `CountsSound`).  The
  count is compared with the audience by cardinality, hence finite `People`.
  *Draft.*  One push at a time has read the row that is still there
  (`DraftAlone`), a live post is the one that the row or the push has on record
  (`Tracked`), and what a row says went out is what its post shows (`Vouching`).
* *Numbers.*  `IInv` holds under overlap: every row belongs to something issued
  in its run's year, and a request that has drawn numbers continues what was issued
  when it drew them, which issuing more does not spoil.  `SerialInv` is for one
  request: what it has read is still so when it commits.
* *Delivery.*  What was mailed is marked, or will be by the request that mailed it
  (`Once`); the last letter is the last reminder on record or the one after it
  (`Escalating`).  *Billing.*  Nothing happens twice; the work is in the sums: each
  share is off by half a cent at most (`RoundedIsClose`), and they add up
  (`SumsClose`).  *Bookings.*  What has moved on an account is a history; that the
  rows come to the same (`Told`) survives a change because only the rows that change
  matter to a sum (`SumsChange`), and a form has offered a row nothing but bills that
  are due that amount, to the cent (`Settling`).  *Statement.*  Positions name
  categories that are there, or none (`Chartered`); payments are added up by position
  or by category alike (`SumsSwap`).
* *Handovers.*  That newcomers take over on the day needs every tenant to be in
  the member table.  That membership follows tenancy needs the rows of a tenant
  and of a member to carry the same dates all along (`AsLongAs`).  That nobody
  inherits a folder rests on what a parcel can be waiting for: a tenancy that
  begins tomorrow (`Undisturbed`), a handover of one day (`HandoverDue`), or the
  check after an ended tenancy (`CheckDue`).  `handover_notice` shows that it
  needs `Promised`.
* *Meters, inventory, hours.*  A reading that is let in lies between those around
  it (`ReadingFits`), and one of a point's meters counts (`OneCounts`).  Nothing comes
  between what a checkout has read and what it is about to do (`NothingBetween`).
  The book of hours needs finitely many rows, and sponsorships that do not end
  before they begin (`DatesInOrder`).
* *Backups.*  That rows have their files is a promise about every backup there
  is, in the cloud, downloaded, zipped or chosen for a restore (`BackupsSound`).  It
  holds of one being taken because its dump comes before its files
  (`DumpsSound`), and across the halves of a restore because `psql` waits for open
  dumps and for forms that have not committed (`RestoreSound`).  What a form has
  written is there when it commits, unless something has unlinked it since
  (`FormsSound`).
* *Integrations, settings.*  A provider's configuration is what its own last
  change made it (`Kept`), and a secret under a name that is known for one was typed
  last (`Typewritten`).  A setting that no client of the API has left is one that the
  page writes (`Written_by_page`); a change of the logo that is the only one under way
  knows row and file (`Unrivalled`).
* *Contacts, tags.*  Who is there belongs to a company that is there (`Belongs`), a
  name means one contact of a kind (`Unambiguous`), and nobody and nothing is left with
  a merged company (`Detached`, `Swept`); what an import copies into a company touches
  nothing but its IBAN (`ButForIbans`).  No name in whatever language means two tags
  (`Apart`), and whoever carries a tag carries one that is there (`Carried`).
* *Support list.*  A poll asks for what is younger than the youngest row.  So a
  conversation that the list has wrong must be at least as young as every row
  (`OlderOrCurrent`), and that is an invariant only with what a poll carries from
  one step to the next: what the lists fetched so far would have shown (`AtList`),
  what changed after it was listed (`AtStore`), and the answers about single
  conversations that are not written yet (`AtCheck`).
* *Deck.*  A link vouches for its card as it was at the link's time, and the card
  may have changed since (`Vouched`); what a run has fetched is no newer than the card
  (`FetchedSince`), and what its session will write is about a card that was fetched
  and dealt with, and about its task (`Session`), which holds of the part that the
  commit in its middle leaves, too (`MovingBehind`).
* *Task board.*  Read in the order of their positions the rows are the board
  (`Placed`), in every list but those with a gap (`SoundBoard`).  A request's new rows
  are as sound as those it loaded (`Answer`); after the first commit of a deletion one
  number of one list is missing (`Gapped`, `Opened`), and closing it shows the board of
  the first commit (`Closing`).  A list that something numbers anew is whole again
  (`Mended`).
* *Cards and members.*  A card's history leads to the card between requests (`Good`)
  and, but for the dates, at every step of one (`Working`).  The lists of members
  follow from the types of the rows alone: their conditions over two nullable dates
  leave no case out and none double.
* *Sign-ups.*  One at a time, what a request has decided is still right when it
  commits: nobody it enters is there, and there is room (`SignupsCurrent`).

Only model-checked: everything under fairness (liveness and ENABLED are beyond the
prover); the sharing out of hours (the part of `TenantsAndHoursHold` about hours,
`GivingKeepsFulfilled`, `TransfersKeepFulfilled`), a fold over the plots in their
order whose value for every club needs an induction over data; `MembershipFollowsTenancy`
of two plots, which holds for handovers of today only; and the registers of parcels,
insurance and the calendar (their conjuncts of `BooksHold`), which are left in the
plan.

## 7. Where the code and its documentation part

Four runs exist to show a divergence:

* `purchase_threshold`: two overlapping approvals each count the other one as
  missing (`app/services/purchase_requests.py:116`); the request stays open with
  two approvals, against `app/routers/api_purchase_requests.py:124`.
* `hours_three_plots`: `transferable_hours` adds up today's surpluses, but
  giving shares the rest out anew (`app/services/work_hours.py:715`), so a
  member of three plots can push one below its requirement, against line 684.
* `handover_notice`: the vacancy check runs when a tenancy is edited
  (`app/routers/parcels.py:498`).  A tenancy given an end in the future is not
  vacant then, and nothing closes the folder on the day it ends: whoever is
  assigned afterwards has the folder of the old tenants, against
  `app/models.py:802` and `app/parcel_cloud_folders.py:11`.
* `handover_two_plots`: a handover with a date ahead writes the end of the
  membership at once, and assigning somebody who is a member already leaves it
  (`app/services/parcel_handover.py:195`).  Who hands over one parcel next week
  and takes another one meanwhile is then a tenant and no member.  The other way
  round, a tenant of two parcels who hands over the one with the later date first
  stays a member for ever: each handover sees the other parcel as kept.

The next ones are one change of an instance away from a passing run.  Handlers
and the constants of a part are in the cfg or in the part's `INSTANCE` line.

| to see it | property that fails | what happens |
|---|---|---|
| `registers`, purchases with two handlers | `FourEyes`' single veto | an approval overwrites a veto committed since it read the row (`purchase_requests.py:117`; line 8 says a single rejection vetoes) |
| the same | `ApprovalsStayOnRecord` | `user_delete` looks for history and deletes later; an approval committed in between goes with the account (`routers/admin.py:905`) |
| `admin_serial` with two handlers | `AdminRemains` | two overlapping removals each see the other administrator (ADR 0039 calls this the invariant worth protecting) |
| accounts with `Overlap` | `SessionsEndWithThePassword` | a change of password and a reset write the same version; a cookie issued in between stays valid (`routers/auth.py:144`) |
| the same | `OneInvitation` | two invitations for one address each expire what they see (`routers/admin.py:543`) |
| loans with two handlers and `Overlap` | `NeverOverLent` | two checkouts of the last unit (`services/inventory.py:140`) |
| `background`, transfers of co-tenants (`Clubs` with a start `PER_PARCEL`) | `TransfersKeepFulfilled` | two co-tenants give the surplus of their common plot twice; the lock is on the giver (`services/work_hours.py:741`) |
| `mailer`, without "overlap" among the mishaps of the property | `NobodyMailedTwice` | a double click on the retry of a failed send mails everybody twice (`routers/announcements.py:500`, against ADR 0027) |
| without "restart" | `EverySendEnds` | a restart leaves the row SENDING, which nothing resets and the guard refuses to retry (`announcement_mailer.py:330`) |
| without "edit" | `RecordedIsWhatWentOut` | an edit saved before the task starts is mailed while the old text is recorded (`routers/announcements.py:503`) |
| draft, without "overlap" among the mishaps | `MarksVouch` | two first pushes both create a post; two crossed ones leave the older text on the website and the newer one recorded (`routers/announcements.py:603`) |
| sessions with `Overlap` | `SessionsHold` | a task is moved and assigned at once and keeps a participant of the session it left (`services/work_hours.py:837`) |
| board with `Overlap` | `ImplementsBoard` | two requests renumber one list from rows each read before the other committed; two deletions can leave no list at all (`task_board.py:264`, `327`) |
| board, without "but in `torn`" | `PositionsGapless` | a restart or a failure between the two commits of a deletion (`routers/tasks.py:509`, `routers/api_tasks.py:355`) leaves a gap that nothing closes until the list is renumbered for another reason; `next_position` counts the cards (`task_board.py:179`), so the next card repeats a position, and the order of the two is up to the database |
| logo, pictures, without `db.torn` | `RowsHaveTheirFiles` | a form unlinks and writes files before its row is committed (`routers/announcements.py:462`, `846`, `branding.py:93`): one that fails then leaves a row without its file; two forms for the logo unlink each other's; a backup whose dump is older than the unlinking and whose files are newer has the row alone |
| ibans, without the exception for IBANs | `DirectoryHolds` | `place_address_on_company` (`services/external_contacts.py:117`) gives a company without an IBAN or address those of one of its people, when a file that was exported is imported again; `routers/external_contacts.py:279` says it "imports unchanged" |
| `FinalizedAsDefined` in the scene *crowd* | `FinalizedAsDefined` | two finalize requests past the status check bill everybody twice; deleting a run that is being finalized loses it; an item deleted from a finalized run is not noticed (`routers/finances.py:757`, `1063`, `1159`) |
| `DeliveredOnce` without its first two guards | `DeliveryHolds` | a failure after the first mails, or a second click meanwhile, mails invoices again (`routers/finances.py:1241`); overlapping reminders repeat a level or send a lower one later |
| `SettlesWhatItTook` without "nothing has changed" | `BooksBalance` | a bill that was paid since it was offered is paid again; two rows of one statement may take one bill (`routers/finances.py:2112`) |
| `handover` with `Allowed = {"change while unsettled"}` | `FolderNotInherited` | a second handover moves the day on which the old folder retires; a folder set after a handover was entered is never retired; a tenancy under notice can be deleted, which checks no vacancy (`services/parcels.py:179`) |
| with `{"failure"}` or `{"overlap"}` | the same | the end of a tenancy is committed before the vacancy check (`routers/parcels.py:523`) |

The rest is what the models had to be told to be faithful, by reading; it is
listed because a reader of the code would not expect it.

* *Purchases, accounts.*  `_USER_REFERENCE_CHECKS` (`routers/admin.py:91`) has no
  entry for the author of a comment, against "every FK-to-users.id" in its
  comment.  `user_edit` may move an account onto an invited address: the
  invitation cannot be accepted any more.
* *Members and tags.*  An import writes every field of a matched member, the
  empty ones too; a row without a date of birth matches anybody of that name;
  the apostrophe that the export puts before a note is not taken off again, as
  that of contacts is; a preview reads latin-1, the import itself only UTF-8.  A
  stale member form overwrites the tags given since.
* *Parcels.*  Every save of the form adds a history entry for the area, because
  the text of a decimal is compared with that of a float ("400.00", "400.0").
  Deleting for good fails for a parcel with assignments, meters or folders, and
  leaves its history behind.  `changed_at` is the start of the transaction.
* *Applicants.*  Saving a stale form resets the status; a contact mail that
  fails or overlaps goes out twice; an application entered with an old date may
  be purged at once; the purge deletes by id what has changed since.
* *Work hours.*  The API cannot change the date of a session, because the
  annotation at `schemas.py:405` hides the type.  A club role in use cannot be deleted, though
  the API's description says its assignments go with it; `assign_member_to_club_role` says
  there is no uniqueness constraint, and there is one
  (`uq_member_club_role_year`).  The overview of a year shows fewer new
  sign-ups than the badge when a coming session is in another year.
* *Insurance.*  Deleting a package leaves "property insured" with cost 0; the
  API may move a package to another year under the parcels it insures; insured
  parcels that are deleted count in the overview and are on no list.  A further
  person who comes to share the household's address is shown unticked and dropped
  when the page is saved; which of two equally large households a page offers is
  up to the database.
* *Metering.*  A corrected initial reading is compared with no reading.  A
  swapped meter's last year is left out of the evaluation and the invoices while
  the overview counts it.  `total_consumption_for_type` says "active meters" and
  sums all.
* *Invoices.*  A format without a year gives two years' invoices the same text.
  10 cents over three parcels bill 9: each share is rounded by itself
  (`invoice_generation.py:407`).
* *Inventory.*  An item's form shows a missing text as "None", which the next
  save stores.  The form is refused once the owner has left.  The API neither
  strips nor checks a category's new name and lends to members who have left; a
  retired item can be lent, and one is retired with units out.
* *Task board and Deck.*  The next sync enters an adopted card again; moving a
  mirrored card by hand is not locked; two changes of a card in one second look
  like one; a renamed stack leaves its cards in the old list.  A form that fails
  after it has moved its card keeps what it had set and tells no history of it.
  The report's docstring says no history of moves is kept; it is.
* *Contacts.*  Editing a person of a company without a name unlinks them; a
  contact without a name comes back as a second one from a file that
  `routers/external_contacts.py:279` says imports unchanged; a
  stale form after a merge enters the merged company again; errors in a row of
  an import leave the company it had entered by the way.
* *Helpdesk.*  A conversation that changes its status into a list already
  fetched is missed by every later poll once another one is newer; a removed
  association is guessed again; the board's choice between a poll's look and its
  commit is overwritten; an import does not push renamed members.
* *Calendar.*  An event of several days leaves page and feed on its second day,
  though `ics_utils.py` says "present/future"; the range "year" on 29 February
  misses those born on the 28th; the yearly rule of a birthday on 29 February
  recurs in leap years only; an end before the beginning is accepted.
* *Backup.*  `psql` outlives its 300 seconds and may restore after the admin was
  told it failed; a running backup keeps a restore waiting; a restore puts the
  schedule back too; a failed weekly backup is not tried again for a week; two
  in one second share a name; a file added between `psql` and the mirror is lost.
  A backup begun in between pairs the restored rows with the old files.
* *Settings and integrations.*  A test takes the stored value for a field that
  was emptied, which saving clears; the folder of incoming invoices cannot be
  cleared, the other two can; the API's pattern for the names of secrets misses
  one provider's; a module flag set to null by the API fails its page; a blank
  navigation position keeps the stored one, though a comment says it falls back
  to the default; two overlapping saves mix both forms.

## 8. What is not modelled

* *Rendering, templates, translations, PDF, charts, e-mail layout*: they change
  no state and promise a layout.  Feeds, exports and reports are modelled by
  which rows they contain, not by their format.
* *Migrations and sample data*: run once.
* *Website connectors other than WordPress, helpdesks other than FreeScout, CMS
  plugins, mail, cloud and Deck servers*: external; each is modelled by what the
  code here does with its answers.
* *Permissions of each route*: who may call an operation is a guard of its action
  where it matters (board members, administrators).  A token's signature and
  life time, CSRF tokens, proof of work and the limits of single routes are
  checks of one request by itself.
* *Fields that decide nothing*: names, addresses, texts, colours.  `PROJECT.json`
  says of each component what is there and what is left out.
