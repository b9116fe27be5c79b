# A formal model of Comutel Service Desk

TLA+ specifications of the service desk in this repository (a NestJS backend on
PostgreSQL through Prisma, and a Next.js frontend), the TLC configurations that
check them on small instances, and proofs that hold for every size.

Paths below are relative to the repository; `tickets.service.ts` and the other
services live in `backend/src/<part>/`.

## 1. Inventory

One Node process serves HTTP requests. A handler runs until its next `await`, so
handlers interleave at every statement they send to the database. PostgreSQL runs
at READ COMMITTED. Some handlers open an interactive transaction
(`$transaction(async tx => ...)`); the audit log and the notifications are always
written through the plain client, that is on another connection, even from inside
a transaction. A timer runs the SLA engine in the same process. A browser keeps
an access token and refreshes it with a cookie.

| component | state | operations | hard behaviour | correct when |
|---|---|---|---|---|
| Tickets (`tickets.service.ts`) | Ticket, TicketApproval, TicketStatusHistory | create, update, remove, applyMacro, createApproval, decideApproval | reads outside the transaction that later writes rely on; counts under READ COMMITTED; row locks, cascades and deadlocks; audit writes that survive a rollback | approvals gate the ticket, the history tells its statuses, stamps match the status, nothing outlives a deletion, what is done is audited |
| Conversation (`tickets.service.ts`) | comments, attachments, activities | addComment, addAttachment, findComments, findWorkspace | a deletion while a post is under way; a timeline read in pieces | a post is told in the timeline, an attachment is audited |
| Lists and searches (`findAll` of the services) | none; rows of others | pages by contains, by full text, in one batch | count and rows are two statements; rows come and go between pages | nothing that was there is skipped, requesters see their own |
| Workflow rules (`applyWorkflowRules`) | WorkflowRule | createWorkflowRule; run inside create and update | every rule compares with the ticket as it was before all of them; audit and notices outlive a rollback | the ticket ends as the rules, in order, say; the right assignee is told |
| SLA engine (`sla.service.ts`) | TicketSlaTracking, SlaPolicy, Notification | timer: runEngine; pauseTracking, resumeTracking, createPolicy, updatePolicy | a run evaluates a snapshot and writes it back later; runs may overlap; pause and resume race with it | a pause stops the clock, a resume moves the deadlines, a change of status is notified once |
| Business calendar (`addMinutesConsideringCalendar`, `createCalendar`) | BusinessHoursCalendar | adds minutes of opening time to an instant; creates calendars, one the default | opening hours that never open; two defaults at once | the result is the instant after that many open minutes |
| Accounts and sessions (`auth.service.ts`, `users.service.ts`) | User, refresh token hash | register, bootstrapAdmin, login, refresh, logout, updateRole, updateStatus | check-then-act on the number of administrators; a refresh that overtakes a logout | tokens go to owners, authority has an origin, a logout holds |
| Browser session (`frontend/src/lib/auth.ts`, `proxy.ts`) | localStorage, cookies, one refresh promise per tab | authedFetch, refresh, login, logout | several tabs, calls denied together, lost answers | a call is sent again at most once, and a session the server keeps is not lost |
| Notifications (`notifications.service.ts`) | Notification | create, broadcast, markAsRead, markAllAsRead | two requests mark one row | the reader of a notification is its recipient, the log does not lie |
| Audit log (`audit.service.ts`) | AuditLog | log, findMany, exportCsv | written outside the callers' transactions | see the callers |
| Catalog (`catalog.service.ts`) | items, fields, rules | createItem, updateItem, createWorkflowRule, validation of a form | fields shown by the value of others, rewritten while they are validated | what is stored answers the visible required fields |
| Knowledge (`knowledge.service.ts`) | articles, slugs, comments | create, update, addComment, list | slug chosen by check-then-insert; comment allowed on a row read earlier | slugs are unique, drafts stay private |
| CMDB (`cmdb.service.ts`) | services, assets, links | create, link, dependencies, impact | an impact read in several statements | the impact of a ticket is what its services and assets reach |
| Database access (`prisma.service.ts`, pool of `pg`) | connections | transactions, plain statements | a transaction waits for a second connection | nobody waits for ever, no connection is lost |
| Development orchestrator (`scripts/dev-orchestrator.mjs`) | ports, child processes | search for ports, start, shutdown | ports are probed while others take them; one end causes another | two ports, one reason to end, an end |
| User interface (`components`, `app`) | query cache, drafts, mutations | a screen that shows, edits and saves | an answer older than the save that it arrives after | a screen shows what was saved and keeps what was not |
| Configuration, monitoring, logging | environment, counters | | | not part of the service's promises |

The components meet in the database (a ticket's `resolvedAt`, `closedAt`,
`slaPolicyId` are what the SLA engine reads), in the audit log and the
notifications (everybody writes them), in the pool of connections, and in the
session (every request of the browser carries a token that `jwt.strategy.ts`
checks against the user's row).

`PROJECT.json` lists, with the line where it bites, every hazard found while
reading the code, and the properties that would catch it.

## 2. Modules

| module | models | state |
|---|---|---|
| `Tickets` | the requests that write a ticket's status, approvals and history, statement by statement | the committed tables `tickets`, `approvals`, `trail` (the latest history row of each ticket), `auditLog` (rows written outside transactions), and for each worker the request in progress `req` |
| `AtomicTickets` | what those requests promise when each is a single step | `tickets`, `approvals` |
| `TicketsRefinement` | the first seen as the second (`RequestsAreAtomic`) | |
| `Sla` | runs of the SLA engine, pause and resume, policies, and what happens to tickets meanwhile | the clock `now`, `policies`, `tickets` (the columns the engine reads), `tracking`, the latest notice, change record and pause record of each ticket (`told`, `log`, `ledger`), and `req` |
| `Accounts` | registration, bootstrap, login, refresh, logout, changes of role and status, and the rows tickets make for requesters | `users`, what browsers hold (`held`), the last session record and the record of grants (`latest`, `log`), `req` |
| `Conversation` | comments, attachments and the timeline of one ticket that may be deleted | `comments`, `attachments`, `activities`, `log`, `live`, `req` |
| `Rules` | workflow rules on one ticket inside its transaction | `rules`, `activities`, `log`, `req` |
| `Listing` | a reader who asks for page after page | `owner`, `live`, `match` (the rows), `walk` (the reader) |
| `Inbox` | notifications: broadcast, create, mark one, mark all | `notes`, `active`, `told` (the audit log), `req` |
| `Knowledge` | articles, slugs, publication, comments | `articles`, `comments`, `shown`, `req` |
| `Cmdb` | services, assets, links, and the impact of a ticket | `services`, `assets`, `deps`, `links`, `attached`, `req` |
| `Catalog` | an item, its form, and the validation of what is filled in | `item`, `req` |
| `Calendars` | the calendar that is the default | `calendars`, `defaults`, `creating` |
| `BusinessCalendar` | the search for a deadline | `job` |
| `ConnectionPool` | handlers, their transactions and the pool | `pc`, `free`, `queue`, `open`, `lent`, `audited`, `kept` |
| `Portal` | tabs, calls, renewals, and the server as they see it | `server`, `stored`, `page`, `call`, `renewal` |
| `Screens` | a query, its cache, a draft and the mutations that send it | `rev`, `posted`, `cache`, `fetch`, `draft`, `save` |
| `DevOrchestrator` | the development script | `taken`, `main`, `server`, `shuttingDown`, `code` |
| `MCTickets`, `MCSla`, `MCAccounts`, `MCPortal` | constants, symmetry and views for TLC | |
| `MCDesk`, `MCEdge` | several components in one run: a behaviour picks its `area` and stays in it | the variables of all |
| `TicketsProofs`, `SlaProofs`, `AccountsProofs`, `KnowledgeProofs`, `PortalProofs` | theorems on the module they name | |
| `TicketsSerialProofs` | theorems on `Tickets` when requests are served one at a time | |
| `DeskProofs`, `EdgeProofs` | theorems on the parts of `MCDesk` and of `MCEdge` | |

Some variables remember what a property needs and no code has: `shown` (articles
that were public at some time), `walk.before`, `disturbed`, `shared`, `first`. They
never appear in the guard of an action.

### Tickets

A worker is a request slot of the server. `req[w]` is what the handler holds in
memory (`ask`, `seen`, `quiet`), where it is suspended (`pc`), and what its
transaction has written and locked (`row`, `approval`, `entry`, `lock`): written
rows become visible only in `Commit`, each statement sees what is committed when
it runs, and a row lock (FOR KEY SHARE of a foreign key check, FOR NO KEY UPDATE
of an UPDATE, FOR UPDATE of a DELETE) is kept to the end of the transaction.

| handler | actions |
|---|---|
| `create` | `CreateInsert`, `ApplyWorkflowRules`, `Commit` |
| `update` | `ReadTicket`, `UpdateTicket`, `ApplyWorkflowRules`, `AuditUpdate`, `Commit` |
| `applyMacro` | `ReadTicket`, `ApplyMacro`, `Commit` |
| `createApproval` | `ReadTicket`, `InsertApproval`, `SetPending`, `Commit` |
| `decideApproval` | `ReadApproval`, `UpdateApproval`, `CountPending`, `LookAtTicket`, `ApplyDecision`, `AuditDecision`, `NotifyDecision`, `Commit` |
| `remove` | `ReadTicket`, `LockForDelete`, `DeleteCascade`, `AuditDelete` |
| any | `RowGone` (the row is no longer there), `DeadlockVictim`, `Die` |

Statements of one transaction between which nothing else can be told apart are
one action: the inserts of `create` concern rows nobody else sees before the
commit, and the history and activity rows that follow an UPDATE are protected by
the lock of that UPDATE. Columns other than the status and the two stamps are
left out, and the stamps are only set or not. The rows under keys that were
deleted stay as a tombstone, so that a key is not used twice, as uuids are not.

### Sla

Nothing here runs in a transaction: every statement commits on its own. A run of
the engine keeps in `req[w]` the time it took at its start (`at`), the tickets it
has still to evaluate (`todo`) and what it read of tickets (`rows`) and trackings
(`seen`); a pause or a resumption keeps the tracking row it read.

| code | actions |
|---|---|
| `runEngine` | `StartRun`, `AssignDefault`, `ReadTickets`, `ReadTrackings`, then for each ticket `Evaluate` and, if its status changed, `Notify`, `LogChange`; `EndRun`, or `RunFails` when a ticket of the snapshot was deleted |
| `resolveSlaStatus` | `Resolved` |
| `pauseTracking` | `ReadTracking`, `WritePause`, `RecordPause` |
| `resumeTracking` | `ReadTracking`, `WriteResume`, `RecordPause` |
| `createPolicy`, `updatePolicy` | `SavePolicy` |
| the ticket service | `Open`, `Answer`, `Patch`, `Decide`, `Delete`, each a single step |
| any | `RowGone`, `Die`; `Tick` is time |

Minutes are whole and the calendar is the one without closing hours (`policy.calendar`
null or `businessHoursOnly` false): the search for open minutes is a component of
its own. OPEN stands for OPEN, IN_PROGRESS and PENDING, which the engine treats
alike. The recipients of a notification, `nextEscalationAt` and
`predictedBreachAt` are left out: nothing that changes state reads them. A run
that fails may take everything under way with it, because nobody handles the
rejected promise of a run that the timer started and Node then exits.

### Accounts

`users[e]` is the row under an email; a password is who knows it, and a token is
who was sent it. `Register`, `Bootstrap`, `Login`, `Refresh` and `Logout` arrive;
`FindEmail`, `CreateUser`, `SaveRefreshTokenHash`, `ClearSession` and `LogSession`
are the statements that follow, each on its own. `OpenTicket` and `UpsertRequester`
are the rows that the ticket service makes for a requester it does not know, and
`ChangeUser`, `FindUser`, `WriteUser`, `RecordChange` the routes of
`users.controller.ts`, whose caller `jwt.strategy.ts` and `roles.guard.ts` have
looked up. bcrypt reads 72 bytes of a refresh token, and those are alike in all
the tokens of one user: the hash is modelled as "there is one", and any token of
the user's row matches it.

### Conversation, Rules, Listing, Inbox

`Conversation`: `Add`, `Insert`, `InsertActivity`, `Audit` (only attachments, on
another connection), `Commit` or `Rollback`; `Delete`, which waits for the share
locks of posts under way; `FindOne`, `ReadActivities`, `Answer` for the workspace,
whose parts are several statements.

`Rules`: `CreateWorkflowRule`; `Write` (the INSERT or UPDATE that precedes the
rules), `Match` (the one read), `Apply`, `Notify`, `Audit` for each matching rule
in turn, `Commit` or `Rollback`. Priority stands for type, status and item in the
conditions, the assignee for group and policy in the actions.

`Listing`: `FindAll` begins a walk, `Count` then `FindRows` for "contains", `FindIds`,
`FindByIds` and the total for full text, `CountBatch` for lists read in one
`$transaction([...])`; `Open`, `Edit`, `Delete` are the others. A page (`Slice`) is the
rows whose `Place`, the number of rows before them in the order of the query, lies
between its `skip` and its `take`. A row opened or
edited between the two statements of one page may cost the reader the last row of
it, which `before` therefore leaves out (`Disturb`).

`Inbox`: `Broadcast` looks the active users up and `Insert` writes a row for each;
`MarkAsRead` and `MarkAllAsRead` read, `UpdateRead` writes, `Record` tells the audit
log, each a step of its own; `Switch` enables or disables a user meanwhile.

### Knowledge, Cmdb, Catalog, Calendars

`Knowledge`: `Create` and `Update` arrive, `TryBase` and `TrySuffix` are the two
lookups of `buildUniqueSlug` (the second candidate suffix is looked up by nobody),
`Insert` and `UpdateRow` write under the unique index, `Comment` and
`InsertComment` are addComment for a requester. Of `publishedAt` the model keeps
whether it is there.

`Cmdb`: the creations and upserts are single statements; `GetTicketImpact` reads
with `Select`, `SelectAssets`, `SelectLinks`, the statements Prisma makes of a
nested read. Nothing in the service takes a link away.

`Catalog`: `CreateItem`, `UpdateItem`, and for a ticket
`ResolveCatalogForTicketCreation`, `ValidateCatalogPayload` field by field,
`Create`. Values are strings, numbers and booleans of a few texts, enough to tell
the types of fields apart: blank, a number with a leading zero, "true", a number.

`Calendars`: `ClearDefaults` and `InsertDefault` are the two statements of a default
calendar, `Fail` what stops between them.

### BusinessCalendar, ConnectionPool

`BusinessCalendar`: `Loop` is one round of the `while` of
`addMinutesConsideringCalendar`, on a clock whose unit is half a minute, so that
the flooring of minutes shows; `ahead` is how far UTC is ahead of the process, for
holidays are compared as UTC days. `Calendar` is every combination of open
weekdays, hours (those that end before they start included) and one holiday.

`ConnectionPool`: `Begin` asks for a connection, `Grant` serves the queue in order,
`GiveUp` is `maxWait`, `Work` and `Audit` the statements of the transaction and the
one beside it, `Expire` the `timeout` of the transaction, `Commit` the end.

### Portal, Screens, DevOrchestrator

`Portal` numbers tokens in the order of their issue. `AuthedFetch`, `Answered`,
`Failed`, `Denied`, `DeniedAgain` follow one call; `Renew` starts the one
`refreshPromise` of a tab, `Refresh` and `SaveRefreshTokenHash` are what the server
does with it, `Renewed`, `Refused`, `RenewalFailed` how it ends. `Expire`,
`UpdateStatus`, `Login` and `Visit` are the rest of the world. `location.assign`
leaves the page, and with it go its calls; a client-side change of route does not.

`Screens` is the pattern that the ticket detail, the knowledge manager and the
portal pages share (`useQuery`, `useMutation`, `invalidateQueries`): a fetch reads
on the server (`Read`) before its answer arrives (`Arrive`), `Invalidate` drops the
one under way and asks again. TanStack Query itself is outside the repository and
modelled from its use.

`DevOrchestrator`: `SkipPort`, `NoPort`, `SkipServer` are the search, one probe for
each address family, `Start`, `Ends`, `Interrupt`, `Shutdown`, `Exit` the rest.

Definitions marked *Fault* are wrong variants of the definition that follows
them; replacing one by the other must make the property named in `PROJECT.json`
fail, which shows that the property can tell.

## 3. Runs

A property that joins several named parts is checked as one; the parts have their
own comments in the modules.

| run | instance | checks |
|---|---|---|
| `tickets_serial` | 1 request at a time, all handlers, 2 approvals, 2 users | `HistoryFollowsStatus`, `ApprovalsGate`, and `RequestsAreAtomic`: `Tickets` implements `AtomicTickets` |
| `tickets_crashes` | 2 requests, 1 approval, every handler but macros, crashes | `TypeOK`, `DecisionsAudited`, `StampedStatus`, `NoOrphanApproval`, `DecisionFindsTicket`, `NoResurrection` |
| `tickets_liveness` | 2 requests, 1 approval, no crash, fair | `LogIsTrue` (no decision in the log without its commit, no deletion without its record), `EveryRequestEnds` |
| `sla_serial` | 1 run or request at a time, fair | `TypeOK`, `PausesHold`, `OverdueReported` |
| `sla_overlap` | 2 runs at once, answers, edits and deletions, crashes | `TrackingHasTicket`, `NoFalseBreach` |
| `sla_notices` | 1 engine, and a request that answers, pauses, resumes or edits a policy | `ChangesTold`, `ChangesChained`, `BreachTimeKept` |
| `accounts` | 2 requests, 2 emails, 2 passwords | `TypeOK`, `OnlyOwnersHold`, `AuthorityTraced`, `LogoutHolds`, `LockoutIsFinal` |
| `desk` | nine areas, 2 requests each where they race | `TypesOK`, `ArticlesHold`, `LogAgrees`, `ImpactIsBetween`, `WalkIsExact`, `TimelineIsWhole`, `StoredIsValid`, `RulesHold`, `OneDefault`, `SessionSurvives` |
| `edge` | five areas, fair | `TypesOK`, `TransactionsAddUp`, `DeadlineCounts`, `ScriptIsTidy`, `ScreenHolds`, `WorkEnds` |

Three runs end in a counterexample, because the code does not do what a document,
a test or its own text says:

* `tickets_open_early`: a decision counts the pending approvals, another request
  adds one and commits, and the decision opens the ticket with the history reason
  "Aprobaciones completadas".
* `sla_shift_undone`: a resumption moves both deadlines
  (`sla.service.spec.ts:193` says so), and the next run, with nothing else going
  on, computes them from the creation date again: the minutes paused are counted
  (`pausedAccumulatedMinutes`) and used by nobody.
* `portal_renewal_fails`: a renewal that the network loses leaves the tokens in
  storage and the page where it is, while `README.md:376` says that the session is
  cleared and the user led to the login page.

Other disagreements are known and have no run of their own. `createApproval` takes
the ticket to PENDING without a history row, while `docs/itsm-domain-v1.md:32`
says that a change of status adds one: `HistoryFollowsStatus` leaves exactly that
change out. A run of the engine that overlaps a pause writes the row back without
it. A process that dies between the upsert of a status and its notification never
sends it, because the next run sees no change. `remove` deletes the ticket and
records it in a second statement, so `LogIsTrue` is checked without crashes.

**What holds only of one request at a time.** The properties of `tickets_serial`,
the refinement included, fail as soon as two requests run at once: two approvals
granted at the same time each see the other one pending and leave the ticket
PENDING for ever; a decision overwrites a status set after it looked. That is what
READ COMMITTED without `SELECT ... FOR UPDATE` gives. `PausesHold` needs one worker,
`ChangesTold`, `ChangesChained` and `BreachTimeKept` one engine. `LogoutHolds` is
stated for logouts served alone, `OneDefault` for defaults created alone,
`SessionSurvives` for sessions that no logout, disabled account or call of an
earlier session has disturbed (`disturbed`), `DeadlineCounts` for opening hours that
end before UTC has the next day, `SearchEnds` for calendars that open at some time,
`StoredIsValid` for forms whose fields are shown by earlier ones. Each says so in
its comment, and each exception is one the code really has.

### Bounds

Tickets: one ticket is enough, because an approval, a history row and a request
concern one ticket each and nothing in these handlers relates two tickets. Two
approvals make the gate interesting (one granted while the other is pending). Two
requests produce every race between a reader and a writer, and a deadlock: a
deletion that holds the ticket and a decision that holds the approval.

SLA: a response is due after 2 minutes and a resolution after 3, each at risk
1 minute before, and the clock stops at `MaxTime` = 4: every status can follow
every other one it may follow, and a breach of either deadline is reached with time
left to be late. `LastOpening` bounds the time at which tickets are opened and
`MaxPaused` the minutes paused after which a ticket is not paused again, without
which a clock that stands still lets a ticket be paused and resumed for ever, a
minute each time.

Accounts: two emails and two passwords, so that one person can name the other's
email, and two requests.

Desk: 2 articles under 1 title with 1 suffix, the least for which both lookups of a
slug collide; 2 users with 3 notifications, so that a broadcast of two and a single
one meet; 2 services and 2 assets; 3 rows on pages of 2, so that there is a second
page that rows can slide to; 3 posts (one posted, one under way, one to come); 2
rules of every kind, so that the second may want back what the first has set; 3
calendars; 3 tokens, that is a login and two renewals, for two tabs of which one
makes two calls.

Edge: 3 handlers on a pool of 2, so that two hold a connection and wait for a second
while a third waits for its first; weeks of 2 days of 3 hours, deadlines of up to 3
minutes on a clock of 2 units to the minute and an hour of one minute, and `MaxDay` 9,
which no search on a calendar that opens reaches; 3 ports and 2 tries; 2 saves
and revisions up to 3, so that others write between them; 2 tokens, and a second
tab that logs in but makes no calls.

Keys are not reused, as uuids are not, so instances end when they are used up, and
so does a walk, a script that has exited, or a session without tokens left:
`CHECK_DEADLOCK FALSE` stands for clients that went away and a script that has
ended. Views leave out records that no handler reads and the run's properties do
not mention.

### Fairness

`Tickets!FairSpec` asks strong fairness of `Proceed(w)`: Node resumes a handler whose
statement has finished, and PostgreSQL queues the waiters of a row lock, so a
request whose lock becomes free again and again gets it. Clients arrive if they
like, and no request has to die. In `Sla`, weak fairness of `Proceed(w)` says that
what is under way goes on, and of `StartRun(w)` that the timer of `onModuleInit`
fires (`SLA_ENGINE_AUTORUN_ENABLED`) and that a process that exited is started
again.

In `edge` only work that has begun is fair, and weakly: a queue that can be served
is served, a limit of Prisma strikes at last (`ConnectionPool`), a loop that never
awaits goes on (`BusinessCalendar`), timers fire (`DevOrchestrator`), requests are
answered or lost (`Portal`, `Screens`). Nobody has to log in, type or open a ticket.

## 4. Proofs

Every invariant and every action property of the passing runs is stated by a
theorem, for any number of workers, rows and users and for all values of the
constants that satisfy the assumption named. TLC checked the properties on the
instances of the runs first.

**`TicketsProofs`** (with or without crashes): `TypeCorrect`, `ApprovalsHaveTickets`
(`NoOrphanApproval`), `DecisionsFindTheirTicket` (`DecisionFindsTicket`),
`DeletedTicketsStay` (`NoResurrection`), `StatusIsStamped` (`StampedStatus`),
`DecisionsAreAudited` (`DecisionsAudited`). The inductive invariant `Inv` says what a
request holds at each point of its handler (`Shape`, `ApprovalShape`), how that fits
the committed rows (`Fits`: a locked ticket exists, a decision under way belongs to
its ticket) and that two requests never hold locks that exclude each other nor
insert under one key (`Apart`). `NoOrphanApproval` is not inductive without them:
that an insertion finds its ticket at the commit follows from the share lock it
holds, and that nobody else holds a stronger one follows from `Apart`. `StampInv` and
`AuditInv` extend `Inv` with what an uncommitted row or decision already owes.
`LogMatchesTables` (`LogIsTrue`) assumes that no request dies (`~Crashes`): `remove`
records a deletion after it has committed it, and a decision is audited before its
transaction commits. `LogInv` keeps the lock on the approval that the audited
decision is about until it is committed.

**`TicketsSerialProofs`** (assuming `OneAtATime`: there is one worker; crashes are
allowed): `ServiceIsAtomic` is the refinement `RequestsAreAtomic`. Each commit and each
cascade is one action of `AtomicTickets`, and every other statement leaves its rows
alone. It rests on `NothingIsStale`: at each statement what the request has in
memory is what the committed rows say (`Knows`, one conjunct for each handler), which
is just what a second request would break. `ApprovalsDecide` (`ApprovalsGate`) is read
off the atomic steps, `HistoryIsTrue` (`HistoryFollowsStatus`) from `Knows`, for
`AtomicTickets` has no history.

**`SlaProofs`** (overlapping runs and crashes): `TypeCorrect`, `TrackingsHaveTickets`
(`TrackingHasTicket`), and `BreachesAreTrue` (`NoFalseBreach`) assuming `SameTerms`: all
policies set the same deadlines. Without it a ticket may change to a more generous
policy and stay BREACHED until the next run. `Evolves` sums up what a step may do to
one ticket, one tracking and one request, and is proved once, action by action.
`BreachInv` makes `NoFalseBreach` inductive: a breach that a run has computed from its
snapshot, or copied from a tracking, is a deadline missed by the ticket as it is now
(`Sound`). It rests on `MissedStays` (what a missed deadline waited for can only come
late) and on `ClockInv` (a run's time is past).
Assuming `OneEngine` (one engine and no crash, any number of requests beside it):
`ChangesAreTold` (`ChangesTold`), `ChangesFormAChain` (`ChangesChained`),
`BreachesKeepTheirDate` (`BreachTimeKept`). `TellInv` says that pauses and resumptions
leave the status and the breach date a run has read as they are (`SeenAgrees`), that
what a run is about to report has been written and goes on where the last report
ended (`ReportAgrees`), and that a ticket never evaluated has no report
(`NothingBefore`). Assuming `OneAtATime`: `PausesAreKept` (`PausesHold`), for which
`PauseInv` adds that a breach, and nothing else, has a date (`OnlyBreachesDated`): the
engine keeps the date of a breach and clears that of anything else, so a paused
ticket would otherwise not keep its own.

**`AccountsProofs`** (assuming `AskedAssumption` and `NilAssumption` of `Accounts`):
`TypeCorrect`, `OwnersHoldTheirTokens` (`OnlyOwnersHold`), `AuthorityIsTraced`
(`AuthorityTraced`), `LockoutLasts` (`LockoutIsFinal`). `Inv` adds to the types what a
request knows of its row (`Placed`): a request that is about to send tokens was
given the password of the row, which no statement changes afterwards.
`AuthorityKept` says that whoever is or acts as an administrator has a record or a
request that owes one, and that without a bootstrap there is nobody. `LogoutsHold`
(`LogoutHolds`) is about `MCSpec`, which bounds how many requests are served at once
(`load`): `LogoutInv` says that after a logout the hash is back only while a login is
about to be recorded (`EndedSessions`), and that no other request that is about to
send tokens goes on with a session that a logout has ended (`Continues`).

**`KnowledgeProofs`**: `TypeCorrect`, `ArticlesAreConsistent` (`ArticlesHold`). A request
about to comment has seen the article in `shown`, which only grows; an update
writes both columns of a publication or neither.

**`PortalProofs`** (assuming `TabsAreKnown`: calls belong to tabs): `SessionIsKept`
(`SessionSurvives`). Three facts make it inductive: a token that has just been issued
is still good when it is used for the retry (`Fresh`), a renewal is refused only
when the server has no session, and an undisturbed account is enabled (`Quiet`).
There tokens are natural numbers; `TypeCorrect` adds, for `MaxIssued \in Nat`, that they
stay within those there are.

**`DeskProofs`** proves about the parts as `MCDesk` has them. `Areas` and `Parts` show that
a step of the desk is a step or a stutter of every part, so what holds of a part
holds of the desk; `KnowledgeHolds` and `SessionIsKept` carry the results above over.

| theorem | assumes | what makes it inductive |
|---|---|---|
| `LogIsExact` (`LogAgrees`) | `Nil \notin Users` | a request that marks rows is their recipient and owes a record of what it changed; rows that are read stay so (`Grown`) |
| `TimelineAgrees` (`TimelineIsWhole`) | | a transaction under way keeps the ticket from going, so `live` is stable under it; what a reader has of comments was told before it reads the activities |
| `ReportIsBetween` (`ImpactIsBetween`) | `Impacted \in Services` | rows and links only grow, so what a statement has read is between what was so at the start and what is so now, one clause for each statement |
| `DefaultIsOne` (`OneDefault`) | | as long as no two creations were under way at one time, a creation under way finds no default (`OneByOne`); it inserts one row |
| `FormsAreValid` (`StoredIsValid`) | | the fields validated so far are judged alike by the payload as it is and as it will be, because what shows them comes earlier; normal forms are their own (`ValidateFieldValue` is idempotent) |
| `RulesAreKept` (`RulesHold`) | `MaxRules \in Nat` | after each rule the columns are the outcome of the rules applied so far on the row as written (`ApplyingShape`) |
| `WalkShowsAll` (`WalkIsExact`) | `ListBounds`: pages have a row at least | `OnTheWay`: a row still owed has a place on a page to come, or has been seen; additions only move it to later pages |
| `TypesAreKept` (`TypesOK`) | those above, `MaxIssued \in Nat` | the invariants above |

**`EdgeProofs`** does the same for `MCEdge`.

| theorem | assumes | what makes it inductive |
|---|---|---|
| `PoolIsKept` (`TransactionsAddUp`) | `PoolSize \in Nat` | `HoldsInv`: which connections a handler has at each point; `QueueInv`: who waits is in the queue once, without which `Grant` could count a job twice |
| `ScreensHold` (`ScreenHolds`) | `Nil` is no number and no text | an answer under way is no older than the cache (`ScreenInv`); once a save asks again, what is asked is read after its effect (`AnswerIsNew`) |
| `ScriptIsKept` (`ScriptIsTidy`) | `Nil` is no number, `Tries \in Nat` | `CandidateInv`, `PortsInv`: the port that is being probed is not the one already given; `EndInv`: only the first end sets the code |
| `DeadlineIsRight` (`DeadlineCounts`) | `Bounds`: days have an hour at least | `JobInv`: the open instants between the start and the cursor are the minutes already counted, and at most a part of one more. No induction over data is needed: the invariant carries the count, and lemmas on intervals of a day say what one round adds to it |
| `TypesAreKept` (`TypesOK`) | those above, `MaxIssued` and `MaxRev \in Nat` | the invariants above |

The assumptions are of three kinds. Bounds are numbers (`PoolSize`, `Tries`,
`MaxRules`, `MaxIssued`, `MaxRev`, `ListBounds`, `Bounds`) and `Nil` is none of the values it
stands beside: every instance satisfies them. Others say of which service a property
holds, and the properties fail without them, for the reasons given with the runs:
`~Crashes`, `OneEngine`, `OneAtATime`, `SameTerms`. `TabsAreKnown` and
`Impacted \in Services` say that constants name what they are meant to.

Only model-checked: liveness (`EveryRequestEnds`, `OverdueReported`, `WorkEnds`) and
anything about ENABLED, which the prover does not do; and the three runs that end
in a counterexample, which there is nothing to prove about.

## 5. Not modelled

* Configuration (`runtime-config.ts`): parsing of environment variables at start.
* Monitoring and logging: counters and log lines that nothing depends on.
* Audit search and CSV export, breach predictions, the lists of the CMDB, the me
  and user lists: reads without an effect, whose content is the rows of the models.
* `updateService` of the CMDB: columns that no other operation decides on.
* Audit records of knowledge and catalog writes: they follow the write and nothing
  reads them (`Tickets`, `Conversation` and `Rules` have those that can go astray).
* Layout, wording and styles of the user interface; its pages are `Screens`.
* The seed, build files and tests, which are read as documents.
* In `Sla` deadlines are those of policies without a calendar; `BusinessCalendar`
  has the search on its own.

## 6. Plan

Done: tickets, SLA engine, calendars, rules, accounts, browser session, pool,
notifications, knowledge, catalog, CMDB, lists, conversation, script, screens, and
proofs of all their safety properties. What would come next:

1. What is proved of requests served one at a time, for several of them under the
   weakest condition that keeps it: for `ApprovalsGate` that no two requests are about
   one ticket at once, for `PausesHold` that no run has a ticket in its snapshot
   while it is paused, for `LogoutHolds` that no refresh of that account is under way.
2. `BreachesAreTrue` without `SameTerms`, for tickets whose policy does not change.
3. `Rules` and `Catalog` inside the `create` of `Tickets`, where they are separate now.
4. The deadlines of `BusinessCalendar` inside `Sla`.
5. `Portal` over `Accounts`, so that both ends of a session are one model.
