# LicenseTrack: TLA+ models, checks and proofs

LicenseTrack (`src/`) keeps a company's software licenses: they are requested
(sourcing), ordered (pending orders), converted into licenses, covered by
maintenance, renewed and retired.  The backend is one FastAPI process
(`src/backend/app`) with one asyncio event loop and one SQLite file.  The
frontend (`src/frontend/src`) is a React application; its demo build has a
backend of its own inside the browser.

Three things make it hard to test.

*Requests of the server overlap.*  Every handler is a coroutine: at each `await`
other requests and the scheduler go on.  Reads run outside a transaction, the
first write of a session takes SQLite's write lock, and an ORM update names the
row, not the state that was read.  So a check and the write it guards are one
step only where the code makes them one, with a conditional `UPDATE`.

*Answers reach the client late.*  A page sends a request and goes on; by the time
of the answer another license is selected, the dialog is closed and opened again,
the list was changed by someone else, the session has ended in another tab.  Each
part of the client has its own way to tell such answers apart, or none.

*The demo's backend does not roll back.*  It implements the same procurement rules
on plain objects: a handler that throws half way leaves what it has done.

The models are about these: who reads what, who writes in between, what a crash,
a refusal or a lost answer leaves, and what must happen in the end.

## Inventory

| Component | State | Operations | Interacts through | What makes it correct |
|---|---|---|---|---|
| Pending orders (`pending_order_service`, `_state`, `_conversion_service`) | an order's status, its lines, licenses made from a line | create, attach, add, edit, delete, cancel, convert one form or per line | the order's row, `lock_open_pending_order` | each line becomes one license; a converted order has no uncovered line; a closed order is final once nobody works on it from an older read |
| Evidence transfer (`pending_order_conversion_service`, `procurement_document_transfer_service`) | status, attempts, claim token and time on the order; files and rows of copies | after a conversion, operator's retry, scheduler's sweep | claim columns; storage directory | one transfer at a time; complete means copied; nothing stuck; copies survive |
| Restore gate (`restore_maintenance`, `main`, `routes/backup`) | two counts, a flag, an owner | enter, leave, begin, end, restart | middleware, `_run_database_job` | nothing runs while the file is replaced; the gate opens again |
| Sourcing (`sourcing_service`, `planned_successor_service`) | requests, items, planned successors | create, edit, cancel, delete, merge, attach | pending orders, renewals | an item is in one place; a request's status follows its items |
| Renewals (`renewal_orchestrator`, `lifecycle_rules`) | predecessor, successor, pending renewal, reference of a license | reserve, initiate, bundle, link, unlink, cancel, convert | licenses, sourcing, retirement | chains never fork or cycle, links are mutual, a reference leads to one head, a pending renewal has work behind it |
| Maintenance (`maintenance_service`, `maintenance_rules`) | records by license, active record, coverage history | link, unlink, disable, hand over, type change | renewals, scheduler | the active record follows from the dates |
| PO lines and totals (`po_line_service`, `po_total_override_service`) | line numbers per PO, manual totals | every write of a PO number | orders, licenses, CSV | numbers are unique and never reused; a total counts once and fixes the currency |
| Sessions and users (`human_session_service`, `auth`, `hooks/useAuth.js`, `hooks/useSessionTimeout.js`) | session rows; per tab: user, lock, token, idle timer; shared: cookie, expiry and activity stamps | sign in, refresh, time out, sign out, revoke | every request; storage events between tabs | a revoked session stays revoked; a page in use keeps its session; an idle one ends |
| Demo backend (`demo/store.js`, `handlers.js`, `poLines.js`) | licenses, lines, requests, orders, register of numbers, support records | the procurement and support requests of the pages | the client, in its own memory | both ends of a link agree until an order is converted again after a throw; a PO line number is issued once |
| Readers (`useLicenseDocuments`, `useCustomFields`, ... seventeen) | what is shown of the selected record, reads under way | select, reload, change | selection; the server | what is shown belongs to the record selected |
| Settings (`SettingsPage`, sections, `useDirtySections`) | two drafts shared by nine sections, marks, saves under way | edit, save, change group or tab, leave | the draft; the router's guard | unsaved edits are marked; leaving asks and puts back what was stored |
| Dialogs (26 of them, `useModalGuard`) | input, staged files, saves under way | open, type, submit, close, discard | the page that shows one of a kind | closing asks; one record is created |
| Addresses (`useUrlSync`, `useAppNavigation`, `useNavigationGuard`) | page, selected license, history, expected change | navigate, Back, Forward, reload, look a license up | browser history; the license list | the address is that of the page |
| Import page (`csv-import/*`) | file, mapping, option, preview, decisions | choose, map, preview, decide, confirm | the server keeps nothing in between | what is imported was previewed, once |
| Query cache (`queryInvalidation.js` and its callers) | an entry per query, fetches under way | read, change, write into the entry, invalidate | every page | a change the user made is not lost from view |
| Lists kept by hand (users, tokens, webhooks, extensions, plugins, custom fields, presets, views, columns) | the list, requests under way, locks | load, create, change, delete, order, try | the server | once all is answered the list is the server's |
| Table of licenses (`LicenseTable`, `useTableState`, ...) | filter, sort, page, groups, ticked lines | all of them, inline edits, bulk delete, saved views | the list of licenses | what is ticked or counted is what is on view |
| Reports (`reportHelpers.js`, `procurementIdentity.js`) | licenses and filters | edits of licenses, totals of purchases, ranges | the registry, the demo's report | sections of a report agree |
| Scheduler, notifications, webhooks | run markers, delivery rows | daily run, retries, pruning | all of the above | once a day, at least once, and giving up |
| Documents, contracts, reference data, plugins, audit, schema, packaging | rows and files | single writes, imports, read-only views | the database | validation and formatting |

`PROJECT.json` lists every component with its status and each hazard at its line.

## Modules

| Module | Models | State |
|---|---|---|
| `EvidenceTransfer` | the claim, the copy and the sweep | the order's columns, documents, a program counter per runner |
| `Lease` | what the claim promises, without tokens, ages or runners | the holder of each resource |
| `PendingOrders` | pending orders and their lines under concurrent requests | rows, and what each request has read |
| `OrdersHistory` | which rules of orders survive overlapping requests | what was overtaken, strayed or missed so far |
| `RestoreMaintenance` | the gate around the replacement of the database file | counts, flag, owner, a step per restore |
| `RenewalLifecycle` | renewal chains and the sourcing lines that renew | status, links and reference of each license, lines, what each request has read |
| `RenewalsHistory` | which rules of renewals survive overtaken requests | what was overtaken so far |
| `BrowserSessions` | the tabs of a browser and the sessions behind their cookie | session rows, cookie, stamps, each page's memory, calls and storage events |
| `DemoProcurement` | procurement in the demo's backend | the store: licenses, lines, requests, orders, register |
| `DemoSupport` | support records in the demo's backend | the store: supported licenses, records, lines |
| `ClientReaders` | seventeen readers of the selected record | what is shown, reads and changes under way |
| `ClientSettings` | the settings pages | drafts, marks, saves, requests |
| `ClientDialogs` | the dialogs | input, saving, requests |
| `ClientRoutes` | page, selection and address | history, expectation, timers |
| `ClientImport` | the import page | file, options, preview, requests |
| `ClientCache` | one entry of the query cache | data, staleness, fetch, changes under way |
| `ClientLists` | one list kept by hand | list shown, list of the server, requests, locks |
| `ClientRegistry` | the table of licenses | list, view, ticks, requests |
| `ClientReports` | figures over edited licenses | licenses, filters |
| `MCEvidenceTransfer`, `MCPendingOrders`, `MCRenewalLifecycle` | the symmetry used by TLC | |
| `MCDemo` | procurement or support in the demo, one kind of session at a time | which lines became licenses, and whether one did so twice |
| `MCClient` | the client, one area at a time | the area in use |
| `EvidenceTransferProofs` | theorems about the claim and about the documents | |
| `PendingOrdersProofs`, `RestoreMaintenanceProofs`, `RenewalLifecycleProofs`, `BrowserSessionsProofs`, `DemoSupportProofs` | theorems about the module they extend; for orders and renewals that is the module with the history | |
| `ClientProofs` | theorems about what the client sends and shows | |
| `ClientRegistryProofs` | theorems about the table, the reports and the types of all areas | |

An operator named `Bad...` is never part of a specification: it is a plausible
wrong version of the definition after it, kept to show that the runs would notice.

### Evidence transfer

A *runner* is a request (`Convert`, `Retry`) or the scheduler's sweep
(`SweepStart`, `SweepEscalate`, `SweepCharge`, `SweepEnd`).  It claims the order
(`Claim`: the conditional `UPDATE` of `claim_evidence_transfer`; `Busy` when it
matches no row), reads which quotes have no copy (`ReadDocuments`), copies files
(`WriteFiles`), commits the rows (`CommitCopies`), writes the status
(`MarkComplete`, `MarkFailed`) and releases the claim (`Release`, which tests
the token).  The steps are separate because each ends in an await after which
another runner's commit is visible.  `StepFails` is a write that raises;
`Crash` loses every local variable and keeps rows and files; `Tick` is one pass
of the scheduler's loop and ages all claims.  `UploadQuote`, `DeleteQuote`,
`DeleteCopy`, `UploadInvoice` are other users' requests, `LoseFile` is the disk.

Data that is abstracted: a document is a name with a state (no row, row with a
file, row without one).  The order in which a sweep takes its orders is
arbitrary.  `evidence_transfer_required` is whether the order has a quote.
`owed` is a history variable: the quotes the conversion found.

### Pending orders

A request first reads (`ReadConvert`, `ReadCancel`, ...: the load, the checks and
what it remembers) and then writes (`Convert`, `Cancel`, ...).  Operations whose
first statement takes the write lock are one step: `CreateSourcing`,
`CreateOrder` and `Attach` (which reserves the item and locks the order).
`Convert` tests the status again, as `lock_open_pending_order` does, and uses the
lines that were read before.  A row that has gone makes the write fail
(`Abort`).  An item's price, quantity and names, the sourcing request's
aggregated status, and edits that change neither status nor membership are left
out.  The delete of an order selects its lines (`pending_order_service.py:293`)
before its first write: it returns the lines it read to sourcing, and any line
attached since loses its order with the row.  SQLite may give the row id of a
removed line to a new one: an item in `Reused` is then `absent` again, one that
is not stays `deleted` (`Gone` is either).

`OrdersHistory` adds three history variables, which no step reads: the
operations that wrote to an order that had been closed since they read it
(`overtaken`), whether a write met a line that had left its order (`strayed`),
and whether the request that closed an order had not read all its lines
(`missed`).  The rules are stated with them, over all interleavings of all
operations: each says up to which overtaken write it holds.

### Restore gate

`EnterRequest`/`LeaveRequest` are the middleware, `EnterJob`/`LeaveJob` are
`_run_database_job`.  `StartRestore` passes the middleware uncounted; `Refuse` and
`BeginRestore` are the checks before and the start of `begin_restore`; `Drained`
and `CancelWait` end its wait; `Archive` and `Swap` are the two phases of
`_perform_restore`, each of which may fail; `EndRestore` is the middleware's
`finally` or the failed restart; `Restart` and `RestartRefused` are the two
outcomes of the background task.  A request counts as running until the
middleware's `finally`; handlers have committed by then, and no other route
leaves work for after the response.

### Renewals

The state is what `License` keeps about a chain: `lifecycle_status`,
`renewed_to_id`, the predecessors (`renewed_from_id`, `predecessor_id` and
`coterm_from_ids`, which the code writes together), `license_ref` and, on a
predecessor whose successor was adopted, the successor's former reference
(`formerRef`, which is also the alias that finds it).  A sourcing line has a
status and the licenses it renews (`renews`, and `coterm` after a merge).  A
cancelled line is never read again here and counts as absent, so its identity
may be used by a new line.

One step each: `InitiateRenewal` and `LinkSuccessor`, whose conditional
`UPDATE`s test what they rely on; `ConvertLine`, which runs behind the order's
lock; `ImportSuccessor`, whose `SAVEPOINT` opens the transaction before its
first read; `CreateLicense`, `AddLine`, `OrderLine`, which rely on nothing that
changes.  A renewal bundle is several `InitiateRenewal`s in one transaction.

Every other operation has a reading half (`ReadCancel`, `ReadUnlink`,
`ReadDelete`, ...: the checks) and a writing half (`CancelRenewal`, `Unlink`,
`DeleteLicense`, ...: the assignments).  `Handle` joins them: the request writes
at once or, if its operation is in `Split`, keeps a record of what it read, which
`Write` performs later on whatever the rows have become, or `Abort` drops.
`CloseLine` is the delete or cancel of a line or order with its side effect on
the licenses it was to renew; `ReturnLine` is the deletion of an order;
`SetRetirement` also serves the nightly sweep.  Whether a term has ended is free
wherever the code asks for a date.  The choice of a head by `license_matcher` is
in `Named`: a reference names its bearers and the adopted successor that gave
it up.

`RenewalsHistory` remembers which operations wrote although what they had
checked no longer held (`overtaken`).  Its rules hold for every interleaving up
to the first overtaken request of the kinds they name.

### Sessions in a browser

Tabs share the session cookie and `localStorage`; what a page keeps in memory (its
user, lock, token, and the id that scopes its keys) goes with a `Reload`.  A call
is sent, answered by the server (`Serve...`, with the cookie it was sent with) and
received (`Receive...`), or lost (`Lose`).  A storage event waits in `notices`
until the tab hears it (`HearSignOut`, `HearSignIn`).  `TimeOut` and `KeepAlive`
are what is due at a timer; `EndElsewhere` is a revocation by an administrator or
another browser.  `sessionGeneration` is only compared with its value at the time
of a call, so the step that increments it marks the calls under way as stale.
A 401, to a wrong password as to a call for data, locks the page and loads it
again (`LoginRefused`, `ReceiveData`).
Time is counted in ticks of about a minute, and none passes while a call or an
event is under way: these take seconds.  The deployment is same-origin, so the
bearer token serves to sign out only.

### The demo build

`demo/handlers.js` answers each request at once from `demo/store.js`, for the one
user of the page, so one action is one request from start to end.  What makes it
hard is that nothing rolls back: `Convert`, `BatchConvert` and `ConvertFreeware`
go through the lines of an order or request and may throw at one of them, keeping
the licenses made before.  A request refused before its first write is no step.
Records hold what procurement follows: the links of a renewal (`from`, `to`, the
pending mark), the places a line is in, its planned successor, its number in the
register (`demo/poLines.js`), currency, supplier and term.  There is one product,
publisher and owner; a term is a year, and the current year does not change.  Only
the requests the pages offer are modelled: orders are converted as a whole, and
`deletePendingOrder` is not offered.  A free license with paid support, which
purchases can produce, is not modelled.  `MCDemo` remembers which lines became
licenses (`bought`) and whether one of them became another (`again`).

`DemoSupport` has the supported licenses, the support records and the lines that
renew them.  `HandOver` is the choice of the active record on load and after each
change; terms are past, current and future, and the day does not change.  The
order in which a record lists its licenses is left out: when its primary one
leaves, any other may take the place.

### The browser client

The client is modelled by areas that share no state the modules know, so
`MCClient` runs one of them at a time.  A browser runs the effects of a change
before it handles the next event; a change with its effects is therefore one step,
while timers and answers are steps of their own.  Where many parts follow one
protocol and differ in details, the module states the protocol once and a record
of rules for each part.

`ClientReaders`.  Each of the seventeen readers is a record: which answers it takes
(the newest, those of the selected record, those asked for since the selection,
one per record in the cache, any), whether a selection empties it, whether the
user can change the record from it, what the answer to that change does, and
whether the reads show as loading.  `Taken` is the decision about an answer.  An
answer may fail; other users change records (`Change`).  Three readers also read
quietly after a change or by a poll (`refreshDocumentsAndLicense`, and the
`showLoading: false` of processing results and plugin suggestions): such a read
supersedes the one that shows as loading and does not end the loading, as in the
code, so nothing is claimed of the loading of those three.

`ClientSettings`.  One field stands for the fields of a section.  A user edits one
or two of the nine sections (`Usages`); the pairs include two sections of one
group, of two groups, and of both drafts.  `Edit`, `SaveSection`, `SaveMine`,
`SaveTemplates`, `Trigger` (notifications sent by hand, after which the settings
are read again), `ChangeGroup`, `ChangeTab`, `Navigate` with `Stay` and `Leave`;
`Handle` is the server, `AnswerGlobal`, `AnswerMine`, `AnswerReload` and
`AnswerError` what an answer does, which may arrive after the page was left and
mounted again.  `LeaveUnasked` is what the router does to unsaved edits when the
answer to the creation of a license brings another page.

`ClientDialogs`.  The rules of a dialog are its inputs, those its dirty check looks
at, whether inputs are disabled and a second save or closing is possible while one
is under way, and what becomes of files that fail.  A late answer closes whatever
dialog of the kind is open, as `CloseWhatIsOpen` says.

`ClientRoutes`.  `Show` is every change of page with the address written for it
(`Settle`, `Write`); `Traversed` and `PopState` are Back and Forward, whose
handler may refuse (`Blocked`) and put the page back by a timer (`Restore`);
`Load` and `Resolve` are the license list and the look-up of a license in an
address.  `AddLicense` opens the form of the top bar on any page;
`SubmitOrCancel` sends or closes it (one that was sent can be closed too), and
`LicenseCreated` is the answer, on whatever page the user is by then: it goes to
the licenses by the raw `setPage`, past every guard (`useLicenseCreation.js:119`).
The user does not click between Back and its zero timer.

`ClientImport`.  A preview and an import carry the file, the mapping and the
update option; the page holds these in separate places.  Files have the column of
references, without which the option has no effect.  `astray` marks a user
who goes on before an answer arrived or after a re-preview failed.

`ClientCache`.  One entry is followed per behaviour.  `Deeds` lists 36 operations
of the client with what they change on the server and what they invalidate or
write; `Treatment` is what one of them does to the entry.  `Mount`, `Unmount`,
`Invalidate`, `IdleRefresh`, `ServerReads`, `TakeFetch`, `FetchFails` are the
library's life of an entry, from how the code uses it.

`ClientLists`.  A list's rules are its operations, which of them are shown before
they are answered, undone when refused, confirmed, locked, or followed by a read,
and whether a request carries the whole list.  `ServeDepartments` and `AnswerHalf`
are the second request of the users' page.

`ClientRegistry`.  `Settled` is the effect that puts page, ticks and open groups
right after every change.  The server may write another value than it was sent
(`Alias`), other users change lines (`Refetch`), an answer may be a refusal.

`ClientReports`.  The state is small, the definitions are not: the amount of a
line, of a purchase with a manual total, of the part of a term in a range, of
support shared by several licenses, of a year and of a fiscal quarter, each as its
function in `reportHelpers.js` computes it.  The actions are the edits that reach
those figures.  A year has twelve days, one to a month, and amounts are in the
smallest unit.  The budget by status (`getLifecycleBudget`) has the statuses
active, expiring and expired only, and leaves upcoming and retired lines out: it
is compared with the other totals where there are none of those.  Publisher, supplier and department only split a sum and are left
out, as are scheduled retirement, the pricing basis, growth and lifecycle rows and
exports.

## Runs

| Run | Shows | Bounds |
|---|---|---|
| `evidence_safety` | a fresh claim excludes every other runner; the row names the runner whose claim is fresh; the columns implement `Lease`; a completed transfer copied every quote of the conversion; committed copies survive failures and overlaps | 1 order, 2 quotes, 2 requests and the sweep, timeout 2 ticks, 1 attempt, 1 fault, 1 change by a user or the disk: a takeover, a late release, a crash and a half-done copy all happen |
| `evidence_settles` | every pending or failed transfer ends complete or escalated | 2 orders, timeout 1, 1 attempt, 1 fault |
| `orders_sequential` | one request after another, every operation: a closed order stays closed | 2 orders, 3 lines, identities used again |
| `orders_concurrent` | every operation overtaken by any other: a line becomes one license and stays out of sourcing, closed orders are settled and no line loses its order, each up to the first overtaken write of the kinds it names; a closed order is final once the last request that read it open is over | 1 order, 2 lines, 2 requests at a time, identities unique |
| `restore_gate` | nobody counted runs during a replacement; one owner; exact counts; waiting ends and the gate opens again | 4 requests, 1 job, 3 restores |
| `renewals_sequential` | one request after another, every operation: chains end, a reference has one head, `renewed` means a successor, a pending renewal has a line that can end it | 3 licenses, 2 lines, at most 1 license retired or not renewable: a merge of two lines, a chain of three, an order left behind by a cancelled renewal |
| `renewals_concurrent` | unlinks, deletions, cancellations and closed lines overtaken by anything: links agree, chains end, references have one head and links stay, up to the first overtaken unlink or deletion; statuses and pending work, up to the first overtaken request of the kinds named there | 3 licenses, 2 lines, 1 overtaken request, nothing retired; nothing explored past the first overtaken unlink or deletion, where nothing is claimed |
| `sessions_tabs` | tabs of one key time out on the activity of all; time alone never ends the session of a page in use; pages nobody uses end at the sign-in form | 2 tabs, 2 sign-ins, timeout 2 ticks, 2 inputs, 1 call for data, 1 trouble (a lost call or a session ended elsewhere) |
| `demo` | after a session of requests, some of which throw half way, both ends of renewals agree and no chain returns as long as no line became two licenses, and a PO line number was issued once; both ends of support links agree | sessions of 5 requests (renewals: 7, planned terms on one order: 10, enough to convert it twice); 8 licenses, 3 lines, 3 requests, 1 order, 2 PO numbers; support: sessions of any length, 2 supported licenses, 2 records, 1 line |
| `client` | what is shown is current, forms ask and send once, the address is that of the page, unsaved settings are left after asking or by the answer to a creation, the table is honest, figures agree | see `Client.cfg` and below |

Two runs record disagreements between the code and its documentation; each checks
one property, and TLC's trace is the interleaving.

| Run | Statement | What happens |
|---|---|---|
| `orders_closing_race` | PROC-1, "closing wins any race" | a cancellation that read an open order overwrites its conversion; edits and deletions of lines do the same (their status is checked at the read, their rows are written by id) |
| `readers_custom_fields` | "ignores stale responses after the selected license changes" | the answer to a save refreshes with the closure of the license it began with, and its custom fields replace those of the license opened since |

`orders_concurrent` offers every operation to two requests at a time.  The race
above is in it, so no rule can hold as it stands; each says up to which write it
holds.  A line becomes a second license, or returns to sourcing with one, only
after an overtaken edit of the status, an overtaken delete or cancelled sourcing
request, or a write to a line that had left its order (`LicensedOnce`).  An
unsettled order or a lost line takes one of these, an overtaken addition, or a
request that closed the order without having read all its lines
(`SettledUnlessMissed`).  `ClosedOrdersAreFrozen` has no condition.  Reused
identities are in `orders_sequential` and in the theorems.

`renewals_concurrent` holds its rules up to the overtaken writes that break them
in the code, and TLC finds a counterexample when any one of these is dropped:
the later of two unlinks undoes a renewal made in between; a deletion writes
after its license was linked or named by a line; a cancellation or a legacy mark
that was read long ago writes the status by id, so that a renewed license loses
its mark, while the chain stays.

**Bounds.** Requests, orders, lines and quotes are interchangeable (symmetry,
except under liveness).  The hazards are between two runners and a third that
profits; three runners and one order, or two orders for the sweep's list, let
each happen; two requests are enough for a write that is overtaken, as the
other one goes through any number of operations meanwhile.  `MaxFaults`, `MaxDocEvents` and `MaxLicenses` are only there to keep
the state space finite; `MaxLicenses = 2` is one more than the property allows.
Ticks of a claim's age stop at the timeout, where age no longer matters.
Deadlock is not checked in the order, renewal, demo and client runs:
identities or the steps allowed run out.

In a browser two tabs make each other's events; a third would only repeat the
second. A timeout of two ticks separates a page in use, one that was just used,
and one that is idle. In the client, a late answer needs another selection or
opening: two records, three selections and reads and a change let an answer
about one record arrive when another is open, and when the first was opened
again. Two edits and two saves let one section be saved while another is edited;
two openings and two saves let the answer of the first meet the second; two
changes and two reads let a change and a read of the cache cross both ways.
Three lines and two values and a blank fill two pages, two groups and a filter.
Reports start from three portfolios, chosen so that support is shared, left
behind and bundled and a purchase has several lines, and apply up to two edits;
the figures are functions of the licenses, so longer histories only reach more
portfolios. Fiscal years begin in the fourth or the last month. Readers with the
same rules are checked once, and states of the client are told apart by the area
in use only (`View`).

**Fairness.** The event loop resumes every coroutine that can go on, so a
runner's next step, the sweep and the passing of time are weakly fair; the
scheduler's loop catches what a job raises.  Requests and jobs end, and a restore
past `begin_restore` goes on.  In the browser a call is answered or fails, events
between tabs are delivered, timers and time go on.  No fairness is assumed for
arrivals, faults, cancellations, or users.

## Proofs

`tlapm` checks these for every value of the constants, under the named
assumptions on them.  These only say that a constant is of its kind: no process,
order, license, session or file has the name of a null value
(`ProcessAssumption`, `OwnerAssumption`, `NullAssumption`, `NoneAssumption`,
`LostAssumption`, `FilesAssumption`), bounds are naturals (`BoundsAssumption`,
`BoundAssumption`), requests and jobs are finite and disjoint sets, `Split`,
`Operations` and `Reused` name operations and lines, settings are used by section
and start with a value (`SettingsAssumption`), the order of a list is none of its
items (`ListsAssumption`), lines and the values of a column are numbers, pages hold
lines (`RegistryAssumption`), amounts and days are whole numbers and a fiscal year
begins with a month (`ReportsAssumption`), a claim lives at least one tick and a
session two (`TimeoutAssumption`).  TLC evaluates them in every run.  No theorem
assumes that requests wait for each other, that an operation is not offered, or
that an identity is not used again: where the code lets an overtaken request
break a rule, the rule itself says so by the history of what was overtaken.

The theorems of orders and renewals are about `HSpec`, their specification with
the history (the types are of `Spec`), the client's about `MCSpec`, which takes one
area of the client at a time, and all others about `Spec`.

| Theorem | States |
|---|---|
| `TypeCorrect` (`EvidenceTransfer`) | the type invariant |
| `ClaimIsHeld` | a working runner with a fresh claim is named by the row, and both measure one age |
| `FreshClaimIsExclusive` | two runners work on one order only if one claim has run out |
| `ClaimImplementsLease` | the claim columns refine `Lease` under `FreshHolder` |
| `CompletedOrdersHaveEvidence` | a completed transfer copied every quote of the conversion |
| `StoredCopiesSurvive` | a stored copy goes only when a user deletes it |
| `TypeCorrect` (`PendingOrders`) | the type invariant, for any operations and identities |
| `LinesAreLicensedOnce` | a line becomes one license and stays out of sourcing, up to the first overtaken edit of a status, delete or cancelled sourcing request, or write to a line that had left its order |
| `ClosingSettles` | a converted order has a license for each line it keeps, a cancelled one only cancelled lines, and no bought line is without an order, up to those, an overtaken addition, or a closing that missed a line |
| `ClosedOrdersStayClosed` | once no request is left that read a closed order while it was open, its status, lines and licenses are final |
| `GateTypeCorrect` | the type invariant of `RestoreMaintenance`, which no run checks |
| `RestoreIsQuiesced` | no counted request or job runs while a restore has the database |
| `GateHasOneOwner` | the gate is closed exactly while one restore owns it |
| `GateCountsAreExact` | the counts are the running requests and jobs |
| `RenewalsTypeCorrect` | the type invariant of `RenewalLifecycle`, for every `Split` |
| `ChainsHold` | both ends of every link agree, no set of licenses has all its successors inside, and of the licenses of one reference one has no successor, up to the first overtaken unlink or deletion of a license |
| `LinksAreKept` | only an adopted link at the end of its chain is ever undone, up to the same moment |
| `StatusesHold` | a license is renewed exactly while it has a successor, up to the first overtaken write of a status; a pending renewal has a line that can end it, up to the first overtaken cancellation, unlink or deletion |
| `TypeCorrect` (`BrowserSessions`) | the type invariant |
| `TabsShareActivity` | a tab times out only when no tab of its key had an input within the timeout |
| `SessionsOfActiveTabsLast` | time alone never ends the session of a page in use |
| `FormsAreSentOnce` | dialogs ask and create once; who waits imports what was shown, once |
| `AddressNamesTheScreen` | when nothing is awaited the address is that of what is shown, for histories of any length, unless the user moved while a license was looked up or a creation answered |
| `UnsavedSettingsAreKept` | unsaved settings are left only by a user who was asked, by a reload, or by the answer to a creation the user had asked for |
| `ScreenFollowsTheServer` | readers, settings, lists kept by hand and the query cache show what the server holds |
| `TableTellsTheTruth` | a deletion is of lines on view, a page shows the lines its footer names, an edited line stays in sight |
| `FiguresAddUp` | the figures of the reports agree, for any amounts and days |
| `ClientIsTyped` | the types and bounds of all areas |
| `SupportIsTyped` (`DemoSupport`) | the type invariant |
| `BothEndsOfSupportAgree` | both ends of every support link agree, for any licenses, records, lines and sessions |

*Claims.* Exclusiveness is not inductive: a state with two fresh runners and a
row that names neither has a successor that breaks nothing yet.  `ClaimHeld`
names the reason two claims cannot both be fresh: each would be the row's token.
`TypeOK /\ ClaimHeld` is inductive.  The critical steps are `Claim` (it only
overwrites a token whose age is at the timeout, and then the former holder has
held it for the timeout as well), `Release` (it only clears its own token) and
`Tick` (row and runner age together).  `LeaseStep` maps every action to an
`Acquire`, an `End` or a stutter.

*Documents.* A transfer completes when its runner has copied what it listed, so
`EvidenceInv` relates each runner's list to what the order owes: what is owed has
its row and no copy (`OwedIsUncopied`), and is among what each runner of the order
is about to copy (`RunnersCoverOwed`).  Only converted orders are worked on
(`OnlyConvertedOrders`), and nothing is added to what those owe
(`ConvertedForGood`), so the list of a runner that lost its claim is still long
enough: the claim plays no part in the proof.

*Orders.* `HInv` is the type invariant and, while nothing was reopened by an
overtaken request (`NothingReopened`), that an open order has neither a cancelled
line nor a license (`OpenOrdersAreUntouched`), that the lines of an order are
bought ones (`LinesOfOrders`), and that what every waiting request remembers was
read of such an order (`ReadsUntouched`).  The lock then tests the one thing that
may have changed, the order's status, and a line that left its order shows in
`strayed`.  While also nothing was missed, closed orders are settled
(`NothingMissed`).  The history only grows, so a condition that holds after a step
held before it (`PromisesEnd`).  `ClosedOrdersStayClosed` needs none of this:
every operation refuses an order it reads closed (`NewRequestsKeepOff`) and every
write is to the order that was read, or a line of it (`RestIsKept`).

*Gate.* `Quiesced` rests on the counts, and the counts on each running process
having entered once: `CountsAreExact`, stated with cardinalities, makes the clamp
in `leave_request` harmless.  It is inductive together with the type invariant,
the owner's invariant and `Quiesced`; `EnterCounts` and `LeaveCounts` are the two
facts about cardinalities.

*Chains.* Types need two facts more: an open line names a license, and a merge
has read such a line.  As long as no unlink or deletion was overtaken, `StepLinks`
sorts all operations, however divided, into five kinds of steps on links: none, a new license at the end of chains, an adoption, an
unlink, a removal.  `LinksAreMutual` is inductive with `AbsentAlone` (an
identity not in use has no links) and `AdoptedAlone` (an adopted successor has
one predecessor), without which an unlink could leave the other ends of a merged
successor behind.  `ChainsEnd` needs no induction along a chain: a new link ends
at a license that has no successor, which no closed set of licenses contains.

*References.* A reference is the identity of the license it was made for, and
that license still bears it (`Bearers`).  A license without predecessors bears
its own (`Roots`), which an adopted successor gave up for its predecessor's and
gets back when the link is undone (`Adopted`).  So a step that hands a reference
on takes it from the head of its chain, which then has a successor
(`HeadsAreUnique`).

*Pending work.* A pending renewal keeps its line because every step that closes a
line looks at the licenses it renews.  Two facts make that enough: a line that was
licensed left each of its licenses a successor for good (`LicensedIsFinal`), and
a pending license has no successor (`PendingUnlinked`).

*Sessions.* A tab reads the stamp of its key, which is at least as young as its
own last input (`StampsAreYounger`).  `ActiveSessionsLast` needs `SlidingInv`:
whatever a tab believes of the expiry is never later than the session's
(`ExpiryIsSafe`); calls under way are about the cookie's session
(`CallsAreAboutTheCookie`); a refusal means that it has ended
(`RefusedHasEnded`).

*Dialogs and import.* `DialogInv` says that a dialog that creates has at most one
save under way (`OneSaveAtATime`), and that one whose record was made knows it or is
about to hear of it (`CreationIsKnown`); `DialogRules` goes through all dialogs once.
`ImportInv` ties each answer under way to the request it belongs to (`AnswersFit`,
`NumbersAreUnique`) and the preview on screen to the file and options it was
made from (`PreviewIsConfirmed`).

*Addresses.* When something is awaited the address may differ from the screen;
`RouteInv` says how each wait ends: a page that is waited for comes, or a timer
is set that puts the address back (`WaitIsTimed`), and a license that is looked up is on
the page that will show it (`LookedUpIsShown`).  `EditsAreGuarded` confines unsaved
edits to the settings page, where every way out asks.

*Readers and settings.* `ReaderInv` numbers the reads: the last one, the only one
a guarded reader takes, brings the user's last change (`ReadsFollowChanges`).
`SettingInv` keeps with each answer that every value in it was the server's at
some time, so an answer never brings in what nobody saved.

*Lists.* `ListInv` follows every operation under way (`OperationsAreFollowed`):
as long as nothing crossed, how far it has come tells what the server and the
screen have of its entry, what it will put back of the others is what is shown,
and an entry no operation is about is shown as it is.  `ListRules` is the one
place that looks at the nine lists.

*Cache.* `CacheInv` says when what is under way may be trusted: a read that is
not marked as raced brings the user's last version of every record
(`FetchIsCurrent`), and a change that is not in doubt is the only one
(`DoingsAreKnown`), so that its answer, and the list it puts back when refused,
are current.  Data that is neither stale nor raced is current but for a record
whose typed value waits for its answer.  `DeedRules` goes through the 36
changes: each entry a change touches is read again, written, or named in
`Overlooked`; a change that were missing from all three would make the proof,
and the run, fail.

*Table.*  `TableInv` holds after every step because `Settled`, which ends each,
puts page, ticks and open groups right: the page is one of those there are
(`PageIsThere`), ticked lines are on view until lines move
(`TickedLinesAreOnView`), and the groups around the line last edited are open
(`EditedGroupIsOpen`).  The footer needs that the places of the lines on view are
1 to their number, which holds of every finite set in a total order.

*Figures.*  The state only has to stay a portfolio of well-formed licenses
(`ReportInv`).  That figures agree is arithmetic over sums of any of them.  A sum
counts units, those over zero less those under it (`SumIsWorth`), and so obeys the
laws of cardinalities: the parts of a set that is split add up to the whole
(`WorthByKind`).  The induction this rests on takes one element away at a time, by
the well-founded order of the finite subsets of a set (`SmallerFirst`).

*Types of the client.*  `AreasAreTyped` adds to each area's invariant what bounds
need: a record's versions and the changes still on their way to the server are no
more than the changes made (`ChangesAreCounted`), a version kept anywhere is one of them or what was typed
(`Shows`), there are no more uploads than were sent (`FewUploads`), and a list
that shows as being read has a read under way (`ListBounds`).

*Support.*  Every handler is built from adding a record and linking one.  These
keep `SupportInv` (ids were handed out, and both ends of each link agree) of any
store, so it is enough that each handler applies them to licenses and records
that are there.

**Model-checked only.**  Liveness (`StuckOrdersSettle`, `GateReopens`,
`WaitingEnds`, `IdleSessionsEnd`), because fairness and ENABLED are out of the
prover's reach.  `ClosingIsFinal` and the rules of renewals for one request at a
time: overlapping requests break them in the code, and the theorems above say up to
where they hold for any number of them.  Procurement in the demo (its `TypeOK`,
`LinksAgreeUntilBoughtAgain`, `PoLineNumbers`): its handlers go through a list of
lines and may stop at any of them, defined by folds and recursive operators, and
what those compute needs an induction the provers cannot apply.

## What the code does that a reader may not expect

The models follow the code in these points, and a property that could not hold
because of one has it as a stated condition.  Where a document, comment or test
says otherwise it is quoted.

*Transfers and restore.*  After a crash the sweep charges its five attempts to a
claim that is still fresh and escalates an order whose transfer never failed,
although the docstring counts failures ("After MAX_EVIDENCE_SWEEP_ATTEMPTS
failures").  A transfer that takes longer than its 15-minute claim is joined by
another one.  A second restore request uses the database during a replacement,
since restore requests are exempt from the gate that "already answers every other
request with 503".

*Orders and renewals.*  A line attached between the coverage check and the order
lock stays without a license ("Every convertible pending-order item must be
included").  A line may be added with `AddItem` to an order that closed after
the check.  Where row ids are used again, a slow conversion may read a line of
one order, the line be removed, and its id be given to a line of another order
that is converted: the slow one then makes a second license of it, since it
locks its own order only and finds the line by id.  A license whose renewable
mark is taken away during a renewal is retired by the nightly sweep
(`docs/maintainer/invariants.md:47`: "Alerts, the workbench and retirement all
use it").  An imported successor gets a reference of its own, although the
documents promise that it inherits one
(`docs/extension-authors/build-integrations.md:92`).

*Sessions.*  "Browser tabs share activity"
(`wiki/administration/settings-notifications.md:37`): only those of one key do.
The tab that signed in stamps the unscoped key, tabs that joined its session or
were reloaded stamp the session's; one of the two may time out, and end the
session of both, while the other is in use.  A sign-in heard from another tab and
answered after a later sign-out leaves a user on show until the next call or the
timeout (`useAuth.js:117`).

*Demo.*  Trying a conversion again after it threw makes its first licenses twice,
while the planned links are made between the oldest license of each line, whose
predecessors they replace; another license may still name that one as its
successor.  `LinksAgreeUntilBoughtAgain` holds without its condition in sessions
of 9 requests and fails in the tenth: an order, three lines, two planned links, a
conversion that throws at the second of them, other links, and a conversion.
Merging a line that was merged before keeps only its first predecessor
(`store.js:1523`, `1607`); the backend keeps all (`sourcing_service.py:573`).  A
line whose PO number is cleared or changed keeps the manual total of its old
order, which the backend resolves (`license_write_service.py:749`).  The number of
manual totals that are left out of the annual cost is always 0: `handlers.js:63`
reads `row.licenseId`, a recurring record has `id`.  Deleting a support record
reopens the line it came from.

*Readers.*  Beside the custom fields (run above), the settings of a plugin, the
deliveries of a webhook and the audit log take any answer.  The initial load of a
contract's documents may overwrite a later reload.  A late refresh of one license
makes the reader of another drop its own load, which then stays as loading; so do documents, processing results and plugin
suggestions when a quiet read overtakes the load (`useLicenseDocuments.js:47-55`,
`113-132`; `useDetailPanelState.js:172-178`).  A
full edit stays open when another row is selected (`LicenseTable.jsx:108`).

*Settings and dialogs.*  A change of the administrator's tab leaves edits in the
draft without a mark.  The answer to the creation of a license from the form of
the top bar (`useLicenseCreation.js:119`), or of a contract, leaves unsaved settings
without asking, and so does a reload.  Saving the appearance sends the whole draft of the user,
unsaved categories included.  Lines typed into the order dialog are not in its
dirty check; input typed while a save is under way is lost with the dialog; Enter
sends a field twice (`FieldEditModal.jsx:81`); a late answer closes a dialog that
was opened since.

*Addresses and import.*  A license that was created is selected on the answer,
though the list may not have it yet or the user may be between Back and its timer:
the address is then left behind.  Leaving a page while the license of its address is looked
up leaves that address behind (`useUrlSync.js:93-119`).  A second file dropped
while the first is previewed replaces it under the first one's preview
(`UploadStep.jsx:119`); confirming during a preview can import twice; a failed
preview leaves the changed option beside the old rows; a lost answer and a second
try import twice.

*Cache and lists.*  Writing an answer into an entry that was just marked as stale
clears the mark.  Undoing a refused change restores the whole list as it was, and
with it older versions of other records, until the next read.  Two functions read
`queryKeys.pendingOrders`.  Figures of the sidebar stay as they were after a
conversion (`App.jsx:46-57`).  `queryInvalidation.js:3-5` names the notification
settings, whose save invalidates nothing.  A user is created although the
departments were refused (`UsersPage.jsx:117-127`, `158-163`).  A token that is
created while the list loads disappears until the next read
(`ApiTokensSection.jsx:40-48`); the columns of the workbench are not put back when
refused (`RenewalWorkbenchPage.jsx:120-136`); a lock on one entry is released by
the answer to another.

*Table and reports.*  Ticks stay on lines that an edit, a sort or a grouping moved
out of view.  The server's spelling of an edited value may move the line into a
group that is closed.  Loading a view that is refused restores the filters of the
moment it was asked.  A support term that ends today or has ended counts in the
overview and not in the forecast.  Included support entered over a record that is
still linked is replaced by that record's cost.  Publishers count included
support in a range and the purchase without one.  The budget by status leaves out
upcoming and retired lines, which publishers and the overview count
(`reportHelpers.js:258`).

## Not modelled

*Parts.*  Portfolio reset, schema and migrations, packaging and release; of the
server's other parts what `PROJECT.json` says in each component's note: most of
all the bodies of sourcing, maintenance, PO lines and notifications, of which
the demo's counterparts are modelled.

*Data.*  Parsing, formatting, decimal arithmetic, permissions, audit texts, e-mail,
HTTP clients, archives' contents, plugin packages, layout, help and printing: they
are data or I/O with tests of their own.

*Within modelled parts.*  Two scheduler processes (the deployment runs one worker),
a torn file, an SQLite lock timeout other than as a failed step.  In the
renewals: lifecycle repair, with which an administrator writes single links;
planned successors on the server; the maintenance snapshots of an adopted link;
deletion of several licenses in one request.  In the sessions: OIDC, locking out
after failed attempts, a deployment with tokens.  In the client: inline edits of
sourcing lines, the detail selection and statistics of the table, webhook retries,
the clipboard, the restore section.  In the reports: the server's own report,
growth rows, the breakdown of the portfolio, exports.

## Plan

1. `Sourcing` on the server: requests, planned successors, merges, and the request's
   status, composed with `PendingOrders`.
2. `Maintenance` on the server: the choice of the active record against a reference
   definition; linking, unlinking and handover under concurrent requests, with the
   coverage history `DemoSupport` does not have.
3. `PoLines`: allocation of line numbers under concurrent writers.
4. `Sessions`: rotation and revocation of rows with a request in flight.
5. `NotificationRun` (a second implementation of `Lease`), `Webhooks`.
6. Extensions: lifecycle of an extension and of its actions.

To be added to `RenewalLifecycle`: lifecycle repair, and an abstract specification (a set of disjoint
chains) that both it and `DemoProcurement` implement.

Proofs to add: the steps of `DemoProcurement` on one line, with its recursive
operators written as functions, for the links and numbers that its folds then keep.
