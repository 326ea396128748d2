# A verification project for OfficeFloww

OfficeFloww runs an ID-card and lanyard factory: a FastAPI modular monolith over
PostgreSQL (`apps/api/app`), an Electron/React desktop client (`apps/desktop`) and
two small mobile apps (`apps/worker-app`, `apps/labour-app`). The modules beside
this file model both halves: the server's business engine - what happens to workflows,
tasks, artwork, machines, boxes and pay when several people use the office at once -
and the clients' own books and sessions - what a window keeps through every order of
clicks, dialogs, late answers and restarts.

Contents: [How the server executes](#how-the-server-executes) ·
[How the clients execute](#how-the-clients-execute) ·
[Inventory](#inventory) · [Modules](#modules-and-the-code) ·
[Runs](#what-the-runs-check) · [Findings](#findings) ·
[Known deviations](#known-deviations) · [Fairness](#fairness) ·
[Proofs](#what-is-proved) · [Not modelled](#what-is-not-modelled) · [Plan](#plan)

## How the server executes

Every HTTP call gets one `AsyncSession` (`core/database.py:61`), hence one
PostgreSQL transaction at READ COMMITTED. There is no `SELECT ... FOR UPDATE`, no
version column and no retry anywhere in the code. A handler therefore is: read
rows, check, compute, write absolute values, commit once. `autoflush=False`, so a
handler does not see its own changes until it flushes; a flushed row is locked
until the commit; an exception rolls everything back. Several handlers run at once
(asyncio, several workers) and interleave at every `await`.

The models follow that shape:

- A *request slot* (`Request`) holds one handler in flight. `Begin...` reads and
  checks, further reads are actions of their own when their result decides
  something, `Commit` writes, `Rollback` drops the request at any point in between
  (an exception, a lost connection, a killed process).
- What the handler has read stays in the slot (`req[r]`) and may be stale by the
  time it commits. SQLAlchemy issues an UPDATE only for columns whose value differs
  from the loaded one: `Commit` writes a column only then, so a request that "sets"
  the value it loaded leaves a concurrent change alone.
- Handlers that read and write one row without a decision in between (PATCH of a
  task, an upload) are single actions.
- Rows that may be created are drawn from a finite set of row identities; an
  `ABSENT` row has not been inserted yet. A row a request is about to insert is
  taken by that request alone (primary keys are fresh UUIDs).

## How the clients execute

A desktop window is one JavaScript thread. A click handler runs to its end on the state
last drawn, writes the store's module-level state and, in the same call, `localStorage`;
so a handler is *one action*, with the store functions it calls inside it, and its guard
is what the page offers: the cell that is not locked, the button of the open dialog, the
row that the filter shows. What interleaves are

- *pages and dialogs*: a dialog stays open between two clicks and keeps what it was
  opened for; while one covers the page nothing else of the page can be clicked;
- *restarts* (reload, crash, closing the window) at any time: memory is lost, the
  persisted books are read back;
- *answers*: a call to the server is awaited; it is accepted, refused or fails, and other
  handlers run meanwhile - except that a session call covers the program with a loading screen.

The desktop's books do not go to the server: queue, cards, stock and ledgers live in one
window's storage. The floor apps keep nothing; each of their calls is a transaction of the server.

## Inventory

State, operations, and what makes each part correct. The hazards, each at its line,
are listed in `PROJECT.json` and, for parts still to be modelled, at the end of this file.

| Part | State | Operations | Talks to | Hard because | Correct when |
|---|---|---|---|---|---|
| Workflow engine (`workflows/`) | step instances, workflow and order-item status | `instantiate_workflow`, `advance_workflow_after_step_completed`, `generate_task_for_step` | called by tasks, approvals, orders; creates tasks | joins: several prerequisites completed by several requests, the step is flushed before its downstream is read | a step is unlocked after its prerequisites and is not forgotten; it gets one task; the workflow closes with its last step |
| Task engine (`tasks/`, `worker/`) | task status, blockers, comments | `complete_task`, `update_task`, `start_worker_task`, `add_blocker`, `resolve_blocker` | workflow engine | two routes set the status without looking; the release of a task depends on a count of other rows | a blocked task is not worked on; a task without open blockers is not blocked |
| Approvals (`approvals/`) | approval rows, `FileVersion.approval_state` | `request_approval`, `decide_approval` | workflow engine, files | two decisions in flight, several approvals of one version | a decision is final; an approved version has a sign-off |
| Client proof links (`notifications/`) | proof links | `generate_external_proof_link`, `process_client_proof_response` | files | answered twice, late, or with any value the schema admits | what the client said holds for production |
| Files (`files/`) | files, versions | `upload_file` | approvals, production | version numbers are read and incremented | one active file per name, version numbers unique |
| Production (`production/`) | batches, machines, records | `create_batch`, `log_production_record`, `complete_batch` | files (lock), ledger, stock | allocation against a sum, totals as absolute values, machines shared by batches | no over-allocation; totals, machine board and ledger agree with the records |
| Packing (`packing/`) | packing tasks, packages | `create_packing_task`, `add_package`, `verify_packing` | ledger | the same, with a status that follows the total | no over-packing; the ledger claims no piece that is not boxed |
| Order completion (`billing/`, `orders/`) | `Order.status` | `check_order_completion_conditions`, `complete_order`, `update_order` | workflow, packing, ledger | three conditions read one after the other while packing goes on | a completed order is produced, packed (and, say the docs, paid) |
| Labour (`labour/`) | batches of outside workers, submissions, material ledger, payment ledger | `allocate_batch`, `issue_material_with_credit`, `submit_work`, `transfer_material`, `generate_payment` | orders, stock | balances are sums of ledger rows, payment excludes batches that were paid | no over-allocation, each accepted piece paid once, credit is backed by material |
| Quantity ledger (`quantities/`) | append-only entries | `record_transaction`, `get_summary` | written by production, packing, labour | - | sums agree with the writers' own tables |
| Billing (`billing/`) | invoices, payments, ledger entries | `create_invoice`, `record_payment` | orders | `paid_amount` is read, added to and written back | the invoice shows its payments |
| Orders (`orders/`) | orders, items, `ORD-<year>-<n>` | `create_order`, `update_order` | workflow engine | the number is a count plus one | numbers unique, creation never stuck |
| Quotations (`quotations/`) | quotations, items | `create_quotation`, `evaluate_feasibility`, `convert_to_order` | orders | conversion commits twice | a quotation becomes one order |
| Stock (`stock/`) | lots, movements, reservations | `create_lot`, `record_movement`, `calculate_bom_and_reserve` | production, purchasing | quantity checks on rows read earlier, reservations nobody releases | lots never negative, what is promised is there |
| Purchasing (`purchasing/`) | purchase orders, receipts | `approve_purchase_order`, `receive_goods` | stock | received quantities are read, added to and written back | received quantity and lots agree |
| Automation (`automation/`) | rules, execution log | `process_event` | tasks, notifications | idempotency key checked, then inserted | an event is acted on once |
| Authentication (`auth/`, `users/`) | refresh tokens | `login`, `refresh`, `logout` | - | rotation: token checked, then revoked | a token has one successor |
| Assets, dispatch, clients (`assets/`, `dispatch/`, `clients/`) | assignments, deliveries and expenses, contacts | `assign_asset`, `return_asset`, `book_delivery`, `approve_reimbursement`, `add_contact` | - | check, then insert | one open assignment, one expense, one primary contact |
| Capacity (`capacity/`) | handover plans | `create_absence_and_plan_handover`, `execute_handover` | tasks | planned on tasks that change before the execution | later assignments survive |
| WebSockets (`core/websockets.py`) | connections, channels | connect, subscribe, broadcast | nothing broadcasts yet | sets shared by coroutines | a broadcast reaches every subscriber |
| Desktop: lanyard queue (`lanyardOrdersStore.ts`, `LanyardWorkspaceView.tsx`) | orders with four steps, vouchers linked to them | design, print, printed and fitting cells, assign and split, complete, reopen, delete | intake, labour ledgers | any cell in any order, steps revoked after later ones, stale dialogs, restarts | steps in order, vouchers belong to orders, a completed order stays |
| Desktop: card queue (`idCardOrdersStore.ts`, `IDCardWorkspaceView.tsx`) | card orders | design, print, dispatch, reopen | intake | partly printed orders, revoked designs | what is printed was approved |
| Desktop: order intake (`OrdersWorkspaceView.tsx`) | the form | describe, three dialogs, create | both queues | serials from the head of two lists, options left in the form | serials descend, options belong to their order |
| Desktop: stock (`stockStore.ts`, `StockDashboardView.tsx`) | items, movement log, drawer | add, use, edit, create | labour ledgers | the drawer's own copy of an item | the drawer shows the stock |
| Desktop: labour ledgers (`LabourLanyardWorkspaceView.tsx`) | vouchers and issued material by contractor | issue, add voucher, complete | stock, queue | two stores written by one click, numbers per ledger | what was issued is in the log, numbers differ |
| Desktop: session (`AuthContext.tsx`, `auth.service.ts`) | token, user, offline flag | start-up check, sign in and out, expiry, offline fallback | the server | refusals and missing answers at every call, restarts in between | nobody is signed in without a sign-in; unchecked users work offline; the loading screen ends |
| Desktop: search palette (`GlobalSearchModal.tsx`) | query, timer, searches under way, results | type, search, close, follow | the server | answers in any order, also after closing | a word that stands gets its matches |
| Floor apps (`worker-app`, `labour-app`) | task list, selected task | submit in up to three calls | ledger, tasks | lost answers, double presses, restarts between the calls | what is completed was recorded |
| ETA, analytics, AI, audit, events, integrations, settings, scripts, views | rows only appended or read | - | - | - | - |

Interaction on the server is by direct calls inside one transaction (approval → workflow → task,
packing → ledger) and by shared rows between transactions. The in-process event
dispatcher of `events/` has no publisher. The desktop's stores are shared
by its pages: intake prepends to both queues, an assignment writes an order and its
vouchers, completing a voucher writes the order back, an issue writes ledger and stock.

## Modules and the code

| Module | Models | Composition |
|---|---|---|
| `WorkflowEngine` | one workflow instance with its tasks and approvals | - |
| `WorkflowPromise` | the abstract workflow of docs/06: completing a step unlocks, in the same instant, whatever it satisfied | implemented by `WorkflowEngine` with one request at a time |
| `TaskBlockers` | one task and its blockers | details the task that `WorkflowEngine` knows as OPEN/BLOCKED/COMPLETED |
| `ProofApproval` | file versions, approvals, proof links, the artwork gate of `create_batch` | joins approvals, notifications, files and production |
| `Production` | batches, machines, records and the ledger of one order item | with the ledger's other writers; the artwork gate of `create_batch` is in `ProofApproval` |
| `Packing` | packing tasks, packages (also negative ones) and the PACKED ledger of one order item | extended by `OrderCompletion` |
| `OrderCompletion` | the completion check and `Order.status` | `EXTENDS Packing`; takes finished steps from the workflow engine |
| `Labour` | outside workers: batches, material, submissions, payments | - |
| `LanyardBook` | the lanyard queue and its vouchers | queue page and labour page on one store |
| `StepLadder` | the abstract queue: an order climbs its steps one at a time | implemented by `LanyardBook` |
| `CardBook` | the card queue | - |
| `OrderIntake` | the intake form and the heads of both queues | - |
| `StockBook` | stock items, movement log, the stock page's dialogs | extended by `MaterialDesk` |
| `MaterialDesk` | issued material by contractor | `EXTENDS StockBook` |
| `VoucherLedger` | the labour page's vouchers by contractor and number | details the vouchers `LanyardBook` knows by order |
| `DesktopSession` | token, user, offline mode, the awaited call | - |
| `SearchPalette` | the search palette | - |
| `FloorApp` | the submit handlers of the two floor apps | - |
| `MC...` | instances for TLC and the history variables `overlapped`, `bypassed`, `patched` | extend the module they are named after; `MCClients` composes the seven client parts beside the queue |
| `...Proofs` | inductive invariants and theorems | `ClientProofs`: `LanyardBook`, `VoucherLedger`, `MaterialDesk`, `DesktopSession`, `FloorApp`, `CardBook`, `OrderIntake`; the others: the module they are named after, through its `MC` module where a theorem is about a history variable or a refinement |
| `FiniteFacts` | no code: lemmas on least elements, sets with at most one element and sums over finite sets | used by the proofs of the engines and the books |

`PROJECT.json` maps every definition to its lines. The correspondence in short:

**WorkflowEngine.** `stepStatus`, `completedAt`, `tasks`, `approval`, `wfStatus` are the
committed rows. A `Session` is a handler inside
`advance_workflow_after_step_completed`: its program counter, the step it was called
for, the downstream steps left to inspect (`todo`), the one under inspection (`cur`)
with its unread prerequisites (`need`), and the rows it has flushed (`activated`).
Every SELECT of the two nested loops is an action (`InspectDownstream`,
`ReadSatisfied`, ...); `Seen` is what a SELECT returns inside the transaction: its own
flushed rows and otherwise what is committed. `Flush` and `Activate` wait for row
locks. The task's status OPEN stands for PENDING, READY, IN_PROGRESS and CANCELLED:
`complete_task` does not tell them apart. The task (or approval) is read in
`BeginComplete` (`BeginApprove`), its step in `LoadStep`. `WorkflowInstance.status`
and the order item's status change together. `Upstream` is a constant: every
dependency relation `create_template` can build is an instance of it.

**TaskBlockers.** `Begin...` reads the task's status; `resolve_blocker` first counts the
other unresolved blockers (`BeginResolve`) and loads the task only when there are none
(`LoadTask`). `Commit` writes the status only when it is not
the loaded one. `StartTask` and `UpdateTask` are the worker app's start route and PATCH.

**ProofApproval.** A version is DRAFT after its upload, PENDING_REVIEW after
`request_approval`, APPROVED or REJECTED after a decision. `decide_approval` and
`process_client_proof_response` load their own row and then the version
(`LoadVersion`). `FailChanges` is the branch of a client's CHANGES_REQUESTED: it assigns
a state the enumeration lacks, raises, and everything is rolled back. `signed` and
`refused` are history variables. `BeginStart` is `create_batch` up to the file lock.

**Production.** Batch totals are functions on `Kind`; `logged` sums the
`ProductionRecord` rows by sign (the schemas admit any `Decimal`), `ledger` the item's PRODUCED and
REJECTED entries, `entered` those that no record made: the worker app's reports (`SubmitQuantities`)
and the ledger's own route (`BookByHand`). Quantities are counted in `1/Scale` of a piece because the
batch columns are NUMERIC(12,4) and the ledger books `int(quantity)`, of positive quantities only.
`complete_batch` reads the other running batches (`CheckOthers`) and then the machine
(`LoadMachine`). Machines start in any status, as `create_machine` takes any. No code sets a batch
PLANNED, PAUSED or CANCELLED, so those statuses do not occur.

**Packing and OrderCompletion.** `boxed` has the packages of a task: the sum and number of those with a
positive quantity (`put`, `puts`) and with a negative one (`taken`, `takes`); `packed` is the ledger's
PACKED sum, `manual` the part of it entered by hand through the ledger's own route. `Booked` cuts towards
zero, as `int()` does. `done` are the steps that are COMPLETED or SKIPPED, `ended` those with a
`completed_at`: `UndoStep` is the READY that an overlapping advance writes over COMPLETED (see
WorkflowEngine). The clerk's check is three SELECTs, an action each. `order = "OPEN"`
stands for every status but COMPLETED. Invoices are left out: docs/50 makes payment a
condition, but the check never looks at them.

**Labour.** One order item and one stock item, so the material a submission is
charged to is decided by whether the worker has an issue for that order item
(`FindItem`) or, failing that, a positive balance; the third lookup of the code finds
the same stock item or none. Quantities have either sign; `work` and `held` keep the sums of the rows
by sign, so that a property can tell work from corrections (`added`, `removed`) and a transfer from
one of a negative quantity (`received`, `reversed`). A submission writes consumption rows for
positive quantities only (`Spends`). Balances are sums of ledger rows (`held`) and clamped at
zero as in `get_labour_material_balance`. `generate_payment` reads the SUBMITTED
batches (`BeginPay`) and then the payments made before (`ReadPaid`).

**LanyardBook.** `orders` is the queue, a record or `NONE` per identity, `vouchers` those
registered for orders in all ledgers, `dialog` the one dialog that covers the page.
A handler is an operator from an order to the order a click leaves (`DesignToggled`,
`PrintToggled`, `StatusCycled`, ...), the cell that offers it an action (`ToggleDesign`,
...). `Assign` is `assignLabourAndRegisterVoucher`, which writes the order and adds vouchers
to one ledger, to each ticked one of a split, or to a ledger "mix" when none is ticked.
`Restart` reads the book back; an empty one is replaced by the built-in orders. The
floor dialog, batch handlers and hook/holder handlers of the file are never reached by a click.
Quantities, rates and wording are left out.

**CardBook.** `cards` by identity; a card's status is one of the words the code compares.
`Rewrite` is `setOrders`, the only writer; `Shown` the tab's filter, so a cell can be
clicked only where it is drawn.

**OrderIntake.** `lists` are both queues as this page sees them, newest first; `form` holds whether
a description is there, the scope, the two ticks, whether the custom width is filled in, and the
open dialog. `CreateOrder` takes `(orders[0]?.sn || first) + 1` for each book in scope, carries
the ticked options, clears ticks and description and keeps the typed values. `created` and `applied` are history.
The dori quantities (`OrdersWorkspaceView.tsx:269-273`) are among the values that stay in the form and are
copied into later orders; they are not modelled, and `OptionsWereApplied` says nothing of them.

**StockBook, MaterialDesk.** Of an item the available and used quantity, of the log the sums added
and taken; `desk` is the open dialog with the drawer's own copy. `ConfirmIssue` writes the
ledger first and then the first stock item that answers for the code (`FirstMatch`: by
name, by position, then the fallbacks), or none. Which items answer for which code is a constant
(`Answers`): an item's name can be edited in the table (`StockDashboardView.tsx:447`) and takes part in
the matching, so a renamed item may answer for other codes; that is not modelled.

**VoucherLedger.** `ledger` by contractor, newest first, with the numbers that are drawn per
ledger or typed by hand; `tab` and `filter` decide which rows have a complete button.
`Without` is the filter of `deleteOrder`, a function on prefixes because the provers know
nothing of `SelectSeq`.

**DesktopSession.** Three `localStorage` keys, the user in memory and the awaited call. Tokens and
users are told apart by who made them, the server or the local fallback. `RestartSession`
drops an awaited call; `SearchRefused` is the 401 of any later call.

**SearchPalette.** `timer` is the pending pause, `asked` counts searches under way by word;
`results` names the word whose matches are shown.

**FloorApp.** `presses` are the runs of the submit handler, each at its next call. A call is
carried out and answered (`StepAnswered`), carried out without an answer (`StepUnheard`), or
not carried out (`StepRefused`); `CarriedOut` is what the server's ledger then holds. The
labour app is the same handler without the middle call.

## What the runs check

Twelve runs. `...Alone` properties carry the condition `~overlapped`: no two requests
were ever in flight at the same time. They are the promises the code keeps only then,
because it takes no locks; the column "otherwise" says what happens else. The
properties without it hold under every interleaving of the run.

| Run (module, cfg) | Checks | Otherwise |
|---|---|---|
| `workflow_races` (`MCWorkflowEngine`, `WorkflowEngine_races`) | two interleaved requests on a join, an approval, PATCH of any status, rollbacks: a step is unlocked only after its prerequisites (`UnlockedAfterPrerequisites`), exactly the unlocked steps have tasks (`TasksMatchUnlockedSteps`), the workflow closes only after every step (`CompletedOnlyWhenAllDone`) | - |
| `workflow_serial` (`MCWorkflowEngine`, `WorkflowEngine_serial`) | one request slot, a join and a step behind it: no step is left behind (`NoStepLeftBehind`), `WorkflowEngine` implements `WorkflowPromise` (`KeepsPromise`), every workflow finishes (`WorkflowFinishes`) | with two slots a join stays PENDING (next row), two requests may both close their branch and neither the workflow, a step may be unlocked twice and get two tasks |
| `workflow_join_stuck` (`MCWorkflowEngine`, `WorkflowEngine_join`) | *violation*: finding 1 | |
| `blockers` (`MCTaskBlockers`, `TaskBlockers`) | two blockers, two requests, the start route, PATCH: no task stays BLOCKED without an open blocker, an open blocker holds the task and the workflow, a task whose blockers get resolved gets done - save while it is BLOCKED by a PATCH itself (`patched`). `BlockerHoldsAlone` and `NoAdvancePastBlockerAlone` also need `~bypassed`: the start route and PATCH release a blocked task | two managers resolving the last two blockers each count the other's as open: the task stays BLOCKED |
| `proofs` (`MCProofApproval`, `ProofApproval`) | two approvals, a link and every answer its schema admits: a batch's version was APPROVED before the batch (`BatchesSawApproval`, always); a sign-off is on record behind every approved version and batch (`ApprovedIsSignedOffAlone`) | a decision overtakes another; a version is rejected between the lock check and the batch |
| `proofs_client_ignored` (`ProofApproval`, `ProofApproval_client`) | *violation*: finding 2 | |
| `production` (`MCProduction`, `Production`) | two batches, two machines in any status, two requests, records of either sign, the ledger's other writers: no record is counted twice (`TotalsWithinRecords`), the ledger has every positive record up to a fraction of a piece each, besides the other entries (`LedgerMatchesRecords`) - always; a batch's totals are the sums of its records (`TotalsMatchRecordsAlone`), a machine runs exactly while a batch of its runs (`MachineShowsItsBatchesAlone`) | lost updates of totals; a machine shown IDLE while a batch runs; see also the deviations below |
| `completion` (`MCOrderCompletion`, `OrderCompletion`) | two packers, two tasks, half pieces, corrections, steps that are undone, a manual entry, a clerk: behind a COMPLETED order each step was completed and its quantity put into boxes or booked by hand (`CompletedOrderIsPacked`), no package is counted twice by its task (`TaskNeverOverstates`), the ledger agrees with the packages up to a fraction of a piece each (`LedgerIsBacked`) - always | a step that was undone, or pieces taken out of the boxes, after the check or during it: the order is completed all the same |
| `completion_live` (`MCOrderCompletion`, `OrderCompletion_live`) | an order whose steps are done and tasks packed is completed (`OrderGetsCompleted`) | |
| `labour` (`MCLabour`, `Labour`) | two workers, two batches, two requests, quantities of either sign: neither batch nor payment claims more than submissions added (`PayableWithinWork`, always); each batch is paid once and in full, pieces taken back later aside (`PaidOnceInFullAlone`), credit is within the material issued plus what negative transfers reversed (`CreditIsBackedAlone`) | double payment, material handed out twice |
| `lanyards` (`LanyardBook`, `LanyardBook`) | two orders, two contractors, two vouchers, every click, dialog and restart: steps stay in order (`StepsInOrder`), no voucher of a deleted order (`VouchersHaveOrders`), an unprinted order is fitted only by a completed voucher's word (`FittingBacked`), a completed order stays (`CompletedIsKept`), `LanyardBook` implements `StepLadder` (`ClimbsLadder`) | |
| `clients` (`MCClients`, `Clients`) | each behaviour works on one of seven parts: `PrintedIsApproved` (cards), `SerialsDescend`, `OptionsWereApplied` (intake), `DrawerShowsStock`, `SentIsLogged` (stock and material), `AssignedNumbersDiffer` (ledgers), `SignedOutStaysOut`, `UncheckedIsOffline`, `LoadingEnds` (session), `QueryGetsAnswered` (palette), `CompletedWasRecorded`, `ScrapHasProduction` (floor apps) | |

Every property of a passing run has a mutant in `PROJECT.json`: a definition changed the way
a plausible bug would change it (a dropped guard, a missing reset, a total written
twice), after which the same run finds the property violated.

### Bounds, and why they are enough

- *Two request slots.* Every race in the server is between one handler that has read
  and one that commits meanwhile; a third adds only repetitions, since sessions touch
  each other through the rows alone. The theorems below hold for any number.
- *Rows.* Two branches and a join are the least workflow in which two requests meet;
  one step behind the join shows that unlocking goes on (`workflow_serial`). Two
  batches/tasks/approvals/blockers are the least in which sums, "the other
  running batch" and "the other blocker" mean something. One version suffices for
  the artwork gate: no handler looks at two.
- *Quantities.* Chosen so that one fits and two overrun (`Target = 3` with inputs of 2, a correction makes room),
  and, in `production` and `completion`, so that half pieces occur (`Scale = 2`). A negative quantity is
  among the inputs of `production`, `completion`, `labour` and `clients`, because neither the
  request schemas nor the dialogs exclude one; one such value suffices to make a sum fall.
- *Clients.* Two orders (one built in as ready, one as out for fitting; either can be deleted and
  placed again) and two contractors are the least in which reassigning and splitting differ and a
  delete must leave the other order alone. Three cards start as
  partly printed, dispatched and absent. One built-in order and two created ones show serials
  after deletions and reloads. Three stock items cover the ways a code finds its item: by its
  name, by a fallback, not at all. Two words in the palette let an answer be late for the other one.
  Two tasks and three presses cover an overlapping press, a retry and a press on another task.
- *Named bounds.* `MaxLogged` (production records), `MaxEntered` (pieces of a kind entered otherwise), `MaxBoxed` and
  `MaxTaken` (put into and taken out of the boxes of a task),
  `MaxMoves` (labour: issues, transfers and submissions; stock: movements), `MaxVouchers`,
  `MaxDrafts` (orders created), `MaxLedger` and `MaxNo` (vouchers and their numbers), `MaxAsked`
  (searches under way per word), `MaxPresses`: they stop counters that the code leaves unbounded.
  `BookByHand` of `Packing` happens once.
- `CHECK_DEADLOCK` is on everywhere; the models never stop because `Rollback`, a
  reread, a new request, a tab or a restart is always possible.
- Symmetry is used in runs that check safety only.

## Findings

1. **A join may stay PENDING for ever** (`workflow_join_stuck`, `workflows/service.py:221`).
   docs/07-task-engine.md:38 says downstream steps with all prerequisites satisfied
   become READY. Two requests that complete the last two prerequisites at the same time
   each read the other's step as not COMPLETED; both commit; nothing re-evaluates the join.
2. **A client's request for changes is lost** (`proofs_client_ignored`, `notifications/service.py:132`).
   docs/36-whatsapp.md:27 offers the client *Request Changes*; the handler assigns a
   state `FileApprovalStatus` does not have, raises, and is rolled back. A version that
   was approved before stays APPROVED and goes into production.

## Known deviations

What the modelled code does besides, met while modelling and in the models, but stated by no
property. On the server:

- two concurrent `create_batch` over-allocate an item (`production/service.py:81`, against
  docs/50-final-business-rules.md:20 and docs/19-quantity-reconciliation.md:18); `allocate_batch`
  (`labour/service.py:105`) does the same; two packers overrun a packing task;
- a record may be committed after its batch was completed (`production/service.py:127`), and a
  batch can be completed again (`production/service.py:175`);
- an order is completed without a paid invoice (`billing/service.py:207`, against
  docs/50-final-business-rules.md:28-31);
- a step whose completion overlaps an advance is READY again with its `completed_at`
  (`workflows/service.py:226`), also of an order that was completed meanwhile;
- the request schemas take any `Decimal` (`production/schemas.py:38,68-70`, `packing/schemas.py:12,37`,
  `labour/schemas.py:60,68-71,124,141`): a negative record lowers a batch's totals and is not booked
  (`production/service.py:146,158`), a negative package is booked towards zero, so one of half a piece is not
  (`packing/service.py:88`), a negative batch makes room for others (`production/service.py:81`);
- a transfer of a negative quantity passes the balance check (`labour/service.py:347`), credits the sender, and
  is clamped for a receiver who has nothing: credit without material, by at most that quantity;
- pieces taken back after a payment (a negative submission) leave the batch overpaid (`labour/service.py:249-259`);
- a machine can be registered as RUNNING without a batch (`production/schemas.py:14`), and a batch may start on
  one that is under MAINTENANCE;
- material used beyond the balance is clamped to zero (`labour/service.py:181`);
- work submitted against a batch that was paid already (`labour/service.py:395`) is never paid;
- an APPROVED version can be put back under review by another `request_approval` (`approvals/service.py:28`).

On the desktop and the floor:

- *Queue.* Reassigning an order leaves its earlier voucher, so two of the full quantity are
  payable and completing the earlier one marks the order fitted; a voucher that outlives a revoked
  print marks an unprinted order fitted; a split order becomes ready with its first voucher; a split
  with nobody ticked goes to a ledger without a tab and can never be completed; completed
  orders keep their mark when their design is revoked. Deleted orders are back after a restart
  once the queue was empty (the dialog says "This action cannot be undone",
  `LanyardWorkspaceView.tsx:3330`).
- *Cards.* Dispatching "ready (1 pending he)", and reopening a done card whose design was
  revoked, change nothing and report success.
- *Intake.* The built-in lists begin with their *oldest* order, so the first order created
  repeats a built-in serial; a cancelled sizes dialog keeps what was typed, and every later order
  with sizes copies it.
- *Stock.* Issuing more than there is clamps the available quantity at zero while the used one counts all;
  the two safety jointers are issued and never deducted, though the message says so; a custom item
  whose name contains a code captures that code's issues; edited cells accept negative numbers and are not logged.
- *Session.* A seed account is signed in locally also when the server refuses it; an offline
  session's made-up token is refused as soon as the server is back, which signs the user out.
- *Palette.* A late answer for an earlier word replaces the later word's matches and stays; an
  answer that arrives after closing is shown under an empty query on reopening.
- *Floor apps.* A retry or a double press posts the production again; the run that completes deselects
  whatever task is selected by then.

## Fairness

Four runs with a liveness property use it.

- *Requests run to their end* (`SF` on `Advance(r)`, `WF` on `Commit`): asyncio resumes a
  handler whose query returned. Strong fairness for `Advance` because a flush that waits for
  a row lock is enabled only while nobody holds it; PostgreSQL queues waiters.
- *People keep working* (`SF` on `BeginComplete`, `BeginResolve`, `BeginPack`, `WF` on
  `CompleteStep`): a task on the floor is eventually worked on, an open blocker resolved. Without it
  nothing has to happen; strong, because a slot or the task itself is at times taken.
- *Failures stop* (`<>[][~Rollback]`): no progress can be promised to a client whose every request
  fails. `blockers` uses `<>[]patched \/ <>(stepDone \/ overlapped)`: the promise is made only while requests do not
  overlap, and not of a task that a PATCH made BLOCKED and nobody released. In `completion_live`, steps stop being
  undone (`<>[][~UndoStep]`), and only packages of a positive quantity are sure to be packed.
- *A fetch settles* (`WF` on `Answer`, on `EndSearch`): the browser resolves or rejects every
  `fetch`; weak, since an awaited call stays awaited until it is answered or the window restarted.
- *A timer fires* (`WF` on `StartSearch`): the pause before a search is a `setTimeout`.

No fairness is assumed of the user of a client: neither `LoadingEnds` nor `QueryGetsAnswered` needs a click.

## What is proved

TLAPS checks these for every value of the constants. The assumptions are those named
in the modules; they say no more than that row identities of different tables differ,
that "no row" (`NONE`) is none of them, that rows, request slots and contractors are finitely many
(a database holds finitely many; without it a sum over rows means nothing), that built-in
lists are lists of what they list, and that quantities are whole numbers of either sign (on the server, of
units of `1/Scale` of a piece).

| Theorem | Says |
|---|---|
| `WorkflowEngineProofs!NoEarlyUnlock` | for every dependency relation, any number of requests, approvals and PATCHes, no step is unlocked before each prerequisite was completed |
| `WorkflowEngineProofs!TasksFollowSteps` | a step has a task exactly when it is unlocked |
| `WorkflowEngineProofs!NoEarlyClose` | the workflow closes only after every step was completed |
| `WorkflowEngineProofs!NoStepLeftBehindAlone` | with one request at a time, a step still PENDING has a prerequisite that is not COMPLETED |
| `WorkflowEngineProofs!EngineKeepsPromiseAlone` | with one request at a time, `WorkflowEngine` implements `WorkflowPromise` |
| `TaskBlockersProofs!NoGhostBlockWhileAlone` | while requests do not overlap, no task stays BLOCKED without an open blocker unless a PATCH itself made it BLOCKED |
| `TaskBlockersProofs!BlockerHoldsWhileAlone`, `NoAdvancePastBlockerWhileAlone` | an open blocker holds the task, and the workflow, while requests do not overlap and only the blocker routes set the status |
| `ProofApprovalProofs!GateHolds` | a batch's version was APPROVED before the batch |
| `ProofApprovalProofs!ApprovedIsSignedOffWhileAlone` | while requests do not overlap, a sign-off is on record behind what is APPROVED |
| `ProductionProofs!TotalsStayWithinRecords` | a batch's totals stay between what records take away and what they add, whatever updates are lost |
| `ProductionProofs!LedgerKeepsRecords` | besides the other entries, the ledger has every positive record up to a fraction of a piece each, and no more |
| `ProductionProofs!TotalsMatchRecordsWhileAlone` | while requests do not overlap, a batch's totals are the sums of its records, of either sign |
| `ProductionProofs!MachinesShowTheirBatchesAlone` | while requests do not overlap, a machine is RUNNING exactly when a batch runs on it |
| `OrderCompletionProofs!TasksNeverOverstate` | a packing task's total stays between what was taken out of its boxes and what was put in, whatever updates are lost |
| `OrderCompletionProofs!LedgerStaysBacked` | the PACKED sum is what is in boxes and what was booked by hand, up to a fraction of a piece for each package |
| `OrderCompletionProofs!CompletedStaysPacked` | behind a COMPLETED order every step was completed, and its quantity was put into boxes or booked by hand |
| `LabourProofs!PaymentsWithinWork` | no labour batch claims, and no payment pays, more accepted pieces than submissions added; none loses more than they take back |
| `LabourProofs!PaidOnceInFullWhileAlone` | while requests do not overlap, a batch is paid at most once, for no more than was submitted, and in full (pieces taken back later aside) unless more was submitted than allocated |
| `LabourProofs!CreditIsBackedWhileAlone` | while requests do not overlap, the workers' credit together is within the issued material and what transfers of a negative quantity reversed |
| `ClientProofs!StepsStayInOrder`, `VouchersKeepOrders`, `FittingStaysBacked` | the three invariants of the queue |
| `ClientProofs!CompletedStaysKept` | a completed order stays, through restarts, until its status cell reopens it |
| `ClientProofs!QueueClimbsLadder` | `LanyardBook` implements `StepLadder` |
| `ClientProofs!DrawerKeepsStep` | the usage drawer's copy of an item is what the stock holds |
| `ClientProofs!SentStaysLogged` | what contractors were sent of stocked codes is in the movement log as taken |
| `ClientProofs!AssignedNumbersStayDifferent` | vouchers registered by assignments in one ledger have different numbers |
| `ClientProofs!PrintedStaysApproved` | a printed card has an approved design |
| `ClientProofs!SerialsStayDescending`, `OptionsStayApplied` | the two invariants of the intake |
| `ClientProofs!SignedOutRemains`, `UncheckedStaysOffline` | the two invariants of the session |
| `ClientProofs!CompletedStaysRecorded`, `ScrapKeepsProduction` | the two invariants of the floor apps |
| `TypeCorrect` in `WorkflowEngineProofs`, `ProofApprovalProofs`, `ProductionProofs`, `OrderCompletionProofs`, `LabourProofs`, `ClientProofs`; `BlockersStayTyped`, `SessionStaysTyped`, `FloorStaysTyped` | types. No run checks the `TypeOK` of a module whose theorem this is |

**Server.** The argument is the same five times. The invariant alone is not inductive, because
a request commits what it read earlier. `IInv` adds, for each session, that what it
read is *still* true at any later time (`SessionInv`), and this is so because the rows in
question move only forward:

- *Workflow*: a step never returns to PENDING, `completed_at` is never cleared, a task
  row is never deleted. Note that `stepStatus = "COMPLETED"` is itself not stable - a request that
  found a step unlocked twice writes READY over COMPLETED - which is why the invariant speaks of
  `completedAt`, and why the docs' stronger promises do not hold under overlap. The one
  dependence between sessions is the row lock: a flushed step is not written by another.
- *Artwork*: `signed` only grows, and a session that is creating a batch saw its
  version APPROVED. Rejecting the version later does not undo that; that the version is
  *still* APPROVED at the commit is false under overlap, and no property claims it.
- *Production*: record rows are only inserted, so the sum of the positive ones and the sum of the negative ones only
  grow: totals loaded from a row stay between the two; the new total is the loaded one plus the record
  that is inserted with it.
- *Packing*: package rows are only inserted; the same holds of a total loaded from a task.
- *Labour*: submissions are only inserted, so what was loaded of a batch, and what a payment found
  due, stay within those that add pieces; a batch paid several times (by requests that overlap) is paid at most the
  work at each, which is why the bound counts the payments.

**Ledgers.** Both quantity ledgers are sums that requests add to, so they survive lost updates of
totals: a commit adds a row and books its whole pieces, and the two sums move together up to the fraction that is
cut off (`CutToPieces`, `WholePieces`), which is why both ledger invariants count the rows. Neither sum is
monotonic where corrections are possible, so `CompletedStaysPacked` speaks of what was *put* into boxes (`Puts`) and of
`completed_at`, which only grow: what each SELECT of a check found of them is still so at the next, and after the
completion (`CompletionInv`), although a step may be undone and pieces taken out meanwhile.

**One request at a time.** The theorems `...Alone` are over the specifications of the `MC` modules, whose variable
`overlapped` is set by the first step that leaves two sessions open. Their invariants have the form `~overlapped => ...`: at most one session is open,
what it has read is *exactly* what the rows hold (`FreshSession`, not only still true as above), and the rows agree with each other
between requests. `SoloInv` says the same of the workflow engine, where the condition is one request slot
(`OneRequest`) because `WorkflowEngine_join` shows the violation with two:

- *Workflow*: the steps a session has made READY are due (`ActivatedAreDue`), and each downstream step it is through with
  is among them if it is due (`DueAreActivated`). Only steps downstream of the completed one are inspected; that
  this is enough is the invariant `NoGap` itself: before the commit no PENDING step had all
  prerequisites COMPLETED. Completing a step again is a stutter of the promise for the same reason, and needs
  `ClosedWhenDone` for the workflow's status.
- *Blockers*: `LastUnblocks` says that the resolution of the last blocker leaves a READY task, also while a PATCH changes the status under it.
  A PATCH to BLOCKED is the one write that can leave a blocked task without a blocker; the history variable
  `patched` says that one did and the task is BLOCKED since, and the property excuses exactly that.
- *Artwork*: a loaded state is the version's, a decision's approval is still PENDING (`FreshSession`).
- *Production*: whether another batch runs on the machine is as `CheckOthers` found it, and totals loaded from a row are the
  sums of its records.
- *Labour*: the totals of a batch are what its submissions add less what they take back, and a SUBMITTED batch had its
  allocation handed in (`BatchAgrees`); a balance is cut at zero, so a transfer lowers the sender's balance by all it
  moves and raises the receiver's by at most that (`ClampMoves`); one of a negative quantity raises the sender's by
  that quantity, which `reversed` counts (`StaysBacked`).

**Queue.** What a click needs is in front of it, so the invariants are nearly inductive; the
exception is the assignment dialog, which acts on an order it was opened for. `DialogInv` says
that this order is still in the queue and printed, because nothing else can be clicked meanwhile
and a restart closes the dialog. Without it an assignment could set an unprinted order to
fitted ("without fitting"), and `FittingBacked` would fail. The vouchers must be finitely many, or
their count, from which new ones are told apart, would mean nothing. For the refinement each
action maps to a rung up (`Climb`), a fall to any lower rung, entering, leaving, marking
complete, reopening, a refill, or a stutter; there is one lemma for each, and
`StepsInOrder` is what makes a rung of three flags.

**Intake and cards.** A list's order of serials is kept by taking the head's successor and by removing
any entry (`Prepending`, `Removing`); built-in entries are exempt and may only stand at the end, hence
the condition on the *later* of two entries. For the options the invariant adds that what is ticked in the
form was applied for the order to come, and that no order is beyond `created`. A card is printed
only from a cell that needs its design, and revoking the design takes it back.

**Stock and vouchers.** The drawer changes its copy together with the store; no other handler runs while it is
open. An issue of a stocked code is always deducted from some item (`FirstMatches`), because the built-in items never leave the
list and one of them answers for the code or is its fallback; the log never goes back. A registered voucher is numbered above
every voucher of its ledger (`NumberIsNew`), and a deletion keeps vouchers once each (`Without`).

**Session and floor.** *Session*: the three storage keys agree with each other (`StoreAgrees`: a
made-up token has the offline flag) and with the awaited call (`CallAgrees`); each refusal,
failure and restart keeps that. *Floor*: overlapping presses on one task make `rejected <= produced` not
inductive; the invariant counts the runs that are about to post a rejection with the rejections
posted (`Promised`).

Each proof module has one lemma per action and `PTL` at the end. The invariants were
model-checked before they were proved.

Sums over rows are folds the provers cannot unfold. `FiniteFacts` proves what the ledgers need of them
(`SumUpdate`, `SumExcept`, `SumTyped` and the comparisons of two sums) from the fact that a fold takes one element at a time
and a search for the least counterexample, since the induction theorems of the library cannot be instantiated here.

*Only model-checked*: the liveness properties (`WorkflowFinishes`, `TaskGetsDoneAlone`, `OrderGetsCompleted`,
`LoadingEnds`, `QueryGetsAnswered`) - fairness is out of the provers' reach - and with `QueryGetsAnswered` the palette as a whole. Every
safety property and action property of a passing run, and both refinements, have a theorem. The theorems `...Alone` say nothing of
overlapping requests, where the promises fail (column "otherwise" above).

## What is not modelled

`PROJECT.json` lists every part with its reason. In short: components that are planned
(below); components that only insert or read rows (audit, ETA, analytics, AI, integrations,
settings, suppliers, products); the desktop's dashboards, sample services, shell and styling;
`OrderDetailView`, `NewOrderModal`, `useAsync` and the handlers of the order pages that no click
reaches; migrations and scripts. Of the modelled components, list and report routes are left out,
as are permissions, audit entries, notifications and timestamps (except `completed_at` and `expires_at`).
On the desktop, quantities, rates, names, dates, sorting and search text are left out, so a
voucher's quantity and what a contractor is owed are not in the model.

Fractions of pieces (`production/service.py:151`, `packing/service.py:88`): with `Scale > 1` a ledger
differs from the rows by less than a piece for each; `Production.cfg` and `OrderCompletion.cfg` count half pieces.

## Plan

Done: the server's core in the order workflow, blockers, artwork gate, production,
packing and completion, labour; the clients: queue, cards, intake, stock, ledgers, session,
palette, floor apps; the safety proofs above, which cover all modules but the palette.

Next modules, most important first:

1. `Materials` - stock lots, movements and reservations with purchase receipts
   (`stock/`, `purchasing/`): lots stay backed by movements, reservations within what is there,
   received quantities agree with lots.
2. `Invoicing` - `create_invoice`, `record_payment`, composed with `OrderCompletion`.
3. `Quotation` - conversion with its two commits, order numbers.
4. `FileVersions` - `upload_file`, composed with `ProofApproval`.
5. `Handover` composed with `TaskBlockers`; `Automation`; `Sessions` (the server's refresh
   tokens, composed with `DesktopSession`); `Registers` (assets, expenses, contacts); `Channels`.

Runs stay few: a new component either extends an existing composition (as the client parts
share one run) or replaces a run whose question a larger one answers.

Abstract specifications worth stating: a packed quantity that only grows, implemented by `Packing`
with one packer; a ledger account that payments and invoices implement; a version counter that
`FileVersions` implements.

Theorems worth proving next: the types of the palette, the intake and the cards; how far a batch's lost
totals can lag its records; which promises of `WorkflowPromise` survive overlapping requests.

### Further hazards

Hazards of parts not modelled yet, beside those of `PROJECT.json`, and the module planned for each
(paths under `apps/api/app/`).

| Kind | At | What | Module |
|---|---|---|---|
| interleaving | `quotations/service.py:349` | two conversions of one quotation both find it unconverted and create two orders; `converted_order_id` keeps the later one | Quotation |
| atomicity | `billing/service.py:131` | `paid_amount` is read, added to and written back by two payments: one is lost from the invoice although its row stays | Invoicing |
| interleaving | `files/service.py:73` | two first uploads of one filename create two active files; every later upload of it fails on `scalar_one_or_none` | FileVersions |
| atomicity | `purchasing/service.py:190` | `received_quantity` is read, added to and written back by two receipts of one order item: one is lost | Materials |
| interleaving | `stock/service.py:171` | two issues from one lot both find enough in it and write back absolute values: stock is issued twice | Materials |
| stale_state | `stock/service.py:333` | available stock is read and then reserved: two orders reserve the same stock | Materials |
| stale_state | `capacity/service.py:233` | the handover is planned and later executed on tasks that were reassigned in between | Handover |
| interleaving | `orders/service.py:36` | two orders are created at the same time, count the same orders and take the same number; the unique index rejects the second request as a whole | Quotation |
| protocol_sequence | `orders/service.py:45` | an order placed with its own number of the form ORD-<year>-<n> makes the generated number n collide later, and every further creation with it, because the count does not move | Quotation |
| partial_failure | `quotations/service.py:366` | create_order commits the order; if the second commit fails the quotation stays unconverted and is converted again into another order | Quotation |
| numeric_edge | `billing/service.py:142` | an overpayment is accepted and the ledger's balance is clamped at zero, so the client's credit appears nowhere; balance_after is the balance of one invoice, never of the client | Invoicing |
| interleaving | `files/service.py:77` | two uploads of one filename read the same current_version_number and write the same version number and storage key | FileVersions |
| protocol_sequence | `purchasing/service.py:247` | goods beyond the ordered quantity are accepted, and a receipt without lines moves the order on to PARTIALLY_RECEIVED | Materials |
| timeout_retry | `stock/service.py:344` | repeating the BOM calculation of an order item reserves its material again | Materials |
| liveness | `stock/service.py:110` | no code fulfils or cancels a reservation: what is reserved stays unavailable after the material was issued | Materials |
| timeout_retry | `automation/service.py:51` | two deliveries of one event key both find no record; the unique index lets one commit and the other fails instead of being suppressed | Automation |
| atomicity | `automation/service.py:91` | execution_count is read, incremented and written back: fewer executions are counted than logged | Automation |
| interleaving | `auth/service.py:129` | two refreshes with one token both find it unrevoked and both issue a successor | Sessions |
| interleaving | `assets/service.py:65` | an asset is assigned twice at the same time; afterwards scalar_one_or_none finds two open assignments and every assignment and return of the asset fails | Registers |
| timeout_retry | `dispatch/service.py:95` | booking a delivery again, as after a lost answer, creates another expense to reimburse | Registers |
| interleaving | `clients/service.py:102` | two primary contacts are added at the same time and both stay primary | Registers |
| interleaving | `core/websockets.py:45` | a client subscribes or leaves while a broadcast awaits a send: the set changes under the iteration and the remaining subscribers get nothing | Channels |
