# TLA+ models of FONOLOGY

FONOLOGY is the web shop, till and back office of a chain of phone repair shops:
an Express/Kysely API over Postgres (`apps/api`), a Next.js front end (`apps/web`),
a print agent that runs on the till PCs (`apps/print-agent`), and the schema with its
triggers and functions in 128 migrations (`db/migrations`, where the latest definition
of a function is the one in force). The repository has no test suite, so what is
hard to test is not tested at all. These modules model the parts where several
processes, people or outside services act on the same rows, check them with TLC on
small instances and prove the main results for every instance with TLAPS.

To run everything, from this directory:

    tlc -workers 2 -config PrintQueue_onepc.cfg MCPrintQueue     # one such line per run in PROJECT.json
    tlapm PrintQueueProofs.tla                                   # and for each *Proofs.tla and RunningSums

`PROJECT.json` lists the runs with what each is expected to do, the source lines every
definition stands for, a mutant of the code for every property, the hazards, and the
theorems.

## 1. Inventory

| Component | State | Operations | Talks to | What is hard | What would make it correct |
|---|---|---|---|---|---|
| Print queue (`routes/print.routes.ts`, 0033, 0090, 0097, `lib/printRetention.ts`) | `print_jobs` (status, lease owner, attempts), `print_agents` | enqueue, claim (`/jobs/next`), ack, fail, resolve, issue/revoke agent, lease sweep, stale sweep, purge | agents over HTTP, staff, a script every two minutes | read-then-write handlers, late requests, sweeps, two PCs | a receipt never prints twice unasked; every job ends where somebody sees it |
| Print agent (`print-agent/src/worker.ts`, `marker.ts`, `index.ts`) | one worker per target, marker files on disk | claim, render, mark, send, report, recover | the queue, the printer | power cuts between sending and reporting | a marker exists while a print may be unreported |
| Print wake-up and health (`lib/printNotify.ts`, `lib/printHealth.ts`) | parked polls on an in-process event bus, heartbeat times | long poll, announcement, safety timer, classification | queue, owners | an announcement before registration, in another process, or never made | every queued job is seen; no listener leaks |
| Online orders and payments (`routes/orders.routes.ts`, `routes/webhooks.routes.ts`, `lib/orderPayments.ts`, 0005, 0037, 0061) | `orders`, `payment_provider_events`, stock | checkout, payment intent, webhook, poll, mark paid, fulfil, cancel | Stripe, stock, refunds, email | webhook, redelivery and poll race; the last unit; money taken for an order that cannot be filled | every charge is answered once; nothing is paid that was not charged; the shelf agrees |
| Refunds (`routes/pos/refunds.ts`, 0069, 0076, 0099) | `refunds`, `refund_lines` | refund a sale, an order or a job | Stripe, drawer, stock | two staff at once; money leaves before the row is written | never more refunded than paid; each unit restocked once |
| Point of sale (`routes/pos/sales.ts`, `pricing.ts`, `lib/promoPricing.ts`) | `sales`, lines, payments, stock | ring up a sale, park, price with promotions | stock, drawer | a resent sale, the last unit, rounding of discounts | one sale per key; totals add up |
| Stock and inventory (0003, 0004, 0060) | `stock_qty`, `stock_movements`, cost | consume, receive, adjust, intake | sales, orders, refunds | the same shelf from every side | the count equals the sum of movements, never below zero |
| Repair jobs and bookings (`routes/jobs.routes.ts`, `repairs.routes.ts`, `lib/jobPayments.ts`) | `jobs`, parts, payments | book, quote, move, pay, collect | stock, drawer, SMS | a payment check without a row lock (0097:370) | not paid more than owed; parts used once |
| Trade-in (`routes/sell.routes.ts`, 0007, 0097) | offers, payouts | quote, accept, pay out, restock | stock, drawer | offers that change while they are accepted or paid; unlocked reads (0097:543) | the accepted offer stands; paid means money went out; the mark and the stock agree |
| Till cash and day close (`routes/pos/cash.ts`, `day-close.ts`, `lib/pettyCash.ts`) | `cash_entries`, `day_close` | slips in and out, scheduled entries, close the day | sales, refunds | two slips at once, a slip racing the close, midnight between a read and a write | the books say what the tin holds; nothing is spent twice |
| Authentication (`lib/authSessions.ts`, `pinGuard.ts`, `rateLimit.ts`) | sessions, PIN counters in memory | sign in, rotate, revoke, lock out | every route | parallel attempts, restarts | revoked means revoked; a bounded number of guesses |
| Retention (`lib/documentRetention.ts`, `lib/jobSms.ts`, scripts) | documents, SMS log | list and delete | storage | list-then-delete | only what is due is deleted |
| Catalogue, settings, reviews, reports | rows | create, edit, list | - | little: single statements | - |
| Web front end (`apps/web`) | carts and forms in the browser | - | API | client caches | - |
| Migrations runner, deploy, CI | - | run by hand | - | - | - |

How they interact: every component is HTTP handlers over one Postgres database. A
statement, with the triggers it fires and the functions it calls, is one transaction,
and most handlers open none of their own, so one with two statements interleaves with
everything else between them. That is the model of concurrency used in every module:
**one action per SQL statement or outside call, handlers as chains of actions.** A few
transactions do span statements (a cancelled repair with its refunds, payments taken
together, a petty cash slip), and a few functions read twice or take rows in turn
(`complete_sale`, `record_job_payment`, `create_refund`). There the isolation level
matters: READ COMMITTED, so each read sees what was committed when it began, and only a
row that was updated, or locked on purpose, is held until the end. `Till`, `RepairJob`
and `PettyCash` model those locks and what waits for them. Outside the database there are
the till PCs (power cuts, lost and late requests), Stripe (retries, lost answers), the API
processes themselves and the staff.

The hazards this gives are listed one by one, at their lines, in `PROJECT.json`.

## 2. Plan

| Step | Modules | State |
|---|---|---|
| 1 | `PrintQueue` (queue, agents, staff and sweeps composed), `ReceiptPromise` (abstract), `PrintQueueProofs` | done |
| 2 | `OrderPayment` (orders, webhook, poll, Stripe, refunds of orders composed), `OrderPaymentProofs` | done |
| 3 | `Till` (a sale with its key, stock, deliveries and refunds of sales composed), `TillProofs` | done |
| 4 | `RepairJob` (jobs, bookings, both payment routes and cancellation composed), `RepairJobProofs` | done |
| 5 | `PrintWake` (long poll, event bus, timers, purge), `PrintWakeProofs` | done |
| 6 | `TradeIn` (quotes, links, payouts, restock), `PurchasePromise` (abstract), `TradeInProofs` | done |
| 7 | `PettyCash` (slips, closes, bookings ahead, midnight), `PettyCashProofs`; `RunningSums`, what both proofs need of sums | done |
| 8 | parts fitted to a job and their stock; the refund rows of `refund.updated` one by one; the drawer's expected figure; promotion prices as an operator against a reference definition; sessions and the PIN counter; an abstract specification of an order's payment | open |

Abstract specifications: `ReceiptPromise` states what the print queue promises of one
receipt, as the shop sees it, and is implemented by `PrintQueue` for each of its receipts;
`PurchasePromise` states what the seller of a device is promised, in three actions, and is
implemented by `TradeIn`. Both refinements are proved.
Theorems worth proving: type correctness and the safety results of each module from one
inductive invariant per module, the refinement of each abstract specification. Liveness
stays with TLC throughout.

## 3. PrintQueue

### State and actions

`status`, `owner` and `attempts` are the columns of `print_jobs`; `issued`, `primary`
and `revoked` those of `print_agents`. `worker[<<h, t>>]` is the loop of
`PrintWorker` for one PC and target: `claimed` after `/jobs/next`, `marked` after
`writeMarker`, `sent` once bytes have left, `acking` or `reporting` while the report is
out. `marker[h]` is the marker directory, the only thing that survives `Restart(h)`.
`requests` holds ack and fail requests the API has not finished: a request can be lost
(`LoseRequest`), served after its client gave up (`WorkerGivesUp` leaves it in the set),
and `/fail` is in two parts, `ReadFail` and `WriteFail`, as its two statements are.
`decision` does the same for `/resolve`, and `due` for the purge's list-then-delete.
`prints`, `paper`, `refused`, `requeued` and `reprints` are history that no guard reads.

Two things in the code shape the model. Ownership is by agent, never by lease
(`HoldsLease` compares `lease_owner` with the caller's agent): a report about an old
lease is accepted while the same agent holds a newer one. And writes by id alone
overwrite whatever the row has become, except where a table constraint rejects them
(`WriteFailIgnored` on a printed row, `WriteResolve` on a leased one).

Abstractions: time (any lease may have run out, any job be stale, any row past
retention); the content of jobs; repeated presses (one with the same `dedupe_key` answers with
the existing row, so it is no step); heartbeats, the agent's configuration and the read-only
lists; the host process between the agent and the printer, represented by the three
answers it can give. One shop: queues of different shops share nothing.

### Runs

| Run | Instance | Shows | States |
|---|---|---|---|
| `print_onepc` | a receipt and a label, one PC that may lose power once, one attempt each, fairness of the sweeps only | `JobSettles`: nothing waits for ever; `RefusalsAreTrue`, `FirstPrintIsMarked` | 453,588 |
| `print_twopcs` | one receipt, a PC that may lose power once and the PC that replaces it, each with its token, two attempts, one answer from staff | `IndInv`, the invariant the proofs rest on (types included), `ReceiptPrintBound`, `ReceiptRetryBound`, `AckMeansPaper`, and the refinement of `ReceiptPromise` | 1,390,119 |

Bounds. `MaxAttempts = 2` is the least that lets an automatic retry happen and be refused,
and gives a job a second lease, perhaps with the other PC, while reports about the first
are still on their way; `MaxBoots` is per PC, and one power cut of the first comes between any two
of its steps, with recovery beside the workers, the second PC beside both and the first PC's token
revoked or not; one answer lets one reprint happen, and the third claim that follows it. Jobs meet
only in the queue's order, so one is enough for everything but that order and the
receipt/label difference, which `print_onepc` covers with two, at one attempt each: two jobs
and two attempts are too many for one run. (With a label alone and `MaxAttempts = 2`, which lets it
be put back and leased again, the properties of that run hold too, in 1,095,298 states.)
`CHECK_DEADLOCK FALSE` everywhere: with the bounds used up and every row purged the
system is rightly at rest.

Fairness (`print_onepc`). `scripts/purge-print-jobs.ts:19-22` schedules the sweeps every two
minutes whatever the till PCs do, so `ExpireLease` and `ExpireStale` of each job are weakly
fair. Nothing else is: the agents, the staff and the network may stop for good.

### What is proved

From the named assumptions alone (jobs are numbers, `TokenOf` maps PCs to agents, `NONE`
is neither), for any number of jobs, PCs, agents and staff, **any** assignment of tokens to
PCs (a token copied to two PCs included), any number of crashes and retries:

- `TypeCorrectness`: `Spec => []TypeOK`.
- `Invariance`: `Spec => []IndInv`.
- `AtMostOncePerRequest`: a receipt prints at most once more than people asked for it
  again (`ReceiptPrintBound`).
- `RetriesAreBounded` (`ReceiptRetryBound`), `RefusalsNeverPrinted` (`RefusalsAreTrue`).
- `QueueKeepsPromise`: `Spec => KeepsReceiptPromise`. The queue implements `ReceiptPromise` for
  every receipt, under the mapping `shown <- status` (a press not yet made counts as
  queued), `printed <- prints`, `asked <- reprints`, `answer` the decision each person has taken and
  not yet written. Beyond the bound on paper this says how a receipt may move: a PC's word
  closes it only while it is out, and after paper; without a person it goes back to
  the queue only while a copy is owed; printed is final for everybody but a person, and an answer about
  a receipt that is out counts for nothing; what is deleted stays deleted.

`ReceiptPrintBound` is not inductive: nothing in it says why a second worker cannot print.
The argument is an account of leases. Every claim makes a new lease, numbered by
`attempts` (`ClaimedBy`). A worker that can still print holds a lease nobody else holds
and that is neither on paper nor refused (`LeasesAreExclusive`), and each lease is on
paper at most once (`LeasesAreAccounted`). A receipt goes back to the queue for two
reasons only: a person asked, or a refusal (`reachedPrinter = false`) reached the API;
a refusal travels once and is counted once (`RefusalsAreFresh`), and what `/fail` has
decided but not written obeys the same rule (`PendingWritesAreSane`). So every claim but
the first is paid for by a reprint or by a lease that was refused (`ClaimsArePaidFor`),
refused leases hold no paper, and paper is at most one more than the reprints. The
refinement uses the same account where a step is conditional: a receipt that waits, or that
`/fail` has decided to put back, is owed a copy (`WaitingIsOwed`, `QueuedOwed`, `UndecidedIsOwed`),
and `PaperKept`, `RequestKept` and `StaffKept` map the steps of agents, reports and people.

Two results are about the word of the agents and the markers on their disks:

- `AckIsPaper` (`AckMeansPaper`): no job is closed as printed by an agent unless it was.
  `AckInv` follows the word backwards: a worker past sending, and every ack on its way, is
  about a job that was printed, and prints are never taken back.
- `FirstPrintIsRemembered` (`FirstPrintIsMarked`). `MarkerInv` says who can know a job
  while its first lease is open: only PCs with the token it was given to (`WorkersHold`,
  `NotesHold`), and no report of theirs has been answered, for an answer to the owner ends
  the lease. So nobody has had a reason to clear the marker, except one who reports that
  nothing was printed; and that lease is among the refused, which hold no paper
  (`WorkersKnow`, with `LeasesAreAccounted` of `IndInv`). After a second claim the argument
  fails at its first step, and the property with it (section 11).

Only model-checked: `JobSettles`, which is liveness.

## 4. OrderPayment

### State and actions

Each order has one line of one unit of one product and costs `Total`. That is what the
races need: two orders compete for a unit through the same column, and all orders of a
run competing for it is the worst case.

`status`, `paidAt` and `recorded` are columns of `orders` (`recorded`: the order names
the Stripe intent), `stock` the product's `stock_qty`. `UpdateStatus` is the UPDATE
together with `validate_order_status_transition` (0061) and the stock functions it calls:
the transition table, the unit taken when an order becomes paid, the unit given back when
a paid or ready order is cancelled, the whole statement refused when there is none.
`event` is the order's row in `payment_provider_events`. `call` holds the webhook and
poll requests in flight, each a chain:

    Deliver -> ReadOrder -> Moved | NotPending | OutOfStock
            -> (FoundPaid | FoundElse) -> MarkProcessed
            -> RefundUnfulfillable | RefundFails -> CancelUnfulfillable
    Poll    -> AskStripe -> ReadOrder -> ...        (no event to mark)

and `Abort` ends any of them at any point (a crash, or a database error answered with
500). `clerk` holds the staff requests: the cancel route's check and write, and the refund
route's first check, its idempotency key, the Stripe call, and `create_refund`, which
checks again under the order's row lock (one action). `ledger` is the `refunds` rows,
`returned`, `counter`, `confirmed` and `alerted` are history.

Stripe is external and modelled from how it is used: one intent per order, by its key
(`order-intent-<id>`); a charge at any time while the intent is open, because the code
never cancels one; idempotency keys remembered; no more refunded than charged; a refund
whose answer is lost (`RefundFails`, `StripeFails` with either outcome); an event
delivered at least once, again after its 2xx too (0037: "it will happily deliver the same
event twice").

Abstractions: an order is created pending (checkout, pricing and shop allocation come with
the till); free orders, which skip Stripe; an amount that differs from the total
(reported, never settled); `refund.updated`; document checks before `ready`; Clearpay;
the return window, the drawer and permissions. All refund requests come from one member
of staff with one reason, the case in which the idempotency keys can collide.

### Runs

| Run | Instance | Shows | States |
|---|---|---|---|
| `order_settle` | two orders, one unit, a webhook, a poll, one cancelling clerk | `ShelfMatchesOrders`, `PaidMeansMoney`, `ClosedMeansSentBack` | 1,516,223 |
| `order_answered` | one order, webhook and poll, two requests cut short, fairness | `ChargeIsAnswered`, `ConfirmedOnce` | 19,090 |
| `order_refunds` | one order, two clerks refunding half by half, by card or not, restocking or not, and cancelling | `BookedWithinTotal`, and `IndInv` | 1,370,739 |

Bounds. Two orders and one unit is the smallest contest; a third would only wait. One
webhook and one poll at a time are enough for their race (a redelivery starts when the
first request is over or aborted; two webhooks at once do what a webhook and a poll do,
for the settling code is shared, apart from `event`, which both write the same). Refunds of 1 out of
2 reach and cross the cap with two clerks; `MaxAborts = 2` cuts the first delivery and
its retry short. Orders, webhooks and clerks are interchangeable, so symmetry is used in
the two runs without liveness.

Fairness (`order_answered`). Stripe retries an event until it gets a 2xx
(`webhooks.routes.ts:188-197` relies on it), however busy the API is: strong fairness of
`Deliver` for each event not yet acknowledged. A request that was accepted is worked on:
weak fairness of `CallStep`, for `Abort` is bounded. The customer, the poll and the staff
owe nothing.

`ChargeIsAnswered` counts a processed event as an answer. It therefore says that the
retries do their work, and leaves to `ProcessedMeansHandled` whether a processed event
was really handled: it is not always (section 11).

### What is proved

From the named assumptions (`Total` positive, `Amounts` within it, orders finite, hooks
and polls disjoint), for any number of orders, requests and aborts:

- `OrdersInvariance` (`IndInv`), `OrdersTypeCorrectness` (`TypeOK`: the shelf never
  below zero).
- `ShelfNeverDrifts` (`ShelfMatchesOrders`): stock plus the orders that hold a unit is the
  opening stock plus the units that refunds returned.
- `PaymentsAreReal` (`PaidMeansMoney`), `SettledOnce` (`ConfirmedOnce`),
  `RefundsAreCapped` (`BookedWithinTotal`).
- `ClosingRefundsFirst` (`ClosedMeansSentBack`): an order is closed automatically only
  after the whole charge went back.

The strengthening is small because the database does the work: an order leaves `pending`
once, and only as unpaid (`PendingIsUnpaid`), so whoever moves it is alone and the
confirmation is sent once; a request past its question to Stripe has seen the charge, and
one about to close an order has sent the money back, which nothing takes back
(`CallsAreJustified`). The shelf argument is about the cardinality of the set of orders
holding a unit, which one UPDATE changes by at most one.

Only model-checked: `ChargeIsAnswered` (liveness is out of the prover's reach).

## 5. Till

### State and actions

A ticket is one content of the till's screen; its row in `sale_idempotency_keys` is
`key` (`Free`: no row, `Held`: a row without a sale, or the attempt whose sale it
records). An attempt is one `POST /pos/sales`:

    Reserve ------------------------------> Consume* -> Commit -> Record
    Clash -> FindEarlier -> FreeStale -> Rekey ^    \-> Rollback -> Release

`Consume` is one line of `complete_sale` with the stock trigger it fires: it takes the
product's row lock and keeps it, so two tickets that sell the same products the other way
round wait for each other, and `DeadlockVictim` fails one of a circle. `Receive` is a
delivery line, the average cost included, in two steps when its cost has to be looked up;
`RefundLock` and `RefundCommit` or `RefundRaise` are `create_refund` on a sale, which
holds the sale's row. What can go wrong from outside is a fault of the ticket
it hits: `CommitUnheard` (committed, the answer lost), `ReleaseFails`, `RecordFails`,
`Crash`, and a key that ages two minutes under its attempt (`Age`).

Abstractions: every unit sells for 1 and a line is one unit; payments, prices and
promotions (checked before anything is written); the drawer and permissions. The cost read in
`complete_sale`'s first pass and written on the line in the second is not modelled.

### Runs

| Run | Instance | Shows | States |
|---|---|---|---|
| `till_keys` | three attempts of one ticket, one of a second ticket that takes the same two products the other way round, a fault for each ticket, fairness | `SalesBound`, `EveryAttemptEnds` | 136,550 |
| `till_shelf` | an attempt of either ticket, one unit fewer than both want, a dear delivery and one without a price, two refunders | `ShelfMatches`, `RefundsWithinSale`, `CostWithinPrices` | 806,711 |

Bounds. Three attempts are the least in which a freed key has two later holders; one fault
shows that the factor 2 in `SalesBound` is reached. Two products in two orders are the
smallest circle. Fairness: a request that was accepted is worked on and Postgres looks for
deadlocks after `deadlock_timeout`, so `Handle` and `DeadlockVictim` are weakly fair for
each attempt; faults, deliveries and refunds owe nothing.

### What is proved

For any number of tickets, attempts, lines, deliveries and refunders (finite sets):
`TillTypes` (`TypeOK`), `TillSalesBound`, `TillShelf` (`ShelfMatches`), `TillRefunds`
(`RefundsWithinSale`), `TillCosts` (`CostWithinPrices`).

- `SalesBound` needs a weight (`KeyInv`): the sales of a ticket, and its attempts that may
  still make one, are together at most what its faults allow, less what a free or held
  key may still give. Each step moves weight from the key to an attempt to a sale; only
  a fault adds any.
- `ShelfMatches` needs `LockInv` (who has taken a unit holds its product's row, so nobody
  else changed the count it checked), then counts lines, units and refund lines as
  finite sets.
- `RefundsWithinSale` needs `SeenInv`: what a refunder read is still so while it holds the
  sale's row.
- `CostWithinPrices` is arithmetic: a rounded average lies between what it averages.

Only model-checked: `EveryAttemptEnds`.

## 6. RepairJob

### State and actions

`status`, `quoted`, `revised`, `approved`, `payStatus` and `deposit` are columns of `jobs`;
`booking` is `bookings.status`, which the trigger `jobs_sync_booking_status` moves (`Sync`).
Moves of a job are one UPDATE each, with the transition table, the hand-over and the
deposit triggers as guards (`Start`, `Revise`, `Finish`, `HandOver`, `PostBack`,
`CancelKeeping`). Two things take several steps:

    a payment        Check -> (Insert -> Update)+         one transaction from the first Insert
    a cancellation   CancelCheck -> CancelUpdate -> CancelRead -> CancelCommit

`Insert` is the first half of `record_job_payment`, which adds up what it sees and shares
the job's row; `Update` is its second half, which holds it. `lock` is the holder of the
row; `Blocked` is a cancellation that waits in `create_refund` for payments that share
it; `Victim` the deadlock this makes with a payment that waits for the row. `own` and
`draft` are what an open transaction has written and nobody else sees.

Abstractions: parts, photos, warranties, texts and the timeline; two payment methods stand for
four; a payment through either route is the same transaction, only the first checks
differ (`AtTill`), and the two reads the till's route begins with, the status and then the
figures, are one step (`Check`): a payment let through by both was right at one moment
between them, for a cancelled job keeps its price and payments only grow; money is small whole numbers; card limits may refuse at any point
(`PayFails`).

### Runs

| Run | Instance | Shows | States |
|---|---|---|---|
| `job_bench` | two jobs of one booking converted at once, prices 1 and 2 with revisions, a payment in two parts and one in one part, by either route, one member of staff | `HandedOverIsPaid`, `RefundsWithinPaid`, `PaymentStatusIsEarned`, `BookingShowsAJob`, `CancelReturnsPaid` | 2,132,277 |
| `job_ends` | one job, the same payments and cancellation, fairness | `PaymentsEnd` | 50,362 |

Bounds. A price of 2 and payments of 1 reach underpaid, paid and overpaid; two jobs of a
booking is the case in which a status could be overwritten. Fairness (`job_ends`): an
accepted request is worked on; a row's waiting updates get it in their order, hence strong
fairness of `Update`, which waits for a row that others take in between; deadlocks are
looked for.

### What is proved

For any number of jobs, bookings, payments and staff, and any prices:
`RepairJobInvariance` (`IndInv`), `RepairJobTypes` (`TypeOK`), `HandedOverPaid`
(`HandedOverIsPaid`), `RefundsCovered` (`RefundsWithinPaid`), `StatusEarned`
(`PaymentStatusIsEarned`), `BookingsFollow` (`BookingShowsAJob`) and the action property
`CancelGivesAllBack` (`CancelReturnsPaid`). The strengthening:

- `CancelHoldsRow`: a cancellation past its update holds the job's row, so what it found to
  give back is so until it commits;
- `InsertedIsCounted`: what a payment added up is no more than the committed payments and
  its own, and the price it compared that with still stands unless the job was revised;
  payments are never taken away, so a `paid` written from that sum is earned when it commits;
- `CallsLeft`, `NewIsFresh`, `CancelledIsCalledOff`: a request is about a job that exists and
  has payments left to insert, a job not yet made has none, a cancelled job is told how it
  was called off.

## 7. PrintWake

### State and actions

How a queued job gets to an agent that waits. `req[q]` is the handler of one
`GET /print/jobs/next`:

    Open -> Claim -> Answer
              |  \-> GiveUp                       (204)
              <- Park <- Announce | Timer | AbortCheck

`bus[i]` are the listeners of the event bus of API process `i`, `news` the rows committed
and not yet announced by the process that wrote them. `Announce` wakes the listeners of
its own process and no other; a row queued between `Claim` and `Park`, in another process,
by `expire_print_leases`, or just before a `Crash` is announced to nobody, and only
`Timer` (`SAFETY_POLL_MS`) finds it. What happens to a leased job is `PrintQueue`'s; here a
lease ends in any of the ways it can (`AgentEnds`, `LeaseExpires`). `Age`, `ExpireStale`,
`ListDue` and `Delete` are the sweeps with their list-then-delete.

### Runs

| Run | Instance | Shows | States |
|---|---|---|---|
| `print_wakes` | one job queued twice, two processes, two requests, one nap each, one crash, fairness | `TypeOK`, `ListenersAreParked`, `PurgeTakesFinished`, `JobIsSeen`, `RequestsEnd` | 200,120 |

Bounds. Two processes and one job are what a missed announcement needs; two requests let
an abandoned handler run beside its successor. Fairness: the agent's loop, a
handler that has work and the timers are weakly fair; announcements, connections, and
sweeps are not, so `JobIsSeen` rests on the timer, as the comment in `printNotify.ts`
says it should.

### What is proved

For any number of jobs, processes, requests and crashes: `PrintWakeInvariance` (`IndInv`),
`PrintWakeTypes` (`TypeOK`), `PrintWakeListeners` (`ListenersAreParked`),
`PrintWakePurge` (`PurgeTakesFinished`). The strengthening says that an open
request runs in some process, one that answers has a job, and what is listed for deletion
is finished or was put back since (`ListedIsFinished`). Only model-checked: `JobIsSeen` and
`RequestsEnd`.

## 8. TradeIn

### State and actions

`status` and `offer` are columns of `sell_requests`, whose transition trigger is
`AllowedNext`; `taken` is the offer at the moment it was accepted, `best` the highest one.
`link` and `dead` are the acceptance tokens (`Issue`, `Redeem`, `Expire`). `call` holds
the requests that are not one statement, whoever sent them: nothing keeps one person from having
several in flight (a double click, a retry, a second tab). A payout reads the offer (`ReadOffer`), then what
was paid before (`ReadPaid`), then inserts (`Pay`, with the trigger that moves the request to
`paid` or undoes it all); a restock reads the payout (`Look`) and writes (`Restock`).
A walk-in payout has no request. `seen` is history: how long the ledger was when a payout's
request added it up.

Abstractions: whether the sender may approve exceptions is a free choice of each request; whether the drawer could pay the cash is a free choice (`short`); the preview
behind a link only reads; names are told apart as `slugify` tells them.

### Runs

| Run | Instance | Shows | States |
|---|---|---|---|
| `trade_in` | one request quoted 1 or 2, one link, two requests of staff in flight, two payouts, one name | `AcceptedOfferStands`, `PaidMeansMoneyOut`, `SerialPayoutsWithinOffer`, `RestockIsTrue`, refinement of `PurchasePromise` | 2,755,943 |

Bounds. Trade-ins share nothing, so one is enough beside walk-ins; two requests and two
payouts are the race of two payouts on one offer; two amounts let a quote rise and fall
while a payout is being checked. Nothing here is owed by anybody, so there is no liveness
to state.

`SerialPayoutsWithinOffer` says what the unlocked check is still worth. Payouts can exceed
the offer together (section 11), by as many requests as overlap. But only by overlapping: any
payouts without an approval, of which each was in the ledger when the next one's request
read it, stay together within the best offer the trade-in ever had, whatever
happened beside and between them.

### What is proved

For any number of trade-ins, links, requests in flight, payouts and names: `TradeInInvariance`
(`IndInv`), `TradeInTypes` (`TypeOK`), `AcceptedForGood` (`AcceptedOfferStands`),
`PaidIsPaidOut` (`PaidMeansMoneyOut`) and `RestockedIsOnTheShelf` (`RestockIsTrue`). The
strengthening is small, for the triggers look at the row they change: a request that was not
agreed has no offer taken and a quoted one has an offer (`OffersInOrder`); a request that read a
payout or an offer works on one that exists (`CallsKnow`); whatever stands on the shelf was
made of a payout (`ShelfIsPaidFor`).

`SellersAreKeptTo`: `Spec => KeepsPurchasePromise`, under the mapping `agreed <- taken`,
`out` the requests with a payout in the ledger, `off` those declined or rejected. The
promise is what 0007 (l. 47-54) asks of the status machine, said of the money: one amount is agreed,
once; money goes out only on an agreement; paid and called off exclude each other, for good.
`PaidMeansMoneyOut`, before the step and after it, lets the ledger be read off the status;
`RequestMoves` then says that a step agrees on, pays or calls off one request, or none.

`SerialPayoutsNeverBeyond` (`SerialPayoutsWithinOffer`) needs an invariant of its own
(`BoundInv`). An offer, the one a request has read included, is never above the best there
was (`OffersKnown`). A request cleared without an approval has room under the best offer for its amount
on top of any ordinary payouts among the `seen` rows it added up (`CallBound`), and a
payout it made carries that with it (`RowBound`). Of payouts in series the last saw all
the others (`LastOf`), so its room is theirs (`SerialWithin`). The sum is a recursive function of
the ledger's length; `RunningSums` gives what an appended row, or a row marked
restocked, does to it.

## 9. PettyCash

### State and actions

The books of one tin: per day the sums of `petty_in` and `petty_out` entries and the
count of its close. `Expected` is `pettyCashDay`: the week's last close before today, or
nothing, plus the entries since. A slip is a transaction in parts: `Begin` (which dates its entry), `Lock` (`pg_advisory_xact_lock`), `Check` (which
reads `today` afresh, the close and the balance), `Record`. The day close (`CloseRead`, `CloseInsert`), a
booking ahead (`Book`, `BookInsert`) and its cancellation (`Cancel`, `CancelDelete`) take
no lock and read the date before they write; `Midnight` may come in between. `tin` is what
is really there, `missed` the slips that no later day's opening will contain, `late`
whether a cancellation or a close landed after midnight, `after` per day the slips
recorded on it after its close, before or past midnight, and `waited` per day those of its slips that
had begun and stood before the check (at the lock, or with it) when midnight struck.

Abstractions: `Check` makes its three reads in one step; the count staff make is what is
in the tin; the drawer; the automatic clear-down at the end of a week is the
Monday on which the books start at nothing.

### Runs

| Run | Instance | Shows | States |
|---|---|---|---|
| `petty_cash` | three days of two-day weeks, three slips of which two may be in flight at once, one close at a time, one booking | `TypeOK`, `BooksMatchTin`, `NeverOverspent`, `StragglersBounded` | 5,786,512 |

Bounds. `WeekLen = 2` and `LastDay = 2` put a day after a close inside a week and a Monday
after it, which is all that `pettyCashDay` tells apart; three slips let one be spent, one be
refused and one come after the close, and two in flight let one be checked before the
close and another keep the closed day's date over midnight. `WeekLen` is a parameter for that reason
only; the shop's is seven.

### What is proved

For any number of days, weeks of any length, and any number of slips in flight, closers and
bookings: `PettyCashTyped` (`TypeOK`), `PettyCashBooksMatch` (`BooksMatchTin`),
`PettyCashNeverOverspent` (`NeverOverspent`) and `StragglersAreBounded`
(`StragglersBounded`), from five invariants, each resting on `IndInv` and on those it names.

- `PettyCashInvariance` (`IndInv`). Who is past the lock holds it, and no slip is dated
  ahead (`SlipsInTurn`). `Types` is `TypeOK` but for the sign of a day's money in.
- `BooksInvariance` (`BooksInv`). The books are the last close of the week and the entries
  since, so a close moves the point they are counted from. `CloseHolds` says that a close on its
  way may do that: the tin holds the count it carries and what was entered since it
  was read. `Ahead` keeps the days to come free of closes and of money out, so midnight
  adds only what was booked for the new day.
- `Covered`, for `PettyCashTyped`. A cancellation takes away a booking's amount, and the day stays at
  or above zero because it contains that booking. The sum over the bookings a day holds is
  counted as the cardinality of a set with one element a penny.
- `StragglerInv`, for `StragglersAreBounded`. Once a slip has followed today's close, today is
  closed and no checked slip of today is left (`NoneLeft`): the next to take the lock finds
  the close and is refused. Past midnight the check looks at the new day, so a slip that stood
  before it is let through with the old date; what a day has taken since its close and the
  slips in flight that still carry its date (`Dated`) are together at most one more
  than `waited`, and no slip begun later carries it.
- `SpendInvariance` (`Spendable`). A slip that was checked under the lock has its money
  until it is recorded: other slips wait, and whatever else moves the balance meanwhile
  (a close, midnight, a booking, a cancellation) either does not lower it below what
  was checked or came after midnight, which `late` records.

## 10. Properties and mutants

Every property of a run has a mutant in `PROJECT.json`: an operator beside the
original, marked "Mutant" in the modules, that makes the code go wrong as a plausible bug
would (a receipt treated as a label by `/fail`, the confirmation sent whether or not the row
moved, the second check left out of `create_refund`, the result of a key's insert not
looked at, a stale key waited for where the route answers 409, a sale's row read without `FOR UPDATE`, a hand-over that trusts
`payment_status`, a listener that stays, a slip without its advisory lock). TLC finds the
property violated with each. Where a property is proved and another run already checks
an invariant that contains it, no run repeats it.

## 11. Known divergences

The code and what it says of itself disagree in these places. Where a comment or a message
states a property, the module states it under the name given, after the true ones; each
is false of the code within a few steps, as TLC finds when its name is added to the
configuration of a run of that module (`TradeIn_buys.cfg` needs a second name for it), and
none is part of a run.

- **A requeued receipt nobody asked for** (`PrintQueue!UnconfirmedWaitsForStaff`). `/fail`
  decides from a row it read and writes by id; a lease sweep in between has already asked
  staff. The comment says receipts are never requeued without a person. No second copy
  results, which `AtMostOncePerRequest` proves.
- **Recovery removes a live marker** (`PrintQueue!OpenPrintIsMarked`). Markers are per job.
  After a crash and a reprint, recovery's answer for the old marker deletes the new one.
  `FirstPrintIsMarked` is what remains true.
- **A fulfilled order is refunded** (`OrderPayment!AutoRefundMeansNeverPaid`). The poll
  settles the order, staff move it to ready, the webhook arrives late (or again):
  `already-paid` is recognised by `status = 'paid'` alone, so the order is taken for
  unfulfillable.
- **A closed event with nothing done** (`OrderPayment!ProcessedMeansHandled`).
  `markProcessed` comes before the automatic refund; a crash between them cannot be retried.
- **A unit restocked twice** (`OrderPayment!RestockedOnce`). Refund with restock, then
  cancel, as the route's own message advises.
- **Two ledger rows for one refund** (`OrderPayment!BookedMeansSent`). The idempotency key
  deduplicates at Stripe and not in the ledger.
- **Two sales for one key** (`Till!OneSalePerKey`; 0110 l. 8-10 promises one). The second
  insert of the key is not looked at (`sales.ts:90`), and an answer lost on the way to the
  API is told to the till as "nothing was charged" and frees the key. `SalesBound` is what
  remains true.
- **Money kept by a cancelled job** (`RepairJob!CancelledKeepsNoMoney`; `jobs.routes.ts:492`).
  A payment that passed its checks before the cancellation commits after it.
- **More taken than the price** (`RepairJob!PaymentsWithinPrice`; `jobs.routes.ts:695` says that
  `record_job_payment` enforces the cap itself). It adds up the payments it sees without a lock
  on the job (0097:370), so two at once each find the other's missing.
- **A client that has gone takes a job** (`PrintWake!GoneTakesNoJob`; `print.routes.ts:231`).
  The loop claims before it looks whether anybody listens; the lease's sweep puts it right.
- **Two products of one payout** (`TradeIn!OneProductPerPayout`; 0007 l. 264). The check
  for an earlier restock locks nothing; only an equal slug is refused.
- **A slip on a closed day** (`PettyCash!NoSlipAfterClose`; `cash.ts:47`: "a slip after it would
  vanish from the next day", hence the refusal). The close takes no lock, so a slip checked
  before it is recorded after it. And the entry's date is that of the transaction's begin
  (0008:372) while the check asks for the date afresh, so slips that waited over midnight
  are checked against the new day and land on the old, closed one.
  `StragglersBounded` is what remains true.

Modelled, and not said otherwise anywhere in the repository:

- Orders: a paid order cancelled with its money kept when the payment lands between the
  cancel route's check and its write (`ReadForCancel`, `WriteCancel`); a card refund whose
  ledger row a competing cash refund displaces (`StripeRefunds` before `WriteRefund`).
- Printing: two people answering the same question, the later one reopening a printed job
  (`WriteResolve`); the purge deleting a failed job that was requeued after it was listed
  (`PurgeDelete`, `Delete`).
- Jobs: staff without
  `returns.manage` cancel a job whose payment arrived after the check
  (`jobs.routes.ts:513-527`); an approval outlives the quote it was for; two conversions make
  two jobs of one booking; a job made by `POST /jobs` leaves its booking as it was;
  `payment_status` is not looked at again when the price is revised.
- Trade-ins: payouts that overlap, one person's or several people's, overpay one offer; a payout that read the request before it was
  quoted met no offer; the customer accepts an amount quoted after the page was shown; a
  link is spent even if the request has moved on.
- Petty cash: a slip that was checked before the close and recorded after it is lost to the next
  day (`missed`); a cancellation or a close that lands after midnight can leave the
  balance below zero (`late`).

## 12. Proved, and only model-checked

Every invariant, action property and refinement that a run checks is proved. What is left
to TLC is liveness: `JobSettles`, `ChargeIsAnswered`, `EveryAttemptEnds`, `PaymentsEnd`,
`JobIsSeen`, `RequestsEnd`, for fairness and ENABLED are out of the prover's reach.

Two things in the proofs are there because of the prover. The library's induction theorems
take an operator as a parameter, which no installed backend can instantiate. `RunningSums`
therefore proves what is needed of a running sum (a recursive function over an interval) by least
counterexample, from the library's theorem that `<` on the naturals is well-founded: that such a function exists, is an integer, adds its step, agrees with another
where the steps agree, and moves by the change of one step. And a sum over a set has no running order, so `PettyCashProofs` counts it
as a cardinality (`Pence`), for which the library has theorems, as `TillProofs` and
`OrderPaymentProofs` do for units and orders.

## 13. Not modelled

The components marked `not_modelled` in `PROJECT.json`, with the reason for each. Of
step 8 of the plan: parts fitted to a job use the stock functions whose shape `Till` has
already; the refund rows of `refund.updated`, the drawer's expected figure, promotion
prices, sessions and the PIN counter are still to come. The catalogue, settings and
reports are single statements and queries; the web front end keeps no state the server
relies on; migrations and deployment are run by people.

The map covers a small share of the repository's lines, and that is the nature of the
code: more than half of it is the web front end, and most of the rest validates input,
joins tables for a list, or renders documents. What changes shared state in several steps
is what the seven modules are about.
