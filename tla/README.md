# Formal models of nastachku

nastachku is the Rails site of the IT conference «Стачка»: it sells tickets to
the conference and to its afterparty, hands out activation codes, and publishes
talks that visitors vote for. These modules model two layers of it: the server's
requests that move money, tickets, codes and votes, and the scripts of its pages,
which react to clicks, timeouts, transitions and answers in any order. TLC checks
them on small instances, and TLAPS proves every invariant and both refinements that TLC checks for
every value of their constants; the four liveness properties are left to TLC.

Source lines below are relative to `src/`.

## The system

**How it runs.** Requests are served by unicorn worker processes
(`config/unicorn.rb:17`: two, each one request at a time, killed after 240 s). The
only shared state is the PostgreSQL database. There are no locks
(`lock`, `with_lock` and `lock_version` occur nowhere), the only unique index is
on `users.email`, and no transaction spans a request: each `save`, `create` or
`state_event` is a transaction of its own unless the code opens one. The
`state_machine` gem decides whether an event may fire by the state *loaded with the
object*, and then updates the row by its primary key alone. Letters go through Resque.
Most of the hard behaviour of the server follows from this paragraph: any two requests
interleave between their transactions, and a request may die between any two of them.

In the browser one thread runs every handler to its end, but nothing orders the handlers. No
script waits for the answer to an earlier request, timeouts and transition ends come
between clicks, and the widgets keep their state in classes, in timer handles and in handlers bound
for one transition that a later call may replace.

### Inventory

| Component | State | Operations | Hard part |
|---|---|---|---|
| Order payments (`models/order.rb`, `payments_controller`, `account/orders_controller`, `process_paid_order`, `lib/platidoma_helper.rb`) | `orders.payment_state`, `tickets.user_id`, `tickets.ticket_code_id`, letters | notification, browser return, status query, decline/cancel callbacks, refund | repeated notifications, crash between `pay!` and what follows, stale snapshots |
| Activation codes (`models/ticket_code.rb`, `services/activate_ticket_code.rb`, `services/admin_ticket_activation_service.rb`, forms in `types/`) | `ticket_codes.state`, ticket rows | create, delete, activate (user, administrator twice), `cancel_ticket`, refund | check-then-write without locks, two-transaction cancel, foreign keys |
| Order creation and prices (`services/create_order.rb`, `pricelist.rb`, `campaign.rb`, `coupon.rb`, `coupon_report.rb`) | `orders.cost`, ticket prices, campaigns, coupons | `CreateOrder`, campaign and coupon forms, coupon report | prices change with the day in the middle of a request, terms edited concurrently, rounding and clamps |
| Activation throttle (`lib/auth_helper.rb:81-102`) | `users.code_activation_count`, `last_code_activation_at` | count, clear, refuse | lost update, counting skipped for invalid users |
| Votings and feedback (`models/extensions/voting_extension.rb`, `api/lectures/*`, `web/user_lectures.js`, `web/schedules.js`) | voting and feedback rows, cached counter; the pages' classes, counts and filters | vote, unvote, "my program", filters; marks and their average | check-then-insert; the pages count for themselves, from answers in any order |
| Ticket forms and filtered lists (`promo.js`, `web/accounts.js`, `campaigns.js`, `lectures.js`, `users.js`) | the control, what the answer brought, what the page took from the control | one request per change | an answer overtakes another, or never comes |
| Schedule page (`web/script2.js`, `views/web/schedules`) | a page class per day, shared buttons, hidden rows | resize, next, previous, tabs, passed rows | per-day and shared state drift apart |
| User accounts (`models/user.rb`, tokens, sessions, registrator) | four state machines, tokens | activate, pay part, badge, remind password | expiry, snapshots |
| Users lists (`admin/users_lists_controller.rb`) | list state, users' `pay_state` | upload, accept | partial failure, accepted twice |
| Timepad synchronisation (`lib/timepad.rb`) | `users.timepad_state` | hourly job | one exception stops everybody behind it |
| Lectures, events, halls (`admin/sortable.js`, `api/halls_controller.rb`) | row states, positions | edit, sort by dragging | saves of several requests interleave; a sort stops half way |
| Slider (`html/js/jquery.cslider.js`), cycle show (`html/js/cycle.js`) | current slide, timeout handle, running transition | timeouts, arrows, dots, calls | a click cancels a timeout that is starting the next one |
| Bootstrap widgets (`html/js/bootstrap.js`): modal, collapse, carousel, tooltip | classes, timers, one-shot handlers, intervals | show, hide, toggle, slide, `to`, `pause`, `cycle` | a call meets a fade or slide that is under way, or whose end is lost |
| Social sign-in, mailers, shop, reports, content, views | rows | CRUD, rendering | none of the kinds modelled here |

**Interactions.** `CreateOrder` makes orders and tickets; a payment system's
notification reaches `ProcessPaidOrder`, which for a visitor's (`/buy_now`) order
makes codes, marks the order paid and mails the codes, and for a user's order marks
it paid and gives the user the tickets. A mailed code is redeemed through the
activation form, which gives the code's ticket to the user who typed it in. A refund
takes the tickets back and cancels their codes. On the server all of this is shared database
rows; nothing else is. The pages share nothing with the server but requests and answers, and each shows a
copy that it updates by itself. The two scripts of votes and the rows they change are therefore one module;
the other scripts share no state with each other.

**What makes each correct.** Payments: an order moves along its declared transitions
only; codes exist before a buyer is told they do; nobody has a ticket nobody paid for.
Activation: a code is used once; a user has one ticket of a kind; canceled means
canceled. Prices: an order is charged for all of its tickets and its report adds up;
one campaign at a time. Throttle: a user is refused only after ten attempts. Voting:
one vote per user, counter = rows, and a page that is left alone shows what the rows say. Pages: at rest,
a page is what its controls say. Widgets: at rest, one slide, one panel, one dialog with its backdrop; one timer at
most drives a show, and it never dies unasked. Users lists and Timepad: every row is processed in the end.

## The modules

| Module | What it is |
|---|---|
| `OrderBook` | orders, tickets, users, and `Order#payment_state`'s transition table; shared |
| `OrderLifecycle` | abstract: the life of an order as the model declares it, one step per event |
| `Payments` | the requests that pay, decline, cancel and refund, transaction by transaction |
| `PaymentsProofs` | theorems about `Payments` |
| `CodeBook` | codes, kinds, users; shared |
| `CodeLifecycle` | abstract: the life of a code as `ticket_code.rb` and the forms' messages declare it |
| `Activation` | the requests that create, delete, activate and cancel codes |
| `ActivationProofs` | theorems about `Activation` |
| `Pricing` | the price list and the arithmetic of discounts, as operators |
| `Ordering` | `CreateOrder`, the campaign and coupon forms and the passing of days |
| `OrderingProofs` | theorems about `Pricing` and `Ordering` |
| `VotingPages` | votes on the server, the list of user lectures and the schedule with its filters |
| `VotingProofs` | theorems about `VotingPages` |
| `SumTheorems` | sums over finite sets, for the proofs about counters and averages |
| `Feedback` | marks for a lecture, their average, and the stars on the page |
| `PageQueries` | five pages whose controls ask the server at every change |
| `HallPages`, `PassedRows` | the schedule's columns and buttons; the rows that are over |
| `HallSorting` | halls sorted by dragging, saved one after the other |
| `PageProofs` | theorems about these four and `Feedback` |
| `CSlider`, `Cycle`, `Carousel` | three kinds of slideshow |
| `Modal`, `Collapse`, `Tooltip` | Bootstrap's dialog, accordion and tooltip |
| `WidgetProofs` | theorems about the six |
| `MCPayments`, `MCActivation`, `MCOrdering`, `MCVotingPages` | instances for TLC |
| `MCPageScripts` | the eleven page scripts side by side, for TLC |
| `ScriptProofs` | theorems about the eleven together |

The concrete modules of the server share one shape. `req[w]` is the request that worker `w` serves: `at` names
the next statement of its handler that touches the database, the other
fields are the local variables and loaded attributes it will still use. `Arrive` takes a
request, `Serve` runs the next transaction or read, `Abort` kills the request: committed rows
stay, an open transaction leaves nothing. A step is *one* transaction or one read, which is how far
READ COMMITTED lets two requests interleave here. Definitions that begin with *Mutant:* in
their comment are deliberately wrong variants of the definition that follows them; they are not
part of any specification and serve to confirm that a property notices the error.

### Payments

`payState` is `orders.payment_state`, `holder` and `ticketCode` are the two foreign keys of
the ticket tables (both tables, told apart by `Kind`), `codeState` is
`ticket_codes.state`. `gateway` and `notices` are the payment system: the status it would answer,
and how often it still announces a payment. `returns` counts the browsers that came back to `approve`. `paidBy` and
`mailed` are history.

| Action | Code |
|---|---|
| `PaidNotification` | `payments_controller.rb:7-19` (PayAnyWay) and Yandex.Kassa's `payment_aviso`: load the order, call `ProcessPaidOrder`; repeated until the answer is seen |
| `ApproveBuyNow` | `account/orders_controller.rb:6-15`: a browser returns for a `/buy_now` order, which is processed as paid whatever its state and its payment's (`:12` is a TODO) |
| `StatusRequest` | `account/orders_controller.rb:16-75`: platidoma's other browser returns and `update`, which ask for the payment's status |
| `EventRequest` | `payments_controller.rb:36-58`, `admin/orders_controller.rb:13-20` |
| `CreateCode`, `PayBuyNow`, `EnqueueMail` | `process_order_strategies/buy_now.rb:11-32`, one turn of a loop, `pay!`, the letter |
| `PayRegular`, `FindHeld`, `LinkTicket` | `process_order_strategies/regular_order.rb:9-36`: `pay!`, the `has_one` writer's read, its transaction |
| `StatusAnswer` | `lib/platidoma_helper.rb:67-84` |
| `FireEvent` | the event with its `after_transition` (`cancel_tickets`) in one transaction |

A refused event raises (`pay!`) or returns false (`decline`, `cancel`, `refund`), as in the code.
The letter cannot be lost by Resque: `resque_mailer` delivers synchronously when
redis is away; it is lost only with the request.

### Activation

`ticketCode[t] = NoCode` is a ticket row that does not exist yet; `Sold` are the tickets and codes of one
paid visitor's order, so that a refund has something to cancel. `halfDone` is history.

| Action | Code |
|---|---|
| `Activate`, `ReadOwn`, `FindTicket`, `CommitUser` | the form `types/ticket_code_activation_type.rb:11-31`, then `activate_ticket_code.rb:2-16` |
| `ActivateForUser`, `ActivateOnCodePage`, `CheckVacant` | the administrators' two forms (`admin/users#activate_code`, `admin/ticket_codes#activate`) |
| `FindNewCode`, `ReadOwn`, `CommitAdmin` | `admin_ticket_activation_service.rb:6-26` |
| `CancelTicket`, `CancelCode`, `ReleaseTicket` | `admin/users_controller.rb:55-66`, `Ticket#cancel`: two transactions |
| `Refund` | `Order#cancel_tickets`, inside the event's transaction |
| `DestroyRequest`, `DestroyCode` | `admin/ticket_codes_controller.rb:31-39`, refused by the foreign keys `db/schema.rb:371-381` |

Two details matter. The form asks `user.ticket`, which caches nil: the writer `user.ticket =` therefore
does not look again whether the user has a ticket. And a canceled code passes the form (it refuses only
active ones) but `activate!` raises for it and the transaction rolls back.
The call of Google Analytics inside the transaction is rescued and changes nothing.

### Pricing and Ordering

Days are told apart only by the price changes between them (`Days`, 0 to 5). Prices are whole roubles, so
`(x / 100.0).ceil` is exact and `CeilPercent` is it on integers. The module keeps the quirks: a
campaign's discount above the full price becomes 0, `Campaign.suitable_for` takes the first by
primary key, a campaign's counts may be NULL (`AnyCount`).

`Ordering` has one action per commit of `CreateOrder.call`: the order (`CreateOrder`), each ticket at the
price of its moment (`AddTicket`, `AddPartyTicket`), the choice of a campaign (`FindCampaign`), the cost
(`PriceOrder`), the count (`CountItems`). The campaign form validates in `CampaignForm` and saves in
`SaveCampaign`, whose UPDATE sets only the columns that differ from what was loaded (`Merge`). `edited` is history: the
orders whose campaign or coupon was changed after, or while, they were priced.

### VotingPages

`rows` are the rows of `lecture_votings`, `counter` is `lecture_votings_count`, `reqs` what is in flight from any
browser, `page` what the visitor `Me` sees (`ListPage` is `web/user_lectures/_lectures.html.haml:27-39`). A request of the server takes three steps, since `vote_by` and
`unvote_by` read before they write:

| Action | Code |
|---|---|
| `Check`, `Insert`, `Find`, `Destroy`, `DestroyGone` | `voting_extension.rb:9-19`: `voted_by?`, the insert, the second look-up, `destroy` of a row that may be gone |
| `ListMine` | `api/events_controller.rb` `my_programm` |
| `ClickVote`, `ListAnswered` | `web/user_lectures.js:35-65` |
| `ToggleMy`, `MyAnswered`, `ToggleFilter`, `ClickLecture`, `LectureAnswered` | `web/schedules.js:9-113` |
| `Open`, `Forget` | a page is left: its requests are served, its answers are read by nobody |

`overlapped` and `crossed` are history: two requests of one user for one lecture interleaved between read and write; the
visitor clicked while an answer was out. They name exactly the cases in which the code promises nothing: a double
click does count twice.

### The other pages

`PageQueries` has one control with a setting and numbers its requests. An answer brings one part of the page (`pqAnswer`); the
callback takes another part from the control as it is by then (`pqHere`): ticket prices in `promo.js:72-106`, the address in
`lectures.js` and `user_lectures.js`. `Feedback` takes `find_or_initialize_by`, `save`, the sum and the count as
separate steps, and counts averages in tenths; the page as rendered truncates the average with `parseInt`, the
callback rounds it. `HallSorting` loads (`FindHall`) and saves (`SaveHall`) one hall after the other, and a save writes
nothing when the position is the one loaded; a hall that is deleted meanwhile raises and stops the request (`SortFails`).
`hsAlone` is history: the request that has run since its first hall with no step of another in between. `HallPages` keeps
the class `page-N` per day, but buttons and columns for both days, as `script2.js` selects them; with one activated
hall, `hallPages()[1]` is missing, and to show it hides the columns and throws. `PassedRows` is `hidePassedForHalls`, with the day's programme
chosen freely among programmes whose lectures do not overlap within a hall.

### The widgets

Each models its timers and its one-shot handlers as variables of their own, because the hazards are their crossings:
`csTimers`, `cyHandle` and `cyLeaks` (a timeout that `cycleTimeout` no longer refers to), `caHandle`, `caLeaks`,
`caSlid`, `moHooks` (handlers of a transition end), `moTimers`, `moCallback`, `moRemoving`, `ttTimers`, `ttRemovals`. A click or
call, the expiry of a timeout and the end of a transition are actions; a browser may lose the end of a transition
where the code provides for it (`MoElementLost`). `CyGo` is `go()`, `CyAdvance` and `CyPager` the links, `MoShow` and
`MoHide` are `show` and `hide`, `CaSlide` is `slide`, `CoToggle` the data-api of `collapse`.

`CaRefuse` are the early returns of `slide`, for the only item or when a handler prevents the event: `sliding` is set and
the interval cleared by then, for good (`caRefused` is history). `cyFx` are the animations of each slide of a cycle show
whose option `sync` is off, in jQuery's queue: a slide fades out first and then lets the other one fade in (`CyFxEnd`),
and a click that trumps runs the ends of those it finds, slide by slide (`CyEnded`, `CyFxLeft`).

Three assumptions are about time, each from two constants of the code or the style sheet: a timeout of 0 comes before
a transition of 600 ms ends (`CaTransitionEnd`); a backdrop, 150 ms, has faded in before the 500 ms of a later hide are
over (`MoTimer`); and the two slides of a cycle show fade for the same time (`speedIn` = `speedOut`, which one option
sets), so that with `sync` they end together. Timers of one element otherwise expire in any order.

The pages under `html/` use the cslider and the navigation's collapse; they include `bootstrap.js` and `cycle.js` whole, of
which carousel, modal, tooltip and cycle show are hardly used at this commit. They are modelled as the
repository ships them, with the calls their data attributes and plugins offer.

**Why one script at a time.** `MCPageScripts` chooses one of the eleven scripts at the start; the others stay as rendered. They
have no variable in common, so a joint behaviour is a shuffle of separate ones, and every property of the run speaks of
one script (`OneSlideShown` of three, conjunct by conjunct). Each module has its own specification (`PqSpec`, `CSSpec`, ...).
The theorems are about these, and `ScriptsImplementEach` carries them over to the composition.

## What TLC checks

| Run | Workers | Properties | What it shows |
|---|---|---|---|
| `payments_buy_now` | 2 | `TypeOK`, `CodesBeforePaid` | a visitor's order made paid by BuyNow, or whose letter is sent, has a code on each ticket, with repeated notifications, browser returns in any state, crashes, refunds and cancellations in between |
| `payments_serial` | 1 | `OneTicketPerKind`, `HeldIsPaid`, `HeldWasPaid`, `ImplementsLifecycle`, `PaymentSettles` | requests one after the other, that may die half way, refine `OrderLifecycle`; nobody holds a ticket of an order that was never made paid; under fairness, an announced payment settles its order |
| `activation_two` | 2 | `TypeOK`, `HeldWasActivated` | the code of a held ticket was activated with it, and cannot be deleted from under it |
| `activation_serial` | 1 | `OneHolderPerCode`, `OneTicketPerKind`, `HeldIsActive`, `ImplementsLifecycle` | requests one after the other refine `CodeLifecycle` |
| `ordering_two` | 2 | `TypeOK`, `ReportAddsUp`, `PricedWhole`, `CampaignApplies` | priced orders are whole, charged for whole sets of their campaign, and their report adds up, while terms are edited, days pass and requests die |
| `ordering_campaigns` | 1 | `CampaignsDisjoint` | campaign forms one after the other keep campaigns apart |
| `voting_pages` | 2 in flight | `TypeOK`, `CounterIsRows`, `OneVoteEach`, `ListShowsVotes`, `ScheduleShowsChoice` | the cached counter is the number of rows however requests interleave; both pages, once the answers are in, show the visitor's votes |
| `page_scripts` | - | `TypeOK` and the properties of the next table | each script, used in any order, comes to rest as its state says |

| Property of `page_scripts` | Module | What it says |
|---|---|---|
| `AnswerIsOfChoice` | `PageQueries` | if the request sent last is answered last, every part of the page is of the control's choice |
| `MarksCountOnce` | `Feedback` | each user counts once, with the last mark; an answer nothing was saved after is the exact average, in number and stars |
| `SavedAsShown` | `HallSorting` | the last order, processed with no step of another request in between, leaves the order of the list, whatever requests that overlapped, failed or came late had left |
| `ColumnsAreAPage`, `PhoneButtons` | `HallPages` | the screen shows one page of its width, and on a phone every hall can be reached, but for a schedule of one hall |
| `NoRunningHidden` | `PassedRows` | the row in which a lecture begins stays until the lecture is over |
| `CSOneSlideshow`, `EverySlideShown` | `CSlider` | one timeout while it plays, none after; and then every slide is shown |
| `CyOneTimeout` | `Cycle` | never two timeouts in a show that is `CyOrderly`: `sync` is on, or no click trumps |
| `CyKeepsGoing` | `Cycle` | a show that wraps never stays on a slide, `sync` on or off, unless `cyPause` is not 0 |
| `WaitingToIsWoken` | `Carousel` | a `to()` that waits for `slid` does not wait in vain, until a slide is refused |
| `OneSlideShown` | all three | one slide is displayed at rest, the one the counter and dot name; in the cslider without CSS animations only the dot is compared, a refused carousel keeps one item but may be `sliding`, and of the cycle shows those are meant that are `CyOrderly` |
| `ModalSettles`, `ModalHides` | `Modal` | a dialog not hurried rests with one backdrop or none; a hidden one leaves the screen, unless two calls or more came during fades |
| `OnePanelOpen` | `Collapse` | an accordion never has two panels open |
| `TipFollows` | `Tooltip` | at rest no tip is left behind the pointer |

Four runs end in a counterexample; each contradicts a line of the repository:

| Run | Property | Counterexample |
|---|---|---|
| `payments_lost_update` | `ImplementsLifecycle` | a request loads the order unpaid, another one makes it paid, the first one declines it: `order.rb:49` allows that from unpaid only |
| `payments_delivery` | `PaidIsDelivered` | the worker dies after `order.pay!`; the repeated notification raises in `pay!`, and the ticket is never linked (or the letter that the success page promises never sent), against `process_paid_order_test.rb:9` and `success.html.haml:18` |
| `activation_twice` | `OneHolderPerCode` | two users submit one distributor's code at the same moment, nobody else does anything (`UsersOnlySpec`); both forms read the code as new, both find no ticket of it, and both get one instead of «Код уже был активирован» |
| `activation_revived` | `CanceledIsFinal` | a refund cancels the code between the form and `activate!`, which makes it active again |

With two workers `CampaignsDisjoint` is violated as well: two campaigns saved at once do not see each other. No line
of the repository speaks of that case, so it is no run of its own.

**Bounds.** Payments: a notification is delivered at most twice (`MaxNotices`; once in the runs with two workers), one browser returns
(`MaxReturns`), one request dies (`MaxAborts`), one order of three tickets or two orders of one user. In `payments_buy_now` the notification and
the return each process the order once, so that the second pass of BuyNow is one or the other, at the same time or
later, before or after a payment, a cancellation or a refund. The serial run has no `/buy_now` order and no return. Every hazard on the list is a
conflict of two requests over one order or one user, so two workers and two orders contain it, and a second
delivery is the first one that finds the order paid. Activation: two
users, one or two distributor codes, one sold code and one for the party, as many ticket rows as codes and
one more, since an administrator's activation of a sold code inserts a second row for it. With two workers
the party code is left out: kinds do not interact except through `OneTicketPerKind`. Ordering: campaigns of
the three forms that `Rate` distinguishes (both counts, one, none), one with a discount above the price of
the cart; coupons with a rounding and of 100 %; a day boundary across which prices change. The campaign runs use all ranges over
three days. There is no bound on the number of steps: clock, ids and rows are finite.

VotingPages: two lectures of two sections, one other user, who votes on one of the lectures (`Popular`), two requests in flight
(every conflict is between two), two clicks per visit (`MaxClicks`) and any number of visits. PageQueries: three choices, four
changes (`MaxSends`), so that two answers can be overtaken and the last one still come last. Feedback: marks 2 and 5, whose
average has a half to round, two requests at once (`FbFlights`), three clicks (`FbMaxClicks`). HallSorting: two halls, three drops
(`MaxDrops`): two orders that overlap or stop and leave two halls with one position, and the one that repairs it. Nothing tells the halls
apart, so the list begins in one order. HallPages: 1, 2, 3 and 5 halls: no second page, equal pages, a second page of one hall,
and more halls than a middle screen has pages. PassedRows: four rows, two halls, all programmes and times. CSlider, Carousel, Cycle:
three slides, the least number with a slide that is neither before nor after. The modules allow one item and two slides as well, and
a slide may be refused at any time, as the only item always is. The cycle shows (`MCShows`) have every order and end, and `sync` on and
off with and without a trumping click; `CyMaxClicks` = 3 is a trump, its correction and one
more; `MaxQueue` and `MaxLeaks` = 2 are one wait or leaked interval and another one. Modal: `MaxHurry` = 2 calls while a
fade is under way, of which `ModalHides` allows one. Two are too many for it: after hide, show and hide within the first fade, its end
closes the dialog and clears both timeouts, and then the backdrop of the show has faded in and its callback, which does not look
at `isShown`, opens the dialog for good. `MaxFades` = 3 hides of a tooltip under way.

**Deadlock** is checked in the runs of the server's three modules: in every state some request can arrive. It is not in
`voting_pages` (all clicks of a visit may be used up and both pages idle) nor in `page_scripts`: a script without a timer
comes to rest, and bounded clicks are then used up.

**Fairness on the server.** Only `PaymentSettles` (and the counterexample `payments_delivery`) need it. `WF(Serve(w))`: unicorn runs a request it
took to its end unless it is killed, and kills are bounded by `MaxAborts`. `SF(PaidNotification)`: the payment system
repeats a notification until it sees SUCCESS, and unicorn's backlog hands it to a worker that becomes
free again and again; while a worker is busy the action is disabled, so weak fairness would assume
nothing. Nothing is assumed about visitors, administrators or the payment's outcome.
With two workers `PaymentSettles` is violated in the same way as `ImplementsLifecycle`, by a stale decline.

**Fairness in the browser** (`BrowserFairness`, for `EverySlideShown`, `ModalHides` and `CyKeepsGoing`): a timeout that is
pending expires (`WF(CSTimer)`, `WF(MoTimer)`, `WF(CyTimeout)`) and a transition that runs ends (one condition for the slider's, one for
the dialog's, one for its backdrops', one for the cycle show's transitions and animations); both are the browser's to do,
and weak fairness is enough, since nothing but the script itself takes them back. The visitor, the program's calls and the
server owe nothing. `CyKeepsGoing` counts on the visitor not clicking for ever, which `CyMaxClicks` states.

**One worker.** The runs and theorems called serial say what the code guarantees while requests about the
same rows do not overlap (`Serial`: any two workers are equal). They still include crashes and
repeats. Together with the counterexamples for two workers they locate each problem: it is the
interleaving, and not the handler, that breaks the property.

## What is proved

All theorems are proved for arbitrary sets of orders, tickets, codes, kinds and workers, which may be infinite, for any finite sets of
users, requests, halls and backdrops where something is counted or listed, and for any numbers of slides, items, panels, rows
and bounded events. They rest only on the named assumptions of the modules, which TLC evaluates for the instances: NULL values are not
rows; foreign keys point to rows; what a form lets through; a cycle show has more than one slide (`cycle.js:80` starts no other); a schedule has a hall and a carousel an item; a bound
(`MaxReturns`, `MaxSends`, `MaxDrops`, `MaxHurry`, `MaxLeaks`, `MaxFades`, `FbMaxClicks`) is a number and a mark is one of 1 to 5. `ScriptAssumption` says that the states in which
`MCPageScripts` leaves the scripts that are not in use are initial states of theirs.

- `PaymentsProofs`: `TypeCorrect`; `CodesBeforePaidAlways` and `HeldWasPaidAlways` for any number of workers; with
  `Serial`: `OneTicketPerKindSerial`, `HeldIsPaidSerial` and `LifecycleImplemented`, the refinement.
- `ActivationProofs`: `ActivationTypeCorrect`; `HeldWasActivatedAlways` for any number of workers; with `Serial`:
  `OneHolderPerCodeSerial`, `OneActivatedTicketSerial`, `HeldIsActiveSerial` and `CodeLifecycleImplemented`.
- `OrderingProofs`: `CostIsWhatReportShows`, `CostAtMostFull`, `SuitableApplies`, `CommissionWithinCampaignPrice`, for all campaigns,
  coupons and numbers of tickets; `OrderingTypeCorrect`, `ReportAddsUpAlways`, `PricedWholeAlways` and `CampaignAppliesAlways` for any
  number of workers; `CampaignsDisjointSerial` with `OneWorker`.
- `VotingProofs`: `CounterIsRowsAlways`, `OneVoteEachAlways`, `ListShowsVotesAlways`, `ScheduleShowsChoiceAlways`, `VotingTypesAlways`.
- `PageProofs`: `AnswerIsOfChoiceAlways`, `ColumnsAreAPageAlways`, `PhoneButtonsAlways`, `SavedAsShownAlways`, `NoRunningHiddenAlways`,
  `MarksCountOnceAlways`, and the type invariant of each of the five modules.
- `WidgetProofs`: `OneSlideshowAlways`, `OneCurrentAlways` (CSlider); `OneItemActiveAlways`, `WaitingToIsWokenAlways` (Carousel);
  `OneTimeoutAlways`, `CurrentShownAlways` (Cycle); `ModalSettlesAlways` (Modal), `OnePanelOpenAlways` (Collapse), `TipFollowsAlways`
  (Tooltip), and the type invariant of each of the six modules.
- `ScriptProofs`: `ScriptsImplementEach`, the composition implements all eleven specifications; from it `OneSlideShownAlways`,
  `ScriptTypesAlways` and `ScriptInvariantsAlways`, which are all the invariants that the run `page_scripts` checks.
- `SumTheorems`: no property of the code; what the sums in `CounterIsRows` and `MarksCountOnce` do when one summand changes.

**Arguments.** `CodesBeforePaid` is not inductive: one must know that the loop of BuyNow has coded every ticket
it is done with, and that nothing ever takes a code off a ticket (a second run of the loop, for a repeated notification or a
browser that returns, replaces it). `CodesInv`
says both. `HeldInv` adds to `HeldWasPaid` that a request that links has paid before; no event undoes `paidBy`.
With requests one at a time `SerialInv` adds `Fresh`: what the running request read is still so. That is
exactly what two workers break.

In `Activation` the strengthening for any number of workers is `UsedInv`: the code of every
ticket row exists, the code of a held ticket is active or canceled, a sold ticket keeps its code, and whatever a
request remembers is still about existing rows (`Sound`). Codes never go back to new, and a code with a ticket is
never deleted, which makes it inductive. `SerialInv` adds `Current` for the running request: the state it
loaded the code with, that the form found no ticket, that the ticket to be replaced is still the user's. The
refinement then maps `CommitUser` to `Redeem`, `CommitAdmin` to `Redeem` or `Replace`, both halves
of `cancel_ticket` to `Cancel` and `Release`, and every read to a stutter; the owner of a code is the user of its one held ticket.

In `Pricing` the point is that the second `if` of `recalculate_cost` is dead: the campaign's discount is at most the full price because a
larger one is dropped, and the coupon takes at most what is left, since a percentage rounded up never exceeds the sum it is
taken from.

In `Ordering` the strengthening `OrderingInv` has three parts beside the types. `Creating`: a running `CreateOrder` has made as many
tickets as its place says, and no two requests make tickets for one order. `Charged`: the full price of an order lies between
what its tickets cost on the day it was created and what they cost today; prices never fall, and this is where
a day that changes in the middle of a request is absorbed. `Settled`: an unedited order's campaign exists, applies, and gives what was
charged; that the campaign's discount is its amount for a number of whole sets, never more than the order has, is arithmetic
about `Rate`. `edited` is needed because the report computes with today's terms. `CampaignInv` adds, for one worker, that
a form that has passed its collision check still fits what is saved (`FormsFit`).

`VoteInv` says that a request that has found a row finds it there (`FoundIsThere`), and, while no two requests
of a user overlapped, that what a request read is still so (`ReadIsSo`). `PageInv` adds what a page waits for: with `crossed` false at most
one answer is out, and the page differs from the rows by what that answer will say (`Waited`). The lecture counts need no
induction, since the page is compared with what it was rendered with.

`CounterIsRows` holds although two requests delete one row at the same moment, because the second delete removes nothing and
decrements nothing; as an invariant (`CounterInv`) it needs no strengthening but the types. That one row more or less changes the
sum over all users by one is `TotalChange` of `SumTheorems`. The type of the rows does need one: they are bounded by
the requests there can be, since each row took a request that found none, so `RoomInv` counts the rows of a user for a lecture
together with the requests that are about to insert one.

**Sums.** The provers have no induction rule that takes a predicate. `SumTheorems` states induction for sets instead: a set of
numbers that has 0 and each successor has them all (`FromZero`), and a set of subsets of a finite set that has a subset whenever it has
it without any one element has them all (`BySize`). A fold over a set is unfolded once into a function that adds one
element after the other (`Adds`), such a function exists and is unique, and the rest (`TotalSplit`, `TotalChange`, `TotalBound`, `TotalOnes`)
follows from `BySize`. `FoldIsTotal` is the same for the folds over sequences.

`MarkInv` says what a mark's request has read: the row it found is the user's only one, with the mark it loaded, unless
two requests of one user overlapped; and a sum that nothing was saved after is the sum of the rows. The average that is loaded
next then divides by the count of the same rows. That an average never exceeds 5, so that stars can show it, holds also
when a mark is saved between the two queries: rows are never deleted, so the count can only have grown.

In the shows, one invariant ties the handle to the state: in a `Cycle` show that is `CyOrderly` a live timeout exists only between
transitions and the handle refers to it, so that every clear reaches it; with `sync` off and no click that trumps, a transition that
runs is exactly one animation in one queue, of the slide that goes out or then of the one that comes in. The counter of nested pauses (`cyPause`) fits what hovering and the calls can
have added to it (`PauseFits`: without it the counter has no bound). In `Carousel` the handler of the transition's end holds the active
item, and until a slide is refused a call that waits implies a transition or a pending `slid`. `PanelInv` is that at most one panel is open; `show` asks the first open
panel only, which is then all of them. `ModalInv` names the five phases of a dialog that is not hurried and shows that
each end of a fade leads to the next one; any call during a fade leaves them, and so the theorem is about `moHurry = 0`.
`ModalTypes` adds to the types that without transitions nothing is ever under way. `TipInv`
counts handlers and timeouts of hides and says when a tip in the page will leave or may stay.

`QueryInv` is that the request with the highest number carries the control's choice. `ColumnsInv` ties pages,
columns and buttons together over all widths, the second page of a single hall included. `SortInv`: every list and every request holds each hall once, and of the order of
the request that runs alone (`hsAlone`) the first `done` halls have their positions, and the next one still has the position it was
loaded with, so that a save that writes nothing has nothing to write; the lemmas `Removed`, `Inserted` and `MovedOrder` show that a drop
permutes the list. `RowsInv` rests on `KeptRows`: what keeps a hall's rows has begun, and a running lecture keeps its own row
or an earlier one, so that the highest row of all halls is above no lecture that is not over.

In `ScriptProofs` a step of the composition is a step of one script while the other ten stutter, and a script that is not in use starts in
one of its own initial states. So the composition implements each specification, and its invariants are those of
the parts; `OneSlideShown` is the conjunction of `CSOneCurrent`, `OneItemActive` and `CyCurrentShown`.

**Only model-checked:** the liveness properties `PaymentSettles`, `EverySlideShown`, `ModalHides` and `CyKeepsGoing`, since fairness and ENABLED
are outside TLAPS; and the four counterexamples. The invariants and refinements that hold with one worker
only (*serial*) are proved from `Serial` or `OneWorker`; nothing is claimed of them without it.

## Not modelled, and why

Signatures, amounts and currencies of notifications; Yandex.Kassa's `check_order`; redirects, flashes and
pages; Google Analytics; how codes and users are spelled and found. The stub user of the code page is a user
without tickets. `ticket_id` collisions between the two ticket tables (`admin/users_controller.rb:58`) need
the ids of both tables. Social sign-in, mail templates, shop synchronisation, content pages, exports and views
change single rows or none.

Votes for listeners and events have the same extension and no page of their own. `FeedbacksController#destroy` calls
`unvote_by` on an association without it and always raises. Of `script2.js` the place of the time line, heights of cells and
the link `.show_passed` (which is hidden once and never shown again) are left out. Of `bootstrap.js`: alert, button, dropdown,
popover (a tooltip with other content), scrollspy, tab, typeahead and affix. Of `cycle.js`: continuous shows, `addSlide`, a
second start on the same element, `timeoutFn`, different speeds in and out, and the effects and sizes. `purl.js` is a library's parser of addresses.

Known behaviour that the models contain and no property forbids, since no line of the repository promises otherwise: `cycle()` of the
carousel does not clear the interval it replaces (`caLeaks`); `advance()` at the end of a show that does not wrap leaves
`nextSlide` outside the slides, and the next timeout or resume raises (`cyDown = "error"`); a tooltip shown while an earlier hide
is not complete is taken away under the pointer (`ttCrossed`); an answer that overtakes the one to the last change leaves the
older total on the page. Further:

- A repeated notification, or any browser that returns to `approve` (no sign-in, no question to the payment system), gives the tickets
  of a `/buy_now` order new codes before `pay!` raises for an order already paid, canceled or refunded: the codes that were mailed
  belong to no ticket then. An order that nobody paid is paid by such a return.
- A `/buy_now` order whose status is asked for with `update` is paid as a user's order and gets no codes (`paidBy` = "regular").
- Two orders, codes, votes, marks or campaigns of one user at the same moment each see nothing of the other; what is claimed of them is
  claimed for requests that do not overlap, or excepts the user concerned.
- A ticket whose cancellation died half way keeps its user and a canceled code, and a second row of a sold code is not
  looked at by the refund (`HeldIsActive` excepts both).
- With one activated hall the schedule's next button is open on narrow screens, and hides the only column (`hpShown` = {}).
- A hall of the list that was deleted makes every later order stop there.
- Two calls during the fades of a modal can leave a closed dialog on the screen (`moHurry` > 1).
- A carousel that refuses a slide stays `sliding`: its arrows, its interval and a waiting `to()` do nothing any more (`caRefused`).
- A cycle show with `sync` off that a click may trump: the incoming slide's animation starts when the outgoing one is stopped
  (`cycle.js:634, 993`), is not stopped itself, and its end queues a second timeout. The show then runs at double speed, and two
  slides may be displayed between transitions; it still keeps going.
- The call `resume` under the pointer and then the mouse's leaving make `cyPause` -1; the show then moves
  only while the pointer is over it, until it is called again.

The remaining components of the inventory are in the plan.

## Plan

1. *Done:* `OrderBook`, `OrderLifecycle`, `Payments`, with proofs. The money first.
2. *Done:* `CodeBook`, `CodeLifecycle`, `Activation`, with proofs.
3. *Done:* `Pricing`, `Ordering`, with proofs of the arithmetic and of every property.
4. *Done:* `VotingPages` and `Feedback`, with proofs for the votes, the counter cache and the marks.
5. *Done:* the pages (`PageQueries`, `HallPages`, `PassedRows`, `HallSorting`) and the widgets (`CSlider`, `Cycle`, `Carousel`, `Modal`,
   `Collapse`, `Tooltip`), with proofs of their safety properties and types, each and composed.
6. `Ticketing`: `Payments` and `Activation` composed over one set of ticket rows and codes. A mailed code is
   activated while notifications repeat (BuyNow gives a held ticket a new code), an order paid by hand, an order without a cost.
   Properties: a code that was mailed stays redeemable until the refund; at most one holder per sold ticket.
   Two visitors' orders, two users, two workers.
7. `ActivationThrottle`: the counter of ten attempts in ten minutes, with two browsers of one user. Serial: at most ten attempts
   between two clearings; a violation for the user who is never counted.
8. `UserAccount` with users lists and Timepad: account states, tokens, acceptance of a list with crashes, and the synchronisation job
   with a liveness property under a recovering remote service.
