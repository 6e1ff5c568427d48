# Verification of the Onsys web site platform

TLA+ models of the protocols of this repository that are hard to test, with
model checking (TLC) and proofs (TLAPS). The repository is a monorepo: an
Express API over PostgreSQL (`apps/api`), a Next.js site (`apps/web`), shared
schemas (`packages/shared`), infrastructure and end-to-end tests. The API is one
Node process: handlers interleave only at `await`, they share nothing in memory,
and everything they agree on is in the rows of the database or at an outside
service (Microsoft Graph, Stripe, Teams, the web app's cache, the volume of
CVs). A browser or a worker of the site adds its own state, which is a copy of
something that moves on without it. That is what the models are about: **each
`await` that touches what is modelled is a boundary between two actions**.

## Inventory

| Component | State | Operations | What is hard | What makes it correct | Module |
|---|---|---|---|---|---|
| Consultation booking (`services/booking.service.ts`, `routes/booking.routes.ts`) | `bookings` rows under a partial unique index; events on the consultant's calendar | book, cancel | free/busy is checked before the insert and stale by then; answers of Graph are lost and calls repeated; any step fails | one active row per slot; a confirmed booking keeps its event; no double event | `Booking`, `SlotLedger` |
| Booking grid (`booking.service.ts:60-296`, `lib/timezone.ts`, `BookingWidget.tsx`) | the picker's grid; rows and events | offer times, accept a time, reload | two ways of counting the horizon, which part on its last day; a change of the offset; the calendar moves meanwhile; the index knows equal starts only | what is offered is accepted; bookings keep the hours and stay apart | `BookingGrid` |
| Emergency support (`routes/emergency.routes.ts`, `services/stripe.service.ts`) | `emergency_requests` rows, leads; sessions at Stripe | request, checkout, status, webhook | several sessions of one request; webhooks repeated, reordered, lost after the acknowledgement | PAID and receipts are backed by money and not repeated; PAID is not undone by an expiry | `Emergency` |
| Chat gate (`chat.routes.ts:37-207`, `lib/otp.ts`, `ChatWidget.tsx`) | code, attempts and times in the session's row; the widget's phase | start, verify, resend | read-then-write of the row; a request that was given up goes on | one greeting; one code a minute; who goes on gets in | `ChatGate` |
| Live chat (`routes/chat.routes.ts`, `services/teams.service.ts`, the console's reply) | the session's row, its messages; cards and threads in Teams | message, escalate, close, reply, poll | double clicks, tabs and messages escalate at once; cards that were posted and reported as failed; polls that overlap | one handoff at a time; a conversation that waits has a card or a handler at work, unless that handler died; replies reach the log | `Chat` |
| Chat widget (`ChatWidget.tsx`, `lib/chatMessages.ts`) | the list of messages, the status and the newest time seen, in a browser | open, send, press, poll, merge | answers overtake each other; replies are stored with an earlier time than the newest one shown | every message is shown, once; a conversation the team has is watched | `ChatWidget` |
| Enquiry forms: contact, plan, health check, on-call (`lead`, `healthcheck`, `oncall` routes, `middleware/security.ts`, their forms) | leads, enrolments, grants; captcha tokens | submit, submit again | mails after the answer; answers lost; a repeat is looked for before the insert; a token is good for one submission | what was answered is stored; the team is told; a repeat is noted | `Intake` |
| Job applications and CVs (`routes/application.routes.ts`, `services/cvStorage.service.ts`, parts of `routes/admin.routes.ts`) | applications' rows, adverts, files on a volume | submit, erase, download, delete an advert | file and row are written apart; either step fails; erasures race | an accepted application keeps row and CV until it is withdrawn; an erasure whose calls all went through leaves neither | `Applications` |
| Publishing and caching (`routes/admin.routes.ts`, `services/revalidate.service.ts`, `lib/content-changed.ts`, `routes/content.routes.ts`, web `lib/api.ts`, `api/revalidate`) | pages, posts, jobs, case studies, authors; cached copies in the web app | create, save, publish, delete, rename an author; purge, fetch | read-then-write saves overlap; purges are lost or overtaken by a fetch | dates stay true; a stale copy has a purge on its way or a known reason; readers catch up | `Publishing` |
| Visits (`web middleware.ts`, `legacyQuery.ts`, `attribution.ts`, the redirects of the console) | the table of redirects, a map in each worker, the session's record | open, follow, navigate, edit, fetch | workers with maps of different times; static, dynamic, slash and query redirects in a row | the middleware adds no loop to those of the table; the campaign survives the redirects; edits take effect | `Visit` |
| Sign-in (`auth.routes.ts`, `middleware/auth.ts`, console login and profile pages) | the user's secret, challenges, sessions | login, second factor, set up, turn on and off, change password | read-then-write of the secret, in two windows; challenges that end while the page waits | a factor in use is one that was scanned; nobody is locked out | `SignIn` |
| Review of applications (`admin.routes.ts:1371-1426`) | status, date, notes | set status, set notes | read-then-write of one row | the date is that of a change | (erasure, download: `Applications`) |
| Console records | their rows | single writes and transactions | little: transactions decide | a reorder is all or nothing | - |
| Assistant (`rag.service.ts`, `lib/escalation.ts`) | embeddings | answer | a model's answer is free | a free choice in `Chat` | - |
| Email, middleware, process, pure libraries, shared package, web pages, seeds, infrastructure | - | - | - | see "Not modelled" | - |

The components interact through the rows of the database (a deleted advert
deletes applications; an emergency request writes a lead), through messages
that may be lost (webhooks, purges, cards, mails) and through polling. No two
modules write the same column, except that `BookingGrid` has the row and the
event of a booking that succeeds, `Booking` all that may become of it;
`ChatWidget` has of the handlers of `Chat` what they store, when, and what they
answer; and the rows `ChatGate` opens are those `Chat` begins with. Hence they
are separate modules, which keep their instances small. `PROJECT.json` lists
every component with its status, and under "hazards" what can go wrong in this
code, at which line, and the property that would catch it.

## Modules

| Module | Models | Lines |
|---|---|---|
| `SlotLedger` | abstract: a slot is held by one, released, held again | 38 |
| `PaymentLedger` | abstract: money, its record, the receipt of the record, failed checkouts | 60 |
| `Custody` | abstract: whose a conversation is, who claimed it, whether the team was told | 61 |
| `Booking` | `createBooking`, `cancelBooking`, the two routes, Graph, the network; implements `SlotLedger` | 483 |
| `BookingGrid`, `MCBookingGrid` | the wall clock, candidate times, `getAvailability` with its two concurrent reads, the checks of `createBooking`, the picker | 312 |
| `Emergency` | `/request`, `/checkout`, `/status`, `/webhook`, Stripe; implements `PaymentLedger` | 440 |
| `Chat` | one conversation, its handlers, Teams, widgets; implements `Custody` | 482 |
| `ChatGate` | `/start`, `/verify`, `/resend-code` and the two screens before the chat | 311 |
| `ChatWidget` | the list of messages against the log; what answers it implements `Custody` | 379 |
| `Intake`, `MCIntake` | four forms, captcha tokens, the handlers behind them | 385 |
| `Applications`, `MCApplications` | submissions, adverts, erasures, downloads, the volume | 339 |
| `Publishing`, `MCPublishing` | the console's requests on an entry and a cached copy of it | 379 |
| `Visit`, `MCVisit` | redirects, workers' maps, the middleware, the credit of a session | 345 |
| `SignIn` | one administrator in several browsers | 362 |
| `BookingProofs`, `BookingGridProofs`, `EmergencyProofs`, `IntakeProofs`, `ApplicationsProofs`, `VisitProofs` | theorems, for every value of the constants, about the module of that name | 4155 |
| `ChatProofs` | the same about `Chat`, `ChatGate` and `ChatWidget` | 3437 |
| `ConsoleProofs` | the same about `Publishing` and `SignIn` | 965 |

`ChatGate`, `ChatWidget` and `SignIn` share a module of proofs with another
model, and its constants and definitions have names of their own for that reason
(`GateSpec`, `widgetVars`, `SignInBoundsAssumption`); they share no variable with it.

How they correspond to the code:

* A run of a handler is a value of a constant (`Requests`, `Checkouts`,
  `Askers`, `Submissions`, `Editors`, ...), or a place in a table of requests
  where a page makes any number of them (`reqs`, `posts`, `gets`), its position
  a value of a `pc` or `step`, its local variables functions of that value. A
  statement of the handler up to the next `await` is one action. A read and the
  write that is computed from it are two actions when an `await` separates them,
  one when it is one SQL statement (`updateMany ... where`, a transaction).
* A column is a variable of the same name where the name allows it.
* An outside service is modelled from how the code uses it: Graph executes each
  POST it receives once per transaction id or loses the call; Stripe delivers an
  event at least once, in any order; Teams posts a card and may lose the answer;
  Next.js keeps a copy for each tag, stores an answer that was fetched before a
  purge, and serves an old copy while it makes the new one; siteverify accepts
  a token once.
* `MaxFaults` bounds the failures of a behaviour (a call that rejects, an answer
  that is lost, a process that dies). The invariants do not depend on the bound:
  the proofs take it to be any natural number. `MaxTurns` (`ChatGate`,
  `ChatWidget`, `SignIn`) bounds all that people and time do beyond the straight
  way, together, and in `Visit` the edits and failed fetches. `Publishing` has no bound, each request failing at most once.
* An operator that is introduced by a comment beginning **Slip:** is a mutated
  form of the definition that follows it, a plausible bug. Nothing uses it but
  the list of mutants in `PROJECT.json`, which names for each property a slip
  that violates it: evidence that the property depends on the code.
* A few variables record what happened and nothing else (`adrift`, `overtaken`,
  `stale`, `early`, `before`, `first`, `loose`, `met`, `alone`, and `fresh` of `BookingGrid`): no
  guard reads one. Properties use them to say *after what* something may be so.

What each abstracts:

* `Booking` starts from a time that is legitimate; a slot stands for a start time.
* `BookingGrid` has integers for times, one change of the offset, and days known
  by number. Of the network it has the order of the two reads, no failures.
* `Emergency` knows of amounts only whose session they came from.
* `Chat` has one conversation, for conversations share no row. The log is there
  as the number of copies made of each Teams reply. The timer of a widget does not
  wait for the answer of its last poll, so a value of `Pollers` is no widget but a
  place for one poll under way: its size is how many are under way at once.
* `ChatGate` numbers codes in the order of their issue; the clock is what the
  rules tell apart: a code is live or not, a row within its minute or not.
* `ChatWidget` has a log of rows with times and a thread of typed replies; texts
  are what the widget compares, one for each kind of message. No two rows,
  or replies, have the same time, so log and list are sets of rows;
  the copies that the widget adds itself, which have no row, are counted by text.
  The order in which the list is drawn is left out.
* `Intake` has one state machine for the four forms; they differ in the order of
  the steps and in when the page asks for a new token. A retry whose first
  attempt goes on at the server is an attempt of its own.
* `Applications` names a CV by its submission, as the code does (a random
  reference kept in the row). What is refused before the first write is left out.
* `Publishing` has one entry and watches one cached copy, which Init chooses:
  an entry's URL, "index" (lists, sitemap) or "profile" (the author's page).
  `DRAFT` stands for `ARCHIVED` too, since nothing tells them apart. A hero page
  is a kind, because its form lacks the photo its fingerprint has.
* `Visit` has URLs of a path, a slash, a page number and what the query holds.
  The editor may enter any redirect from any path, also one that closes a circle
  or that a static redirect shadows: the console looks at neither
  (`admin.routes.ts:938-956`). A browser that gives up after some twenty
  redirects is not in the model: a trip round a circle goes on.
* `SignIn` numbers secrets in the order of their making; a code is the secret it
  was made from. The administrator knows the password throughout. A page of the
  login has one answer to a code and one mail under way at most, side by side, as
  it has a flag for each (`busy`, `emailSending`); a mail that was asked for
  before Start again may still be under way after it.

## Runs

| Run | Instance | Distinct states | Shows |
|---|---|---|---|
| `booking` | 2 requests, 2 cancels, 1 slot, 2 faults | 65 thousand | safety, refinement, liveness |
| `booking_grid` | 2 visitors, days of 10 units with 2 slots, a day of 3 off, 1 change of the offset, a horizon of 1 day of which 2 are asked for, clock 0..6, 1 change of the calendar | 134 thousand | safety, liveness |
| `emergency` | 1 request, 2 checkouts, 2 copies of each event, 2 faults | 111 thousand | safety, refinement, liveness |
| `emergency_one_receipt` | the same with 1 fault | | *finding*: a second receipt for one payment |
| `chat` | 2 messages, 1 button, 1 close, 1 agent, 2 polls at once, 1 reply, 1 fault | 401 thousand | safety, refinement, liveness |
| `chat_gate` | 3 sessions, 2 requests at once, codes burned by 2 wrong entries, 2 turns | 34 thousand | safety, action property, liveness |
| `chat_widget` | 2 messages or presses, 2 reads at once, 1 reply, 2 turns, 4 times, answers of 2 rows | 1.8 million | safety |
| `intake` | 2 health checks of one company or two or of a free provider, or 1 form of any kind; 2 submissions each, 1 fault | 547 thousand | safety |
| `applications` | 2 submissions, 2 adverts, 2 erasures, 1 download, 3 faults | 895 thousand | safety |
| `publishing` | 5 kinds, 2 requests, 2 URLs, 2 contents, 2 names | 531 thousand | safety, liveness |
| `visit` | 2 workers, 3 paths, 2 links from outside, 2 edits or failed fetches in all, any number of page loads | 455 thousand | safety, liveness |
| `sign_in` | 2 browsers, 2 secrets, challenges burned by 2 wrong codes, 2 turns | 238 thousand | safety, liveness |

Why the bounds are enough. Every property relates at most two handlers of a
kind, and each instance has two of every kind that can meet another of its own
(two requests for one slot, two cancels of one booking, two sessions of one
request and two copies of each of their events, three askers, two polls, two
erasures, two editors, two browsers, two workers). Two faults reach what needs a
failure and a failing repair (a POST that is lost, then a row that cannot be
marked). Specifically:

* `booking_grid`: the clock runs from six units before the first slot until it
  begins; the offset grows by one after the hours of the first day, so that
  candidates lie on both sides of it; a meeting ends exactly where a slot
  begins, which the buffer must notice. The horizon is shorter than the days the
  widget asks for, so that the picker offers late times of the last day, which
  are refused. `MCBookingGrid` has TLC evaluate what the theorems ask of a
  calendar (`QuietDay` of every day near the change).
* `chat_widget`: an answer of two rows is shorter than the log can be, so that
  `take` cuts; the reply may be typed before a row that is stored before it.
* `chat_gate`: three sessions, since a visitor who leaves the code's screen twice
  starts a third time; two requests, of which one was given up.
* `intake`: forms meet only in the search for an earlier claim. `MCIntake`
  therefore opens two forms only when both are health checks, and otherwise one
  of any kind, which overlaps with its own repetition.
* `visit`: with two edits a redirect is turned round by deleting it and entering
  the reverse, which gives two workers maps that send a visitor to and fro, or by
  entering the reverse beside it, which is a circle in one map. Edits and failed
  fetches share a bound, since an edit is what a failed fetch can keep from a
  worker. One link names its source in the query, the other by its referrer; what
  a link with tags alone does to a session is covered by the proof. Page loads are
  not bounded.
* `sign_in`: an enrolment that is abandoned takes two secrets; two turns let a
  mail fail, or a code or an attempt expire, on both ways back to the password.

For the invariants and action properties that are proved, size is no question.
`MCApplications` uses symmetry, sound for it has only invariants; `MCPublishing`
has a temporal property and no symmetry, and fixes the first URL, content and
name instead, which are interchangeable. Deadlock is checked in `visit`, which
never rests; in the other runs it is off: when every request has ended and the
bounds are used up the system rests.

## Fairness

* `Booking`, `Emergency`, `Chat`: weak fairness of the steps of a handler that is
  under way. Node runs a callback whose promise settled, and the clients of
  Graph, Stripe, Teams and PostgreSQL settle each call, by a timeout if not by
  an answer. Nobody is obliged to submit, cancel or press. Failures have no
  fairness: they compete with the step they replace.
* `Emergency`: weak fairness of the delivery of a webhook, for Stripe repeats
  an event until it is acknowledged. `Chat`: weak fairness of each poll that is
  under way, and of beginning one: an open widget keeps polling
  (`ChatWidget.tsx:154`, a timer).
* `Publishing`: weak fairness of a fetch (the page has readers, and a copy is
  made anew after 300 seconds), strong fairness of the storing of a copy: a
  fetch may fail (`FetchFails`), over and over, but not for ever. The purge has
  no fairness: readers catch up without it.
* `BookingGrid`: weak fairness of each visitor's page: requests are answered,
  and a visitor who is offered a time takes one. `EndsWell` says that this
  suffices, which is a statement about the picker's reload after a refusal; it
  does not for a visitor who takes a late time of the last day again and again.
* `ChatGate`, `SignIn`: handlers and clocks as above; and a person who insists,
  for "who goes on gets in" is said of nobody else. In `ChatGate` that is weak
  fairness of a start, strong fairness of entering the code of the last mail,
  and weak fairness of asking for another one when the page has said that the
  code is no good. In `SignIn` it is weak fairness of the password, strong
  fairness of asking for another mail where the page offers one (the code of an
  app is asked for, `login/page.tsx:208`) and of entering the code of a mail, and
  weak fairness of Start again (222-235) where the page has nothing else to
  offer: no mail went out, or the attempt has expired. Strong fairness is
  needed where a page is busy with another request in between.
* `Visit`: weak fairness of the middleware, of the expiry of a worker's map
  (5 minutes) and of the site's refetch (its own cache expires). Nobody has to
  open, navigate or edit.
* `Intake`, `ChatWidget`, `Applications`: none; their properties are safety.

## Properties

Each is stated in a comment above its definition, with the lines it is about.
Those that a run checks:

* Booking: `KeptPromise` (a booking the visitor was told is confirmed keeps its
  event until its own cancellation), `OneEventPerBooking`, `OrphansNeedAFault`,
  `ImplementsLedger` (refinement), `EverySettles`.
* Booking grid: `HoursAreKept`, `BookingsAreApart` (two bookings never overlap,
  although the index knows equal starts only), `OfferIsHonoured` (what is
  offered is refused only if something moved, or late on the last day), `EndsWell`.
* Emergency: `ReceiptsBounded` (receipts of a request are at most one more than
  its failed checkouts), `KeepsLedger` (refinement; it
  holds `PaidIsKept`, for only a failed checkout takes a record away),
  `ChargeIsRecorded` (a payment made when its session completes reaches the row,
  unless a handler failed; delayed ones do not, see below), `CaptureSettles` (the
  team is alerted or the attempt failed, also when the lead was not stored; a
  request whose process died is excepted).
* Chat: `SecondCardNeedsALostOne`, `WaitingIsKnown`, `KeepsCustody` (refinement:
  once the team was told, nobody claims or gives back the conversation),
  `ReplyReachesLog`.
* Chat gate: `GreetedOnce`, `NoCodeTooSoon`, `GetsIn`.
* Chat widget: `MissedIsKnown` (only replies stored late, or passed by a reload
  that was overtaken, are never asked for), `HandoffIsWatched`, `TwiceIsKnown`.
* Intake: `AnswersAreTrue`, `RepeatIsNoted`, `SilenceIsExplained`,
  `SpentTokenNeedsSilence`.
* Applications: `AcceptedIsKept`, `OrphanIsKnown` (a file without its row has a
  handler at work on it, lost its row to the deletion of an advert, or one of
  three failures left it: a write torn half way, a removal that failed, a process
  that died), `ErasureIsComplete` (of the erasures whose calls went through).
* Publishing: `DateIsOfContent` (of pages without a photo and posts: the date is
  one at which the content changed to what it is, so that a save of the same does
  not move it), `StaleIsKnown` (a stale copy has a purge on its
  way, or one of four named things happened to it), `ReadersCatchUp`.
* Visit: `FirstTouchIsCredited`, `OneHopForTheQuery`, `TakesEffect`,
  `LoopIsInTheTable` (who returns to an address met two maps, or one that leads
  round), `TripsEndUnlessTableLoops`.
* Sign-in: `FactorIsHeld`, `GetsIn`.

Those that are proved and no longer in a run: the type invariants of the proved modules,
`OneActivePerSlot`, `NoReturn`, `DeletesOwnEventOnly`, `PaidIsBacked`, `PaidIsKept`,
`OneHandoffAtATime`, `OneIncidentCard`, `CopiesBounded`, `ThreadIsKept`,
`TakenBackByReleaseOnly`, `RowHasCv`, `MissingIsExplained`, `PublishedIsDated`,
`FirstDateIsKept`, `AcknowledgedWasMailed`, `WidgetKeepsCustody` (the refinement of
`Custody` that `Chat` has in its run).

## Where code and comments disagree

One is a run, `emergency_one_receipt`, which TLC ends in a counterexample;
`PROJECT.json` quotes under "findings" what the code says of itself. The catch of
`POST /checkout` writes `FAILED` without a condition (`emergency.routes.ts:156`) and
takes `PAID` away; the next copy of the event claims the row again and mails a
second receipt, which 247-248 rules out.

The others are exceptions that a property of a passing run names, or a bound that
is proved:

* Emergency: a session of a delayed payment method completes unpaid, and the
  webhook passes over it (245); the money comes in with
  `async_payment_succeeded`, which it does not handle (227). The customer has
  paid, the row says PENDING for good, no receipt is mailed, although 201-203 has
  the webhook mark a request paid. `ChargeIsRecorded` excepts settled sessions.
* Sign-in: `/mfa/enable` compares a code with the secret it read
  (`auth.routes.ts:349`) and turns on, statements later (362), whatever secret is
  stored by then: that of an enrolment begun in another window, and abandoned,
  which `schema.prisma:630-632` says never becomes a factor. `FactorIsHeld`
  excepts what two handlers did at once.
* Chat: "idempotently copy" (`chat.routes.ts:649`) holds for one poll at a time;
  two that overlap each copy a reply. `CopiesBounded`, which is proved
  (`FewCopies`), has the bound: as many copies as polls at once.
* Publishing: the fingerprint of a page has its header photo
  (`content-changed.ts:58`), the form of a page has none, so that every save of a
  page with a photo moves the date (`admin.routes.ts:142`), against 134-138; and
  every save of a case study does (1584), against `schema.prisma:230-231`.
  `DateIsOfContent` excepts the two kinds.
* Booking grid: "so the horizon day itself remains fully bookable"
  (`booking.service.ts:184-185`) is not so in `createBooking`, which counts hours
  (288): late times of that day are offered, refused, and offered again. The
  defaults of 21 days ahead and 21 days asked for end a day before it shows; a
  shorter horizon (`env.ts:135`) does not. `OfferIsHonoured` and `EndsWell` except
  these times.

Further disagreements and exceptions follow. Some exceptions are wide: a property
that excepts a behaviour with a fault of a kind (`OrphansNeedAFault`,
`SilenceIsExplained`, `NoCodeTooSoon` after a request was given up) says nothing
else of that behaviour.

* Booking: an event whose POST succeeded and seemed to fail stays on the
  calendar after its row has released the slot (`booking.service.ts:357-362`),
  and free/busy then refuses the slot. `OrphansNeedAFault`.
* Booking: the buffer of `env.ts:136` is kept by `getAvailability`, not by
  `createBooking`, which looks at the bare window (`booking.service.ts:294-296`).
* Emergency: the status page says "PENDING" until the webhook lands (166-172),
  but a failed checkout answers `FAILED` for a session that can still be paid.
* Chat: "nobody in trouble goes unseen" (`chat.routes.ts:258-263`): the incident
  is marked as notified before the card is posted (276), and a card that fails is not
  posted again.
* Chat widget: the notice of an incident is stored as `SYSTEM` and answered as
  a reply, so that a poll or a reload shows it a second time. `TwiceIsKnown`
  leaves it out by name.
* Chat gate: `/resend-code` answers `alreadyVerified` without `emailSent`
  (`chat.routes.ts:191`), and the widget then says that no code could be mailed.
* Applications: "Deleting the row deletes the file too" (`schema.prisma:125`);
  the rows an advert takes with it leave their files (`admin.routes.ts:1158`).
  `OrphanIsKnown`.
* Publishing: "the article pages and the index have to be dropped too"
  (`admin.routes.ts:515-516`), while a rename purges the index only; the
  article's copy keeps the old byline until it expires. `StaleIsKnown`.
* Intake: the on-call page shows the price its block was edited to,
  `env.ONCALL_PRICE_CENTS` is what is recorded (`oncall.routes.ts:46`). A health
  check whose token cannot be issued is answered with an error after its lead
  was stored. The contact form does not renew its captcha token after a refusal,
  nor do the plan card and the health check after an answer that was lost.
  `AnswersAreTrue`, `SpentTokenNeedsSilence`.
* Health check: the verification of a download answers 403 either way, "rather
  than distinguishing" (`healthcheck.routes.ts:86-89`), but its text does
  distinguish an expired link from an unknown one.
* Sign-in: the request for another mail of an attempt that has expired is refused
  without leading back to the password (`login/page.tsx:111-121`), as the answer
  to a code does (83-91); Start again (222-235) does at any time.
* Visit: the map of a worker is kept five minutes (`middleware.ts:147`), not
  "for the lifetime of the edge worker instance" (142-144). The console accepts
  redirects that close a circle, on which a visitor goes round until the browser
  gives up, or of paths that a static redirect shadows (`admin.routes.ts:938-956`).
  `LoopIsInTheTable`, `TripsEndUnlessTableLoops`. A
  session whose first link had tags without a source keeps them beside the
  source of a later one (`attribution.ts:147`).
* Console: a new footer link takes the number of links as its place
  (`nav/page.tsx:121`), which after a removal another link may have.

## Proofs

Every invariant, action property and refinement that a run checks is proved.
Every theorem is about the specification without fairness (`Spec`, `GateSpec`,
`WidgetSpec`, `SignInSpec`), for any sets of handlers, slots,
URLs, forms, workers and names and any number of failures. `tlapm` checks every
leaf with Z3, Zenon and LS4. The assumptions are the named ones in the modules:
a "null" value is none of the values it stands apart from (`NobodyAssumption`,
`NoEventAssumption`, `NoSessionAssumption`, `NoThreadAssumption`,
`NothingAssumption`, `SlugsAssumption`, part of `VisitAssumption`), bounds are
natural numbers, where something is counted a set is finite
(`FiniteAssumption`), `CalendarAssumption` (hours are within a day, lengths are
positive), `VisitAssumption` (tables are functions between paths) and
`WidgetAssumption` (an answer has at least one row). TLC evaluates each in a run.
Three theorems have a hypothesis of their own, which their table entries name and
TLC evaluates on the instance: `QuietHours`.

| Theorems | Inductive invariant, and why the property needs it |
|---|---|
| `BookingProofs`: `TypeCorrect`, `PromiseKept`, `Exclusive`, `StatusIsMonotone`, `SingleEvent`, `OwnEventOnly`, `OrphansOnlyFromFaults`, `Refinement` | `IInv` ties each handler's position to its row (`HandlerInv`), a cancel to the token it presents and the event it read (`CancelInv`), and a row to its event (`EventInv`): a cancel's delete is harmless only because what it read before the `await` is of its own booking. `Exclusive` needs that only the insert makes a row active; the refinement follows from the way a step may move a status |
| `BookingGridProofs`: `TypeCorrect`, `GridIsKept`, `HoursKept`, `Apart`, `OffersHonoured` | a request past the checks holds a time of its own day's grid, and so does every row (`OnGrid`). The rest is arithmetic: the search for the offset finds the instant of a wall time (`WallOfUtc`), the hours of a day lie on one side of the change (`HoursOfDay`), two times of a grid are whole slots apart. `HoursKept` and `Apart` assume `QuietHours`: the wall times that the change skips or shows twice are no working hours (a slot on a skipped hour has no instant to be at). `OffersHonoured`: as long as nothing moved, what a page has read is what the checks will read (`UpToDate`, which `FreshInv` says of each page), for any horizon; what remains is the check that counts it in hours, which `OfferIsHonoured` names |
| `EmergencyProofs`: `TypeCorrect`, `Backed`, `Kept`, `FewReceipts`, `LedgerKept` | what a webhook handler read is still so at Stripe (`HookInv`), a recorded charge is of that request and real (`PaymentInv`). `FewReceipts` counts: receipts, plus receipts being written, plus one for a row that may still be claimed, against failed checkouts. `LedgerKept` maps each handler to an action of `PaymentLedger`, a claim to `Record`, a failing checkout to `Fail`; a notice is fresh when it is claimed, for a receipt is of a delivery that is done (`PaymentInv`) |
| `ChatProofs`: `TypeCorrect`, `OneHandoff`, `SecondCard`, `Waiting`, `TakenBack`, `ThreadKept`, `OneCard`, `FewCopies`, `CustodyKept` | whoever holds the conversation, or has handed it over, keeps the status off BOT, so that no other claim succeeds (`HandoffInv`, `ReachedInv`). `FewCopies` counts copies and polls that may yet copy. `CustodyKept` needs both: the claim finds no holder and nobody reached, and the release is of the holder, who has not reached the team |
| `ChatProofs`, `ChatGate`: `GateTypeCorrect`, `GreetedOnceEach`, `MinuteKept` | requests that the widget waits for are one at a time, and each is of a row that exists (`RequestInv`). `GreetInv` adds up for a session the greetings stored, those that a request given up may still store, and one if it is due, and bounds the sum by one more than the requests given up. `MinuteInv`: while none was given up, a request about to issue a code found the minute over |
| `ChatProofs`, `ChatWidget`: `WidgetTypeCorrect`, `NothingMissed`, `HandoffSeen`, `ListedAsStored`, `WidgetCustodyKept` | `NothingMissed`: an answer has no gaps between the time it asked from and its newest row, but for replies stored late (`ReadsInv`, for any `Page`), and rows have different times (`TimeInv`). `HandoffSeen`: while no request failed there is one under way at most, so that what it was told is still so (`AskInv`), and whenever the team has the conversation the widget knows it, or an answer that says so is coming (`WatchInv`). `ListedAsStored`: for each text, rows and copies listed are no more than rows stored, and an answer that is coming brings a row already listed or has room (`TwiceInv`). `WidgetCustodyKept`: one request at a time is about to tell the team, and none once it was told (`TeamInv`) |
| `IntakeProofs`: `TypeCorrect`, `TrueAnswers`, `RepeatsAreNoted`, `Silence`, `SpentTokens` | for each attempt what its position says of its row, grant, mails and answer (`OrderAt`, `AnswerAt`, `MailAt`, `RepeatAt`), for each form which attempt it waits for and which tokens were sent (`FormAt`, `TokenAt`). `RepeatsAreNoted` needs that what was stored when a request was sent is stored when it looks |
| `ApplicationsProofs`: `TypeCorrect`, `Accepted`, `WholeRows`, `Orphans`, `Erased`, `Missing`, `Acknowledged` | the file is there before the row, and the row is gone before an erasure removes the file (`OrderInv`); `WithdrawnStays`; a handler at the stamp has mailed (`MailInv`) |
| `ConsoleProofs`, `Publishing`: `TypeCorrect`, `Dated`, `TrueDates`, `StaleKnown`, `FirstDate` | what a request has read became so on the date it has (`SeenIsTrue`), so that keeping that date is right if the content is kept; a write changes the answer only for copies it names (`SendTells`), and a request that has not written has no purge under way (`ReadBy`) |
| `ConsoleProofs`, `SignIn`: `SignInTypeCorrect`, `FactorHeld` | a handler that is about to enable the factor has compared a code of the secret it read, which the phone has; one about to store a new secret has found the factor off (`WriteAt`). `FactorHeld` needs that a code entered is one of the phone's |
| `VisitProofs`: `TypeCorrect`, `FirstTouch`, `NoLoopOfItsOwn`, `PathAndQueryAtOnce` | the address that is being asked for still has what the link named (`AddressInv`), and the session's record is that of the first link with a source (`RecordInv`); merging keeps it (`MergeIs`). `NoLoopOfItsOwn`, for any table: along a trip that met one map, the paths left behind all lead on into themselves and the present one, so that to return to one is a circle of the map, which the property then finds; at the same path only the slash and the query can change, each once (`TrailInv`, `Trail`). `PathAndQueryAtOnce`: whoever was sent on for the query alone is where the map leads no further (`AloneInv`) |

Only model-checked:

* liveness, since fairness and ENABLED are out of the prover's reach:
  `EverySettles`, `ChargeIsRecorded`, `CaptureSettles`, `ReplyReachesLog`,
  `ReadersCatchUp`, `EndsWell`, both `GetsIn`, `TripsEndUnlessTableLoops`,
  `TakesEffect`;
* `OneReceiptPerPayment`, whose violation is a counterexample.

## Not modelled, and why

* Seeds, content and scripts (`apps/api/src/scripts`, `prisma`), about ten
  thousand lines, the largest part of the source: text that is written once,
  alone. Rendering (`components/blocks`, pages, styles), metadata and structured
  data (`seo.ts`), mail templates: functions from data to text, no state.
* `rag.service.ts`: embeddings and a language model. What an answer is, is a free
  choice in `Chat`.
* Console records: lists with filters, categories, navigation, the chat log and
  its purge (which takes only conversations that are CLOSED or with the
  assistant), the status and notes of an application. One statement or one
  transaction each, which share no state with a protocol above. A model would
  say of each that it does what it does.
* Of modelled components: the download of the collector and its counter;
  recovery codes, cookies, the CSRF token and roles; citations, the transcript
  mails, and ending a conversation to start another in one page; categories,
  closing dates and related articles; the country of a lead; `GET /price`.
* Middleware and process: rate limits count inside a library; the error handler
  is where the failing steps of the models end; a shutdown is one of the crashes.
* The pure functions of the API and the shared package (ranking, country,
  phrases, schemas, HTML) are string functions with unit tests; the models start
  from input that is valid.

Most of the source by lines is text, rendering and metadata; most of what is
state and protocol is modelled. A much higher share of the whole would have to
come from definitions about text.

## Plan

What is left, in order of importance:

1. Abstract specifications of `Applications` (a CV and its row, until they are
   withdrawn) and of `Intake` (an enquiry and what became of it) and their
   refinements, checked, then proved.
2. `Chat` composed with `ChatGate` over one row, so that messages of a
   conversation that is being verified twice are covered; `Booking` with the
   picker of `BookingGrid`.
3. `Publishing` with a second entry (related articles) and with closing dates;
   recovery codes in `SignIn`; the collector's download in `Intake`.

Each passing run takes one module and all of its properties. Room for further
runs is made by composing modules that share a subject.

## Running

    tlc -workers 2 -config Booking.cfg Booking
    tlc -workers 2 -config MCVisit.cfg MCVisit
    tlapm BookingGridProofs.tla

The `.cfg` of the finding has the name of its property after that of the module,
and ends in a counterexample.
