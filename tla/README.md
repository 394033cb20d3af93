# GlocalX in TLA+

GlocalX runs local marketing for small stores. Owners use one Next.js app
(`apps/owner-app`), operators another (`apps/admin`); both are serverless and
share one Postgres database through `packages/db`. The pure rules are in
`packages/domain`, the calls to Google, Instagram, OpenAI and Naver in
`packages/integrations`.

Nothing in the system holds a lock or a queue between two statements. A request
handler reads, decides, writes, calls a third party and writes again; every
other handler may run in between, and the platform may kill it at any point.
What keeps the rows consistent is a small set of conventions: a guarded
`UPDATE ... WHERE status = ?`, unique indexes, short transactions, and the order
of statements. This project checks those conventions.

## 1. Inventory

| Component | State | Operations | What is hard | What makes it correct |
|---|---|---|---|---|
| Campaign state machine (`domain/campaign-state-machine.ts`) | none | `transitionCampaignRequest` | it is only as good as the status it is given | one source set and one target per action |
| Campaign handlers and store (`admin/.../queue/requests`, `owner-app/.../campaigns`, `db/campaign-store.ts`) | `campaign_requests`, `campaign_assets`, `campaign_review_events` | production, final copy, call to action, assets, review, decision, nudge | status read in one statement and used in a later one; double submits; stale screens | one verdict for each review; nothing leaves the owner's consent; material complete |
| Publish run (`admin/.../publish/route.ts`, `campaign-publish.ts`, `db/publish-job-store.ts`) | `publish_jobs`, the campaign's status as lock | reserve, call, complete or fail, list, settle, notice | crash in the run, lost answers, retries, attempt cap, several channels | one run at a time, cap respected, settled status agrees with jobs |
| Support chat (`db/conversation-store.ts`, `message-store.ts`, `owner-app/support/ai-compose.ts`, inbox routes) | `cs_conversations`, `cs_messages` | send, poll, compose, draft send and discard, mode, assign, resolve | answers composed while the mode, the draft or the conversation changes; stamps older than the row; cursor order | one open conversation per store; no answer the owner sees unapproved; sent rows final; no cursor passes a prompt row; no failure without a trace |
| GBP access (`domain/gbp-access.ts`, `db/gbp-access-store.ts`, `gbp-location-attach.ts`, transition, action and adoption routes) | `gbp_access_requests`, `gbp_accounts`, `gbp_locations` | claim, transition, confirm, attach, override and detach | guard, guarded update and attachment are separate writes; two stores, one listing | what was confirmed is attached; no listing attached blindly; legal moves only |
| GBP setup and verification (`db/gbp-setup*.ts`, `gbp-verification-store.ts`, `integrations/gbp-setup-*`) | the set-up rows, `gbp_verification_state`, follow-up jobs | guard, search, claim, create, persist, verify, refresh | a location created and not recorded; concurrent setups; a verdict about another listing | no second listing; every created listing recorded; posts only where approved |
| Owner posts, v1 (`owner-app/posts`, `conversations/posting-conversation.ts`, `post-store-*.ts`) | conversation sessions, turns, slots, drafts, publish attempts | turn, draft, publish, replay, release | events delivered twice; turns racing for a number; answers lost; a key whose request died | whole turns, one answer per event; one post per draft and platform; success final |
| Operator's inbox screen (`admin/(ops)/inbox/inbox-console.tsx`) | React state and refs | poll, select, edit, reply, mode, assign, resolve, send, discard | polls answered out of order, while actions and selections happen | the header is of the selected conversation; own changes stay; no gap |
| Sessions and identity (`owner-app/auth`, `db/support/oauth-*`, `user-directory-store.ts`) | `users`, `auth_identities`, `user_sessions` | register, log in, provider callback, deactivate, delete | several statements under READ COMMITTED; two callbacks of one subject; deletion against callback | no half account; same account each time; no linking without the owner |
| Operator's queue and stores screens (`admin/(ops)/queue`, `.../stores`) | React state, one lock for each kind of button | open, edit, act, upload; move, set up, refetch | answers of opens, actions and refetches in any order | what is saved belongs to the opened request; no control left locked |
| Onboarding tab (`owner-app/onboarding`, its routes) | the tab's state, sessions and turns, profile, record, claim | find, pick, talk, edit, confirm, claim, finish, reload | late answers; a confirmation in two statements; two confirmations | draft and session replaced together; what is shown is stored |
| Campaign intake and media store (`use-campaign-intake.ts`, upload and asset routes, `list-orphan-blobs`) | form, requests, asset rows, blobs | submit, upload, register, report orphans | three stores and no transaction over them; submissions that overlap | success means complete; what is missing was told; no orphan in use |
| Posting screen (`use-posting-workspace.ts`, `use-image-assets.ts`) | photographs, draft, chat | pick, ask, reply, change | nothing is disabled while answers are on their way | draft and chat are of the photographs shown |
| Activity trail (`use-activity-trail.ts`, activity route) | pending and sent events, timeline | record, flush, take back, store | an answer lost, a surface that goes away | nothing vanishes unexplained; order kept; twice only after a lost answer |
| Instagram link (`api/instagram/oauth`) | state cookie, link row | start, consent, callback | two tabs, one cookie, a session that changes | a link is of one flow, linked once |
| Database clients, migrations, import (`packages/db/src/postgres*.ts`, `sqlite.ts`, `db-migrate-sqlite-to-pg.ts`) | schema, log of migrations, the file | migrate, verify, reset; open; export, import, reconcile | two commands, three processes, a drop in between | what is recorded is applied; no row lost; reconciled means equal |
| Rate limit, job and audit records, metrics, adapters, rendering | - | single statements, reads, I/O | - | not modelled (section 7); what adapters can answer is an input of the models |

Interaction: the campaign's hand-over and its publish run post assistant
messages into the support chat (`Notices` of `CsChat`); the publish run asks
whether a channel is eligible, and `GbpListing` models what it reads; GBP access
and setup write the same rows, and are one module for that reason; the inbox
screen polls the chat's rows, which `InboxConsole` keeps as a mode, a length and
a pending draft. The queue and stores screens call the campaign's and the listings'
routes, each of which is one step there. Onboarding ends where `GbpListing` begins:
with a claim or a confirmed profile; intake ends with the request `CampaignPipeline`
starts from.

## 2. Modules

| Module | Contents |
|---|---|
| `CampaignStateMachine` | the transition function and its constants |
| `CampaignPipeline` | one request, its rows, and every handler that changes them, statement by statement |
| `CampaignPromise` | the abstract specification: question, verdicts, runs, tries, live channels |
| `CampaignRefinement` | the mapping from the rows to the promise |
| `CampaignInvariant` | what a handler's locals still say of the database |
| `CampaignClaims` | a statement of the documents the code does not keep |
| `CampaignPipelineProofs` | the theorems |
| `MCCampaignPipeline` | the instances for TLC |
| `CsChat` | the support chat of one store: conversations, messages, the owner's and the operators' requests, the composition, and the two polling screens |
| `CsPromise` | the abstract specification: one transcript, proposals, approvals, trust, a screen |
| `CsRefinement` | the mapping from rows and widget to the transcript |
| `CsInvariant` | what threads and polls still say of the rows between their steps |
| `CsChatProofs` | the theorems |
| `MCCsChat` | the instances for TLC |
| `GbpAccess` | the access state machine: actions, sources, targets |
| `GbpListing` | stores and their Google listings: claim, operators' moves, attachment, setup, verification, and what publishing reads |
| `GbpListingProofs` | its theorems |
| `OwnerPosts` | the posting conversation and the publishing of its drafts |
| `OwnerPostsProofs` | its theorems |
| `InboxConsole` | the operator's screen: refs, tickets, polls in flight, one request in flight |
| `Accounts` | users, identities and sessions, each statement of the transactions over them |
| `AccountsProofs` | its theorems |
| `QueueConsole`, `StoresConsole` | the operator's other two screens |
| `OperatorScreens`, `OperatorScreensProofs` | the three screens of the operator, one at a time; the theorems about them |
| `OwnerOnboarding` | the owner's onboarding tab and the routes it calls |
| `CampaignIntake` | the campaign form, the uploads, the report of orphans |
| `PostingWorkspace` | the owner's posting screen |
| `ActivityTrail` | events kept, sent, taken back and stored |
| `InstagramLink` | start, consent and callback over tabs |
| `PostgresMigrations`, `SqliteSchema`, `SqliteImport` | the databases' schemas and the move from one to the other |
| `Databases`, `DatabasesProofs` | accounts and the two schemas, one at a time; the theorems about them |
| `OwnerApp`, `OwnerAppProofs` | the owner's onboarding, form, trail, linking and posting screen, and the import, one at a time; the theorems about them |
| `MCGbpListing`, `MCOwnerPosts` | the instances for TLC |
| `MCInboxConsole`, `MCAccounts`, `MCOwnerApp` | the instances of `OperatorScreens`, `Databases` and `OwnerApp` |

`OperatorScreens`, `Databases` and `OwnerApp` compose modules that share no state. A
behaviour is a behaviour of one of them: the variable `part` says which, and the others
keep their initial values. The last two runs also tell states apart by the part that
moves (`VIEW Moving`). So such a run is the union of its parts' runs, each checked as if
alone, and none of their properties speaks of two parts; but what is proved is proved
of the composition the run checks.

### CampaignPipeline

The variables of the first block are columns and rows: `status` and `nudged`
(`nudged_at IS NOT NULL`), the material (`finalCopy`, `callToAction`,
`processed`), `reviewEvents` in order, `jobStatus` and `attempts` of
`publish_jobs` (`None` where there is no row). `posts` is what lives at a channel,
which no table records. `announced` and `ownerTold` are the assistant messages
of the two notices.

A handler is a serverless invocation: `pc[h]` is the statement it runs next, and
`seen`, `next`, `todo`, `cur`, `shown` are its locals. One label stands for one
database statement or one external call, with the pure code before it. An
owner's review card is a handler too: it sits at `owner.screen` for as long as
the owner leaves it open. So the race between any two statements of any two
requests is an interleaving of `Next`, and `Crash` ends an invocation between
any two.

- `ReadForUpdate` and `GuardedUpdate` are the two halves of `applyCampaignAction`:
  read, transition function, `UPDATE ... WHERE status = ?`. `LoseRace` is the update
  that matches no row, `Refused` the transition function refusing a later read.
- The publish POST reads twice (material and eligibility, then the status of the
  transition), and publishes what the read *after* the update returned
  (`PublishLoad`).
- `reservePublishJob` is a read and a write in a transaction. The client opens
  it at Postgres's default isolation, READ COMMITTED, so the write may see what
  others committed after the read; it is two steps here. That the attempt cap
  and the reservation are safe nonetheless is a consequence of the campaign's
  lock, and `RunKnowledge` says how.
- `PublishCall` has the three outcomes the run can meet: refused, landed, and
  landed with the answer lost. The last is real: the adapter's fetch carries a
  20 s abort, and parses the body after the POST.
- Several routes differ in nothing but the column they write (`EditRead` and its
  writes). A refusal at the first read of a handler changes nothing and is no
  action.

Abstractions. A detail read is three queries (request, assets, events) and one
step here: assets only grow and a final copy is never cleared, so a torn read is
a read at the time of its last query with an older copy, which no property tells
apart. Audit rows, `updated_at`, notes and texts are left out. The eligibility
verdict is a free choice (any non-empty set of channels may be let through).
Creation and the owner's originals are the initial state. `FAIL_CAMPAIGN` has no
caller. The chat notice opens a conversation and appends a message; here it is
one step.

Bounds: `MaxRounds` (no production pass starts after so many hand-overs) and
`MaxCrashes` appear in guards; `MaxAttempts` is the code's
`publishJobMaxAttempts`, 3 there and 2 in the runs. Nothing else is cut off.

### CsChat

`convStatus`, `mode` and `flagged` are `cs_conversations`; `row` is `cs_messages` (`None`
where there is no row: a draft may be deleted) with its conversation, status and
`created_at`; `adminRead` is the rows with `admin_read_at` set. Ids are fresh in
the code (`randomUUID`), so a conversation is named after the request that
creates it and a message after its author and the request that writes it.
`IdRank` is the order of the random ids, which breaks ties of the cursor.

A thread is again one invocation. `Posts` are owner POSTs, and the composition
that `after()` schedules goes on in the same thread; `Notices` are the campaign
pipeline's messages; `Operators` are operator requests. `now` is the thread's
`new Date()`. It is a variable of its own because the code takes it early and
uses it late: the composition's is taken before the assistant is asked and
stamps the row written after it answered, and every such gap can reorder rows.

- `OpenRead`, `OpenInsert`, `OpenRefused` are the transaction of
  `getOrCreateOpenConversation` under READ COMMITTED, with the partial unique
  index as the guard of the insert.
- `Respond` is the response, which may be lost, and the decision to compose, by
  the mode the POST read (`heard`). `ComposeRead` reads the mode anew (`stance`).
- `SendAnswer`, `DiscardPendingDrafts`, `WriteDraft`, `ClearFlag`, `RaiseFlag` are the
  statements after the assistant's answer or failure.
- `PickDraft` is the operator looking at the latest draft, `DraftRead` the request
  about it, `SendDraft` / `DiscardDraft` / `DraftGone` the guarded statement.
- `PollAsk`, `PollList`, `PollMark`, `PollDeliver`, `PollLost` are a poll: request, read,
  the console's read mark, response, or its loss. The widget may have several
  polls in flight (a timer that does not wait, and a poll on every opening of the
  panel); the console has at most one here, and `Select` makes it stale.

History variables, which no step of the code reads: `approved` and `trusted` (drafts
sent by an operator, conversations once put in ai mode), and `behind`: for each
reader the rows that may have become visible behind a position already handed to
that reader. A row is *prompt* when it becomes visible in the tick of its stamp
and before the reader holds any position of that tick. The split is what makes
the delivery properties true and exact: a row that is not prompt may never be delivered (section 4).

Abstractions. Bodies, edits of a draft's text, authors' ids, contexts, audit,
`updated_at` and assignment are left out; so are the owner's read marks and the
badge, which nothing here reads back. The mode a conversation opens in is
`human`. A widget that is mounted again starts from an empty screen, which is the
initial one. A poll's cursor and the conversation its request finds are taken in
one step. A failing database statement ends its thread (`Crash`).

Bounds: `MaxClock` ticks and `MaxCrashes`, in guards; `Switches`, the modes an
operator may set (none in the runs about cursors, which modes do not touch).
`PageSize` is 50 in the code, 1 or 2 here.

### GbpAccess, GbpListing

`access` is `gbp_access_requests`, `location`, `newest` and `account` are the two
rows a store may have in `gbp_locations` and `gbp_accounts` (one from an adoption,
one from setup), `verified` is `gbp_verification_state`, `followUp` the jobs. `made`
is on Google's side: the request id each created listing was made for. A request
of an operator or an owner is a sequence of statements named by `at`, with its
locals in `req`; no transaction spans two of them.

- `StartMove`, `CheckVacant`, `CheckUnshared`, `Update`, `AttachAccount`, `AttachLocation`,
  `Notice` are the transition route and `ATTACH_LOCATION`, in the order of the code:
  guard, guarded `UPDATE`, attachment, notice. `Detach` and `Disown` follow an
  override.
- `StartSetup`, `CheckReview`, `Search`, `RequestRights`, `Create`, `SetupAccount`,
  `SetupLocation`, `ScheduleFollowUp`, `Verify`, `Record`, `Track` are `RUN_SETUP`. `Create`
  answers a request id it knows with the listing it made for it: the id is a hash
  of store and confirmed profile, so a changed profile (`EditProfile`) is a new id.
- `StartPublish`, `ReadParent`, `CreateLocalPost` are what a campaign's publish request
  reads of these rows: eligibility first, the parent later.
- `Abort` is a request that dies or a call that throws.

History: `approved`, `rejected`, `forced` and `cut` (a verdict recorded and not carried
out); `overtaken` in a request's locals says that somebody wrote what the request
had looked at: a listing attached to the store, the listing to another store, a claim
that went (back) into review. It is what makes `NoBlindAttach` and `NoBlindSetup`
exact: nothing in the schema keeps two stores from one listing, so the check can only
hold for what was there when the request looked.

Abstractions. The owner has confirmed a profile that can be geocoded; the stub
path for development, audit rows and the wording of notices are left out.
Nothing calls `setGbpLocationRef`, writes `VERIFIED` to a set-up location, or runs the
follow-up jobs.

### OwnerPosts

`state`, `rows`, `events` and `slots` are the tables of one kind of conversation, `draft`
and `attempt` those of publishing; `posted` is what lives at the platforms. A turn
reads a stored response, asks the assistant, writes a draft, and then commits
owner's message, answer, slots, state and response in one transaction. That
transaction is two steps (`NextSequence`, `RecordTurn`), as it runs at READ COMMITTED
and `MAX(sequence) + 1` may be old when the row is inserted; the unique indexes
are the guards of the second. A publish counts the failures, derives a key from
the count, inserts under the key, looks whether it was the one who inserted,
calls, and ends the attempt by completing, failing or releasing it. The insert is
two steps as well (`ReadMax`, `Reserve`): one statement reads
`MAX(attempt_number) + 1` from its snapshot and inserts, and a row committed in
between is not in that maximum. Here only the key is unique, the number is not.

Abstractions. Two sessions share nothing but drafts. The in-process queue of turns
is ignored, since several processes serve one session. `completeSession`,
`selectCandidate` and the append functions have no caller outside tests, and
`publishPostDraft` is called by tests and by the route only behind a refusal
(`ADMIN_PUBLISH_ONLY`); it is modelled because it is the only place the attempts'
protocol is written down.

### InboxConsole

`screen` is the component's state and refs, `poll` and `older` the polls in flight and
those issued before each, `act` the request that `busy` stands for. A ticket is a counter whose
order against the applied watermark is all that is used; here a poll knows
whether it has been superseded. Polls are answered in any order.

Abstractions. The list of conversations has tickets of its own and is left out:
the mode a row shows on selection is a guess. A poll's three reads are one step.
The reply's text is not modelled; that a reply goes to the conversation of the
header is `HeaderIsSelected`.

### Accounts

Users with what makes them an account, the identity rows, the sessions. A
statement waits for an uncommitted row of another transaction (`EmailHeld`,
`SubjectHeld`, `BeingErased`), as Postgres makes it wait at a unique index, a row
lock or a foreign key. `FindIdentity` to `Commit` are `upsertOAuthIdentity`, statement
by statement; nothing of it is visible before `Commit`. `Detach` and `Erase` are
`deleteUser`.

Abstractions. A store is part of its account. Expiry and pruning of sessions, the
legacy and demo logins, audit rows and onboarding status are left out. A session
row that slips past a deactivation under way is kept but cannot be read, as
reading joins on the same condition.

### QueueConsole, StoresConsole

`QueueConsole` is the opened request (`detail`, `selectedId`), the editors (`copyInput`,
`ctaInput`, `publishChannels`), `busy`, and the calls in flight; a route's effect on a
campaign is one step. `StoresConsole` is the cards and the waiting stores as they were
last read, the two locks (`pendingId`, `runningId`) and the orders in flight; `told`,
`newest` and `trouble` are history, as are the queue's `wanted`, `disturbed` and
`jumped`: an open and an action were under way together, and as `busy` is one flag for
both, the answer of the open (queue-console.tsx:251-253) enables the buttons although
the action still runs.

Abstractions. Statuses are grouped by what the queue offers for them; the poll of the
board is left out; the nudge stays offered. A stores page's own load can miss a store
that another screen has just changed, as it reads requests before waiting stores.

### OwnerOnboarding

The tab's state (`page`, `extraction`, `draft`, `slot`, `session`, `confirmation`, `adoption`)
and the server's (`status`, `profile`, `record`, `access`, `attached`, `turns`). `req` are the
requests of the tab: its handlers run one at a time but go on after their answer, and
apply it to what the tab shows by then. `overtaken` and `torn` are history: an answer
of a confirmation, a turn or a search that came after the draft had changed, two
confirmations under way at once or one that died between its two statements.

Abstractions. One tab; the extraction's rows that are not `CONFIRMED` are not read back;
`attached` is a location that is not `CLAIM_REQUIRED`.

### CampaignIntake, PostingWorkspace

`sub[i]` is the i-th call of `submit`, a sequence of steps over the brief and the
photographs of its render; `created`, `assets` and `blobs` are the three stores it writes
to; `sweep` is the operator's report, which reads blobs and rows at two times. `told` and
`left` are history. The list shown is whatever reading was answered last and is left
out; a blob does not become a day old while its registration is under way; production
mode only.

`PostingWorkspace` has `photos`, `draft`, `chat`, `session` and the calls in flight, each with
the photographs it was made for. `late` says that an answer came after the selection
had changed or a new draft was asked for. Texts are left out.

### ActivityTrail, InstagramLink

A surface (`mounted`) has its `pending` events and a batch in `flight`; `stored` counts an
event's rows. `dropped`, `left` and `unsure` are history: given up by the bound, lost with
the surface, answered by nobody.

`cookie` is the one state cookie of the browser, `tab` and `call` the pages and the
callbacks, `links` the table. A flow's code is spent by Meta, by an error too. `Expire` is
the cookie's ten minutes. The exchange of the code is one step.

### PostgresMigrations, SqliteSchema, SqliteImport

`PostgresMigrations`: `applied` is the log, `effect` what the schema really holds, and a
command goes file by file; each file is a transaction with its log row. `Sources` are the
versions of the repository that commands may run from. `SqliteSchema`: what every
connection does as it opens the file, statement by statement; `told` is the rows whose
insertion was reported. `SqliteImport`: two tables stand for nineteen, a table that
refers to another and to itself; reading is table by table, the import one
transaction, the comparison table by table again. Unique constraints besides the
primary key are left out, and so is the conversion of values.

## 3. Runs

### Campaigns

These runs use `MCCampaignPipeline`. Deadlock is not an error: a rejected or
published campaign with no handler under way has nothing left to do.

| Run | Instance | What it shows |
|---|---|---|
| `campaign_safety` | 2 handlers, 2 channels, 2 attempts, 2 rounds, 1 crash; symmetric handlers and channels; 1.4 M states | the properties below, and `PromiseKept`: the rows refine `CampaignPromise` |
| `campaign_liveness` | 2 handlers, 2 channels, 1 attempt, 2 rounds, no crash, no symmetry | `RunsAreSeenThrough`: a run settles, a hand-over is announced, the owner hears of a channel out of attempts |
| `verdict_on_review_shown` | small | finds a statement of the documents violated (section 4) |

Two handlers are enough for every race in the code: each guard relates one
reader to one other writer, and the third party of a longer story (a second
review between opening and answering a card) can be played by a handler that
has returned. The theorems remove the bound for the properties they state. Two
channels give every combination of published and failed; two attempts separate
a first call, a retry and a refusal at the cap (in the liveness run one attempt
leaves the first call and the refusal). Two rounds give a review that
comes round again.

Safety properties:

- `OneRunUnderLock`: a handler inside a run is alone and the status is
  `publishing`. There is no other mutual exclusion in the code.
- `RunIsSound`: `RunKnowledge`, what a run read of the jobs is true when it acts on
  it, although nothing but the lock protects it; and `SettledAgreesWithJobs`, a
  status computed from a listing is true of the rows when it is written and after.
- `CallsArePaidFor`: posts at a channel never exceed its attempts, attempts never
  exceed the cap, and `published` has a post behind it.
- `OneVerdictPerReview`: the owner's events are one for each finished review, and
  the status stands on the last.
- `ReviewIsRespected`: nothing is called without a go (`NothingLiveWithoutConsent`),
  no screen and no channel is handed an empty copy or no asset, although checks
  and writes are separate reads (`MaterialIsComplete`), one nudge for each review
  (`OneNudgePerReview`).
- `NothingIsTakenBack`: a verdict and a finished job are never changed.

Liveness assumes weak fairness of the steps of an invocation that has begun
(`Continue`): the platform runs it, and every external call ends by answer or
abort. Nothing obliges a person to open, answer or retry, and those steps
(`Begin`) have no fairness. The liveness properties excuse a crash: after one,
`publishing` really is for good (section 4).

### Support chat

These runs use `MCCsChat`. All threads may have ended, so deadlock is no error.

| Run | Instance | What it shows |
|---|---|---|
| `cs_drafts` | 2 posts, 2 operators, an earlier conversation in any mode, switches to human and ai, the console's polls; 0.5 M states | `OneOpenConversation`, `NothingUnapproved`, `FailureShows`, `SentIsFinal`, `CursorsAreSafe` |
| `cs_screens` | 1 post, 1 operator, 2 overlapping widget polls, pages of one row, 2 ticks; 840 k states | `TypeOK`, `NoDraftOnScreen`, `CursorsAreSafe`, `TranscriptKept` |
| `cs_liveness` | 1 post, 1 operator, 1 widget poll, pages of one row, 2 ticks, 1 crash | `OwnerIsAnswered`: `NeverSilent` and `PromptRowsArrive` |

In `cs_drafts` the constraint `OneSide` keeps a behaviour either to the two compositions
and the operators or to the console's polls. Two compositions and two operators give
every pair of writers of drafts and flags, the double send included. Three rows (the owner's, an answer, a reply)
with two stamps and pages of one row give every position of a row to a cursor,
ties included. The theorems remove these bounds.

- `NothingUnapproved`: what the assistant wrote reaches the owner after an
  operator's approval, or where an operator put the conversation in ai mode.
- `NoDraftOnScreen`: no draft and no deleted row on a screen or on its way there.
- `FailureShows`: a failed composition leaves a flag, until another composition of
  the conversation answered.
- `CursorsAreSafe`: no cursor passes a prompt row (`NothingSkipped`), and what polls in
  flight carry keeps it so (`CursorKnowledge`). It is stated for stores where no
  conversation has been resolved: the widget's cursor survives a change of the
  open conversation, and from then on compares rows of different ones.
- `SentIsFinal`: a sent row is never changed, re-stamped or deleted.

Liveness (`FairSpec`): weak fairness of the steps of an owner's POST, a notice and
a composition: the platform runs them and the assistant's call has a timeout; a
crash is excused in the property. The widget polls on a timer for ever (weak
fairness of `PollAsk`), and strong fairness of list and delivery says that not
every poll is lost. Operators, ticks and mode switches have no fairness.
`NeverSilent` is about the autonomous mode only; `PromptRowsArrive` is
excused by a resolution (section 4, last part).

### Google listings

| Run | Instance | What it shows |
|---|---|---|
| `gbp_adoption` | 2 stores, 1 listing built by hand, 2 requests at a time, overrides back to review, 1 request that dies | `TypeOK`, `AdoptionIsSettled` |
| `gbp_setup` | 1 store, 2 requests, a foreign listing and two that Google may create, 1 change of the profile, 1 request that dies | `SetupIsSound`, `OnlyLegalMoves`, `SetupCompletes` |

Requests are reused, so two of them run any number of operations two at a time;
two stores and one listing are the conflict the code checks for; a second
creatable listing is what a duplicate would be. Without a change of the profile a
second listing cannot be created; one change is enough to get another id.

- `AdoptionIsSettled`: nothing is attached blindly (`NoBlindAttach`); as long as no
  override touches the store, a listing once confirmed for it stays the ref of its
  granted or revoked row, and is attached, or being attached, unless the request was
  cut (`GrantIsAttached`); every location has its account, and an adopted one its
  verdict (`RowsJoin`); where the panel says eligible there is a target, and it is the row the
  panel judged (`EligibleHasTarget`). `MovesAreKnown` is what the operators' requests
  still know between their statements.
- `SetupIsSound`: setup starts nothing for a store that has a listing or an open
  claim unless overtaken (`NoBlindSetup`); one listing for a request id, and rows that
  name listings of their own store (`MadeOnce`, `RowsAreOwn`, with what a setup under
  way knows, `SetupsAreKnown`); the recorded verdict is about the recorded listing; a
  campaign is posted only to a listing approved for that store; the owner hears of a
  rejected claim. What a request that died left undone is excused where the code has no
  repair: a granted store without the location (`GrantIsAttached`), a refusal without
  its notice (`RejectionIsTold`). The other conjuncts hold after a death too.
- `OnlyLegalMoves`: a request's state changes only by a move legal from the state it
  has at that moment.
- `SetupCompletes` (liveness): a store that waits for setup is tracked in the end, and
  a listing Google made is recorded. Fairness: the platform runs a request it has
  begun (weak, per request; a request that dies is `Abort`, at most `MaxCuts` times),
  and the operator who sees the store on the list keeps running setup (strong,
  as others may occupy the requests). The excuses are in the formulas: a changed
  profile, or another listing attached meanwhile.

### Owner posts

`owner_posts`: two requests at a time, one session, two events, two drafts, a client
key, two failures allowed, one request that dies; `Budgets` splits the work into
three turns, four publish requests after one turn, and two of each (1 run, three
initial states). Three turns let two events race and one be repeated; four
publish requests exhaust the limit of two and come again.

- `PostingIsSound`, the conversation: numbers without gap, owner's message and answer
  adjacent, one stored answer for each event and the same answer to whoever repeats
  it; state and slots are those of the last turn that set them. Publishing: without
  client keys one post for each draft and platform, plus one for each lost answer;
  every post behind a success or lost; a draft counted as published exactly when it
  was; a `REQUESTED` row held by one living request or a dead one. And what these rest
  on: `TurnsAreNumbered`, `AttemptsAreInOrder` (a target's failures are its first
  attempts), `NumbersGrow` (their numbers grow with their keys, and a request about to
  insert read a maximum above those of the keys before its own), and what a request
  knows between its statements (`JobsAreKnown`). Distinct numbers are claimed for
  targets without client keys only: with one, two inserts under different keys may
  read the same maximum, both rows stay, and the model has that state too.
- `SucceededIsFinal`: the row a replay answers from never changes.

### The operator's screens

`inbox_console` runs three parts. The inbox: two conversations, two drafts, two
overlapping interval polls and the one an action waits for, pages of one message;
`Budgets` divides changes by others, clicks and failures over the initial states. The
queue: two requests (one with its texts already written), two channels, two calls in flight, four
clicks with at most one edit among them, which is what it takes to open a card beside
an action and press a second button after its answer. The
stores: two stores, two orders in flight, and either two buttons and a failing answer
or one button and two changes by others.

- `ScreenIsCoherent`: header, text and transcript belong to the selected conversation,
  the pending draft, a prefix without gap; after an own change no poll takes the header
  back to before it, and a draft sent or discarded does not come back. Its last parts
  are what the others rest on: what a poll that is not superseded carries
  (`PollsAreCurrent`), what an answered request carries (`AnswersAreCurrent`), and that a
  draft is one conversation's (`DraftsHaveOneHome`).
- `QueueIsSound`: what is shown, saved and published belongs to the opened request; one
  action at a time unless a card was loading beside it.
- `StoresAreSound`: cards, locks and messages after any order of answers.
- `CatchesUp` (liveness): when others and the operator rest, the inbox shows the
  server's state. Fairness: the interval ticks, requests are answered; failures are
  bounded by the budget. The interval's polls are weakly fair because the timer
  never stops while a conversation is selected.

### Accounts

`accounts`: three requests at a time, three users, one shared address, two subjects,
four requests and one that dies. The races of the code are between two callbacks of
one subject, two of one address, and a deletion; three at a time is one more.

- `AccountsAreSound`: no half account, one account per address, no dangling row; a
  subject signed in to an account comes back to it while it exists; an identity is
  at the account it made or at one whose own session came with it; and what a
  transaction read is still true when it uses it, under READ COMMITTED
  (`RequestKnowledge`), as no id is given twice (`IdsAreSpent`).
- `NoCircularWait`: while a transaction is under way, one of them can take its next
  step; and one that cannot waits for another (`WaitsFor`), and for nothing else.
- `NoCircleOfWaits`: the same in terms of `WaitsFor`: in each set of handlers there is
  one that waits for none of them. This form is proved.
- `SchemasAreSound`, in the two other parts of the run: two commands over the Postgres
  schema from three sources (`SchemaIsSound`: what is logged is applied, a yes means
  the whole source, files in order), and three processes that open one SQLite file up
  to four times (`FileIsSound`: no row lost, an open connection sees its shape, an
  opening fails only in a race).

### The owner's app

`owner_onboarding` runs six parts, 2.2 M states together. Onboarding: two shops, four
requests, one edit. Intake: two submissions of up to two photographs, three of one, or
one beside the operator's report. Posting: three picks, four calls. Trail: four events,
three kept, batches of two, two mounts. Link: two flows, one change of session or
expiry, two callbacks, two tabs. Import: two commands, two worlds, one write beside
them, one session.

- `ScreensTellTheTruth`: the onboarding tab (`ScreenTellsTheTruth`), the form
  (`IntakeIsSound`) and the posting screen (`WorkspaceIsSound`) show what is so, and
  nothing loads for ever.
- `RecordsAreSound`: the timeline (`TrailIsSound`), the links (`LinkIsSound`) and the
  imported database (`ImportIsSound`) hold what was recorded, consented and exported.

The exceptions are in the formulas, as history variables name them (`overtaken`, `torn`,
`late`, `unsure`, `disturbed`): each is a weakness of the code that section 4 describes.

## 4. What the documents say and the code does not do

**Stale approval** (`verdict_on_review_shown`). The decision is compared with the
status at the POST. A card opened in the first review, left open through
`changes_requested` and a second hand-over, decides the second review.

Other statements met while modelling, which the models contradict but no run is
kept for:

- `final-copy/route.ts:15-17`, once the owner looks at it the copy is frozen: status
  check and unguarded write are two statements, and the hand-over and even the
  approval fit between them. Assets and the call to action have the same gap.
- `docs/v2/ops-runbook.md:60`, publishing is in flight: if the process dies in a run
  the status stays `publishing` and no route offers an action for it.
- `docs/v2/architecture.md:322` and `ai-compose.ts:130`, an answer is delivered on the next
  tick: it carries the stamp taken before the assistant was asked, and a row stamped
  and polled meanwhile moves the cursor past it.
- `message-store.ts:92-94` and `ai-compose.ts:135`, one pending draft: discard and insert
  are two statements; two compositions leave two drafts.
- `docs/v2/delivery-plan.md:151` and `ai-compose.ts:149`, always flag a failure: a slower
  answer to an earlier message clears the flag of the latest failure.
- `inbox-console.tsx:217-218`, a poll mid-edit never clobbers the edits: it does when the
  draft was replaced by another.
- `users/[userId]/route.ts:25-26`, a user's audit rows are erased with it: the deletion
  detaches them (`user-directory-store.ts:165-174`).
- `docs/v2/delivery-plan.md:355`, "no_go path returns the request to production": the
  transition function ends it as `rejected`.
- `docs/v2/ops-runbook.md:61` calls `failed` terminal: `RETRY_PUBLISHING` starts from it.
- `docs/v2/delivery-plan.md:359`, publish requests are idempotent per channel: the key
  is not sent, and a post whose answer was lost is posted again by the retry.
- `docs/v2/delivery-plan.md:119`, "operator reply appears in the widget within 5s": the
  widget polls the open conversation only, so not when it is resolved first.
- `docs/v2/delivery-plan.md:165`, "flipping to human stops AI replies immediately", and
  `mode/route.ts:16-18`, "only affects the next owner message": a composition reads
  the mode anew when it starts, and not again after the assistant answered.
- `0008_cs_ai_mode.sql:26`, the flag is "Cleared when the operator takes over":
  `setMode` leaves it.
- `reply/route.ts:26-27`, a reply implies that the owner's messages were read: messages
  that came after the last poll are marked too.
- `conversation-store.ts:200-201`, concurrent first sends "converge": the loser of the
  unique index fails, and its message is not written.
- `resolve/route.ts:10-11`, "a later owner message opens a fresh conversation": not when
  the POST found the old one just before it was resolved.
- `use-onboarding-flow.ts:230`, an edit takes the confirmation back: a confirmation asked
  for before the edit is shown when its answer comes after it. A second search that
  was sent before a confirmation, and is answered after it, takes the confirmed draft off
  the page in the same way while "confirmed" stays.
- Confirming again inside the app sets a completed store to `IN_PROGRESS`.
- `TODOS.md:56`, "Client-direct uploads register assets before the request is
  submitted": the code creates the request first.
- A submission that succeeded and whose list could not be read again shows an error,
  and a third submission may then overlap with the second.
- Queue screen: every action's answer seeds the copy editor anew, over what was typed
  meanwhile; the `finally` of an opening clears `busy` under a running action.
- `queue-responses.ts`, "The console re-reads the detail on this": it shows the message
  only.
- Stores screen: the adoption review's block is offered and always refused; an
  attachment ignores `runningSetupStoreId`; an answer that throws leaves a control
  locked; a failed list shows an empty page.
- `use-posting-workspace.ts:35`, "posting state is reset with the selection": a draft
  answered after the change is shown beside the new selection; `:108`, "client event id
  lets the route replay retries": each reply makes a new id. Photographs read at the same time may finish out of order.
- Activity trail: a batch taken back may outlive newer events that the bound dropped,
  and a batch that is refused is tried for ever ahead of them; `section_viewed` is
  recorded at each render (`app-workspace.tsx:54-58`).
- SQLite: two processes that widen one table may set `flagged_at` and `flag_reason` to
  NULL, and two that add one column fail with "duplicate column name".
- Instagram: loading the callback again shows an error after a link that succeeded, and
  a slow callback clears the cookie of a later flow.

## 5. Proofs

### Campaigns

For every set of handlers and channels and every value of the bounds, from two
assumptions: `MaxAttempts` is a positive natural, and `None` is no status, channel,
copy or button.

The invariant is built in five layers, each proved with the ones below as facts.

1. `TypeCorrect`: `TypeOK` alone is not inductive, because `GuardedUpdate` writes
   `next[h]`. `WriteIntent` says what a pending write holds: a status the
   transition function gave for the status it expects.
2. `OneRun`: `OneRunUnderLock`. The only steps into a run find the status not
   `publishing`; every other guarded write expects a status that is not.
3. `RunIsSafe`: `RunKnowledge`, `CallsArePaidFor`, `SettledAgreesWithJobs`. Under the
   lock no other handler touches a job, so a read stays true.
   `AsideKeepsRunInv` treats every step outside a run at once.
   `RunIsSoundEver` states the first and the last of the three.
4. `OneVerdict`: `OneVerdictPerReview`; it needs layer 3 for the settling write
   (`SettleStaysAgreed`).
5. `ReviewIsSafe`: `ReviewIsRespected`. `MaterialIsComplete` is not inductive, as the
   check of the material and the hand-over are two statements; `MaterialKnown` adds
   that the material only grows and that a hand-over under way has seen it whole.
   `NothingTakenBack` then proves both action properties: a step that writes a job is
   a step of a run, and by layer 3 that run reserved the channel after it had seen it
   neither published nor out of attempts.

`Refines` proves `Spec => PromiseKept`: each guarded write is one step of
`CampaignPromise`, every other statement a stutter.

Only model-checked: liveness.

### Support chat

For every number of posts, notices, operators, widget polls and ticks, every page
size and every order of ids, from the assumptions in `CsChat`: a page has room for
a row and the messages are finitely many; ids differ; the kinds of threads are
disjoint, there is at most one earlier conversation and one console poll; `None`
is none of the values it stands beside.

- `TypeCorrect`: `TypeOK` needs `ChatKnowledge`, since `Write` puts a row into
  `chat[t]`: a thread past its first read knows its conversation. `ChatKnowledge` also
  says that a row is inserted once (`RowsAreFresh`), that only the assistant
  drafts, and that whoever composes in ai mode was trusted with it.
- `OneOpen`, `NothingUnapprovedEver`, `NoDraftOnScreenEver`, `FailureShowsEver` and
  `SentIsFinalEver` follow with `TypeCorrect` as the invariant they rest on.
  `NothingUnapproved` needs `TrustIsRecorded`: the mode may be taken back between the
  composition's read and its write, and only the history still says that it was
  there.
- `CursorsAreSafeEver`: `NothingSkipped` is inductive with `CursorKnowledge`: the
  conversations that threads, rows and polls name exist, and every poll in
  flight carries a position up to which its reader lacks nothing, with a page
  that completes what is lacking up to its last row. The induction is over any
  number of overlapping polls, so the cursor may move back as well as forward;
  what never happens is that it moves over a prompt row. The proof also fixed
  the definition of *prompt*: it is not enough to compare a row with the cursor
  and the pages on their way; the position a poll was asked with counts too.
- `Refines`: each statement that writes a row is one step of
  `CsPromise`, `PollDeliver` and `Respond` are `Show`, `SetMode` to ai is `Trust`, all others
  stutter.

Only model-checked: liveness.

### Google listings

For every set of stores, locations, overrides, kinds of requests and requests under
way, from `NamesAssumption` (listings built by hand, of others and new ones are
disjoint, `None` stands apart) and `BoundsAssumption` (the bounds are naturals). So the
theorems hold with overrides and setups together, which the two runs keep apart for
size. The general statement needed a correction of the model: an override back to
`adoption_review` marks a setup that had already looked as overtaken, as a claim does.

- `TypeCorrect` is about `TypeOK` alone; a request's locals are typed for every label.
- `AdoptionSettles` and `SetupStaysSound` share one inductive invariant, `Inv`: what each
  request knows (`Known`), what it looked at and nobody overtook (`AllLooked`), the
  rows of the claims (`Settled`) and who owns a listing (`Own`). A request's knowledge
  is a predicate of its label and locals, so that a step is treated in two parts: the
  moving request gains the knowledge of its next label, and every other request keeps
  its own (`KnowledgeKept`). The second part is where the proof is: `Update` may write
  a store another request looked at, and the guard `WHERE state = ?`
  (`UpdateHits`) is what keeps two approvals from both going on; without it the proof
  fails there. `EligibleHasTarget` and `VerdictIsAboutListing` are not inductive and
  follow.
- `LegalMovesOnly`: only `Claim`, `Update` and `Track` write the state; `Update` finds the
  row in the state its request read, and `MoveFits` says that the goal is legal from it.

Only model-checked: `SetupCompletes`.

### Owner posts

For every set of handlers that is finite, all sessions, events, drafts, platforms and
client keys, every budget and every positive limit of failures; default and client
keys are disjoint and `None` is no value.

The inductive invariant is `Fitting` (types and locals), `Turning` (the conversation),
`Posting` (the attempts) and `NumbersGrow` (their numbers). `TurnsAreNumbered` is what `MAX(sequence) + 1` rests on: numbers
run from 1 to an even last one, so a turn whose number is old is turned away by the
unique index, and one whose number is still the next adds exactly two rows.
`AttemptsAreInOrder` is the same for publishing: failures are the target's first
attempts, so a key derived from a count that has grown meanwhile is one of theirs, and
its insert finds the row. `NumbersGrow` rests on it (`LastOfItsTarget`): a key that is
still free comes after every key of its target that has a row, and the rows before it
have failed, so they neither change nor go, and no row can come in before it; the
maximum that was read for it is still above theirs when it is inserted. `OnePost`
follows from both with the cardinalities (`PostingStaysSound`); `SucceededIsFinalEver` from `PublishKnows`: whoever ends an attempt
inserted it and finds it `REQUESTED`.

### Accounts

For every set of handlers, users, addresses, subjects and emails, from the assumptions
that emails and subjects are disjoint kinds of keys and `None` is none of the values.

`AccountsStaySound` has `TypeOK` and `AccountsAreSound` together as inductive invariant: the
account properties hold only because `RequestKnowledge` says what each transaction
between two statements may rely on (nobody else holds the row it has written, its
user is there or was deleted, its identity is at that user), and the waits
(`EmailHeld`, `SubjectHeld`, `BeingErased`) are the guards that keep it so.

`NobodyWaitsInACircle` has no invariant of its own: whoever holds an identity waits for
nobody, a deletion about to erase its user waits for holders alone, the others wait for
these two, and an insertion waits for those who have made theirs (`SoundMeansNoCircle`).

Only model-checked: `NoCircularWait`, which speaks of `ENABLED`. Its second part says that
`WaitsFor` is exactly what keeps a request from its next step.

### Schemas

`DatabasesProofs` is about `Databases`: any number of commands, versions, source trees,
processes and conversations, from `MigrationsAssumption` (versions are finitely many
numbers, a source gives a checksum to each of its files) and `SchemaAssumption` (finitely
many processes).

- Postgres: `MigrationsInv` adds to `SchemaIsSound` what a command knows (`CommandsKnow`).
  What it read as applied is still so, and what it has done is recorded, until a
  `DROP` of somebody else meets it (`crossed`); and it goes through its files in order
  (`CommandsStand`), which is why a yes covers the whole source.
- SQLite: `FileInv` says where each connection stands (`ConnectionsPlaced`) and that a
  process that met nobody is still alone with what it looked at (`AloneIsAlone`), so that
  the column it found missing is missing when it adds it. The rebuild finds the foreign
  keys switched off (`Placed`), which is why no row goes with the old table.
- `TypesCorrect`, `SchemasStaySound`, and `AccountsSoundThroughout`, which carries the
  theorems about accounts over to the composition.

### The operator's screens

`InboxConsole`, for every set of conversations, drafts and interval polls, every page size
and every budget, from `ConsoleAssumption`: the action's own poll is none of the
interval's, and `None` stands apart. The inductive invariant is `TypeOK` and
`ScreenIsCoherent` together. A poll is applied by comparing tickets only, so that its
cursor, its version and its draft still fit is an invariant of polls in flight
(`PollsAreCurrent`), for any number of them. Most steps issue no poll: each stays, grows
old or leaves (`OnlyOlder`), and one lemma each says what polls, answers and drafts keep
then (`PollsKept`, `AnswersKept`, `HomesKept`). `PageContinues` is the reason for the
transcript: a page from a cursor within `1 .. n` joins it to `1 .. m`.

`OperatorScreensProofs` proves each screen by itself first (`ScreenStaysCoherent`,
`QueueAloneIsSound`, `StoresAloneAreSound`) and then of the three together
(`InboxStaysCoherent`, `QueueStaysSound`, `StoresStaySound`).

`QueueConsole`, for every set of requests, channels and calls, from `QueueAssumption`. Every
editor and every call holds what was written for its request (`EditorsAreHome`, `Calls`);
`LastIsComing` says that the card clicked last is shown or still loading, `ActionIsAlone`
that an action beside which no card loads is the only call and is waited for. The
proof corrected the property: with four clicks a card that was opened *before* an
action, and answered after it, lets a second action start as well; `jumped` covers
both orders since.

`StoresConsole`, for every set of stores, requests of the page, targets and budgets, from
`StoresAssumption`. The server's part says what each answer holds of the requests as
they are now (`Fits`) and that a list holds whatever an answer read before it has
brought (`Agrees`, over all pairs in flight, so that answers may come in any order);
the page's part follows from it: a list that is not outdated never takes a card off the
page (`ListsFitPage`), what was told is shown or a list that brings it is under way
(`ToldIsShown`), and a store that waits no more has its card or that list is read
(`NothingFalls`). The last is why the order of the two lists matters: the stores that
wait are read first, and the cards read after them hold whatever has left them.

### The owner's app

`OwnerAppProofs` is about `OwnerApp`: every number of businesses, requests, edits,
photographs, submissions, events, surfaces, flows, tabs, calls, import runs and writes,
from `NamesAssumption` and `PartsAssumption`. Each part has an inductive invariant of
its own, proved over the part's actions, and `AppInv` joins them.

- Onboarding (`OnbInv`): of each request, by its kind and how far its route has come, what
  it carries and what the tables held when it was there (`ReqFollows`): a turn's draft is
  whole and not confirmable yet, a confirmation's is, and the tab waits for it until it
  is edited away. The proof found what the run's four requests cannot show.
  `ConfirmedIsShown` was false with five: inside the app the composer stays enabled, two
  searches overlap, and the second one's answer clears a draft that was confirmed in
  between. A trace of 24 states confirmed it, the code does so (`use-onboarding-flow.ts`),
  and `ShowExtraction` records it in `overtaken` since.
- The form (`IntakeInv`): what a submission has made up to its step (`SubFollows`); which
  paths are its own (`AssetsFollow`, `BlobsFollow`); that two unfinished ones overlap only
  as said (`FormWaits`); and that what is reported is a day old, which no blob on its way
  is, and was not in use when the report was asked for (`SweepFollows`).
- The trail (`TrailInv`): every event is in one place, in the order of its recording
  (`QueuesTidy`, `Kept`), and what is dropped is older than all that `MaxPending` keeps.
  The bound on a queue after a batch was taken back is arithmetic over lengths, and the
  order a fact about concatenations and subsequences.
- Linking (`LinkInv`): a flow knows its store and its name before a callback can match
  it, a callback past its check has the store of its cookie, which is the flow's
  (`CallFollows`), and two callbacks of one flow do not both link (`OneLinks`), as a
  consent's code is spent once.
- Posting (`WorkInv`): a request that is not stale is of the photographs displayed and of
  the session of the chat (`RequestFollows`).
- Import (`ImportInv`): what a run has exported, read and written up to its step, unless
  a write came beside it (`Follows`); the target is closed after each statement, because
  references are updated after the rows they lead to; and sessions are those begun
  less those that a commit ended (`SessionsKnown`).

`TypesCorrect`, `ScreensStayTrue` and `RecordsStaySound` follow from `AppInv`.

### What only TLC checks

Liveness (`RunsAreSeenThrough`, `OwnerIsAnswered`, `SetupCompletes`, `CatchesUp`) and
`NoCircularWait`, as fairness and `ENABLED` are out of the prover's reach. Every other
property of a passing run, invariant or action property, is the statement of a theorem;
the two abstract specifications are proved to be implemented. The runs of the screens
and of the owner's app start the parts at rest in one state (`InitAtRest`), and the
theorems do not: they hold of every initial state.

## 6. Plan

Audit rows and the owner's read marks, if a handler begins to read them back. A theorem
about liveness, once the prover treats `ENABLED`.

## 7. Not modelled

- The authentication rate limit: a fixed window, one upsert and one comparison in one
  transaction; a model would restate it.
- Job and audit records: appended, and read by no handler that decides anything.
- Adapters (Google, Instagram, OpenAI, Naver) beyond their outcomes: refused, landed,
  landed with the answer lost, unreadable. Parsing and prompts are pure functions of
  data the models do not hold.
- Metrics and performance: reads and arithmetic over rows nobody writes meanwhile.
- Seeds, demonstration data, probes and smoke scripts: no part of the program.
- Rendering, wording and layout; connection pools.
