# Spare Space backend: TLA+ models and proofs

Spare Space is a NestJS backend for renting out space (garages, storage,
parking). It is one Node process on PostgreSQL (TypeORM), Redis (cache and
BullMQ queues) and socket.io. Node runs one callback at a time, so two handlers
interleave only where one of them awaits; PostgreSQL runs the transactions of
several connections concurrently. Nearly everything that is hard in this
program happens between two awaits of a handler.

This directory holds the models of the parts where that matters most, the TLC
configurations that check them on small instances, and proofs of what matters
for every instance. Paths below are relative to `src/src/` of the repository.

## 1. Inventory

| Component | State | Operations | What is hard | What makes it correct |
|---|---|---|---|---|
| Wallets (`wallets/`) | tables `wallets`, `transactions` | deposit, withdraw, processBookingPayment, processBookingPayout, processRefund, findWalletByUser | concurrent transactions on one row; a first call with no row to lock; a failure inside a transaction | no lost update, no overdraft, balance = sum of transactions, every call ends |
| Booking handlers (`bookings/bookings.handler.ts`, `bookings.service.ts`) | table `bookings` | create, updatePeriod, cancel, confirm, reject, getListingAvailability | check and save are separate awaits; save writes a whole entity read earlier; the money moves after the save | no double booking; status moves one way; the money held for a booking is its price |
| Booking scheduling (`bookings.listener.ts`, `processors/`) | BullMQ queues `booking-start`, `booking-completion` | add, remove, process, retry | job at or before its time, retried or run twice, lost when a step fails | not started or completed early; landlord paid once; a confirmed booking is paid out |
| Cache (`common/redis/redis.service.ts`) | Redis keys with TTL | getOrSet, get, set, delete, deleteByPattern | read-through races with invalidation | after a write settles, the cache holds the row or nothing |
| Users, roles, bans (`users/`) | tables `users`, `user_roles`; cached profile, status, roles | findById, update, updateOnlineStatus, updateVerifiedStatus, updateBanStatus, addRole, removeRole | update saves a whole cached user; deletes the key before the save | a ban or verification is not undone; cache settles |
| Listings (`listings/listings.service.ts`) | table `listings`, `view_history`; cached listing and lists | create, update, updateStatus, updateViewHistory | invalidation before the save; check-then-increment | cache settles; a view counts once |
| Authentication (`auth/`) | `refresh_tokens`, flash-call codes in Redis | requestFlashCall, verifyFlashCall, completeRegistration, login, refresh, logout, verifyTwoFactor | check-then-revoke; several inserts without a transaction | a refresh token is exchanged once; a user who registered has roles |
| Two-factor (`two-factor/`) | secret and recovery hashes in `users` | generateSecret, enable, disable, validate codes | whole-list overwrite of recovery codes read from the cache | a recovery code is used once |
| Telegram linking (`telegram/services/`) | `telegram_auth_tokens`, `telegram_id` in `users` | generateToken, verifyToken, /start, unlink | check-then-mark; no unique constraint on `telegram_id` | an account is linked to one user |
| WebSocket gateway (`websocket/`) | socket rooms, offline timers | connect, disconnect, subscribe, send, read, edit, delete | timers against reconnects across awaits; the room is looked at after the message is stored | a connected user is shown online; a message reaches the other participant |
| Notifications (`notifications/`) | `notifications`, `notification_deliveries`, queue | signal, process, markAsRead | a retry repeats the channels that already succeeded; payloads are cast | nothing is sent that was not recorded; every job ends; no field of a text is missing |
| Chat (`chat/`) | conversations, messages | getOrCreateConversation, sendMessage, markMessagesAsRead, editMessage, deleteMessages, delete/restoreConversation | check-then-insert; lastMessageAt from an older read | one conversation per pair and listing; previews and order follow the last message |
| Reviews (`reviews/`) | reviews; ratings in `users` | create, updateRatingForUser | check-then-insert; average of an older read | one review per booking and reviewer; rating = average |
| Subscriptions, favorites, devices | their tables; cached plans | create, cancel, remove, upsert | check-then-insert | no duplicates |
| Questions | table `questions` | create, answer | the listing and its owner are read before the save | asked of the owner, answered by who was asked |
| Telegram bot, geocoder, storage, HTTP layer | none of their own | calls to external services, validation, mapping | I/O only | not modelled |

How they interact: controllers call handlers and services; services call each
other directly (`BookingsHandler` -> `BookingsService`, `WalletsService`,
`UsersService`); after a change a handler emits an event on an in-process
`EventEmitter2`, and listeners add jobs to BullMQ queues or emit
`notification.signal`; BullMQ workers of the same process call the services again.

## 2. Modules

    Ledger          what WalletsService promises: a book of accounts
    Wallets         WalletsService statement by statement; implements Ledger
    Bookings        the bookings of one listing: handlers, service, listener,
                    queues, processors, and the money that moves with them
    Availability    the free periods that are offered; EXTENDS Bookings

    Handlers        what every handler has in common: a program of steps
    Redis           RedisService                      EXTENDS Handlers
    Users           UsersService                      EXTENDS Redis
    TwoFactor       TwoFactorService                  EXTENDS Users
    Sessions        AuthService                       EXTENDS TwoFactor
    TelegramLink    tokens, /start, unlinking         EXTENDS Users
    Reviews         ReviewsService and the ratings    EXTENDS Users
    Accounts        composes Sessions, TelegramLink and Reviews: one users table, one cache
    Listings        ListingsService                   EXTENDS Redis
    Interest        views, favorites, questions       EXTENDS Listings
    Subscriptions   plans and subscriptions           EXTENDS Redis
    Market          composes Interest and Subscriptions: one cache
    Presence        sockets, timers, who is online    EXTENDS Handlers
    Notifications   listener, queue, worker, devices  EXTENDS Presence
    Chat            conversations and messages        EXTENDS Handlers
    Gateway         message events                    EXTENDS Chat and Notifications
    Realtime        composes them

    WalletsProofs   Spec => []Inv, Spec => Ledger!LedgerSpec and Spec => []FundsMatchLog, proved
    BookingsProofs  types and shape of Bookings for any requests; its inductive invariant
                    and what follows from it when clients do not compete, proved
    DataInduction   induction over sets, sequences and numbers, and sums by it
    HandlersProofs  what every step of a program leaves of it
    RealtimeProofs  types of Realtime and what each step relies on; texts, deliveries and
                    messages; nothing is there twice
    AccountsProofs  types of Accounts, and what each step relies on
    ScriptProofs    registrations and two-factor authentication, followed step by step
    MarketProofs    types of Market, what each step relies on, and what the cache holds
    MCWallets, MCBookings, MCAccounts, MCMarket, MCRealtime   instances for TLC

### Wallets and Ledger

A step of `Wallets` is one SQL statement of one session. `owner`, `balance` and
`log` are the committed rows; `mem` is the entity in the session's memory and
`locked` the row locks. `SelectForUpdate` and `InsertWallet` are
`getLockedWallet`, `UpdateWallet` is the check of the balance and the save of the
wallet, `Commit` the insert of the transaction row and the COMMIT (both become
visible in one step because nothing of a transaction is visible earlier).
`Rollback` stands for a statement that fails, the process that dies or the
foreign key of an entry that refers to a deleted booking. `FindWallet` and
`CreateWallet` are `findWalletByUser`, which uses no transaction. Money is a
natural number of cents; `MaxBalance` is what `DECIMAL(10,2)` holds (the entity says
`(26,16)`, but the schema is created by the SQL file, `synchronize: false`).

`Ledger` has three variables and two actions, `Open` and `Post`: an entry and the
change of balance it records happen together, once per call, and never overdraw.

### Bookings

One listing. A step is what runs between two awaits. Actors are the HTTP
requests, each of which runs one handler, and one worker for each queue (the
default concurrency of a BullMQ worker is 1). `row` is the table, `ent` the entity
an actor is going to save, `first` the entity it read first (`prevPrice`,
`booking.totalPrice` of the payout and `booking.periodDates.end` of the completion job
come from that one). The steps of each handler, in the code's order:

    create        validate -> insert -> readback -> pay [-> delete]
    updatePeriod  load -> validate -> save -> charge
    cancel        load -> reload -> save -> refund -> unschedule
    reject        load -> reload -> save -> refund -> unschedule
    confirm       load -> reload -> save -> schedule
    start job     load -> reload -> save -> schedule -> ack
    completion    load -> reload -> save -> payout -> ack

`reload` is the second `findById`, in `updateStatus`, which sets the new status whatever
the status is by then; that window, and the one between `validate` and `save`, are
where competing requests meet.

Jobs: a job with a `jobId` that is stored already is not added again (so a job kept
as failed, `removeOnFail: false`, blocks a new one); a job that throws is tried
`attempts` times; a job whose worker died is moved back once, then fails
(`maxStalledCount` 1). `Fault` makes the statement at any await fail; `Crash` kills
all handlers and workers at once. Both are bounded by `MaxFaults`.

What is abstracted:
- a wallet operation is one step, which `Wallets` and its refinement of `Ledger` justify;
  each user has one wallet that exists (two wallets are the subject of the run
  `wallets_duplicate`); an operation whose commit succeeds while its answer is lost is left out;
- `save` is one step that writes every column. TypeORM selects the row again inside
  `save` and writes the columns that differ from it, which comes to the same unless another
  write falls between these two statements;
- `validate` is one step: the read of the listing, the comparison with the clock and
  the query for overlapping bookings. Nothing between them depends on other bookings;
- pricings and availability of the listing are constant, so the price copied into a
  booking is its tariff's price; `Tariffs` are its price periods, of fixed length
  (calendar months and DST are not modelled); the listing is ACTIVE and the renter is
  not its owner, otherwise `create` has no effect;
- notifications are in `Notifications`; logging and reads without an effect have no action;
- a handler returns when its listener is through: the code answers the client while
  the listener is still adding or removing the job.

`Serial` TRUE restricts the environment: while a request about a booking is in flight
no other request about it is sent, and of the requests that claim a period (`create`,
`updatePeriod`) one at a time. Workers, clock, failures and crashes interleave with
them freely. Nothing in the code enforces this: it is the condition under which the
code's checks mean what they say, and what goes wrong without it is shown by
`bookings_overlap` and bounded by `bookings_races`.

### Availability

`getListingAvailability` cuts the listing's slots at the start of today and takes the bookings out
one by one, leaving what is before and what is after each. `GetListingAvailability` folds `Less`
over the rows in the same way, and `OfferedIsAccepted` compares the result, in every state of the
bookings, with `Valid`, the model of `validateBookingDates`: the two are written
independently in the code, and a client asks the one before it relies on the other. A day is `Day` units.

### Handlers

Everything below is one Node process, so a handler runs alone up to its next `await`. A handler
is a *program*: a sequence of steps, each a tuple of a label and its arguments, in the order of the
code's statements. `req[r]` holds the program of the request in slot `r`, what is left of it, and what
it has read (`got`: its local variables). A module defines its service's methods as programs
(`Update(u, patch) == ... \o FindById(u) \o <<<<"delete", ...>>, <<"save", u, patch>>>>`),
so that a method that calls another one contains its program, and one action for each label.
`Throw` ends a program, `Require` does unless its condition holds, `Do` puts more steps first, and
`Fault` is a rejected await. Handlers are entered by a request or an event (`Begin`) or by a
timer or a worker (`Wake`).

Most invariants of this backend hold only as long as requests about one thing do not overlap,
because check and write are separate awaits and there are few constraints in the schema. So
each request names its *subjects* (`about`: the users, listings, keys it may write or fill a cache
with), and `contended` collects those that two requests in flight were about, or one
that failed. `Settled(s)`: nothing is in flight about `s`, and nothing that could have disturbed it ever
was. Invariants are stated of subjects that settled or are not contended; where a constraint of
the database or the order of the statements makes more true, they are stated without
this condition (`AccountsInv`, `InterestInOthers`, plan names in `OneSubscription`, `DeliveriesRecorded`,
`MessageReaches`), and what becomes of the rest is a liveness property (`SettlesFresh`,
`MarketSettles`). `contended` and `spent` are history; no action reads them.

A *load* (`Mixes`) says which operations arrive in a behaviour, how many, how many fail, which
subjects no request is about, whether keys expire, and what the tables hold at first. Each run
explores all of its loads from separate initial states.

### Accounts

`Users` keeps `users` and `user_roles` and reads them through three keys. `update` merges the patch
into the entity that the cache gave it and saves every column (`Merged`), and deletes the
key before the save; the other writes change one column and delete the key afterwards. `Validate` is
the JWT guard: banned users and users without roles are refused. `TwoFactor` proposes a
secret under a temporary key and works through `update`; `Sessions` has the flash call (with "0000", which the
code accepts whatever is stored), registration, login, and the chain of refresh tokens, whose links
carry the login they stem from; a refresh with a token that was revoked throws and leaves the newest token of its login valid. `TelegramLink` is the token of the web side, `/start` on the bot's
side with the account taken from whoever had it, and unlinking. `Reviews` stores a review, computes
the rating from the list of the reviews, saves it with `update` and drops cached pages.

Abstracted: the columns no rule is about are left out; a TOTP or flash-call code is right or wrong;
a JWT is known to the environment once it was issued; two uniqueness checks in a row of `update` are one step;
a rating is a sum and a count instead of a rounded quotient.

### Market

`Listings` has the table with its prices, both caches, the search with its filters and which
searches may be cached. `update` prepares the entity from the cached one and drops the keys before
the save; the moderator's verdict and the view counter change a column. `Interest` adds
what others do with a listing: `findById` with the check that hides a withdrawn listing, the
view counter with its history, favorites (unique by constraint) and questions. `Subscriptions` has
plans behind a cache and the subscriptions of landlords.

What an update, a verdict or a withdrawal is about includes the listing's owner (`Concerned`), whose page it drops; of a listing
that is not there yet the owner can be anybody. What only reads a listing is not about its owner, and section 4 says what comes
of that.

Abstracted: limit and offset (a page stands for all pages of its query), distance and
similarity (a set of places, of titles), pictures, availability, end dates.

### Realtime

`Presence` is `handleConnection` and `handleDisconnect` with the map of timers: `timers[u]` is the map's
entry and `orphans[u]` counts timers that are set but no longer in it. `Chat` is ChatService: finders that
do not see what was deleted softly, `getOrCreate`, deletion of both kinds, restoring. Messages are found by a join
with their conversation, so that those of a softly deleted one are not found either (`Listed`), while `markMessagesAsRead`
updates them by their column. An instant is
the number of the last message before it. `shown` keeps the preview of a conversation a participant
was shown last, by REST or by `conversation:preview:update`, whichever came later. `Gateway` has the
six message events step by step; `heard` are the messages that `message:new` brought to somebody.
`Notifications` stores a signal, sends it to an open socket, and queues it; the worker pushes and
sends to Telegram and is tried three times. A text is the set of payload fields it is built from (`Build`), a
payload the set its emitter fills (`Payload`).

The adapter of socket.io is in memory, so joining a room and looking at it happen in one step;
`message:edited`, `message:read:update` and `message:deleted` change nothing on the server and are left
out; what the client of a removed token does is left out. The registration of a device whose row is deleted between
the find and the save throws: the entity was loaded without its user. Only Telegram's and Firebase's
errors are caught; any other fails the attempt. Connections, disconnections and timers are not made to fail:
a rejection there is not handled by the code and ends the process.

## 3. Runs

| Run | Instance | Shows |
|---|---|---|
| `wallets` | 2 users, 3 calls, amount 1, limit 2, failures anywhere | locks and snapshots are consistent (`Inv`), money and log agree (`FundsMatchLog`), refinement (`LedgerSpec`), termination (`EveryCallEnds`) |
| `bookings_serial` | 3 requests, 2 renters, slot of 3 units, 1 failure, `Serial` | `Inv`, exact escrow, no double booking, status graph, no early start or completion, one payout |
| `bookings_races` | 3 requests that compete, 1 failure | completed bookings are final and paid at most once; what is offered is accepted, also among bookings that overlap (`OfferedIsAccepted`) |
| `bookings_jobs` | 2 requests, 1 failure, fairness | a confirmed booking is paid out, a cancelled one refunded |
| `accounts` | 3 users, 2 handlers at once, 15 loads of 2 to 4 requests with at most 1 failure, fairness | one user per phone (`AccountsInv`); fresh caches of users (`UsersFresh`); no write undoes another's column (`OnlyItsColumns`) or a ban (`BannedStaysOut`); codes are used once (`TwoFactorCoherent`); one user per Telegram account, who has spent a token on it (`TelegramLinked`); no valid refresh token, for good, after a logout (`LogoutEnds`); both roles (`RegisteredIsWhole`); ratings, reviews and their pages (`ReviewsCounted`); caches end fresh (`SettlesFresh`) |
| `market` | 3 users, 3 listings, 2 plans, 2 handlers at once, 14 loads of 2 or 3 requests | types, one price per period (`MarketInv`); fresh caches (`CachesFresh`); the counter of views is that of viewers (`ViewsCounted`); `findOne` opens no withdrawn listing to strangers (`FindOneHidesWithdrawn`); favorites and questions (`InterestInOthers`); plans and subscriptions (`OneSubscription`); no verdict is undone (`VerdictKept`); caches end fresh (`MarketSettles`) |
| `realtime` | 3 users, 4 sockets, 1 listing, 2 handlers at once, 19 loads of 1 to 4 requests with at most 3 failures | senders are participants (`RealtimeInv`); no second conversation or device row (`NoDuplicates`); previews and order are those of the last message (`ConversationShown`); messages arrive (`MessageReaches`); deliveries are recorded and tried three times at most (`DeliveriesRecorded`); texts have their fields (`NothingMissing`); handlers and jobs end and presence comes to be right (`RealtimeSettles`) |
| `bookings_overlap` | 2 requests that compete | violation of `NoOverlap` |
| `bookings_shortfall` | `Serial`, renters with 1 | violation of `RefundsBacked` |
| `bookings_retry` | `Serial`, 1 failure | violation of `CompletedIsPaidOut` |
| `wallets_duplicate` | 2 calls | violation of `OneWalletPerUser` |
| `realtime_restore` | a conversation that is deleted and restored | violation of `Restores` |

Bounds. Three calls on two users are enough for a session that holds a lock, one that
waits and one on another row, and for two wallets of one user; the limit 2 makes
both refusals happen (overdraft and overflow). Three requests let a booking be created,
changed and answered, or two bookings compete while a third is changed; the slot of
three units holds two bookings side by side and overlapping ones; `Funds` 2 lets a
payment succeed, fail at creation and fail at an update. `MaxTime` 3 is the
end of the slot, so jobs come due before, at and after it; with `Day` 2 the start of today
falls before and into the slot. `MaxAge` is how many
ticks a handler may take: with 0 the clock stands still while a handler runs, with 1 it
may pass the start of the booking between the check and the save. One failure is
what the retries are there for.

In the runs of handlers, two at once are what every race listed in the hazards takes, since each
is between one handler's read and its write; the third and fourth request of a load see
what the first two left behind. A load brings together the operations that touch the
same rows or keys; operations that share neither do not disturb each other. Three failures let a job fail all
of its attempts. Two users talk, a third is an outsider; one of the users has two sockets, so that the first
and the last socket are told apart.

Deadlock is not checked: every request runs once and the clock stops, so every behaviour
ends.

Fairness. `FairSpec` assumes that an actor that has a next step takes it (the event
loop runs every resolved promise; PostgreSQL grants a lock that is free; BullMQ
polls), and that the clock goes on. In `Accounts` and `Market` it is assumed of the steps of the
handlers taken together, and of the expiry of keys in the loads that last, as every key is set
with a TTL; in `Realtime` of the steps of handlers, timers and the worker taken together. That is weaker
than fairness to each and enough, because the steps that are left become fewer. Nobody has to send a request, and nothing has to
fail. Weak fairness is enough: a session at a lock has one competitor fewer each time
the lock is granted, as each call runs once.

## 4. Findings

- **Double booking** (`bookings_overlap`): `validateBookingDates` says "период должен не
  пересекаться с другими бронированиями" (`bookings/bookings.service.ts:256`), but two concurrent
  requests both find the period free and both save; no lock, transaction or
  exclusion constraint prevents it.
- **Refund of money that was not paid** (`bookings_shortfall`): `updatePeriod` saves the higher
  price before it charges the difference (`bookings/bookings.handler.ts:74-78`). If the wallet
  refuses, the client gets an error, the booking keeps the higher price, and a cancellation
  refunds it in full.
- **Payout lost on retry** (`bookings_retry`): COMPLETED is saved before the payout
  (`processors/booking-completion.processor.ts:44-48`). "BullMQ автоматически повторит попытку"
  (line 86): the retry finds a status that is not ACTIVE and returns.
- **Two wallets** (`wallets_duplicate`): "Если кошелька нет, создаем новый"
  (`wallets/wallets.service.ts:26`); `wallets.user_id` is not unique, so two first calls make two
  wallets, and `findOne` later picks either.
- **A deleted conversation cannot be restored** (`realtime_restore`): `restoreConversation` in
  `chat/chat.controller.ts:157` first calls `verifyConversationAccess`, whose `findConversationById` does not see
  rows that were deleted softly, so that a participant is always answered 404. "Восстановление мягко
  удаленной беседы" (`chat/chat.service.ts:266`) is reached only by conversations that were not deleted.

What else was seen while modelling, without a run of its own:

- The start job has the weakness of the completion job: if it fails after ACTIVE was saved, its
  retry returns, the completion job is never added and the booking stays ACTIVE.
- Where the conditions on `contended` stand in the invariants, the code offers no protection: two refreshes
  with one token both succeed; a recovery code can be used twice; an update of a profile
  can undo a ban that falls between its read and its save; two reviews, subscriptions,
  conversations or device rows can be made by two requests at once.
- `reviews/reviews.service.ts:201` passes `targetUserId` where the listener reads `userId`: the notification about a
  review fails on NOT NULL, the listener logs the error and nobody is told. The
  model has this signal with `NoUser`.
- A `message:read` of messages without the last one does not send a preview, so the counter of unread messages
  shown last may be too high; `ConversationShown` only says that it is never too low.
- If a conversation is deleted between the insert of a message and `getOtherParticipantId`, the
  message is lost to the recipient and the sender is told of an error; `MessageReaches` is about loads
  without deletions and failures.
- A withdrawn listing can stay on its owner's page. `updateStatus` drops the pages of the owner only if the status it has read, through the
  cache, or the new one is ACTIVE (`listings/listings.service.ts:197`). A `findOne` by anybody that read a refused row before a moderator
  approved it sets the key again after the verdict has deleted it; the owner's page is cached with the listing on it; and when the owner deletes the
  listing, the stale status is REJECTED and the page stays until its TTL. An earlier form of `CachesFresh`, in which the page was right
  once its owner had settled, is violated by these four calls; what is true, and proved, is that the page is right as long as neither its
  owner nor any listing of the owner was contended (`Calm`).
- The cached listing holds the data of its owner, and no write of a user drops it; pages by type are
  dropped by no write and live until their TTL.
- `listing.save` with other prices for the same period meets UNIQUE(listing_id, price_period); a second plan with the
  same name gets the database's error on update and a 409 on creation; a subscription to an
  inactive plan is possible; its end is computed with `setMonth`, which overflows at the
  end of a month; FAILED is never written as the status of a delivery.

## 5. Proofs

All theorems hold for every value of the constants that satisfies the named
assumptions of the modules.

**Wallets** (`WalletsProofs`; `AmountsAssumption`, `MaxBalanceAssumption`, `NullsAssumption`).
`Invariance`: `Spec => []Inv`. `Inv` is inductive as it stands: the types; `LocksHeld`, a
session past its SELECT ... FOR UPDATE holds the lock of the wallet it read, and only such
a session holds a lock; `SnapshotCurrent`, the balance in its memory is the committed one
up to the update and the one that follows from it at the commit; `RowsCommitted`, the log
holds entries of committed calls only and a session works on a committed wallet or on
one it inserted itself. Without the locks, another session's commit would break
`SnapshotCurrent`; without `SnapshotCurrent`, a commit could write over an update.
`Refinement`: `Spec => LedgerSpec`. A commit maps to `Post`, an insert of a
wallet to `Open`, and every other statement leaves the book alone; that `Post` does not
overdraw follows from `SnapshotCurrent`, because the check of the balance looked at the entity.

**Bookings, any requests** (`BookingsProofs`; `TariffsAssumption`, `CountsAssumption`,
`BoundsAssumption`, `FlagAssumption`, `NullsAssumption`, `SlotsAssumption`). `KnownInvariance`: `Spec => []Known`, the
types and `Shape`: an actor at a step has the operation, the booking and the entities the
step uses. It needs no assumption about the clients. One lemma per action (`LoadKnown`,
`SaveKnown`, ...), on lemmas about what the building blocks preserve (`FinishKnown`,
`ThrowKnown`, `GotoKnown`, `MoneyTyped`).

**Bookings, clients that do not compete** (`BookingsProofs`; the same assumptions, and
`Serial` where a theorem says so). `Invariance`: `Spec => []Inv`, where `Inv` is `Known` and,
under `Serial`, `SerialInv`:

- `Exclusive`: requests in flight are about different bookings, and one of them at
  most claims a period;
- `Fresh` and `View`: what an actor has read is what the table holds up to its save;
- `StillFree` and `NoOverlap`: the period about to be saved is free, and those saved do
  not overlap;
- `MoneyOnTheWay`, `EscrowExact` and `PaidOutOnce`: the sums of a booking's entries while an actor
  still owes money for it, and when none does.

None of the last three groups is inductive alone: `NoOverlap` needs `StillFree` at the save,
`StillFree` needs `Exclusive` against another claim and `View` against another save, and the
money of a save needs that nobody else owes any for the same booking. That last fact is
`OneWatcher`, the lemma the proof turns on: of the actors that rely on a row there is one
only, because requests exclude each other and the status each actor saw tells requests,
the start job and the completion job apart. The actions are then grouped by what they do:
`QuietStep` (no row, no money), `StillOwingStep` (from one step that owes to another),
`SettlingStep` (the money an actor owes moves) and `RowStep` (a row changes); each action of
an actor is one of these, and the crash and the clock have lemmas of their own. Worker failures, crashes and
retries are part of `Spec`, with any `MaxFaults`, `MaxAge` and `MaxAttempts`.
From `Invariance` follow `NoDoubleBooking`, `ExactEscrow`, `OnePayout`, `OneWay` (the
action property `StatusMoves`) and `CompletedStays` (`CompletedForGood`).

`NotEarly`: `Spec => []InItsTime`. A booking is ACTIVE only once its start has come because the start job
was not due before: `DueInTime` says that a job that is queued belongs to a booking that was confirmed, and
comes due at the start of its period or later, that a handler about to add the job has the period of the row,
and that the worker which took the job found it due. It needs that nobody moves the period of a confirmed booking,
which is `View` again: a request that saw PENDING is the only one about its booking.

`OfferedExactly`: `Spec => []OfferedIsAccepted`, whatever requests race and however periods and bookings overlap. `LessCovers`: what is left
of one period covers what the period covers and the booking does not touch, the empty pieces that are thrown away included; `FoldCovers`
carries this over the fold by induction over the number of bookings, in whatever order the fold takes them (`FoldExists`: its
recursion has a solution on finite sets). The bookings are finitely many because a step adds one at most (`BookedStep`),
so `Requests` need not be finite. What the method leaves out, because it ended before today, overlaps nothing that starts now or later.
`SlotsAssumption`: a slot has a start and an end; nothing says that it starts first.

**Sums** (`DataInduction`). The library's induction theorems take an operator as a parameter, which
the provers cannot instantiate. `SetInduction` and `FiniteInduction` say the same of sets and are derived
from `WFMin` and `NatLessThanWellFounded`. With them: what `MapThenSumSet` computes over a finite set is
its recursive definition, does not depend on the order in which elements are chosen (`SumsAgree`), and changes by the
change of one addend (`SumAdd`, `SumChange`); a set of naturals with a bound has a maximum (`MaxElement`).
`Balanced` (`WalletsProofs`): `Spec => []FundsMatchLog`. A commit adds one entry to the log and the same
amount to one wallet of the entry's user, so both sums move together; `SnapshotCurrent` gives what the balance was.

**Realtime** (`HandlersAssumption`, `RealtimeAssumption`). A handler's steps are data in this model, so
an invariant of what it will do speaks about what is left of its program. `HandlersProofs` proves, once for all modules over
`Handlers`, what is left after each building block (`Continues`, `Does`, `Throws`, `Starts`, `Faults`) and that programs,
also concatenated ones, are functions from 1 to their length.
`RealtimeAssumption`: whoever talks is a user and a socket has one user (the token of the connection), `NoUser`
is nobody, signals are the types that listeners emit, and the tables at the start are ones that the code could have left
(`Consistent`; each load of the run satisfies it, and TLC evaluates it).

- `RealtimeTypes` (`RealtimeInv`). `TypesInv` adds to the types of the tables that each step left in a program has arguments that its
  action expects (`StepOK`), that a message is inserted only for a participant or after an `access` step that is still to
  come for the same conversation and user (`Before`, `Ready`), and what the last step of a program is (`Ends`): after the
  insert, nothing is left that would make another one. That no row ever goes and no row changes whom it is about (`Grows`) is what
  keeps the promises of the other handlers' programs while one takes a step.
- `PayloadsSuffice` (`NothingMissing`): a signal of a type is emitted at the places that `SignalTypes` lists, so a cast in
  the builder of texts never meets a payload without a field it reads.
- `Deliveries` (`DeliveriesRecorded`). `Working` and `Listening` list the shapes the programs of the worker and of the listener can have,
  each with what is recorded and sent by then; `Exclusive`: no two requests work on one notification; `RowKept` bounds what was
  recorded by the tries. A retry sends what was sent already once more, which is why the bound is the number of tries.
- `NothingTwice` (`NoDuplicates`). `Apart`: what two requests in flight are both about is contended. `Looked`: what a request will
  write it is about, and it has looked before: a conversation is created after a find that saw none, a device saved on
  the row that was found. Restoring creates none because only what was never hidden is let in (finding five).
- `EveryMessageReaches` (`MessageReaches`). `OnItsWay`: as long as a message has not reached anybody, a request carries
  it (`Tells`) and nothing that is left of that request before can stop it (`Passes`); `Keeping`: what is going to be inserted goes into a
  conversation that is there. Joining and leaving rooms, also of the recipient between two steps of the sender, cannot disturb it, because the room
  is looked at in the step that decides between the room and a notification.

**Accounts** (`HandlersAssumption`, `AccountsAssumption`: the absent row is no row, and the tables at the start are ones that
the code could have left; TLC evaluates it for every load of the run). `AccountsProofs` builds three layers, each an
invariant of all handlers at any step.

1. `AccountsTyped` (`AccountsTypes`), from which `AccountsSafe` (`AccountsInv`) follows. A program that is left `Fit`s what its request is
   about: each step has the arguments its action expects (`StepOK`) and works on subjects the request named
   (`Minds`), a read through the cache is whole, and a column is written with the key deleted next (`Adjacent`). A step
   `Uses`, `Gives` or `Breaks` a *fact*: that the copy of a key in memory is the row, that a Telegram account is free, that a key
   is deleted, that a user is absent. `Sound` says that what may break a fact which a later step relies on is followed by a
   step that establishes it again; it is preserved by taking a step and by inserting a called handler's program, which is why each program
   is checked once, as a list, and not at each of its interleavings.
2. `Chains`, with `OneToken` (`OneTokenPerLogin`): whoever is going to issue the next token of a login has revoked the last one or does it in its next
   step, unless two requests were about that login. A registration or login starts a chain of its own.
3. `Known`, with `OneTelegram` (`TelegramUnique`) and `FreshUsers` (`UsersFresh`). `Knows`: a fact that a program left in flight
   `Needs`, not established by itself first, holds now, or its subject is contended. `CacheFresh`: what a key of a user
   holds is the row, or a request deletes it in its next step. The two need each other: `update` saves the entity it has read from the cache, so
   the row it writes is right only if the copy was; and the key stays fresh after the save only because it was
   deleted before and nobody not contended has set it since. None is inductive without `Closed`: a handler that starts relies on nothing.

From the third layer follow two action properties. `BannedOut` (`BannedStaysOut`): the guard lets nobody pass, and `findOne` shows nobody, who is
banned at that moment, unless two requests were about the user, because the profile they look at is known to be the row.
`NamedColumns` (`OnlyItsColumns`): the save of all columns changes those of the patch only, where requests did not
compete, although it writes back what the cache gave it.

`RegisteredWhole` (`RegisteredIsWhole`), in `ScriptProofs`, needs more of a program than its labels: that a registration has found the phone number free before it makes a
user, and adds the second role after the first. So it is followed as a *script*: `Rest` says that what a request has left is what is left of
a script after some steps, `BegunStep` and `BegunSkip` how it goes on. The invariant, `Signing`: each request is `Registers`, at some
step of `CompleteRegistration` with the roles that step implies (`RolesAfter`), or has no step left that adds a role or makes a user;
and whoever has signed up and is not whole is being registered by somebody, or contended.

`CodesCoherent` (`TwoFactorCoherent`), in the same module, follows the requests of two-factor authentication as scripts as well. Turning it on
is several awaits (the secret is saved, then the backup codes are; the proposed secret is deleted from the cache in a step of its own), and so is spending
a code (the list is read, the used code looked up, the list saved without it). In between a user is *not* coherent, so the invariant, `Coding`, says
of each user whom no requests raced about that it is `Fine`. Either it is `Coherent` (codes only while
two-factor authentication is on, none of them spent, no secret proposed while one is in use) and every request in flight
leaves its codes alone (`Spares`), or one request is `Busy` with it, at some step of `GenerateSecret` or `EnableTwoFactor` with what it knows there (`Off`: two-factor
authentication was off when the profile was read, and still is; `On`) or about to save the list without the code it has accepted (`Spends`), and all others leave
it alone. `Follows` says that what a request has left is the rest of the script and then steps that spare the user. It rests on `AccountsKnown`: the profile
that `EnableTwoFactor` looked at, which a cache may have given, is the row. TLC checked `Coding` as an invariant of a small instance
(368157 states) before it was proved.

**Market** (`HandlersAssumption`, `ListingsAssumption`: offers and queries are what the DTOs let through; `SubscriptionsAssumption`:
landlords are among those who buy; `MarketAssumption`: the tables at the start are ones the code could have left).
`MarketProofs` proves one invariant, `Inv`, from which all that the run `market` checks follows but for liveness. TLC has checked
`Inv` itself, as an invariant of a smaller instance, before each of its parts was proved. Its parts:

- `Shaped`. Each program that is left `Fit`s what its request is about, and `Knows` the facts it `Needs`: each of these is true,
  or its subject is contended. Facts are of two kinds. The `Hard` ones stay true once established (who is a landlord, who owns a
  listing, that the prices are one for each period). The `Soft` ones end when somebody else writes: that what was read is the row (`copy`), that the
  key is gone (`dropped`) or the page of the owner is (`unpaged`), that a listing may be seen (`seen`), that a user has not viewed a listing
  (`novel`) and that its counter is one ahead of its history (`ahead`), that nobody subscribed (`alone`). `Steady` says that a step
  leaves a fact alone, and `Minding` that a step of a request ends facts only about its own subjects, which is where `contended` comes in:
  two requests about one subject are noted when the second one starts.
- `CacheFresh`. A key holds what the tables hold, or a request is about to drop it (`Drops`: nothing but deletions are left before it), or
  its subject is contended. For the page of a user also the listings of that user must not be (`Calm`); without that the invariant
  is false, and so is what an earlier form of `CachesFresh` said (section 4): the proof attempt found it, and TLC the run.
- `Balanced` and `Novel`. The counter of a listing is the number of its views, or a request has counted one and not inserted it yet.
- `TablesOK`, `Cached`: types, also of what is under the keys; a posted listing keeps its owner (`Growth`), which `InterestInOthers` rests on.

The parts need each other: `update` saves what it has read, so the row is right after it only if the copy was (`CacheFresh`), and the
key is fresh after the save only because `update` has dropped it before and nobody set it since (`dropped`, `unpaged`), while
`updateStatus` drops it afterwards (`Drops`). Programs are taken apart in the same way as those of the accounts: `FitTail`, `FitJoin`, `NeedsTail`
and `NeedsJoin` say what a step and a call leave; each action has one lemma (`SaveListingInv`, `SetStatusInv`, ...), and each handler one
that its program `Fit`s and is `Closed` (`VisitFits`, `UpdateFits`, ...). From `Inv` follow `MarketSafe` (`MarketInv`), `NeverOwnListings`
(`InterestInOthers`), `SubscribedOnce` (`OneSubscription`), `NoStaleKeys` (`CachesFresh`), `EveryViewCounts` (`ViewsCounted`),
`FindOneHides` (`FindOneHidesWithdrawn`: whoever reaches `show` has the fact `seen`; it is about the response of `findOne`, and the pages of a
type, which no write drops, listings.service.ts:195-199, list a withdrawn listing until they expire) and the action property `VerdictStays`
(`VerdictKept`): a save writes the columns of the patch and otherwise the copy it has read, which is the row.

Model-checked only: `ReviewsCounted`, `LogoutEnds` and, in `TelegramLinked`, `LinksCostTokens` of the accounts;
`ConversationShown`;
`CompletedForGood` and `PaidOutOnce` when clients compete
(`bookings_races`, where the clock stands still while a handler runs).

Out of reach here: liveness (`EveryCallEnds`, `ConfirmedIsPaidOut`, `CancelledIsRefunded`, `SettlesFresh`,
`MarketSettles`, `RealtimeSettles`), which TLC checks under fairness.

## 6. Not modelled

- `removeRole` of UsersService: nothing calls it.
- The commands of the Telegram bot but for /start: they show pages, and confirm or reject
  a booking through the operations `Bookings` has.
- Geocoder and storage: calls to other services without state here; a failing one is a `Fault`.
- The HTTP layer: validation, mapping, wiring. What a guard refuses is a step of the handler it stands before
  (`Validate`), and inputs are what the DTOs let through.
- Reads that are neither cached nor part of a decision (`findGeo`, the lists of bookings,
  transactions, notifications).
- Calendar arithmetic of `calculateEndDate`: the tariffs of the model have fixed lengths.
- A crash of the process in the modules over `Handlers`: it ends every handler, as `Fault` ends one, and
  loses the rooms and timers, which a new process starts without.

## 7. Plan

1. Wallets, Ledger, Bookings, Availability, Accounts, Market, Realtime: done.
2. Proofs of wallets, bookings, the realtime part, accounts and the market: done.
3. Left: a proof of `ReviewsCounted` on the layers of `AccountsProofs`; `ConversationShown`
   with its previews.
