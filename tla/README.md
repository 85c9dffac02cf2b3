# UniMate back end: a TLA+ model

UniMate is a marketplace for exchange students: a NestJS monorepo with two
servers, `api-server` (REST: posts, trades, reviews, users, notifications) and
`chat-server` (REST and Socket.IO: conversations and messages), over one MySQL
database (MikroORM), one Redis, SQS for pushes and S3 for images. Several
instances of each server run at the same time. This directory models the parts
in which concurrent requests meet shared state, checks them with TLC and proves
the safety of every part with TLAPS.

Paths below abbreviate `apps/api-server/src` as *api*, `apps/chat-server/src` as
*chat*, `libs/redis/src/repositories` as *redis*, `libs/database/src/entites` as
*db*.

## 1. Inventory

### Components, their state and operations

| component | code | state | operations | status |
|---|---|---|---|---|
| Sending messages | *chat*`/chat/application/chat.service.ts` `sendMessage`, `chat.gateway.ts`, *redis*`/message-request-cache` | `conversation.lastMessageNumber`, `conversation_message` rows, Redis lock (10 s) and request record (5 min) | send, wait for a concurrent duplicate, broadcast | modelled: `SendMessage`, `MessageLog` |
| Participant cache | *redis*`/participant-cache`, `chat.service.ts`, *chat*`/conversation/application/conversation.service.ts` | `conversation_participant` rows, Redis set of serialised participants | load or rebuild, mark as read, mute, unmute, leave | modelled: `ParticipantCache` |
| Presence | `chat.gateway.ts`, `chat.service.ts`, *redis*`/session-cache`, `room-online-cache`, `user-online-rooms-cache` | four Redis keys, the Socket.IO rooms | connect, disconnect, join, leave | modelled: `Presence` |
| Posts and trade | *api*`/product-post/application/product-post.service.ts`, *db*`/product-post`, `trade-progress` | `product_post`, `product_image`, `trade_progress` | create, edit, hide, unhide, delete, change of trade status, deletion of a purchase, detail, lists, search | modelled: `Trade`, `TradeLifecycle`, `Posts`, `Listing` |
| Likes | the same service, *db*`/like` | `like` rows | like, unlike, counts and marks | modelled: `Posts`, `Listing` |
| Reviews | *api*`/review/application/review.service.ts` | `review` rows | create | modelled in `Trade` |
| Conversations (REST) | `conversation.service.ts`, *db*`/conversation*` | `conversation`, `conversation_participant`, `conversation_message` | create, list, read, mute, leave, permission to send | modelled: `Conversations`, `Listing`; at the caches in `ParticipantCache`, `Presence` |
| Notifications | *api*`/notification`, `libs/common/src/sqs` | `notification` rows, SQS | fan-out in batches, mark as read, delete, list, settings | modelled: `Fanout`; the end of a sale in `Trade` |
| Accounts | *api*`/user` | `user`, `interest_region`, `user_agreement` | sign-up, sign-in, profile, regions, agreements, withdrawal | modelled: `Registration`, `InterestRegions`, `Ownership` |
| Tokens | *api*`/auth`, `libs/auth` | refresh token on the user row | sign, store, exchange | modelled: `Registration` |
| University verification | *api*`/university` | code in Redis (10 min) | send, verify | modelled: `Verification` |
| Blocks, devices, reports | *api* | one table each | insert or delete after a find, list by cursor | modelled: `Ownership` |
| Pagination | `libs/common` | none | pages by offset and by cursor | modelled: `Pagination` |
| Update popups, terms, regions | *api* | reference data | choice of a popup; lookups | partly: `UpdatePopup` |
| S3, controllers, DTOs, migrations | | none of their own | I/O, wiring | not modelled |

### How they interact

- A client talks to `ChatGateway`; `joinRoom` and `sendMessage` authorise through
  the participant cache, not the rows. `sendMessage` emits to the user rooms of
  the cached participants and pushes to those `room:online` does not list.
- `leaveConversation` (REST) changes rows, the participant cache and
  `room:online`, but neither `user:online-rooms` nor the Socket.IO rooms.
- `withdrawUser` deletes the participant rows and does not touch the cache.
- `updateTradeStatus` requires a live conversation of the buyer about the post,
  and calls the notification service inside its own transaction.
- `createReview` requires the post to be `COMPLETED`; `deletePurchaseHistory`
  deletes the row a trade is recorded in.
- `updateProductPost` notifies, inside its transaction, whoever likes the post or
  chats about it; the list of those comes from the tables of likes,
  conversations, users and devices.
- `withdrawUser` deletes the user's rows of eleven tables in one transaction. An
  access token is checked for its signature only, so requests of the withdrawn
  user still arrive.

### What is hard

No table has a unique key besides its id (the last one, on nicknames, was
dropped by `Migration20251208135220`), so every "check, then insert" is a race. Transactions run under
REPEATABLE READ: reads take no locks, UPDATEs are blind; only
`findByIdWithLock` uses `FOR UPDATE`. Redis commands are not transactions, and
they are sent before the surrounding MySQL transaction commits. Redis keys
expire. A Socket.IO event is handled although its socket has closed meanwhile.
Every `await` may reject. `PROJECT.json` lists these hazards line by line.

What makes each component correct:

- *sending*: a conversation is a gapless append-only log; a retry does not append
  again; nobody is told of a message that is not stored; every event is answered;
- *participant cache*: fields are the participant's own; in the end cache equals rows;
- *presence*: a connected socket that has joined is listed; who has left is not, and if
  a failure leaves somebody listed, a TTL ends it;
- *trade*: one live progress row, of the post's status; completed is final; a
  post is frozen while it is traded; reviews are of completed trades, one per
  reviewer;
- *accounts, blocks, likes, conversations*: one row per key between requests that
  follow one another, and duplicates only out of requests that met; nothing is left
  of a user who has withdrawn; a primary region is not lost; a token or code is used once;
- *notifications*: a push has its notification, goes to those who want it and to
  nobody twice;
- *lists*: paging shows what was there all the while, once;
- *messages*: whoever joins a room and then reads misses none, and everyone who takes
  part gets one event.

## 2. Modules

| module | what it is |
|---|---|
| `MessageLog` | abstract: one append-only log per conversation, and which messages were announced |
| `SendMessage` | the handler of `sendMessage`, one action per await; refines `MessageLog` |
| `ParticipantCache` | rows and Redis set of the participants of one conversation |
| `Presence` | sessions, sockets and the online lists |
| `TradeLifecycle` | abstract: status and holder of each post's trade |
| `Trade` | the transactions on posts, progress rows and reviews; refines `TradeLifecycle` |
| `Requests` | concurrent handlers in general: steps, snapshots, failures, and tables with soft deletion |
| `AccountData` | tables and finders of the account group |
| `Registration`, `InterestRegions`, `Ownership`, `Verification`, `UpdatePopup` | its services |
| `Account` | these five together over one database |
| `MarketData` | tables and finders of the market group |
| `Fanout`, `Posts`, `Listing`, `Conversations` | its services, each extending the one before |
| `Market` | these four together over one database |
| `Pagination` | pages by offset and cursor, used by both groups |
| `SendMessageProofs`, `ParticipantCacheProofs`, `PresenceProofs`, `TradeProofs` | theorems about the module each is named after |
| `RequestsProofs` | lemmas about handlers, `past` and writes to tables |
| `AccountProofs` | theorems about the account group: types, what each handler does to the rows and what it carries; withdrawal, verification, refresh tokens, checks before an insert, the list of blocks, popups |
| `MarketProofs` | theorems about the market group: types, what each handler does to the rows and what it carries; likes, images, conversations, permission to write, tradable users, answers of several queries |
| `MarketSafetyProofs` | the rest of them: the fan-out of a price change, messages, lists read page by page |
| `MCSendMessage`, `MCParticipantCache`, `MCPresence`, `MCTrade`, `MCAccount`, `MCMarket` | instances for TLC |

Names of actions are the names of the methods or statements they stand for, and
operators called `X_Something` are faulty variants of `X`, each under a comment
that begins with *Mutant*; no `Next` uses them. They show that a property can fail.

### `SendMessage`

A handler is one delivery of the event; a retry is a second handler with the
same `request`. `pc` follows the awaits of `sendMessage`:

    check -> lock -> load -> save -> insert -> release -> record -> notify -> acked
                 \-> waiting -> existing -> acked

`check` is `getMessageRequest`, `lock` is `SET NX`, `save` is the
`SELECT ... FOR UPDATE` of the conversation, `insert` the commit of the row and
counter, `release` and `record` the two commands of `completeRequest`, `notify`
the broadcast. A waiting handler polls until the record appears or gives up. A request
without an id goes from `check` to `load`, and from `insert` to `notify`. `number[h]` is
the `messageNumber` of the row handler `h` inserted. `Abort` is any await that
rejects or a process that dies: MySQL rolls back, Redis keeps what it has.
`LockExpires` and `RecordExpires` are the TTLs; two flags say whether
operations are quicker than the TTLs, and theorems hold with or without them
where they do not mention them.

Message contents, push payloads and the emissions' formatting are left out.
Numeric ids are model values.

### `ParticipantCache`

One conversation. `rows` holds what is committed, `rowLock` the open
transaction that has updated a row, `cache` the members of the Redis set; a
member is a record because the code stores serialised JSON, and changing a
field is `SREM` of one member and `SADD` of another. `isBlockingOther` is
omitted: `setIsBlockingOther` has no caller. `markMessagesAsRead` and
`leaveConversation` are transactions which send their Redis commands before they
commit; mute and unmute flush at once.

### `Presence`

`sock` is the life of a socket together with the progress of its
`handleDisconnect`. `Connect` may interleave with anything; `Disconnect` may
happen at any moment, also while a `joinRoom` of that socket is between two
awaits. Each Redis command is an action: `todo[r]` holds those an event has still to send, and
`Before` in which order. A `joinRoom` is `SADD` and `EXPIRE` on `room:online` beside `SADD` and
`EXPIRE` on `user:online-rooms`, each `EXPIRE` sent once its `SADD` is answered;
a `leaveRoom` is two `SREM`s; a disconnect is one `SREM` per room it has read (`view`) and
a `DEL`. `ttl` is the set of keys that have a TTL. A command may be rejected, then the other half of
the `Promise.all` still runs (`RejectCommand`), or the process dies (`AbortRequest`).

`Scenes` lists the casts of sockets, events and faults of which the initial state chooses one; in
one that is `orderly` a user has one socket and one event at a time. Two variables are
history and guard nothing. `exposed` holds the users whose removal from the rooms something has got in
the way of: the last disconnect found no session or failed; a `SADD` to the index came after a
disconnect had read it; a `joinRoom` fell between the `SREM`s of a `leaveRoom`; a command was
lost half-way; or the index expired. `NoGhosts` says that there is no sixth way. `stranded` holds
the rooms whose `EXPIRE` was never sent, by a join that was cut short between the two awaits of
`addUserToRoom`, and which nobody has joined since: those list their users for good, and
`AwayIsEventuallyOffline` excepts them and nothing else.

### `Trade`

`op` is what each request asks for, one of the `Plans`; it never changes. `ReadSnapshot` takes the
first SELECT's snapshot and makes every check of the method; `Flush` waits for the
locks of the rows it updates, all at once, since MikroORM's unit of work updates the tables
in one order and so no cycle of waits arises; `Notify` is the SQS call inside the transaction;
`Commit` publishes. Edits are represented by the price, the one field another
part of the code reacts to. `deletePurchaseHistory` and `createReview` run
without a transaction, one action per statement. `Patient` is the set of users who
send one request at a time; the server forces nobody to, and users outside it have any number of
requests in flight. A post is `Steady` when its seller is patient. `StatusMatchesProgress`,
`ReviewedIsCompleted` and `ImplementsLifecycle` speak of steady posts, whatever buyers, reviewers and other sellers do at
once. `FrozenWhileTraded` speaks of every post, and excuses a commit only where the
handler was let through on another status than the post has by then (`StaleCommit`).

`seller`, `convPost` and `participants` are constants: conversations are not
created or left while a trade runs. MikroORM reads `bigint` columns as numbers
here, so the `===` between ids are comparisons of ids.

### `Account` and `Market`

Both are built on `Requests`. A *plan* is a sequence of requests that may be in
flight together; TLC takes every plan of the instance in turn. `pc[r]` names the
await at which the handler of `r` is, `got[r]` what it has read so far and, at the
end, what it answered; what it has read it keeps, so each action reads only what
its await reads. A `@Transactional` method has an action for its reads, which all come
from the snapshot of the first SELECT, and one for its commit, which writes the
changed columns into the rows that are there by then; what it sends to Redis or
SQS meanwhile is an action of its own. A method without `@Transactional` has one action per
statement. Queries through `em.getKnex()` and `em.getConnection()` leave the
transaction and read the latest committed rows, which matters for the chatters of
`Fanout` and the counts of `Listing`. `Abort` is a statement, call or
process that fails.

`past[r]` is the set of requests that had ended when `r` arrived. With it `Met(q, r)`
says that two requests were in flight together, and most properties of these modules say
that an anomaly has such a cause: *two live rows say the same only when the requests
that inserted them met*. A change of the code that breaks the sequential behaviour,
or that makes stale data outlive a handler, violates them; the races
which no unique key prevents do not, and are listed under `hazards`.

A table is a sequence of rows with `live` for `isDeleted`; `by` is the request which
inserted the row and no column. A `datetime` column has whole seconds, so two rows
may have one `created_at`, and two refresh tokens signed in one second are the same
string. A text is a set of words, a password-like code the request that drew
it, an e-mail the sequence of its parts around `@`, a version the sequence of its
parts with `None` for one `parseInt` does not read.

A request names its user by the id in an access token. `Acts` says what follows from
that: the user has signed up, except where the route needs no token or looks at
a user by an id of the path. `codes` is a partial function, as Redis keys are. The lists of
terms a client agrees to are those the DTO lets through: not empty, and without repetition
(`ArrayUnique`); all unknown ids are one value `None`, of which there may be several.

`Listing` reads a list to its end: a request per page, each by offset, each
a query for the page followed by one for the likes, one for the conversations and one for the
reader's own likes. Rows that tie in the order come in any order,
another one for each query. `ListsComplete` says that a list repeats nothing, unless rows tie or a
request met that can move a row towards the end or bring one in before (`Appearing`), and misses nothing that was
there all the while, unless rows tie or a request met that can take a row out (`Vanishing`). Two
things can bring a conversation to the front without a message of that moment: a send, and a departure that commits
after another one of the same user and bears the earlier second, which makes a message in between
count again. A like list ties when two requests of the reader to like one post met, for then the
post may be in it twice.

`Conversations` has one handler for a message: load the participants, store, read the online
users, emit, push. `LoadParticipants` takes the rows as they are at that await; the code looks into the Redis
cache first and reads the rows on a miss. So `EveryMessageArrives` is about a cache that agrees with the
rows; how far it may be from them is the subject of `ParticipantCache`, and `EveryParticipantNotified`
shows a participant whom a message misses because of it.

## 3. Runs

| run | properties | shows |
|---|---|---|
| `MCSendMessage` | `TypeOK`, `Numbering`, `RecordedIsStored`, `AckedIsStored`, `BroadcastOnce`, `ImplementsMessageLog` | whatever expires and fails, the log is gapless and append-only, and acknowledgements and broadcasts are of stored messages |
| `MCSendMessageInTime` | `OneHandlerPerRequest`, `RetryAfterAckIsDuplicate`, `SendingSettles` | within the TTLs the lock excludes, retries after an acknowledgement are recognised, and everything ends |
| `MCParticipantCache` | `TypeOK`, `CachedFieldsAreOwn`, `CacheAgreesWhenQuiet` | no interleaving, expiry, withdrawal or abort mixes up participants; without a rebuild, the updates of different users leave cache and rows equal, but for a user whose own request aborted |
| `MCTrade` | `TypeOK`, `StatusMatchesProgress`, `ReviewedIsCompleted`, `ImplementsLifecycle`, `EveryRequestEnds` | a seller who sends one request at a time has a consistent trade, whatever others send; every request ends |
| | `FrozenWhileTraded` | a seller with two devices changes a reserved or sold post only by a commit decided on a stale status |
| `MCPresence` | `TypeOK`, `NoGhosts`, `JoinedIsOnline` | who has no socket and no handler left is listed nowhere, but after one of five accidents; who has joined is listed |
| | `RoomsExpire`, `AwayIsEventuallyOffline` | a listed room has a TTL or is about to get it, unless a join was cut short; so however handlers race and fail, who stays away is in the end listed nowhere else |
| `MCAccount` | `TypeOK`, `ChecksHold` | one account per person, nickname, agreement, block, report, region and device, three regions at most by adding, but for requests that met |
| | `TokensRotate`, `WithdrawnIsGone` | the token handed out last is the good one and none is exchanged twice; a withdrawal takes everything |
| | `PrimaryStays`, `BlockedListComplete` | a primary region is not lost; the list of blocks is whole |
| | `CodesProve`, `NewCodeSurvives`, `PopupIsNewer` | verification of an address; which popup is shown |
| `MCMarket` | `TypeOK`, `FanoutIsTrue` | who is notified of a new price and pushed, with partial failures of the queue |
| | `ImagesFollowPost`, `ChecksHold` | images under concurrent edits, deletions and withdrawals; one like and one conversation per user and post, but for requests that met |
| | `ListsComplete`, `AnswersAgree` | what a list read page by page may miss or repeat; answers made of several queries |
| | `EveryMessageArrives`, `ClosedPostsAreQuiet` | what becomes of a message; who may write about a post that is gone |

Several of these are conjunctions of parts that are named for themselves in the modules:

| property | parts |
|---|---|
| `SendingSettles` | `EveryRequestAnswered`, `LockEventuallyFree` |
| `ChecksHold` of `Account` | `OneAccountPerPerson`, `NicknamesUnique`, `OwnedRowsUnique`, `RegionLimits` |
| `ChecksHold` of `Market` | `LikesUnique`, `ConversationsUnique` |
| `TokensRotate` | `HeldTokenIsValid`, `OneExchangePerToken` |
| `WithdrawnIsGone` | `WithdrawnKeepsNothing`, `WithdrawnGetsNoTokens` |
| `CodesProve` | `AddressWasProved`, `CodeUsedOnce` |
| `FanoutIsTrue` | `PushHasNotification`, `NotificationsAreWanted` |
| `AnswersAgree` | `LikedIsCounted`, `TradableUsersAreActive` |
| `EveryMessageArrives` | `MessagesComplete`, `JoinThenReadMissesNothing`, `MessageReachesEveryone` |

`AppendOnly` of `SendMessage` is proved. The modules have faulty variants; `PROJECT.json`
names one per property.

Two exceptions in these properties were met while modelling, and are of the code:

- `OneExchangePerToken`: a refresh token can serve twice not only when two requests
  met, but also when a request for tokens that met the *first* exchange stored the old
  token again, or when one failed after it had stored its token and before it answered.
- `OwnedRowsUnique` for devices: of two owners of one device token that came of two
  requests that met, a later request for the token moves only one row, so the two rows
  that are left need not have been inserted by requests that met each other. The property
  therefore asks that *some* two requests for the token met; it takes four
  requests to see the difference.

Five runs end in a counterexample. Each checks what a comment or message of the
code says:

| run | property | what happens |
|---|---|---|
| `MCSendMessageDuplicate` | `AtMostOneMessagePerRequest` | a retry finds no record (`chat.service.ts:325`), the first delivery then records, having deleted its lock, and the retry takes the lock and saves again |
| `MCParticipantCacheSend` | `EveryParticipantNotified` | a message sent between `SREM` and `SADD` of a read is not emitted to the reader |
| `MCTradeFinal` | `CompletedIsFinal` | with two requests in flight, a reservation overwrites a completion |
| `MCTradeForget` | `ReservedHasProgress` | the buyer deletes the row of a reservation; the post is stuck in `RESERVED` |
| `MCMarketLeft` | `ParticipantsMayRead` | a user leaves, somebody writes again, the conversation is back in the user's list and in `findUserIdsByProductPostId`, and `getMessages` answers 403 (`conversation.service.ts:216`), as if the comparison of `lastSentAt` and `leftAt` were the wrong way round |

### Bounds

- `MCSendMessage`: four handlers - a request, its retry, a second sender, a message
  to a missing conversation. A lost update of the counter takes two handlers on
  one conversation, a duplicate takes two on one request. `MCSendMessageInTime`
  adds a third delivery, which waits while the lock changes hands.
- `MCParticipantCache`: the constant `Scenes` lists the situations, of which the
  initial state chooses one: its requests, the faults that may occur (abort, expiry,
  withdrawal), whether the cache is warm, and whether a user has one request at a time. Two
  participants, one outsider, four requests: anomalies need one reader and one writer, the
  others are there to rebuild and to abort in between. `CacheAgreesWhenQuiet` speaks of
  scenes with a warm cache, one request of a user at a time, no fault but aborts and no request that may
  rebuild the key (`send` and `leave` do): a rebuild writes back rows read before others'
  updates. A user one of whose requests aborted after it had updated the cache is not `Spared`.
- `MCTrade`: seven requests, in any order, out of three plans: all transitions of
  one post among two buyers with a deletion and a review; the post's upkeep
  around one reservation; and a seller who is not `Patient`, whose reservation, completion, edit and
  hiding of the second post overlap. A stale commit takes two requests on one post; the others are
  there to decide on what it leaves.
- `MCPresence`: again `Scenes`, five casts. Orderly: two users, three sockets, two conversations and
  five events, while sessions and indexes expire; of this one `JoinedIsOnline` speaks. Two sockets of one user
  with two joins and a leave of one room, nothing failing. The same two sockets joining, with processes that die, commands
  that are rejected and rooms that expire. And two single sockets with all faults. What goes wrong for a user
  comes only from handlers of that user or, for a room's TTL, of two in one room, which two sockets of
  one user show as well.
- `MCAccount`, `MCMarket`: `Plans` has the pairs and triples of each group of
  requests that touch the same rows. Three requests suffice for two to race and a third to meet what
  they left behind; plans of four are there where two exchanges or devices take two causes.
  `MaxFailures = 1` lets one of them fail at any of its
  awaits. `Horizon` ends the clock: two more seconds for the tokens, one more for messages
  and departures; `FirstSecond` is later than the rows of `StartDb`. Notifications and a post that sells share
  seconds on purpose; the posts do not, since where rows tie `ListsComplete` says nothing. Pages hold one row, two for a reader who joins, so that every list has a second page.
  `BatchSize` is 1 where SQS takes 10: two receivers already make two batches, of which
  the second may fail.

Nothing is counted without bound: numbers are bounded by the number of handlers. The state with
nothing left to do is legal, so `CHECK_DEADLOCK FALSE`; that no request gets stuck before its end
is `SendingSettles` and `EveryRequestEnds`.

### Fairness

- `SendMessage`: weak fairness of the handler's own next step (a promise
  settles, by success or by a time-out of the driver) and of `LockExpires`
  (Redis). `waitForCompletion` gives up after a bounded number of polls. None of
  `Abort`, `RecordExpires`.
- `Trade`: weak fairness of the requests together: while one of them can step, some
  request does. It is enough, since each step brings its request nearer to the end, where its locks are
  freed; it covers MySQL, which grants a lock once free. A handler takes the locks of its rows in one
  action, so the model says nothing of deadlocks; the unit of work orders its updates, and the code has none.
- `Presence`: weak fairness of handlers that have started and of the room TTL.
  Nothing forces clients to connect, join or disconnect. The TTL is extended by
  every join of the room; an instance has finitely many events, so in the end nobody
  joins for a day and it runs out.

## 4. Proofs

The theorems hold for every value of the constants that meets the assumptions, so for any
number of users, rows, handlers and requests, any interleaving, and any schedule of failures and
expiries. TLC has checked each stated property on the instances above before.

### What is proved

| module | theorem | states |
|---|---|---|
| `SendMessageProofs` | `Invariance` | the inductive invariant `IInv` |
| | `TypeCorrect`, `NumberingCorrect`, `RecordsCorrect`, `AcksCorrect`, `BroadcastsCorrect`, `LockExcludes` | the invariants of the runs |
| | `LogIsAppendOnly`, `RetriesRecognised` | action properties: the log is only appended to, retries after an acknowledgement are recognised |
| | `Refinement` | `SendMessage` implements `MessageLog` |
| `ParticipantCacheProofs` | `CacheInvariant` | the inductive invariant `IInv` |
| | `TypeCorrect`, `FieldsAreOwn`, `CacheAgrees` | the invariants of the run |
| `PresenceProofs` | `PresenceInvariant`, `TypeCorrect` | the inductive invariant `IInv`; types |
| | `NobodyStaysListed`, `JoinedAreOnline`, `ListedRoomsExpire` | `NoGhosts` for any sockets, events and faults; `JoinedIsOnline`; `RoomsExpire` |
| `TradeProofs` | `DataInvariant`, `TypeCorrect` | types and what handlers have read, for any requests |
| | `TradeInvariant`, `StatusMatches`, `ReviewsAreOfTrades` | the inductive invariant, and the invariants of the run, for the posts of patient sellers |
| | `TradedIsFrozen` | action property `FrozenWhileTraded`, for every post and any overlap of requests |
| | `Refinement` | on the posts of patient sellers `Trade` implements `TradeLifecycle` |
| `AccountProofs` | `DataInvariant`, `TypeCorrect` | types, and that what handlers carry refers to rows that exist |
| | `WithdrawnGone` | `WithdrawnIsGone` |
| | `ProofInvariant`, `CodesHold`, `NewCodeStays` | the invariant of the verification, `CodesProve`, and the action property `NewCodeSurvives` |
| | `TokenInvariant`, `TokensTurn` | the invariant of the refresh tokens, `TokensRotate` |
| | `UniqueInvariant`, `NickInvariant`, `RegionInvariant` | the three invariants behind the checks |
| | `ChecksTrue`, `PrimaryKept` | `ChecksHold`; the action property `PrimaryStays` |
| | `ListInvariant`, `BlockedListWhole` | paging by cursor: `BlockedListComplete` |
| | `PopupsAreNewer` | `PopupIsNewer`, for versions of any number of parts |
| `MarketProofs` | `DataInvariant`, `TypeCorrect` | types, and that what handlers carry refers to rows that exist |
| | `LikesInvariant`, `ConversationsInvariant`, `ChecksTrue` | the checks before an insert: `ChecksHold` |
| | `ImagesInvariant`, `ImagesFollow` | `ImagesFollowPost` |
| | `ClosedInvariant`, `ClosedAreQuiet` | `ClosedPostsAreQuiet` |
| | `TradableInvariant`, `LikedInvariant`, `AnswersTrue` | answers put together of several queries: `AnswersAgree` |
| `MarketSafetyProofs` | `FanoutInvariant`, `FanoutTrue` | `FanoutIsTrue` |
| | `SentInvariant`, `JoinInvariant`, `MessagesArrive` | `EveryMessageArrives` |
| | `ListsAreComplete` | paging by offset, for each of nine lists: `ListsComplete` |

### Assumptions

Each is an `ASSUME` of the module that declares the constant, and TLC evaluates it on every run.

- `RequestAssumption` (`SendMessage`): types, and two users never use one request id in the same
  conversation (clients draw random ids).
- `ParticipantAssumption`, `PresenceAssumption`, `TradeAssumption`: types only; `None` is none of
  the things it stands in for. `NoneAssumption` of `Trade` says the latter of progress rows.
- `AccountAssumption`: requests are those the DTOs let through; versions are sequences of what
  `parseInt` reads, `None` included. `NoneAssumption`: `None` is neither a number nor an address,
  nickname, terms id, popup, code or session.
- `MarketAssumption`: requests are those the DTOs let through, a batch of the queue is not empty,
  and universities are numbered in the order of their names. `NoneAssumption`: `None` is neither a number nor a region.
  `UsersAssumption`: a token names a user who has signed up.
- `StartAssumption` (`Account`): the tables at the start are such as requests leave
  that did not meet: typed, no duplicates, one primary region and three regions at most,
  tokens of second 0, no verified address. Databases with such duplicates exist, and for them the
  properties can at most speak of rows added later.
- `StartAssumption` (`Market`): the same of the tables of posts. One thumbnail per post, images only of live
  posts, live posts only of live users, one like per user and post, one conversation per user and
  post of another, two participants in a conversation; a conversation's messages are numbered from 1 to the last in
  the order of their dates, and none is later than the conversation's last date.

No theorem of `TradeProofs` assumes anything of how requests overlap: `Patient` is any set of users, the empty one
included. That a seller is in it is the hypothesis under which the properties speak of
the seller's posts, and it cannot be dropped: `MCTradeFinal` has no patient users. Two
requests of one seller in flight at a time are a double click or a second device.

### The arguments

*Sending.* `Numbering` is not inductive by itself: an insert must know that the number it is about
to give is `last + 1`. `RowInv` says that inside the transaction the row is locked and what was
read is still current; two handlers cannot both be inside since the row has one holder.
`NotYetStored` says that a handler about to insert has no row yet, so an insert only adds.
`AnswerInv` ties `answer` to a stored message of the same request, and `RecordedIsStored` does so
for Redis: whoever writes the record has committed. `WireInv` says that what was broadcast belongs
to handlers that are acknowledged, so a handler about to broadcast has not done so before.
`LockInv` and `RecordInv` hold under the two flags: a handler between lock and release is the
lock's value, and once somebody is acknowledged there is a record. For the refinement, `logOf`
maps the rows to a sequence by their numbers, which `Numbering` makes well defined; an insert
appends, a broadcast delivers, and everything else leaves both unchanged.

*Participant cache.* `StageInv` says which kind of request is at which await and what it holds there. `OwnInv`
follows read positions through rows, the key, and the copies handlers hold, wherever a stale copy may
come from. `CalmInv` is what `CacheAgreesWhenQuiet` needs: for every stage of a user's one request, which
member of that user is in the key and what it must become. It is stated user by user, so
that an abort of one user's request costs nothing of what is known of the others.

*Presence.* `NoGhosts` is not preserved by itself: a disconnect empties the rooms the index named when it was read.
`CleanInv` says, for any user who is not `exposed`, what that takes (`CleanUser`): every room that lists the user is in
`user:online-rooms` or about to be entered there by a join half-way (`Covered`); what each disconnect has still
to remove covers them too; with no disconnect to come nothing is left but joins
half-way; and between the two `SREM`s of a leave the room does not list the user. It is shown command by command, and each of the five
accidents is a step that would break it. `TodoInv`, the order of an event's commands, is what
`RoomsExpire` needs: a `SADD` never goes without the `EXPIRE` behind it. `CalmInv` is for `JoinedIsOnline`: in an orderly scene
events run only while the one socket is connected, and each room joined lists the user or
is about to.

*Trade.* `DataInv` holds however requests interleave. `Alone` says that no patient user has two requests in
flight; so for their posts `SnapInv` says that a transaction's snapshot of the post is still the row when it
commits, and its snapshot of the progress row at most struck by the buyer. From this a commit preserves
`StatusMatchesProgress`. `ReviewInv` carries the completion of a post to the insert of the review,
and needs that completion is final. In the refinement a commit of a status change is a step of
`TradeLifecycle`, a struck row gives up the holder, and the rest stutters. `TradedIsFrozen` needs none of this for
the posts of the others: `ReadInv` of `DataInv` says that a handler at its commit was let through on the
snapshot it carries, so a commit on the post's present status does what the guards of the
methods allow (`FreshCommit`), and any other is a `StaleCommit`, which `SnapInv` excludes for a patient seller.

*Account.* Each invariant has one lemma per group of steps and rests on four of `AccountProofs`: `HandleFollows` (which steps
an operation consists of), `HandleWrites` (which of them write), `HandleData` and `UsersKept`; and on `RowsKept`: a step
keeps every row, changes at most its two flags, and adds rows of its own user. From `RequestsProofs` comes that requests which have met have met for good, and
`RunningMeet`: two that run at the same time have met. So the argument is always this: a handler has
read something; whoever makes it untrue before the handler writes runs at the same time, so
they met, and the property excuses them.

- `GoneInv` adds to `WithdrawnKeepsNothing` that who has withdrawn is not live and that
  tokens are signed only for users who had not withdrawn when the request came. An insert needs no user:
  access tokens outlive the account, hence the exception for requests that came after.
- `ProofInv`: a stored code was drawn by a request of its user and goes to the address beside it
  (`CodesInv`); a verification holds a code that was typed and mailed, and the stored code is that one or
  one drawn since (`VerifyInv`); a code that was used up stays so (`OnceInv`); a verified address comes from
  such a verification (`AddressInv`).
- `TokenInv`: tokens carry the second they were signed in, so they only grow from request to request
  (`TimeInv`); the stored token is the one held, unless disturbed (`HeldInv`); and after an
  exchange the stored one stays at least as new (`SpentInv`), so the old one cannot match unless it is
  equal (`OnceTokenInv`).
- `UniqueInv`: of a row that a handler has not found and is about to insert there is none but what a request that met it
  inserted (`FreshInv`), so an insert makes twins only of requests that met (`TwinsInv`). `ListsInv`
  says that one request names no region twice; for terms it is the DTO that does.
- `NickInv`: where each nickname comes from (`NamedInv`), and the same argument for the look that
  `updateUserProfile` takes and `signUp` does not (`NickFreshInv`).
- `RegionInv`: a handler deletes and flags rows of its own user only (`ChosenInv`); what it has read of them is so
  when it writes (`CurrentInv`); so the limits hold (`LimitsInv`), and a primary region stays: the one
  that is deleted is not primary, and one that loses the flag does so in the step in which another gets it.

- `ListInv`: what a client has collected page by page falls by `created_at`, the cursor is its last,
  and every block from before the request lies behind the cursor or has been collected. `CursorPageRows`
  says what sorting and cutting a set of rows into a page leaves: any page is a prefix of the
  sorted rest. That sorting has a result at all is shown with choice functions over finite sets.
- `PopupsAreNewer`: `CompareVersions` reads two versions at their least differing part
  (`ComparesOrder`). Where the argument wants a least index it takes one from the well-foundedness of the order
  on a finite set of numbers, which needs no induction over an operator.

*Market.* The same argument, over a longer list of operations. `Still` names the steps that write nothing (a
tick, an arrival, a failure), `StillStep` splits each step into those and the handler of one request, and a
lemma whose name ends in `Kept` says, for each invariant, what one group of handlers leaves true.
What a handler has read is in `got[r]`, so each invariant speaks of *the step `s` with the value
`v`*, which lets one lemma serve both the handler that moves and the handlers that stand still.

- `LikeInv`: who is about to insert a like has found none, so what is there by now was inserted by
  requests that met it.
- `ImageInv`: `ImagesFollowPost` is not inductive. A handler that edits, creates or withdraws carries what
  it saw alive; if it no longer is, then whoever ended it met this handler (`MetDeath`, `MetWithdrawal`), and a withdrawal
  knows of the images it did not find (`Unfound`) that their writer met it.
- `ConvInv`: a conversation's participants are its creator and the post's owner, which makes the
  three queries before an insert a lookup by user and post.
- `ClosedInv`: once a post is hidden or deleted, and never shown again, it is closed in every later state; whoever asks
  after that reads so at each of three awaits.
- `TradableInv`, with `DatesInv` and `GoneInv`: what each of four queries has found is of conversations about
  the post, and where no conversation changes meanwhile it has found them all. `DatesInv` (no
  message is later than its conversation's last date) is what makes the comparison of `leftAt` and `lastSentAt`
  mean what it should.
- `LikedInv`: for each query of a page, what its answer says of the likes (`Known`) until the parts are put
  together, and that an entry which is put together does not contradict itself (`Sound`).
- `FanoutInv`: whom a price change may tell (`MayTell`) and whom it must (`MustTell`), at each of its
  steps, with the pushes it has already queued a part of those it will have written. `SettingInv` says that who
  has switched the setting off has it off; `OnceInv` that nobody is told twice.
- `MessagesArrive` has three parts. `NumbersInv` (messages are numbered from 1 to the last, as
  time goes by) and `ReadInv` (a reader has read without a gap from the last message down to the
  cursor) give `MessagesComplete`. `SentInv` says that what a sender has loaded of the participants stays true of those who
  take part by now. `JoinInv` says that whoever has entered stays listed, so every sender whose message is not in
  the first page looks after that and finds the reader.
- `ListsAreComplete` rests on `PagesInv`, which is stated in ranks. `Place` is the rank of an entry in the list
  as the rows are *now*, so it changes under the reader. `IdsAre` says of each of the nine lists which entries it holds;
  `ListedMoves`, that a request outside `Appearing` brings nothing in and moves no entry towards the end, and
  that one outside `Vanishing` takes nothing out and moves no entry to the front. So, when the reader has passed `n`
  entries: if none of `Appearing` met them, all that was given out and is still there has a place below `n`
  (`Within`), and the next page, which `PageRanks` shows to hold exactly the places from `n` up to `n + size`, repeats
  none of it; if none of `Vanishing` met them, whatever was there at the start and has a place below `n` has been
  given out (`Covers`), and a page without a next one ends the list. `RowsInv` keeps the order free of ties by rows: two
  likes of a post by one user are of requests that met, a conversation is between two, and
  universities and blocks stay as the filter read them (`FirstFilter`).

Attempts at these proofs changed the model, each time because the model or a property was wrong:

- the row a like request found (`stored`) must be read at its own await, and `sendMessage` refuses a
  conversation that is missing, as `getMessages` does;
- `JoinThenReadMissesNothing` and `MessageReachesEveryone` hold only for who neither blocks the sender
  nor leaves, and when the conversation was there when the sender's request arrived;
- `ListsComplete` did not excuse two departures of one user, and excused likes for the wrong reason; TLC has both
  counterexamples as plans of `MCMarket` now. Worse, the rows of `StartDb` tied, so that the run showed
  nothing of lists of posts. They no longer do.

### What is only model-checked

- Liveness (`SendingSettles`, `EveryRequestEnds`, `AwayIsEventuallyOffline`) rests on fairness and is
  out of the proof system's reach.

Every other property of the passing runs is proved. The runs that expect a violation show what the
code does on one instance, and say nothing of others.

## 5. Plan

1. Done: `MessageLog`, `SendMessage`; `ParticipantCache`; `TradeLifecycle`, `Trade`; `Presence`; the
   account group; the market group; the proofs of every safety property of the passing runs.
2. Left: liveness, which TLC checks on the instances.

## 6. Not modelled, and why

Controllers, guards' signature checks, filters, logging and configuration are wiring;
what DTO validation lets through are the sets of requests. S3 only signs URLs, so
profile images and image keys are left out beyond their number. The lookups of
terms, regions and universities read data that no request changes. The SNS services call
the providers: here a token opens the account of one person. Reading reviews and other
users' profiles is a single query of rows that no other property is about.
Migrations are generated.

## 7. How to run

    tlc -config MCTrade.cfg MCTrade
    tlapm SendMessageProofs.tla

Each configuration is for the module whose name its own begins with; each module whose
name ends in `Proofs` is for `tlapm`. `MarketSafetyProofs` extends `MarketProofs`; that and `AccountProofs`
extend `RequestsProofs`. `tlapm` proves what stands in the module it is given.
