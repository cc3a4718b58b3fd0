# FieldChat: a TLA+ model of the real-time backend

FieldChat is an asynchronous FastAPI chat backend on PostgreSQL and Redis. What it promises is in
its README: a change to a message and its real-time event are committed together, a worker moves
events to a Redis stream, every application instance reads the stream through a consumer group of
its own, and hands each event to the WebSockets it holds. This directory models that path, from
the concurrent requests that change messages to the sockets, and the services beside it whose state
is spread over PostgreSQL, Redis and the object store: membership, receipts and reactions, sessions,
the rate limiter, notifications and media. TLC checks the modules on small instances; TLAPS proves
most of their safety properties for every number of instances, requests, users and events.

## 1. Inventory

| Component | State it keeps | Operations | What is hard about it |
|---|---|---|---|
| Message service (`services/messages.py`) | rows of `messages`, delete states, receipts, reactions | create, edit, delete for everyone / for me, clear, forward, bulk delete, mark delivered / read, react | checks are made before the row lock at READ COMMITTED; deduplication key outside the transaction; media erased before the commit |
| Transactional outbox (`services/outbox_service.py`, `models/chat/outbox.py`) | rows of `outbox_events` | add_outbox_event, one outbox_worker per instance | several workers; non-atomic pipeline; failure between publish and commit |
| Redis stream and groups (`redis/redis_groups.py`) | stream, one group per instance with a cursor and a pending list | XADD, XREADGROUP, XACK | Redis keeps no data across a restart; nothing trims the stream |
| Stream listener (`redis/stream_listner.py`, `redis/handlers.py`) | batch in memory | read, handle, acknowledge | failures between the three; entries left pending |
| Instance lifecycle (`main.py`) | tasks of the process | start-up, shutdown | crash at any point; start-up clears shared keys |
| WebSocket connections and presence (`ws/manager.py`, `ws/sockets.py`, `services/cache_management/`) | `users`, `local_conversations`, Redis sets of connections, online and viewing users | connect, join, view, leave, disconnect, send_to_user | all tasks of an instance interleave at every `await`; other instances share the Redis sets |
| Pub/Sub subscriber (`redis/subscribers.py`) | none | typing, presence, receipts | at most once, by design |
| Membership and conversation cache (`router/chat.py`, `services/cache_management/conversation.py`) | participants in PostgreSQL, sets in Redis | create, join, add, leave, remove, sync | two stores without a common transaction |
| Rate limiter (`core/rate_limit.py`) | sorted set per client | check_rate_limit | boundary of the window and of the limit; attempts executed out of the order of their stamps |
| Sessions (`services/auth.py`, `router/auth.py`, `router/token.py`) | one row of `refresh_tokens` per device | login, logout, refresh, revoke one or all, delete | rows are read, then written, by requests that overlap |
| Notifications (`services/notification_service.py`, `router/notification.py`) | notification rows, push subscriptions | notify the other members, mark read, subscribe, unsubscribe, push in a task | publication, presence check and push are three steps; dead subscriptions are deleted by endpoint |
| Media (`services/storage_service.py`, `router/attachments.py`) | objects in the store, the columns that refer to them | upload, erase, replace an avatar | no common transaction, no count of references |

How they interact: a request runs the message service in one session; its commit makes the change
and the outbox row visible together. The outbox worker and the stream listener are tasks of the
same event loop, started and cancelled by `lifespan`. The listener calls `manager.send_to_user` for
the local members of the event's conversation. Receipts, reactions, typing and presence skip the
outbox and go through Pub/Sub after the commit.

What makes each correct: an event is lost or invented nowhere between the commit and the socket;
the events of one message stay in the order of its transactions as far as the code can keep it;
what the events say agrees with the database; a retry stores a message once; a failure or a crash
at any step leaves a state from which the rest can be done; two stores that say the same thing
disagree only while a request is at work on it, or because of a race or a failure the property names.

## 2. Modules

| Module | Models | Extends |
|---|---|---|
| `EventStream` | the stream: XADD and the loss of its content | |
| `OutboxWorker` | message transactions as the outbox sees them, and the worker of every instance | `EventStream` |
| `AtLeastOnce` | the abstract promise: committed, published, settled | |
| `StreamListener` | group creation, reading, handling, acknowledging | `EventStream` |
| `EventPipeline` | composition: workers and listeners of the instances over one stream | `OutboxWorker`, `StreamListener` |
| `MessageLifecycle` | concurrent create, edit, delete, forward and clear requests | |
| `FieldChat` | composition: the requests of `MessageLifecycle` and the pipeline of `EventPipeline` over one table | `MessageLifecycle`; an instance of `EventPipeline` |
| `ConnectionManager` | sockets of the instances, presence and viewers in Redis | |
| `Membership` | participants and roles, the two indexes of them in Redis, and every request that writes either | |
| `MessageReceipts` | receipts, reactions, hidden messages, and what lists and badges make of them | |
| `Sessions` | the refresh tokens of one account | |
| `RateLimiter` | the sliding window of one key | |
| `Notifications` | notifications of messages, push tasks, browser subscriptions | |
| `MediaStore` | objects, and the messages and avatars that refer to them | |
| `ConnectionManager_proofs`, `MessageLifecycle_proofs`, `Membership_proofs`, `MessageReceipts_proofs` | theorems and proofs | the module and TLAPS |
| `EventPipeline_proofs` | theorems about `OutboxWorker`, `StreamListener` and their composition | `EventPipeline` and TLAPS |
| `FieldChat_proofs` | theorems about the whole | `FieldChat`, `MessageLifecycle_proofs`; an instance of `EventPipeline_proofs` |
| `SessionsRateLimiter_proofs`, `NotificationsMediaStore_proofs` | theorems about two modules each, which share nothing | the modules and TLAPS |
| `MCOutboxWorker`, `MCEventPipeline`, `MCMessageLifecycle`, `MCFieldChat`, `MCConnectionManager` | instances for TLC | the module |
| `MCServices` | instances of the six modules from `Membership` to `MediaStore` | these |

The six services write no variable of each other: `MCServices` checks them in one run, where a
behaviour is one of a single `part` with the rest at its beginning. What is explored is the sum of
the parts, not their product.

### OutboxWorker

`row[e]` is the outbox row of event `e`: `absent`, `open` (its transaction has not ended), `pending`
(committed, `processed_at` NULL), `processed`, or `rolledback`. `created[e]` is `created_at` as a
rank. For each instance, `wpc` is where `process_outbox` stands, `locked` the rows its transaction
holds FOR UPDATE, `wire` the XADDs of the current pipeline that Redis has not executed, `stray` the
commands left on a connection that was given up. One action per step the code can be interrupted
at:

* `InsertEvent`, `EndTransaction`: `add_outbox_event` inside a transaction that holds the row lock
  of the message it changes, then its commit or rollback.
* `Claim`: the SELECT. It takes the oldest unlocked pending rows, at most `BatchLimit`.
* `Send`, `SendRefused`: Redis executes, or refuses, the next command. `transaction=False` makes
  these steps interleave with the pipelines of other workers, and a refused command does not stop
  those behind it; `execute()` then raises (`RaiseRefused`).
* `Resend`: redis-py (unpinned in requirements.txt) may write the whole pipeline again after a
  connection error. `SendStray`, `DropStray`: what the broken connection still held is executed
  later, or never.
* `Settle`: `processed_at`, `attempts`, commit. `Abort`, `StopWorker`: the session is closed and
  PostgreSQL rolls back.

The stray commands are there because the order of the stream depends on them. The payload and the
channel are not: there is one channel.

### StreamListener

`log` is what was ever appended, `base` how much of it a restart of Redis threw away. For each
instance `cursor`, `pel` and `group` are its consumer group; `batch` is what the task holds in memory;
`handled` is what it has handed to `message_send_handler` since the process started. `ReadReplyLost`,
`HandleFails` and `AckFails` are the failures the loop catches; `StopListener` is a crash or a
shutdown: the next process has a new `instance_id`, hence a new group that starts at `0`.
`LoseRedis` is a restart of the Redis container, which runs with `--save ""`.

### MessageLifecycle

Every request runs in three steps: it reads and checks (`Receive…`, `Read…`, `StartClear`), it
flushes, which takes the row lock and stamps its outbox row (`Flush…`), and it commits (`Commit…`).
Anything may run in between, and each may fail (`FailBeforeFlush`, `Rollback`). `outbox` is the
table in `created_at` order, and a text is named by the outbox row that announces it, so that
"the same text" is an equality. It may be `padded`: `edit_message` announces the content as it came,
blanks around it included (`Announced`), and stores what `Strip` leaves of it; `create_message` strips
first and announces what it stores.

`dedup` are the keys `client_msg:…`. Each runs out after two minutes, and a Redis that restarts has
lost them all: `Expire` removes any set of them. `expiries` counts how often a key was lost, for the
property only; the client id kept with the row is there for the same reason.

### FieldChat

One table `outbox_events` is what requests and workers share. A request inserts rows and ends
its transaction (`Next` of `MessageLifecycle`); a worker sets `processed_at` (`processed`, in
`WorkerStep`); `ListenerStep` touches neither. `Restart` starts and stops both tasks of an instance.
`RedisRestarts` loses the stream, its groups and the deduplication keys at once, since they are in one Redis.

`EventPipeline` knows of a row only that there may be one per event: `InsertEvent` and `EndTransaction`
are there an assumption about transactions, that two open ones are never about one message. Here
an event is a place in the table and the message the row there may be about, and
the state that `EventPipeline` gives it is computed from the columns (`StateOf`, `RowOf`, `RankOf`).
`DeliversAsSpecified` says that what results is a behaviour of `EventPipeline`, so that the assumption is what the
row locks of `MessageLifecycle` establish. `ClientsEndWithTheDatabase` is the promise end to end.

### ConnectionManager

A connection is a task of its instance's event loop. `pc` names its next step; the code between two
awaits is one step, and every Redis call another, so that the tasks of this and of other instances
interleave exactly where the code lets them. `users`, `local`, `joined` and `active` are the
dictionaries and the `Connection` fields of `ws/manager.py`; `ids`, `online` and `viewers` are the
Redis sets. `connect` is Accept, AddId, CountIds, MarkOnline, Enter; `disconnect` is CloseViewing,
ForgetViewer, Drop (or Close, with no viewer entry to remove), RemoveId, Recount, DeleteIds,
SetOffline; a conversation event is one of View, ViewOther .. Switch, AddViewer, Leave,
RemoveViewer. `Restart` is a crash with the clean-up of the next start-up, which is skipped when its
lock is taken. Publishing on Pub/Sub changes none of this state and is left out; so are the
presence watchers, sockets whose send fails (`send_to_user`) and Redis calls that raise.

### Membership

`kind` and `row` are the tables `conversations` and `conversation_participants`; `row[v][u].id` is
the request that inserted the row, so that a row that was deleted and inserted again is another row.
`members` and `listed` are the sets `conversation:{id}:members` and `user:{id}:conversations`. A
request is a sequence of steps `pc`: it asks and checks (`CreateConversation`, `JoinGroup`,
`AddMember`, …, `CreateDM`, `PatchConversation`; where the code reads a second time, `FindNew`,
`FindAnyTarget`, `FindTarget`), it commits (`CommitCreate`, `CommitDM`, `CommitInsert`,
`CommitDelete`, `CommitRole`, …, or `InsertFails` on the unique key), and it brings the cache up to
date (`CacheMembers`, `CacheRemoveOthers`, `CacheRemove`, `Unlist`). `ReadParticipants`,
`SyncConversation` and `SyncAll` are the synchronisations of a conversation and of start-up. `Abort` is a
failure between any two steps. `add_member` and `leave_group` hand the id to the cache as the client
spelled it, so that they may write keys of another name (`CacheElsewhere`); `LoseCache` is a restart
of Redis. `owed`, `late` and `excused` are history: the pairs a request has
changed and is still to write to the cache, the pairs others have changed since it read or
committed, and the pairs of which the property expects nothing until they are written again.

### MessageReceipts

`receipts`, `reactions`, `hidden` and `stored` are tables; `told` is what was last published about
each row. A call looks rows up (`MarkRead`, `MarkDelivered`, `MarkAllRead`, `MarkAllUndelivered`,
`AddReaction`, `RemoveReaction`, `DeleteForMe`), commits under the unique keys (`Accepted`), and
publishes one event per message; `Cut` is a failure or a disconnect at any of its steps.
`Shown` and `Unread` are the status and the badge that `get_messages` and `get_user_groups` compute,
with their loose and exact counts of readers. Participants leave and join, messages are created and
the chat is cleared meanwhile.

### Sessions

`sessions` are the rows of one account; a refresh token is named by the login that made it. `ReadLogin`,
`ReadRevoke`, `ReadRevokeFirst`, `ReadRevokeAll` and `ReadRefresh` read, `CommitNew`, `CommitRenewed`,
`CommitRevoked` and `Grant` write or answer, `HardDelete` does both at once. A commit writes the
columns that differ from what was *read* (`Renewed`), since that is what SQLAlchemy sends: this is
where a revocation and a renewal that overlap could undo each other.

### RateLimiter

An attempt takes its stamp from the process clock (`TakeStamp`) and its transaction runs later
(`Execute`), while time passes (`Tick`). Where the connection breaks (`GiveUp`), the client library sends the
transaction again or the request fails, and what was sent first may still run (`ExecuteStray`). `log` is the
sorted set, whose members are the stamps themselves, and `expiry` the TTL that the transaction renews;
`LoseLog` is a restart of Redis or the eviction of the key. `executed`, `late` and `behind` are history.

### Notifications

A sender treats the members one after the other: `PassOver`, or `Store`, `PublishNote`, `CheckOnline`,
with `NotifyFails` between any two. `CheckOnline` starts the push task (`ReadSubscriptions`,
`PushOne`, `DeleteDead`), which outlives it. Browsers subscribe (`Subscribe` reads the row
of the endpoint, `Save` writes its owner, `SaveKeys` at most the keys of a row that was the user's
already) and give their subscription up (`Unsubscribe`). `sockets` is `manager.users`, `marked` the set
`online_users` that the check asks: a member gets the socket and then the mark (`OpenSocket`, `SetMark`) and loses
the socket several awaits before the mark (`CloseSocket`, `LoseMark`), or in a crash keeps the mark
until the next start-up. `PublishNote` only puts the notification on its way (`flying`); `DeliverNote` hands it
to the sockets that are there when it arrives, and `LoseNote` is a subscriber that is away or a send that
fails. `live` and `mayMiss` are history.

### MediaStore

`bucket` are the objects, `media` what each message and avatar refers to. A deletion reads its rows
(`ReadDelete`, `ReadClear`), erases the objects one by one (`Erase`), and commits or not
(`CommitDeletion`, `UndoDeletion`); a new avatar is committed (`CommitAvatar`), read again (`Refresh`)
and the old one erased (`Cleanup`), or not (`LoseAvatar`). `DeleteDirect` is `delete_dm`: the messages go with
their conversation and their objects stay. `reused`, `undone` and `leaked` record
why a row and the bucket may disagree.

## 3. Runs

| Run | Instance | Shows |
|---|---|---|
| `outbox` | 2 workers, 3 events of 2 messages, batches of 2, 1 failure per event, refused and stray commands | `TypeOK`, `NoEventLost`, `OnlyCommittedPublished`, `DuplicatesOnlyFromFaults`, and the refinement `KeepsPromise` |
| `pipeline` | 2 instances, 2 events, every failure, Redis may lose its data | `NothingSkipped`, `HandledInOrderOnce`, `InFlightIsPending`, `ReachesEveryInstance`, `OnlyCommittedHandled` |
| `delivery` | 2 instances, 1 event, 2 failures, fairness | `CommittedIsProcessed`, `CommittedIsDelivered` |
| `messages` | 2 requests at a time, a member and a moderator, 2 messages, 3 outbox rows | `LastEventHasTheText`, `OutboxTellsDatabase`, `StoredOncePerClientId`, `DeletedStaysDeleted` |
| `application` | 2 requests, 1 instance, 1 message, 3 outbox rows, 1 failure per event, Redis may restart | `FirstPublishedInOrder`, `NewestPublishedLast`, `ClientsEndWithTheDatabase`, and the refinement `DeliversAsSpecified` |
| `connections` | 2 tabs on one instance, 1 on another, 2 conversations, restarts | `OfflineWhenGone`, `NoGhostMember` |
| `services` | six parts, see Bounds | `CacheFollowsRows`, `DMIsForTwo`, `TwinsOnlyFromOverlap`, `OwnerStays`; `OneReaction`, `ReadAllClearsTheBadge`, `LastToldIsStored`, `ShownNeverGoesBack`; `LoginWorks`, `RevokeAllIsThorough`, `DeadStaysDead`; `RefusedByWindow`; `NobodyIsMissed`, `SubscribedIsReachable`; `MediaMatchesRows` |
| `second_tab` | 2 tabs, no failure | violated: closing one cuts the other off |
| `away_user` | 1 tab whose instance dies | violated: a viewer for ever, never notified |
| `pending_recovered` | 1 instance whose handler may raise | violated: nothing recovers a pending entry |
| `redis_outage` | 1 instance, only Redis fails | violated: no group, no delivery, after a restart of Redis |
| `limiter` | 2 attempts, limit 1 | violated: both are admitted in one window |

Bounds. Two instances are enough for one worker to hold what the other wants, and for one listener to be
up while the other crashes; three rows with a batch of two give full and partial batches, rows left
behind and rows inserted while a batch is open. `MaxFaults` bounds the failures per event, hence the
log; one failure exercises every failure action, two (in `delivery`) let a failed retry fail. In
`pipeline` the constraint `Len(log) <= 3` leaves room for one of two events to be published twice;
entries are dealt with alike, so the listener meets full batches, partial ones, and a restart in each
state. In `messages` three outbox rows allow a creation and two competing changes, each of which may be
rolled back; a third concurrent request would only wait for the same lock; every edit may be padded or
not. In `application` the same three rows meet one worker that batches two of them, so that a round may
hold a creation and an edit while another edit is open, and `MCShortLog` leaves room for one of them to
be published twice. `MCNarrow` ends behaviours at a clear or a forward, whose effect on messages is
explored in `messages`, and where Redis restarts under a running instance, explored in `pipeline`, and
lets only the third event be padded: a padded edit comes after an edit without blanks, and after a
creation. The theorems have none of these restrictions. In `connections` three connections are the least
with both another tab of the same instance and one of another instance, and two conversations the least
for a switch. Symmetry is used over instances, requests, messages, tabs and conversations, in runs
without liveness only.

In `services` each part has the least instance in which its races happen:

* Membership: an owner and an admin of a group, room for two new conversations (twin dms need two),
  and three requests; a third one only where all three are about the members of the group: two requests make
  every pair race, the third is what a role that changes twice, or a synchronisation across a removal and a
  second joining, needs. Redis restarts only where there is no third request and no new conversation yet.
* Receipts: two participants, two messages of one of them, two emojis, two overlapping calls.
* Sessions: two devices and four requests, so that a login, a revocation of all that overlaps it, a
  renewal and a refresh are in one behaviour.
* Rate limiter: limit 1, window 2, the clock up to 4, three attempts: attempts fill the window, leave it,
  and run late; two of them may be sent again or given up.
* Notifications: one message, two recipients of whom the second only subscribes, one endpoint, three
  registrations (a second one only where nobody has come online, a third only where nothing is sent).
* Media: three objects, two messages, one avatar, two requests.

`BegunInOrder` says that interchangeable requests begin in the order of their names, which loses no
behaviour up to renaming; `ThirdAboutGroup`, `CacheLostEarly`, `SecondSubscribes` and
`ThirdAttemptAnswered` are the restrictions just named. All five are conjuncts of `ServicesNext`, so
that what lies behind them is not explored. The theorems have none of them. No property of the run
depends on `CHECK_DEADLOCK`: the requests are finitely many, so each part stops when they are used up.

Fairness. `WF` of Claim, Send, Settle and RaiseRefused: the loop of `outbox_worker` never ends but by
cancellation, it sleeps at most two seconds, Redis answers what it accepted, and PostgreSQL commits.
`WF` of Read, Handle and Ack: the same for the listener loop. No failure, restart or client is
fair. Failures are finitely many (`MaxFaults`); liveness is claimed for instances that stay up.
With `socket_timeout=None` a half-open connection would hang a worker for ever: the assumption
that Redis answers excludes it.

## 4. What is proved

`EventPipeline_proofs`, of the worker, for any finite sets of instances and events, any batch limit and
any number of failures:

* `OutboxTypeCorrect`, `OutboxLosesNoEvent`, `OutboxPublishesCommittedOnly`;
* `OutboxImplementsAtLeastOnce`: the worker refines `AtLeastOnce`;
* `CopiesArePaidFor`: copies beyond the first are paid for by failures;
* `FirstCopiesInOrder`, for one worker and `MayRefuse = FALSE`, and `LastCopiesInOrder`, for one worker
  and `MayLinger = FALSE`: the hypotheses are those under which section 6 says the order is kept. The
  latter says of any two processed events of a message that the later one has the last entry: every
  copy of the earlier is followed by one of the later, also while more events are under way.

`NoEventLost` is not inductive: `Settle` marks the locked rows processed, so one must know that with
an empty `wire` the locked rows of a `sending` worker are all in the stream. `IInv` adds that
(`SentIsPublished`), that locked rows are pending and locked once (`LocksHeld`: a rollback must not
undo what another worker settled), and that stray commands are about committed rows
(`StrayCommitted`). The refinement then follows step by step, each action being a `Commit`, a
`Publish`, a `Settle` or a stutter.

`CopiesArePaidFor` is an account kept per event (`Accounted`): its copies in the stream, its commands on
the way, its commands left over from broken connections, and one more while its row has yet to be
sent (`Token`) are together at most one more than its failures. Sending spends the token, executing a
command turns it into a copy, and only a failed round gives the token back, counting a failure.

Both order theorems rest on `OrderInv`: rows are stamped in the order in which the transactions of a
message take its row lock (`Stamped`), and what the only worker leaves behind of a message is not older
than what it holds (`OldestHeld`). `FirstInv` adds that no command left on a broken connection lacks
what comes before it (`InFront`). `NewestInv` adds that what a round has sent, and what is processed, comes after
every copy of everything earlier (`LastBefore` in `SentInOrder` and `SettledInOrder`): a round that
is sent again repeats all that is later than what it repeats.

Of a listener whose stream is written by anyone: `ListenerSkipsNothing`,
`ListenerHandlesInOrderOnce`, `ListenerInFlightIsPending`, from `LInv`: the cursor is between `base` and
the end of the log or the group is gone (`Positions`), the batch lies before the cursor and after
everything handled (`InOrder`), an empty batch exactly when the task reads (`TaskState`), and what is
before the cursor is handled or pending (`Covered`).

For the composition it takes both invariants as they are: a step of one half leaves the variables of the
other unchanged or only appends to the log. `ProcessedReachesEveryInstance` combines `NoEventLost`
with `Covered`; `ClientsSeeCommittedOnly` combines `OnlyCommittedPublished` with the fact that
handled entries are in the log. `PipelineTypeCorrect` states the types of the whole.
`PipelineCopiesArePaidFor`, `PipelineKeepsPromise`, `PipelineFirstInOrder` and `PipelineLastInOrder` carry the
worker's theorems over. `OutboxWorker` by itself knows of no loss of the stream; but a
restart of Redis keeps `log`, which is what was ever appended, so it is a stutter of the worker
(`PipelineOutboxStep`), and so is every step of a listener.

`FieldChat_proofs`, of the whole, for any requests, users, messages, instances and failures:

* `ApplicationIsLifecycle`: the application implements `MessageLifecycle`. The loss of the keys in
  `RedisRestarts` is an `Expire`; all that was proved of requests holds of the application.
* `ApplicationDelivers`: it implements `EventPipeline`, under the state computed from the table, so that
  everything proved of the pipeline holds too. A request that takes a row lock stamps a new event
  (`RowsStamped`) and no other open row is about its message: an open row belongs to a request that has flushed
  (`OpenHeld`), which holds the lock (`MT`, below), and here the lock was free (`Unopened`). A commit or a rollback
  ends exactly that row (`RowsEnded`). `RowsOK` adds that the rows are as many as the events there are, and
  `processed_at` is set of committed rows only. `TableInv` is the conjunction; neither
  `MT` nor the pipeline's invariant implies it, because each knows one half of the table.
* `SystemInvariant`: `TableInv` with the pipeline's invariant of the computed state.
  `ApplicationTypesCorrect` follows. The types of the compositions (`PipelineTypeOK`, `SystemTypeOK`) are
  proved and in no run; those of their parts are in `outbox` and `messages`.
* `ApplicationBeginsInOrder`, `ApplicationEndsInOrder`: the two orders, for one worker, and no refused or no
  stray command: what they are orders of is here the row locks that requests take.
* `ClientsFollowTheDatabase`, for one worker and `MayLinger = FALSE`: the newest committed row of a
  message has its text, up to blanks (`Agrees`); once nothing of the message is pending it is processed, hence in the
  stream and after every copy of what is older (`NewestPublishedLast`); a listener that has read to the end
  of a stream that lost nothing and has nothing pending has handled every entry (`Covered`). The
  last entry handled is thus about the newest row. With several workers, or stray
  commands, the second step fails (section 6).

The prover does not see that two instances of one module with the same substitution are equal, so
`FieldChat_proofs` has an instance of its own with the theorems (`Proved`) and shows that the two have
the same steps (`SameTransactions` to `SameComponent`); what the instance assumes is
`ComponentAssumptions`, proved from those of `FieldChat`.

`MessageLifecycle_proofs`: `TextIsLastAnnounced`, `OutboxTellsTheTruth`, `DeletedMessagesStayDeleted`,
`RetriesStoreOnce`, `LifecycleTypesCorrect`. The invariant `MT` says what a row lock means: whoever
holds it has flushed one change of that message whose outbox row is open and the newest of the message
(`ReqOK`, `LockOK`). Hence a commit makes the newest row of the message visible, and `Agrees` (the text
is what `Strip` leaves of the newest announcement, the status what was announced) passes through it.
`RetriesStoreOnce` counts: rows stored for a key and creates under way with it are at most the times the
key was set (`Covered`).

`Membership_proofs`: `CacheAlwaysFollows` from `TInv` and `CInv`: a cached pair and its row disagree
only if the pair is excused or owed, by the inserter if there is a row and by the remover if there is
none; and what a synchronisation read is still so but for `late`. Both survive a write elsewhere,
because it excuses what was owed, and the loss of the cache, because it excuses every row there is.
`DMAlwaysForTwo` and `OwnersStay` from `KInv`: a conversation with a manager is a group, a dm has none,
and so what was checked about either cannot be made wrong by a later commit. `TwinsOnlyOverlap` from
`TwinInv`: a dm's rows are all those its founding request inserted (`FoundedOnce`), and whatever dm of
the two exists when a request that found none commits was founded by one that had not ended when it
looked (`NoneBefore`).

`MessageReceipts_proofs`: `BadgeIsCleared` (a row that is read stays so while its message is there),
`OneReactionUnlessOverlap` (`Paired`: of two rows the later call had not seen the earlier one end,
because it found no row), `ShownOnlyMovesForward` (`Rising`; the counts need finite sets of people).
`ToldIsStored`, that nothing told last is stale, needs the most: undisturbed calls about a message
and a user run one after the other (`OneActive`), so while one of them has committed and not yet
published, the row says what it is going to tell (`ReceiptTold`), and when none has, the row says
what was told. A delivery that is still to commit finds no receipt: otherwise a late "delivered"
would be told over a "read". For reactions (`ReactionTold`) the call must also have found the one
row there is, which is `OneRow`, from `Paired`; and that the row it found is of its own user and
message is `FoundShape`. A cut call disturbs, and what a step does to other messages and users is a
frame (`ReceiptFramed`, `ReactionFramed`).

`ConnectionManager_proofs`: `LastTabGoesOffline` and `MembersAreConnected`, for any instances, users
and tabs. `CInv`: Redis holds the id of a connection only between its SADD and its SREM (`Counted`), a
user is online only while a task of his has begun and not ended (`Begun`), since the last to recount
turns him offline, and a task that is to view a conversation knows which (`Aimed`).

`SessionsRateLimiter_proofs`: `RevocationIsThorough`, `LoginsWork`, `DeadTokensStayDead` from `SInv`, which says of
each request what the rows it has read may have become since. `WindowDecides`, for every limit and
window: the log holds nothing but stamps executed since it was last lost, and of these every one that
the window of an attempt in this instant can still reach, and the key outlives it (`LogInv`); a stamp is
never of the future (`StampsInv`). So what an attempt counts is its window, if it is executed in the instant of
its stamp; one that is late has had its window cut by those before it, hence the condition on `late`, and
can count no more than there was. A transaction that is executed twice, or given up and executed after all,
keeps `LogInv` like any other.

`NotificationsMediaStore_proofs`: `EverybodyIsTold` and `SubscriptionsAreKept` (`Kept`: a push task
deletes only endpoints that are gone, and a gone endpoint does not come back). `BucketMatchesRows` from
`MediaInv`: what a request is to erase or has erased is referred to by rows it is about to turn away, or
else has been reused (`JobInv`, `Own`), and an unreferenced object is on the list of a request that has
already replaced the avatar (`NothingForgotten`; the list of one that has not would not do, it may still
be cut). `DeleteDirectKeeps`: a conversation that goes under a request at work takes no reference from
its list. `EverybodyIsTold` needs to know what the mark will mean to a sender in front of the check
(`Told`): unless the recipient is told or `mayMiss` has the pair, a recipient who has the mark while the
publication is on its way has a socket too, and one whom it has not reached has no mark, so that the
check will start the push.

The assumptions are the named ASSUMEs of the modules: finite sets, positive limits, one listener per
worker, `None` outside the sets it is added to, and for `Membership` an initial database as the code
leaves one (a group has at most one owner, a dm two plain members).

Every invariant, action property and refinement that a run checks is thereby a theorem, except
`ServicesTypeOK`, the conjunction of the six services' type invariants over the run's `part`: each of
them is proved of its own specification. Model-checked only are the liveness properties `CommittedIsProcessed` and
`CommittedIsDelivered`, which are out of the prover's reach, and that `MCServices` runs the parts side by side.
Nothing is proved about the counterexamples of section 5.

## 5. Where the code differs from its documentation

* `pending_recovered`: the comment in `stream_listner.py:67-68` and README:117 speak of a recovery of
  pending entries. No code does it.
* `redis_outage`: README:63. The group is created at start-up only; after a restart of Redis every
  running instance retries NOGROUP for ever, and events marked processed meanwhile reach nobody.
* `limiter`: `rate_limit.py:14` calls the limit the maximum of requests in the window (`auth.py:21`: "max 5
  requests per minute"). The count is taken before the request is logged and compared with `>` (`:45`), so
  that `limit + 1` requests are admitted. `RefusedByWindow` says what the code does.
* `second_tab`: README:92. `disconnect` discards the user from `local_conversations` without asking
  whether another connection has joined; the remaining tab gets no events until it opens the
  conversation again.
* `away_user`: README:157. Start-up deletes the connection and online sets but not the sets of viewers.
  A crash is the shortest way there. Without any crash, a second tab that views and closes a
  conversation while the first waits for Redis to leave it (`sockets.py:216`) does the same: TLC finds
  that in the instance of `connections`, restarts excluded.

Without a run of their own, because a reading of the lines shows them:

* the comment in `outbox_service.py:80` counts publishing attempts; the count of a failed one is rolled back with
  everything else;
* `edit_message` announces the text with the blanks around it (`messages.py:368`) and stores it without
  (`:356`): until they load the message again, clients show a text that the database does not hold;
* `add_member` and `leave_group` write the cache under the id as the client spelled it (`chat.py:381`, `:448`):
  with capitals or without hyphens the member added is not in the canonical set, and the member who left
  stays in it, until a synchronisation;
* `disconnect` removes the socket at `manager.py:96-99` and the mark at `:131`: a notification published and checked
  in between, or between a crash and the next start-up, is told neither live nor by push, although
  README:157 speaks of push for users who are offline;
* `delete_dm` (`chat.py:1264`) removes messages and leaves the objects they refer to in the bucket for good.

## 6. Known limits of what holds

The order of the stream is kept under conditions that the configuration states; outside them it is
not, and no document promises it:

* with two workers, SKIP LOCKED lets one publish an edit while the other still holds the creation:
  `FirstPublishedInOrder`, `NewestPublishedLast` and `ClientsEndWithTheDatabase` need one worker;
* a refused XADD does not stop the next: `FirstPublishedInOrder` needs `MayRefuse = FALSE`;
* a stray command may be executed after everything else: `NewestPublishedLast` and
  `ClientsEndWithTheDatabase` need `MayLinger = FALSE`.

`ConnectionManager` claims nothing about users being shown online: two connections that both count 2
(`manager.py:47`), a disconnect that overtakes a connect (`manager.py:127-131`), or the start-up of
another instance leave a connected user offline.

`created_at` comes from the clock of the instance that stamps it. The model has one clock.
`bulk_delete_messages` stamps its rows without a flush of its own and may thus do so before it has
the row lock; it is not among the transactions modelled.

What the properties of the services exclude by name, because the code does it:

* Membership. `join_group` calls `conversation_cache.add_member`, which does not exist
  (`router/chat.py:254`): the row is committed and the cache never learns of it until a
  synchronisation. `delete_dm` and `delete_group` do not touch the cache, and
  `sync_all` rewrites the sets of what it finds in the database without clearing those of what it
  does not find. A deleted group can still be joined. A member whom two requests add
  at once makes the later one fail on the unique key, with everything it inserted; so does the
  creation of a conversation that names its creator among the participants in another spelling
  of the id (`chat.py:85-100` compares text with a UUID). A restart of Redis loses both indexes; the
  conversations that no request touches are back at the next start-up. The eviction of a single key
  (`allkeys-lru`) is not modelled, nor are the keys that another spelling of an id writes, which
  `sockets.py:75-84` and requests that spell alike read.
* Sessions. A row that has vanished fails the commit of a revocation of all; a driver that does not report
  the rows matched one by one would let it pass, which changes none of the properties.
* Twins. Once two users have two dms (`TwinsOnlyFromOverlap`), `create_dm` raises for them ever
  after: `scalar_one_or_none` finds two.
* Receipts. The events of calls that overlap are published in any order, so the last one may be
  the older (`LastToldIsStored` excuses these); two overlapping `add_reaction` calls leave two rows. A receipt
  whose insertion PostgreSQL refuses takes the rest of the call with it; at `sockets.py:102` the exception
  comes before the `try` whose `finally` disconnects, and the connection stays registered. The REST
  endpoints for delivered and read (`router/messages.py:525-563`) call the service without the
  conversation and raise before they change anything.
* Rate limiter. Requests of one instant count once; refused requests are logged too, and so is one whose
  connection broke, which may count against itself when it is sent again. An attempt that is executed late
  may be admitted although its window was full, and after a loss of the key everybody starts anew.
* Notifications. The list is all there is of a notification whose recipient was marked without a socket
  when it was published, was marked between its arrival and the check, lost the last socket while it was
  on its way, or whose publication or send failed.
* Media. A forwarded message shares its media with the original, and loses it with it; a deletion
  that fails to commit leaves rows without their media; a failure between the commit and the cleanup
  leaves an object nobody refers to, and so does `delete_dm`.

## 7. Not modelled

* Redis Pub/Sub subscriber: it keeps no state and promises nothing; that something was published is
  in `MessageReceipts` and `Notifications`.
* Of the message service: pagination, and the outbox rows of `bulk_delete_messages` (their media are
  in `MediaStore`).
* Of the connection manager: failing sends, failing Redis calls, presence watchers; and which members
  of a conversation a handled entry reaches while sockets come and go (`handlers.py:29`). A member who was
  removed keeps receiving on the sockets that have joined.
* Sessions: registration, passwords, expiry and encoding of tokens. Rate limiter: the choice of the
  key. Notifications: settings (a nondeterministic choice in `PassOver`) and `broadcast_notification`, which
  keeps no state. Media: uploads under a name of the client's choice, parsing of URLs.
* Several clocks: `created_at`, expiry and windows have one clock each.
* REST endpoints that only wrap a service or read; profiles, settings and the admin panel, which
  change single rows; configuration, schemas, migrations and tests.

## 8. Plan

What would extend the project, in this order:

1. `ConnectionManager`: failing sends and Redis calls, its composition with `StreamListener` (which
   sockets an entry reaches), and the proofs carried over.
2. Bulk deletion and per-instance clocks in `OutboxWorker`.
