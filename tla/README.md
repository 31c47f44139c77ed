# TLA+ specifications of emito

emito is a notification platform: an application calls `send()`, emito decides who gets the
message on which channels, hands it to providers, and follows what becomes of it. These modules
model the parts of it where the order of steps matters: failover and retries, the circuit breaker
kept in Redis, the gates of the send pipeline with the rate limiter, dead letters and their retries, the
webhooks and tracking calls that move a notification's status, the digest engine, broadcasts and the lists
they go to, the JavaScript client with its offline queue, and the notifications that reach it through
several server instances.
Paths are relative to `src/packages/` unless they start with another directory.

Every definition is read off the code named in `PROJECT.json` under `map`. What a reader should
know first:

- JavaScript runs a function without interruption between two `await`s. An action is therefore what
  runs up to the next await; two requests interleave at awaits, in one process or in several.
- Redis and Postgres execute one command, or one `MULTI`, at a time. Nothing in the modelled code
  holds a transaction or a row lock across two calls.
- Logging, metrics, rendering and validation of input are left out throughout.

## 1. Inventory

For each component: its state, its operations, what it talks to, what is hard about it, and what it
means for it to be correct. "Status" says whether a module exists yet.

| Component | Where | Status |
|---|---|---|
| Circuit breaker | `core/src/circuit-breaker.ts` | modelled: `Breaker`, `CircuitBreaker` |
| Dispatch, retry, strategies | `core/src/dispatch/` | modelled: `Failover`, `Dispatch` |
| Suppression | `core/src/suppression/`, its repository | partly: in `Dispatch`, `Tracking`, `SendPipeline` |
| Dead-letter administration | `server/src/endpoints/admin/dead-letters.ts` | modelled: `DeadLetters`, `Resend` |
| Delivery tracking | `core/src/tracking/`, `server/src/endpoints/{webhooks,tracking}/` | modelled: `Tracking` |
| Send pipeline | `core/src/send.ts` | modelled: `SendPipeline`, `Resend` |
| Categories | `core/src/categories/` | modelled: in `SendPipeline` |
| Preferences, integration routing | `core/src/preferences/` | partly: in `SendPipeline` |
| Rate limiter | `core/src/rate-limiter.ts` | modelled: in `SendPipeline` |
| Digest engine | `core/src/digest/` | modelled: `Digest` |
| Broadcast service and scheduler | `core/src/broadcast/` | modelled: `Broadcast` |
| Lists and memberships | `core/src/lists/` | modelled: `Lists` |
| JavaScript client | `js/src/` | partly: `Client`, `Realtime` |
| Consent, subscribers, event registry and bus | `core/src/` | partly: as steps of `SendPipeline` |
| Realtime transport | `server/src/transport/` | partly: `Realtime` |
| Lifecycle and wiring | `core/src/lifecycle.ts`, `core/src/emito.ts` | not modelled: starts and stops the parts in order |
| HTTP router, other endpoints | `server/src/` | not modelled: single repository calls |
| Templates, providers, CLI, UI, auth, types | other packages | not modelled: pure or external |
| Repositories and schema | `db/src/` | not modelled alone: their effects are in the modules that use them |

**Circuit breaker.** State: per provider, a Redis hash (state, failures, time of the last
transition, TTL) and a probe key with a TTL. Operations: `isAllowed`, `recordSuccess`,
`recordFailure`, each a read followed by a write in another round trip; `getState` only reads.
Called by dispatch around every provider. Hard: concurrent read-then-write, probes that die, keys
that expire, Redis going away. Correct when it trips on real failures only and never refuses for ever.

**Dispatch.** State: the locals of each call (providers exhausted, attempts), the module-level
round-robin counters, the notification's row, the dead-letter table, the suppression list, the push
tokens. Operation: `dispatch()`, with `executeWithRetry()` for one provider. Calls the breaker, the
providers and the repositories. Hard: repository calls that fail, some guarded and some not; death
of the process; other dispatches of the same address. Correct when no answer is followed by
another delivery, a dead letter means that everything was tried, and the records say what happened.

**Suppression.** State: a table with a unique index on subscriber, channel and address. Read by
dispatch; written by dispatch, webhooks and administrators. Correct when what bounced is listed and
what is listed is left alone.

**Dead-letter administration.** State: the letters' `resolution`. Operations: retry (find, mark,
send, settle or give back), discard, purge. Hard: two administrators at once, death between steps.
Correct when a letter is sent once and none is lost in the middle of a retry.

**Delivery tracking.** State: the row's status and `providerMsgId`. Operations: `processEvent` for a
webhook report, open and click endpoints, `transitionStatus`. Hard: reports come late, twice and out
of order; the status is checked in one statement and written in another. Correct when the status
follows the status machine and a bounce or a complaint leads to a suppression.

**Send pipeline.** State: none of its own, but it creates the rows. A call looks up the event, resolves the
subscriber and enforces the category; then, for each channel and concurrently: suppression, preferences, rate
limit, digest, insert the row, dispatch; the results are collected with `allSettled`. Preferences and categories are
functions of stored rows that may change between two reads; the rate limiter is a Redis sorted set whose
over-limit entry is removed in a second round trip. Hard: a channel that throws, the order of the gates,
what the other channels have done by then. Correct when a blocked channel is never dispatched, a window
admits no more than its limit, and an error means that nothing was tried.

**Digest engine.** State: in Redis a sorted set of buffered events for each subscriber and event type,
a flush lock, a checkpoint for each instance; in memory the map of digests an instance tracks.
Operations: `addEvent`, flush by count, by the poller, at shutdown; recovery at start. Hard: several instances, a crash between taking the buffer and delivering it, an event
added while its buffer is flushed. Correct when a
buffered event is handed on once, and somebody knows of every buffer until it is flushed.

**Broadcasts.** State: a Redis sorted set as the schedule, a lock with a TTL of 300 seconds, a progress hash.
Operations: poll, execute page by page, resume at start. Hard: the lock is never renewed and is deleted
by anyone, progress is kept by page, an instance reads the progress before it takes the lock, members come
and go meanwhile. Correct when every member of the list is sent to, and more than once only for a named
reason.

**Lists.** State: membership rows and a member count kept with the list. Operations: subscribe, confirm,
unsubscribe, clean-up of stale opt-ins, archive; each reads, writes and counts in separate statements.
Correct when the count is that of the confirmed rows.

**Lifecycle.** State: the phase of the process. Start and stop order of pollers with timeouts.

**JavaScript client.** State: the generation of the connection attempt, the transport, the queue of actions
taken offline with its copy in the storage, the store. Hard: an attempt overtaken by another or by
`disconnect()`, an adapter that reconnects on its own, an action taken while the queue is restored or
flushed, a storage that answers later, or rejects, with a restart between the change of the queue and its save. Correct when an action is replayed or its loss is known, and no socket stays open that nobody
holds.

**Realtime transport.** State, for each instance: connections and stream cursors by subscriber, and the ids it wrote
itself; in Redis a stream for each subscriber. Operations: `register`, `unregister`, `broadcast` (write to the stream,
then to the sockets of this instance), a poll for what other instances wrote, and the catch-up of a socket that brings
the last id it has had. Hard: entries written between two polls, polls and catch-ups that overlap broadcasts,
replies that are lost, sockets that die unnoticed. Correct when a notification comes once, and when the id a client
resumes from has not passed one it never saw.

The hazards, each at its line, are listed in `PROJECT.json`.

## 2. Plan

Done, in order of importance to the program:

1. `Breaker`, `CircuitBreaker`: the header's state machine, and its Redis implementation.
2. `Failover`, `Dispatch`: the promise of dispatch, and the dispatch that keeps it.
3. `DeadLetters`; `Tracking`; `Digest`.
4. `SendPipeline`, the gates of `send()`, and `Resend`, which puts it in the place of the abstract send of
   `DeadLetters` and is shown to implement that.
5. `Lists`, and `Broadcast` over it.
6. `Client`, and `Realtime`, which puts it among the server instances.
7. The proofs: one module beside each component, except for `SendPipeline` and `Lists`, which are proved about
   where they are composed, in `ResendProofs` and `BroadcastProofs`.

Left, in the order in which it would be done:

1. The SSE and polling endpoints and adapters, beside the WebSocket's in `Realtime`.
2. `Dispatch` with `CircuitBreaker` in place of its arbitrary answers, and with `Tracking` through the row.
3. Several digested channels of one event in `Digest`.
4. The store of the client with its optimistic updates.

## 3. The modules and the code

### Breaker and CircuitBreaker

`Breaker` is the three-state machine drawn in the header of `circuit-breaker.ts`.
`CircuitBreaker` is the code. The hash is a record; `"none"` stands for an absent key. `setState` is
one `MULTI`, hence one step (`SetState`); the failure count is written by an `HSET` and an `EXPIRE` in
two steps, and the hash may be gone in between (`SetFailures`, `Expire`). Each caller's `pc` says
which round trip comes next and remembers by its label what the last read found; `snap` is the count
`recordFailure` read. Time is in ticks; the age of the last transition is counted up to `ResetTimeout`
only and failures up to `FailureThreshold`, since the code compares them with nothing else.

| Action | Code |
|---|---|
| `ReadAllowed`, `TakeProbe`, `Promote` | `isAllowed` |
| `ReadSuccess`, `Close`, `Reset`, `Expire` | `recordSuccess` |
| `ReadFailure`, `Reopen`, `Open`, `Count`, `Expire` | `recordFailure` |
| `RedisFails` | the `catch` of each |
| `Deliver`, `Skip` | the dispatcher between the calls |
| `Crash`, `Tick` | the process dies; TTLs and the window run |

### Failover and Dispatch

`Failover` says what a dispatch promises, without attempts, breakers or records: providers one after
the other, none twice, the first definite answer is final, the dead letter comes last.
`Dispatch` is `dispatch()` and `executeWithRetry()` for several notifications of one channel at once.
The locals are functions over the notifications; `rr`, `row`, `dlq`, `suppressed` and `active` are
shared; `calls` and `made` (their number) are history. The breaker's answer is arbitrary (`Gate`), so that the results hold for any breaker; its
reports change nothing here and are left out, as are back-off and jitter. A provider's answer is an
acceptance (naming any of the tokens as invalid), a permanent rejection (plain, bounce, or invalid
address) or a retryable failure; a timeout and an exception are of the last kind.

| Action | Code |
|---|---|
| `CheckSuppression`, `LookupFails`, `MarkSuppressed` | the lookup at the top of `dispatch()` |
| `Select`, `NoProviderLeft` | `selectProvider` of the three strategies, and the end of the list |
| `Gate` | `isAllowed`, or the provider counts as exhausted |
| `Accepted`, `Rejected`, `RetryableFailure` | one turn of `executeWithRetry` |
| `Deactivate` | the loop over invalid push tokens |
| `MarkSent`, `SuppressAddress`, `MarkRejected` | the outcome of a definite answer |
| `GiveUp`, `DeadLetter`, `MarkDead` | failover, and its end |

The counter of round robin is kept modulo `RRPeriod`, a common multiple of the list lengths it is
reduced by, so that nothing is lost. "Weighted" may choose any provider. A suppression
is refused by the unique index when the address is listed; the code lets that error out of
`dispatch()`, and so does the model (`pc = "error"`).

### DeadLetters

`letter` is the `resolution` column (with the row's deletion by a purge). `Find` is the lookup and the
404/409 test of retry and discard; `Claim` marks the letter `retrying`; `Send` is `emito.send()`,
which throws before it has tried a channel (`SendThrows`) or returns (`SendReturns`); `Settle` and `Release` write
the result back; `Discard` and `Purge` are the other operations. Every UPDATE is unconditional, as in the
repository. `Abort` is a repository call that throws outside the `try`, or the process dying. `sends`, `raced`
and `abandoned` are history.

### SendPipeline and Resend

`SendPipeline` is `send()` for several calls at once, all for one subscriber. `stage` is where a call stands before
its channels start, `lane` where each channel stands. `wishes` is the state of the subscriber's rows, which
changes at any time (`ChangeWishes`) between the states the constant `Rows` describes: erased or not,
unsubscribed from everything, opted in or out of the topic, latest consent, suppressed channels, and a setting
for each channel in each of the four tiers. `admitted` counts the entries of a window that stand for deliveries;
those that stand for none (a call that died, or whose ZREM failed) are an arbitrary number up to `MaxStray` at each count.

| Action or operator | Code |
|---|---|
| `Start`, `Resolve`, `Enforce` | the lookups at the top of `send()`, `resolveSubscriber`, `enforceCategory` |
| `CategoryAllows`, `Enabled` | `enforceCategory` and `resolvePreferences` as functions of the rows |
| `CheckSuppression`, `CheckPreferences` | `checkSuppression`, `resolvePreferences` for one channel |
| `Record`, `TakeBack`, `RedisFails`, `Expire` | `checkAndRecord`: the MULTI, the ZREM, its `catch`, the window |
| `Deliver`, `NotDelivered` | digest, insertion and `dispatch()` as one step that reaches the subscriber or does not |
| `Conclude` | `Promise.allSettled` and the return, or the error |
| `RowsFail`, `Die` | a query throws, the process dies |

`Resend` is `DeadLetters` with its `Send` replaced by a call of `SendPipeline`, next to calls of the
application: `Call` starts it, `Run` and `Reach` are its steps, `Answered` gives its answer to the retry, `Fail`
and `Perish` end it. `delivered` is history: how often each letter reached each channel. A retry sends to every
channel of the letter's event (`dead-letters.ts:63`) without a workspace, hence `ResendAssumption`. The new letter
that a failing retry may write is not shown.

### Tracking

The rows modelled store a delivery address (email, SMS and WhatsApp: `core/src/send.ts:565-568`).
`fate` is what the provider knows; `Report` adds a report, and `Acknowledge` may leave it in flight, so
that it is delivered again. `Receive` is `processEvent()` up to the status check, `Fetch` the open and click
endpoints up to theirs, `WriteStatus` the UPDATE, `Suppress` the insert that follows a bounce or a
complaint. `MarkSent` is the dispatcher recording the provider's id, possibly after the first
report. `Successors` is `VALID_TRANSITIONS`. A batch of reports is handled one report after the other,
and fails as a whole at the first that fails: as single reports of which some are repeated.
Subscribers who switched tracking off never start a `Fetch`.

### Digest

One buffer, that of a subscriber and an event type; digests do not share anything else. `buffer` and
`ttl` are the sorted set and its key's TTL, `lock` the ticks the flush lock has left, `tracked` and
`checkpoint` each instance's entry for the digest in its map and in its checkpoint, as the age of the
first event (an age is counted up to the window, since it is compared with nothing else). The tasks
are the `send()` of each event, the overlapping runs of each poller, and each instance's own
`start()` and `stop()`; `pc` says which command comes next. `hand` is what a task has taken out of the
buffer. `alone`, `batched`, `raced` and `mishap` are history.

| Action | Code |
|---|---|
| `Add`, `Count`, `Track`, `AddFails` | `addEvent()`: ZADD, ZCARD, EXPIRE with the entry in the map; the `catch` |
| `AcquireFlushLock`, `AtomicFlush`, `Unlock`, `FlushFails` | `flush()`, and the same steps in the poller and in `stop()` |
| `Deliver` | `onFlush`, for the poller and `stop()`; without one, nothing |
| `Dispatch` | `send()` going on with the one event |
| `Fire`, `Checkpoint`, `Exists`, `CheckpointFails` | a run of the poller |
| `Start`, `Load`, `Scan`, `Clean` | recovery in `start()` |
| `Stop`, `Forget`, `LifecycleFails` | `stop()`, after which the process is gone |
| `Crash`, `Tick` | the process dies; TTLs, ages and timers run |

A command whose reply is lost has run or has not. Where it has, the task fails at its next command
(`FlushFails`, `AddFails`), which leaves the same state; the DEL of the lock is the one for which that is
not so, and is a case of `FlushFails`. Reading and rewriting the checkpoint, HGETALL and a `MULTI`, is one
step: only its own instance writes it, and what a second run of the same poller would write differs by
nothing that the code reads while it runs. The number of runs of a poller that overlap is bounded by `Polls`.

### Lists and Broadcast

`Lists` is one list. A request of the membership service reads a row, writes it and adjusts the count, each in a
statement; `step` is the statement it has come to. `GREATEST(0, ...)` of the decrement is in `CountOut`. `upset` is
history: what makes the count wrong.

| Action | Code |
|---|---|
| `Subscribe`, `Confirm`, `Unsubscribe` | the first statement of `subscribe()`, `confirm()`, `unsubscribe()`, with its early returns |
| `WriteConfirmed`, `WriteUnsubscribed` | the UPDATE of the row |
| `CountIn`, `CountOut` | `updateMemberCount` |
| `CleanupExpired`, `Archive`, `Abandon` | `cleanupExpired()`, `archive()`, a statement that throws or a death |

`Broadcast` is one broadcast to that list on several instances, each doing one thing at a time. `progress` is the
hash (its offset is a `createdAt`, 0 when empty), `lock` who set the key. Instances share nothing else.
`sent`, `unsaved`, `inDoubt`, `steady` and `overtaken` are history.

| Action | Code |
|---|---|
| `Poll`, `Remove` | `poll()`: ZRANGEBYSCORE, ZREM |
| `Recover`, `Reject` | `recoverInFlight()`, `resumeBroadcast()` up to its lock |
| `Check`, `Lock`, `Begin`, `Fill` | the start of `executeBroadcast()`: the list, SET NX EX, two HSETs |
| `Page`, `SendTo`, `Save` | a turn of `processBatches()`: the query, the sends, the HSET |
| `Complete`, `Failed`, `Unlock` | the end, the `catch`, and the `finally` |
| `LockExpires`, `Throw`, `Die` | 300 seconds are over, a command fails, the process dies |

`Pages` and `IsCursor` are the keyset query: the newest `PageSize` confirmed rows strictly below the cursor, in any order
within a millisecond, and the `createdAt` of the last of them when there are more.

### Client

Attempt `k` is the k-th call of `connect()`, adapter `k` the transport it makes; `current` stands for the generation: it
is that of the attempt whose number it holds. An action is its place in the order of the user's calls, and
`latest` is the server's state: the action it applied last. A request that fails may have been carried
out all the same. The storage is asynchronous and may reject (`storage/types.ts:3`, `indexeddb.ts:40-49`): `disk` holds the
requests it has not answered, in order, and `stored` what it has. The queue changes when the code changes it, in memory,
and `stored` only with the answer. `settled`, `evicted`, `unrestored`, `leaked`, `raced` and `mixed` are history.

| Action | Code |
|---|---|
| `Connect`, `Restore`, `RestoreFails` | `connect()` up to `getItem`, its answer, and its rejection, with which `connect()` throws |
| `Open`, `OpenOvertaken`, `OpenFails` | the transport's `connect()` settles, with the test of the generation |
| `Disconnect` | `disconnect()` |
| `Lose`, `Retry`, `Reopen`, `RetryFails` | the callbacks of `websocket.ts` and its reconnect timer |
| `Act`, `Answer` | `markAsRead()` and its like: online the request and its answer, offline `enqueue()` up to the await of `persist()` |
| `Enqueued` | `enqueue()` returns, or throws with the action in memory only |
| `Replay` | `flush()`: the request with its one retry, the removal of the head, up to the await of `persist()` |
| `Saved`, `SaveFails`, `EndFlush` | that save is answered and the loop goes on; or rejected, and the flush ends with what is queued |
| `Reload` | the application starts anew with what the storage holds, of the writes it was asked for as many as it got to |

### Realtime

`Realtime` EXTENDS `Client`: a step of the client (`ClientStep`) is one of `Client` together with what it does to its sockets
(`Register`, `Abandon`), and everything else leaves the client's variables alone. There is one subscriber; notifications
are numbered as they are created, and the number is the entry's id in the stream. An instance has one connection to
Redis, so that its replies come in the order of its commands: a command is executed in the step that issues it, and
`replies` is the queue of the replies the instance has yet to see. `home` says where the socket of an adapter is registered,
as long as it carries anything; after that its instance is among the `ghosts` until it unregisters it. `lastId` is the
adapter's `lastEventId`, `resumeId` the client's. `passedBy` and `doubled` are history.

| Action | Code |
|---|---|
| `Post`, `PostUnstreamed` | `broadcast()` up to XADD, which succeeds or fails |
| `Added`, `AddUnanswered` | its answer, or its loss; the cursor; XTRIM |
| `Trimmed` | `broadcastLocal()` |
| `PollStream`, `PollAnswered`, `PollFails` | `pollStreams()` |
| `ClientStep` with `Register` | `handleConnection()` and the XRANGE of `catchUp()`; a step that drops sockets (`Closed`), or makes an adapter that takes over the client's id (`Created`) |
| `CaughtUp`, `CatchUpFails` | the rest of `catchUp()` |
| `Cut`, `Unregister` | a network that fails unnoticed; `unregister()` after a close, an error or a missing pong |
| `Restart` | an instance dies and starts again |

A catch-up writes to an open socket only (`ws-handler.ts:225-229`): when its socket closes, the reply under way becomes an
empty one in its place (`Voided`), which still keeps the later replies waiting.

## 4. Runs

| Run | Instance | What it shows |
|---|---|---|
| `breaker_concurrent` | 2 callers, threshold 2, window 2, TTLs 5 and 6; Redis failures, crashes, stalls | `NoSpuriousTrip`: refusals only after that many failure reports, although counts are lost between read and write. `Recovers`: a tripped circuit closes or probes again |
| `breaker_sequential` | 1 caller, threshold 3, window 3; Redis failures, crashes | `ImplementsBreaker`: alone, the Redis version is the header's machine |
| `breaker_single_probe` | 2 callers | finding 1: `SingleProbe` fails |
| `dispatch_failover` | 2 notifications to one address, 2 providers in priority order, 2 attempts; failing repositories, crashes | the records are true (`RecordsTellTheTruth`), dead letters exhaustive, bounces listed (the channel is not push), the order kept, answers final, and `Failover` implemented (`KeepsPromise`); who starts after the listing stays silent |
| `dispatch_shared` | 2 push notifications to a subscriber with two tokens, 3 providers, shared counter, database up | `EveryDispatchSettles`: failover ends with a settled row. `DeadTokensGo`: an invalid address on push retires every token and suppresses nobody; nothing is claimed of a hard bounce on push (section 6) |
| `dead_letters` | `Resend`: 1 letter, 2 requests, 1 call of the application, 1 channel with a limit of 1 and 1 stray entry; a subscriber who moves between wanting it, opting out, a bounced address and a channel switched off; failing updates, rows, Redis; crashes, purges | `DeliveredOnce`: no channel gets a letter twice unless two lookups raced. `WishesHeld`: what was refused before a call began is not sent, by any of the three gates. `RateLimitHeld`: a window admits its limit. `retried` means sent; only a fault strands a letter in `retrying` |
| `dead_letter_race` | 1 letter, 2 requests, no faults | finding 2: `RetriedOnce` fails |
| `digest` | 2 instances, one of them stopping, dying, restarting; 2 events, threshold 2, window, grace and lock 2 ticks; Redis failures, crashes, stalls; `onFlush` resolves or rejects | `DeliveredOnce`: no event is in two digests, although the lock runs out under its holder. `NothingForgotten`: some engine knows of the buffer unless a named mishap left it behind. `NothingExpires`: a known buffer is flushed in time |
| `digest_threshold` | 1 instance, 2 events, no faults | finding 3: `BatchHandled` fails |
| `broadcast` | 3 members, two of one millisecond, pages of 2; 2 instances; 2 membership requests about one member; 1 crash or failing command | `SentOnce`, `NobodyLeftOut`: exactly which coincidences send twice or pass over a member. `CountTrue`: which make the member count wrong |
| `client` | `Realtime`: 2 calls of `connect()`, any of `disconnect()`; 3 actions or restarts, a queue of 2, a storage that is slow or rejects; 2 instances, up to 4 notifications, catch-ups of 1, 1 failure | `NothingLost`: which coincidences lose an action. `LastActionWins`: without overlaps the server ends with the user's last action. `SocketsAccountedFor`: which sockets nobody holds. `SeenOnce`, `NothingMissed`: which coincidences bring a notification twice, and let the client's id pass one it has not seen |
| `tracking` | 1 row, 2 requests; failing repositories, crashes | condemned rows are suppressed, the status follows the machine unless raced for, an attributable bounce reaches the list |

**Why the bounds are enough.** Two callers of the breaker show every pair of a stale read and a
write between; a threshold of 2 separates the first failure from the tripping one; a window of 2 ticks
leaves a tick inside it; the TTLs keep the code's order (window < open hash < closed hash), and
`OpenTTL` exceeds two windows as `circuit-breaker.ts:104` makes it. In `dispatch_failover` two
attempts distinguish the first, a further and the last call, two providers failover from
exhaustion, and a common address makes the notifications meet in the list. `dispatch_shared` has three
providers so that lists of lengths 3, 2 and 1 reduce the counter differently (period 6).
Two requests on a letter race, and either can try
again after the other gave it back, since a request may serve any number of retries; the application's call shares the window and the
subscriber with them. One channel is enough there, as channels share nothing but the call's end, which `Over` waits for; of the
four profiles three are refused, each by a gate of its own (the topic, the suppression list, the channel switched off for
everybody), and with any of the three gates removed the run fails; the fourth makes the workspace's tier decide against the default. Rows of `Tracking` meet only in the
suppression list, and a duplicate report finds the address listed just as a second row's would, so that
one row is enough. In `digest` the window equals the grace period, as the
60 seconds of both do in the code (`emito.ts:171`, `engine.ts:139`): the boundary case, where an event may wait for
two windows less a tick. A window of 2 ticks lets an event fall between two runs of the poller and timers start in any phase to each other; a lock
of 2 is the longest that `NothingExpires` allows, outlives a flush that failed, and still runs out in a stall. Two events are the one that is buffered and
the one that fills the buffer or meets a flush; one instance that restarts and one that stays are whoever
recovers and whoever races with it. Faults go on until the first that may leave a buffer behind
(`Recurring`): from there on `NothingForgotten` and `NothingExpires` claim nothing, and the proof of `DeliveredOnce`
has no such limit. The type bounds that cut a counter (`counted`, `sends`) saturate at the value beyond
which no property looks. In `broadcast` three members on pages of two
give a second page whose boundary falls between the twins of one millisecond in one order and not in the other; the member that requests are
about is a twin, so that the page it would be on may change while it is read; the fault comes at any step, and everything
that follows it (the surviving lock, its expiry, one or two recoveries) needs no second. In `client` two attempts overtake each
other, three actions overflow a queue of two, and one restart separates what is in the memory from what is in the storage, at any
moment between a change of the queue and its save. Actions and restarts are three together (`ActionBounds`), so that a
restart comes with two actions, and a leaked adapter costs one of them; for three actions and a restart the theorems speak.
There the actions and the notifications share the sockets and nothing else; the two are therefore not mixed (`Alone`): a behaviour
of the run has either actions and restarts, and then a step of the client is one of `Client`, or notifications. A call that sets
`raced` ends it, since nothing is promised of the actions after it. `WithinBounds`
then spends what can be explored where it tells something: what happens around one and two notifications to
a client that connects once (with up to four and three commands under way, one less for a failure, an overlap and each
notification let pass before, one instance at a time that has yet to notice a dead socket, and a client that is told of a loss when it happens), a second `connect()` while nothing has failed or overlapped and little is under way, and a third and fourth
notification with one and no command under way beside. A voided reply that has come to the head of its queue does nothing, and goes before
anything else happens (`Void`). Each reservation of `SeenOnce` and `NothingMissed` is needed within
these bounds, so that the run fails without it, with one exception: that a new adapter takes over an id past a notification
still on its way takes two `connect()` and more notifications under way than the bounds allow; it was found by the proof (section 5). Two are instances enough for an own and a foreign one; a catch-up reads one entry
instead of 100, so that two are more than it reads.
Symmetry is used in `dead_letters` (requests), `broadcast` (instances, and requests), `client` (instances) and `digest`, which check no liveness. `digest` also has a VIEW that leaves out what
no guard and none of its properties reads any more (`View` in `MCDigest`): the checkpoint of the instance that does not restart,
where a finished `send()` ran, and whether one that sent nothing was raced. The VIEW of `client` leaves out the
servers' side once the user has acted, when no step changes it.

**Fairness.** Weak fairness of each caller, dispatch and request: the event loop resumes whoever
awaits, and each awaited call settles. Weak fairness of `Tick`: time passes. Strong fairness of
receiving a bounce and of its status update in `Tracking`: providers repeat what was not answered with
a 2xx, and a database does not fail every time for ever. Nothing is assumed of provider answers,
breaker answers, or faults; `Recovers` is conditional on faults ceasing, since a breaker cannot
recover through a Redis that never answers, and `BounceSuppresses` excuses a bounce only by the
fault or the early report that kept it off the list.

**Deadlock** is checked except in the `dispatch_*` runs, where dispatches end, in
`tracking`, where the last report has been answered and nobody opens the message any more, in
`broadcast`, where the broadcast is over and the requests are served, and in `client`, where the user is done and no
socket is left to be lost.

## 5. Proofs

The theorems hold for all constants that satisfy the named assumptions (`CircuitAssumption`,
`DispatchAssumption`, `DeadLetterAssumption`, `TrackingAssumption`, `DigestAssumption`, `PipelineAssumption`,
`ResendAssumption`, `ListAssumption`, `BroadcastAssumption`, `ClientAssumption`, `RealtimeAssumption`); TLC evaluates these on every run.
Each follows the same argument: an inductive invariant, stated in the component's module, that
contains the type invariant, holds initially, and is kept by every action.

- `CircuitBreakerProofs`. `NoSpuriousTrip` is not inductive: a caller may carry a count between its
  read and its write. `TripInv` adds that no count, in the hash or carried, exceeds the reports already
  written, and that whoever acts on a tripped circuit (labels `probe`, `promote`, `reopen`, `denied`)
  does so after the threshold was reached. Theorems: `TypeCorrect`, `NeverTripsSpuriously`.
  `SoloImplementsBreaker`, the refinement of `Breaker`, has two hypotheses: a single caller, and no stalls. A stall lets time
  pass between the read and the write of one operation, where the hash may expire or the window end.
- `DispatchProofs`. `DispatchInv` ties the place where a dispatch stands to the providers it has been
  through and to the calls it made. From it: `TypeCorrect`, `DeadLettersExhausted`, `PriorityRespected`,
  `AnswerIsFinal` (an action property), and `ImplementsFailover`, the refinement: each step of
  `Dispatch` is a step of `Failover` under the mapping `tried <- exhausted`, `result <- Result`, or a
  stutter. `TablesInv` adds the tables: what a row says follows from the verdict and the number of calls (`made`,
  history, since the sum of `calls` over the providers is a fold), and whatever stands in the suppression list was bounced by
  a provider (`Grounded`). From it: `RecordsAreTrue`, `BouncesAreListed`, `DeadTokensAreGone`, and `SuppressedIsSilent`,
  an action property.
- `TrackingProofs`. `TrackingInv`: no report passes before the row has its id, and the only request
  about to write a row may do so. Theorems: `TypeCorrect`, `Condemned`, `StatusLegal`.

- `DigestProofs`. `DigestInv`: `Apart`, that an event is in the buffer, in the hand of one task or with the
  consumer, and `WhereIs`, that where its send stands tells in which of these it cannot be; the flush lock
  plays no part in it, which is the point: the `MULTI` alone keeps an event out of two digests. Theorems:
  `TypeCorrect`, `BufferKept`, `NeverTwice`, with faults that recur. `FlushedInTime` (`NothingExpires`) is a race against the TTL:
  `Deadline` says that a buffer is about to be taken, or a send is about to put it into a map, or an entry of it is old
  enough for the poll that comes before the TTL is over (`InTime`), and that a flush lock in its way is as old as the buffer
  (`OldLock`). The property itself supposes `Window <= Grace` and `LockTTL <= Grace` (section 6).
- `ResendProofs`, in two parts. Of `DeadLetters`: `RetryInv`, that without a race a letter has one worker at most, who
  excludes others while it holds the letter. Theorems: `TypeCorrect`, `SentOnce`, `RetriedMeansSent`,
  `NeverStuckSilently`. Of `Resend`: `ResendImplements`, that a step of `Resend` is a step of `DeadLetters` or leaves its
  variables alone, so that everything proved of `DeadLetters` holds of retries through the pipeline
  (`RetriesKeepPromises`). `ResendInv` adds what the pipeline contributes: a call has channels only in its last stage
  (`LanesInv`); what a channel has found allowed stays so unless the rows changed (`WishesInv`); a letter that is open to a
  retry has reached nobody (`ReachInv`), which is where it matters that `send()` throws only before its channels start.
  Theorems: `ResendTypeCorrect`, `NoChannelTwice`, `WishesAreHeld`, `RateLimitIsHeld`.
- `BroadcastProofs`. Three invariants, since the three properties have different reasons. `CountInv`: each request
  that has yet to count stands for the row it wrote (`Balanced`, a statement on cardinalities), one at a time is about to
  write a row (`OneDecides`) and finds it as it was read (`ReadTrue`). `StartInv` and `SendInv`: who works holds the
  lock, and the members ahead of its cursor, or of the saved offset, have not been tried except those it has not saved.
  `ReachInv`: behind a cursor, saved or in hand, everybody who stayed confirmed has been reached, or a twin
  of the same millisecond; it holds without the lock. Theorems: `TypeCorrect`, `CountIsTrue`, `SentOnceHolds`,
  `NobodyLeftOutHolds`.
- `ClientProofs`. `KeepInv` (`NothingLost` with `LossInv`) says what a restart at any moment may find: whatever is queued and
  not done with is stored, or its call waits for the save, and no write that the storage answers before it loses it again
  (`QueueIsSaved`); and nothing is stored, or to be stored, that is not queued or done with, but for what a restart has left
  (`SavedIsQueued`). `SocketsInv`: an adapter's state follows from its
  attempt's and from whether it was installed. `WinsInv`: the queue ends with the last action taken, and when nothing is left
  that action came last (`ActionsWin`); so does what is stored (`StoredWins`), and whatever is yet to be written (`DiskWins`),
  so that a restart among the writes finds the last word too. Theorems: `TypeCorrect`,
  `NothingIsLost`, `SocketsAccounted`, `LastWordIsTheUsers`.
- `RealtimeProofs`, about the client among the servers. `ClientAmongServers`: a step of `Realtime` is one of `Client` or
  leaves its variables alone, so that the three promises hold there. `RealtimeTypeCorrect`, with `QueueInv`: every reply
  under way brings entries of the stream. `NothingTwice` (`SeenOnce`): the argument is what an instance may yet write to its
  sockets (`Ahead`): what waits for its XADD or XTRIM, what a poll has read and is not its own, and what a poll to come
  will read (`Later`). `InLine` orders the replies of an instance two by two (`Fits`) and beside its cursor (`Settled`), so
  that each step takes from what is ahead what it writes and adds nothing else. Until something has `doubled`, one socket
  is the client's (`OneSocket`), and what is ahead of it, or in its catch-up, has not been seen, and is not in
  both (`ViewAt`). `NothingIsMissed` (`NothingMissed`), with polls and sockets that may overlap: `MissedInv` says of each
  notification in the stream and each registered socket that it has been met (seen, or let pass), or is firm on its way in a
  reply under way (`Firm`), or is awaited (`Awaited`): it lies above the socket's id, and no reply takes the id past it that
  does not come after a poll that brings it (`After`, `ReadBefore`). What a socket that is not registered yet has not met
  lies above its id (`Offline`), which is what its catch-up asks for, and the client's id is that of a socket it
  listens to (`Resumed`). The step that would not go through showed an earlier formulation of `passedBy` false: a second
  `connect()` takes over the client's id while a lower one is still on its way to the first socket.

Only model-checked: liveness (`Recovers`, `EveryDispatchSettles`, `BounceSuppresses`), which is beyond
the prover.

## 6. What the models found

1. **More than one probe** (`breaker_single_probe`). The header and the test promise one probe in
   half-open. The caller that finds the window over sets half-open and goes through without the
   probe lock (`circuit-breaker.ts:142-151`); the next caller finds half-open, takes the lock, and
   goes through too. The provider gets two requests at a time instead of one; nothing worse follows, as
   `NoSpuriousTrip` and `Recovers` hold with any number of probes.
2. **Two retries of one dead letter** (`dead_letter_race`). The handler marks the letter "before send
   to prevent concurrent retries" (`dead-letters.ts:58`), but by an UPDATE without a condition, after a
   lookup in a statement of its own. `SentOnceUnlessRaced`, proved, says that this is the only way.

3. **The batch at the threshold is dropped** (`digest_threshold`). When an event fills the buffer, `send()` flushes it
   and continues with that one event: "the digest consumer will handle the batched payload"
   (`send.ts:372-374`). `flush()` returns the batch to `send()`, which uses its length only; `onFlush` is called by
   the poller and by `stop()`. The events that were reported as digested are delivered to nobody.

Met on the way, and stated as reservations of the properties rather than as disagreements:

- A report that arrives before `dispatch()` has stored the provider's id is acknowledged and lost
  (`unseen` in `BounceSuppresses`).
- A complaint about a row that is still `deferred` is not a legal transition, is acknowledged and
  dropped; the address is then not suppressed.
- If the insert of a suppression fails, the repeated report is refused by the status machine, so
  that the address stays reachable (`abandoned`).
- A second bounce of an address already listed fails on the unique index: in `dispatch()` this leaves
  the row `pending` (`EveryDispatchSettles` names it).
- On push the code (`dispatcher.ts:249-270`) retires the tokens for an invalid address and for that alone: a hard bounce on push puts
  the subscriber on the suppression list. The comments say otherwise ("Push channel: deactivate all tokens instead of
  suppressing", `dispatcher.ts:248`; "(non-push)", `:265`), and a test holds it to be critical of the invalid address ("NO suppression
  record", `dispatcher.test.ts:1268`). No push provider of the repository reports a hard bounce (`provider-twilio` does, for SMS),
  so that it takes a provider of the user's own to meet it. `BouncesSuppress` speaks of the other channels, `DeadTokensGo` of
  the invalid address on push, and no property asks for either outcome of the hard bounce.
- A digest is deleted before it is delivered: a death, or an `onFlush` that throws, loses it. `emito.ts:166-173` wires
  no `onFlush` at all, so that timed digests are dropped (`Consumer = {}` in `Digest`).
- When Redis fails, `addEvent()` answers false, which `send()` takes for "buffered": the event is reported as
  digested (`send.ts:364-367`), although `engine.ts:156` says that it is sent immediately.
- A flush removes its entry from the map after it has released the lock; an event added in between is in a
  buffer that this instance has forgotten (`mishap`), until a restart scans for it or it expires.
- When the flush of the event that fills the buffer is refused, since another holds the lock, the event is sent
  alone and stays in the buffer: it comes again in a digest (`raced`).
- A buffer may wait for nearly two windows but outlives its last event by one window and 60 seconds: windows above 60
  seconds can lose digests (`Window <= Grace` in `NothingExpires`).
- A flush that fails, or dies, after it has taken the lock over an empty buffer leaves the lock behind, and no fault of that
  kind is counted against a buffer that starts later: its flush is refused until the lock runs out. With the 30 seconds of the lock and
  the 60 of the grace period (`engine.ts:139`) that is in time; with a longer lock the digest would be lost
  (`LockTTL <= Grace` in `NothingExpires`).
- The process dying after the provider accepted leaves the row `pending`, and nothing resumes it.

Of the pipeline:

- A retried letter is marked `retried` whenever `send()` returns, even if every channel was refused, failed or threw
  (`RetriedWasSent` says that a call was made, not that anybody was reached).
- An entry over the limit whose ZREM fails is let through, as `RedisFails` shows; `RateLimitHeld` counts the deliveries
  Redis admitted. An entry over the limit counts against others until it is taken back.
- A change of the subscriber's rows during a call may come too late for the channels that have read them, and consent is
  looked at once for the whole call (`overtaken`).
- `integration-router.ts` says "Never throws"; its `findForRouting` is outside the `try` and may. The channel is then
  left out of the result.

Of broadcasts and lists:

- After the last page the offset is empty again, as before the first: a crash before the status says `completed` makes
  the recovery start from the beginning, and every member is sent to twice (`unsaved` in `Save`).
- The lock lives 300 seconds, is not renewed and is deleted by whoever finishes: a longer execution is joined by a
  recovery, and each may delete the other's lock (`overtaken`).
- A recovery reads the progress before it takes the lock, and goes on from an offset that may be old by then.
- A recovery within 300 seconds of a crash is refused by the lock that survived it, and is not tried again before the next
  start of an instance. A death between ZREM and the first HSET leaves no trace of the broadcast.
- Of two members created in the same millisecond one is skipped when the page ends between them.
- Two calls that read the same row both count it; `GREATEST(0, ...)` makes the order of +1 and -1 matter; a single
  opt-in that dies between the insertion and the confirmation leaves a row that `subscribe()` will not confirm later.

Of the client:

- An action taken while a full queue is flushed evicts the one being replayed; the flush then removes the next, which nobody has
  replayed.
- The storage is asynchronous (`storage/types.ts:3`): a restart after `enqueue()` has pushed and before its save is done loses
  the action, and no caller has been told that it was kept (`settled` in `Reload`); one between a replay and its save
  replays the action once more.
- When `setItem` rejects, `enqueue()` throws although the action stays in the queue and is replayed (`Enqueued`). In a flush it ends the
  flush with actions still queued, which wait for the next connection; `connect()` then throws while the client is
  connected (`client.ts:170-174`), and after a reconnect an error event comes before "connected" (`:322-325`). When `getItem` rejects,
  `connect()` throws before it has tried any transport (`:145`): without its storage the client does not go online.
- `restore()` puts what it read over an action taken meanwhile, and may bring back replayed ones; an action taken after a
  reload and before `connect()` overwrites the stored queue (`raced`).
- `connect()` while the transport reconnects replaces it without disconnecting it; a first connection that fails with an error
  goes on trying; `disconnect()` while the adapter waits for its token is undone when the token comes. In each case a
  socket nobody holds may set `connected` (`leaked`).
- A `getToken` that rejects ends the reconnecting, although `websocket.ts` says that it "will be retried via onclose". A
  socket that is closed without an error leaves `connected` true.

Of the notifications:

- A subscriber without a cursor is polled from `$`, which an XREAD that does not block answers with nothing: what other
  instances write is not delivered until a `broadcast()` of this one has set the cursor, which it sets past all of them
  (`passedBy` in `Added`). `unregister()` drops the cursor with the last socket.
- A poll that fails after a broadcast has moved the cursor is not repeated for what lies before it.
- Polls overlap, since the timer does not wait for the last one: both deliver (`doubled` in `PollStream`).
- When the reply to an XADD is lost, the notification is written out without an id, and again when the stream is polled.
- A notification and those of other instances are written to a socket as their replies come, not in the order of their ids;
  the id that the client resumes from is the last one written. It may go back, and what lies between comes again; or pass a
  notification that is still on its way when the socket dies, and that one never comes (`Forsaken`).
- A second `connect()` gives its adapter the client's last id (`client.ts:154-156`), whatever lower id is still on its way to
  the first socket. When that socket is dropped, nobody asks for it again (`Created` in `ClientStep`).
- A socket that comes back while its instance has something to send gets it by the catch-up and again (`Behind`).
- A client that has not had an id does not catch up, and one that has gets the oldest 100 only: the next
  notification takes its id past the rest. A catch-up that fails is not repeated.
- The client's list takes a notification it already has, and counts it as unread again (`store.ts:71-72`): the
  reservations of `SeenOnce` are all visible to the user.

## 7. Not modelled

- In the realtime transport the SSE endpoint, which reads what was missed before it registers the connection, so that an entry in
  between is not sent, and the polling endpoint; `mark_read` over the socket, a single guarded repository call; `destroy()`; the trimming of
  the stream to 1000 entries and of the remembered ids to 500. That a notification reaches an open socket at all is not
  claimed, since foreign ones need not (section 6).
- A client without a storage, whose queue is lost with the application. The storage is taken to answer in the order it was
  asked, as IndexedDB does once its database is open; of two operations that both wait for its first opening
  (`indexeddb.ts:81-101`) nothing is said. A write that was answered is taken to survive, although `setItem` resolves before the
  transaction is committed.
- The optimistic updates of the client's store, its SSE and polling adapters and its REST calls; and `lifecycle.ts`, which starts and
  stops the parts one after the other (what matters of that is in `Digest` and `Broadcast`).
- In the pipeline: the rendering of templates and the building of parameters, reduced to whether they succeed; the
  routing to integrations, reduced to whether it delivers; setting preferences, consent and topics, which is the
  arbitrary change of `wishes`. A failing retry's new dead letter.
- The end of a broadcast under fairness: with faults bounded every execution ends (so says TLC on the instance with
  one membership request), but on the instance of the `broadcast` run the liveness check takes much longer than the
  states, and it is not kept as a run.
- Endpoints of the HTTP server other than those named: single repository calls behind authentication and validation.
  Signatures of webhooks, payload formats, pagination: stateless. Templates: pure. Providers: external, any answer is
  allowed. `getState` of the breaker, `getCount` of the digest engine and the lists of endpoints: read only. The
  administrators' removal of a suppression with its archive. The command line, the UI packages, authentication and types.
