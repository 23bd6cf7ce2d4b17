# Sandi in TLA+

Sandi is an assistant that lives in Discord, GitHub and a desktop application. Several
processes share one `data/` directory and one model provider; what users see of their
correctness is that a message is answered, once, and that shared files survive crashes.
This directory holds TLA+ models of the parts that carry that promise, TLC configurations
that check them on small instances, and TLAPS proofs of what matters most.

Paths below are relative to the repository; `outbox.ts` etc. are under `src/lib` or
`src/surfaces`. `PROJECT.json` maps every definition to its lines.

## 1. Inventory

| component | state | operations | hard because | correct when |
|---|---|---|---|---|
| **Durable outbox** `lib/delivery/outbox.ts`, handlers in `surfaces/{discord,github}/bot/delivery-outbox.ts` | one JSON file of records (status, attempts, due time, claim and lease, progress); per instance: running, timer, drain promise, active deliveries | enqueue, start, stop, deliverNow, drain (claim, run handler, settle), lease renewal, polling | several processes claim from one file; handlers outlive leases; acknowledgements get lost; the store can refuse any write; crashes between effect and record | a confirmed lease is exclusive but for the delay of its claim; late workers change nothing; nothing is reported that was not sent; repeats happen only after a cut-short attempt; every job gets a verdict |
| **Managed-write lock** `lib/state/managed-write.ts` | a lockfile next to each managed file; per process a promise chain and a heartbeat timer | acquire (create, judge, steal, back off), heartbeat, release | every `await` is an interleaving point between processes; paths are re-used by new inodes; crashes leave half-written files | sections do not overlap; a live section keeps its lock; an orphaned lock is recovered |
| **Discord turns** `lib/turns/turn-queue.ts`, `lib/turns/turn-journal.ts`, `surfaces/discord/bot/sandi-bot.ts`, `event-delivery.ts` | in-memory queue per conversation, journal file of owed turns, the outbox | handle message, queue durable turn, run turn, settle, replay at start, execute event, stop | restart at any point; the outbox drain waits for turns and turns wait for the drain; live messages arrive during the replay | accepted messages are not forgotten, not answered twice, poison messages are given up, responses get out |
| **Provider capacity** `lib/provider/capacity-controller.ts` | queue, set of active turns, interactive streak, accepting flag | generateTurn, abort, completion, shutdown | aborts and completions in any order at exact limits; starvation; shutdown with a provider that hangs | limits hold, no slot idles while work waits, bounded bypass, shutdown ends |
| **JSON file store** `lib/state/file-store.ts` | a file | read, updateManaged | concurrency, which the lock above handles | an update is atomic |
| **GitHub surface** `surfaces/github/bot/github-bot.ts`, `github/state.ts`, `github/notifications.ts` | state file with processed triggers and claims; per process a thread queue, pending keys and one lease per job | start, poll, enqueue trigger, tryClaim, renew, release, markProcessed, stop | a claim ages out while its turn runs; renewals answer late; two processes poll the same notifications; restarts | a trigger is processed; a lease is exclusive; a late finisher leaves its successor alone; no second turn without a reason |
| **Reminders** `discord/reminders/*`, `bot/reminders.ts`, `bot/reminder-delivery.ts`, `runtime/reminders.ts` | one file per reminder, timers, outbox records, buttons under messages | reload, schedule, fire, done, snooze, delete, helpers of other processes | every reader awaits Discord and then writes the whole record back; reloads overlap | what is due fires; not too often; no message with live buttons is forgotten |
| **Devices** `surfaces/api/devices/*`, `api/auth/tokens.ts`, `api/client/desktop-client.ts`, `app/src/main/link-manager.ts` | links by token, pending calls, a lease per turn; on the desktop a table of running tools and a gate of result posts; the tokens file | connect, dispatch, settle, cancel, heartbeat, teardown, revoke; link, run, report, abort | authorization is awaited between check and use; links supersede each other; result, abort, timeout and teardown race; a full socket takes no cancel | an awaited call can be settled; none is sent after a revocation was seen; given-up calls stop; a revoked token loses its links |
| **Pairing** `lib/pairing/pairing-store.ts`, `surfaces/api/auth/{pairing,tokens,oauth}.ts` | pairings file, tokens file, OAuth grants in memory | create, redeem (reserve, persist, check, complete or roll back), exchange | two files, either write may fail before or after its effect; the process dies between them; clients retry; the operator edits both sides | a code yields at most one token, and is not lost |
| **Event watcher** `surfaces/discord/events` | one file per event; timers, crons, retry timers, triggers under way | reload, schedule, fire, retry, delete; turns write and cancel | reloads overlap; a trigger awaits the outbox and then deletes a file that may be another's; enqueue fails or refuses | a settled watcher has the file's schedule and no other; what is due fires |
| attachments, API bot, conversation store, pi client, memory and retrieval, context, migrations, pi tools, todo lists, desktop application | — | — | mostly I/O, text and wiring | see `components` in PROJECT.json for why each is left out |

How they interact: surfaces put turns into a `ThreadQueue`; a turn awaits
`CapacityControlledProvider.generateTurn`, then enqueues its response in the outbox and
often delivers it itself (`deliverNow`). Events enter as outbox records whose *handler*
queues a turn and waits for it, so the outbox drain and the thread queue wait for each
other. A fired reminder is an outbox record too. During a provider turn the model's tools
reach the human's desktop through the loopback broker and the device registry. All files are
written through `withManagedWrite`.

## 2. Modules

| module | models | runs |
|---|---|---|
| `AtLeastOnceDelivery` | what the outbox promises: accepted work is fixed, chunks take effect in order and at least once before completion, verdicts are final | refined by `DurableOutbox` |
| `DurableOutbox` | the outbox with its workers, leases, timers, handlers and faults | `outbox_safety`, `outbox_live` |
| `DurableOutbox_proof` | theorems about it | — |
| `ManagedWrite` | the lockfile protocol, one action per file-system call | `managed_write`, `managed_write_exclusion` |
| `ManagedWrite_proof` | theorems about it | — |
| `DiscordTurns` | thread queue, journal, bot life cycle and the part of the outbox that turns meet | `discord_turns`, `discord_delivery` |
| `DiscordTurns_proof` | theorems about it | — |
| `ProviderCapacity` | the admission controller | `capacity` |
| `ProviderCapacity_proof` | theorems about it | — |
| `GitHubClaims` | pollers, claims and their leases, the thread queue and the settlement of GitHub triggers | `github_claims` |
| `GitHubClaims_proof` | theorems about it | — |
| `Reminders` | one reminder: watcher, outbox handler, buttons, helpers | `reminders` |
| `EventWatcher` | one scheduled event: its file, the watcher, its triggers | `events` |
| `Schedules_proof` | theorems about both | — |
| `DeviceCalls` | device links, the calls of a turn, authorization, and the desktop's end | `device_calls` |
| `DeviceCalls_proof` | theorems about it | — |
| `Pairing` | pairing codes, their redemption over two files, OAuth grants | `pairing` |
| `Pairing_proof` | theorems about it | — |
| `MC…` | constants and symmetry for TLC | all |

An operator `Op_Mistake` in front of `Op` is `Op` with a plausible programming mistake;
each property is known to fail when one of them takes the place of `Op`
(`mutants` in PROJECT.json).

### DurableOutbox

`rec[k]` is the record of key `k` in the file, `wk[w]` the memory of one `DurableOutbox`
instance. A `store.updateManaged` call is one step, since it runs under the managed-write
lock. `wk[w].pc` follows the drain: `claim` (in `#runDrain`), `search`/`post`/`posted`
(inside the handler), `settle`, `drained`/`rejected` (the `finally` of `#drain`), `idle`.
`Claim` is `#claimNext` and leaves the worker before its handler (`Claimed`); `RunClaimed` is the
start of `#runClaimed`, and from then to the end of `settle` `#active` has an entry (`Active`).

* Time is relative: `lease` counts the ticks left of `claim.leaseUntil`, `wait` those until
  `nextAttemptAt`, `confirmed` those of `active.confirmedUntil`; `Tick` is the clock.
  The claim writes its lease by a clock read inside the update (`outbox.ts:259`), `#runClaimed` confirms
  it by another, later one (`:306`): a tick may fall between the two, and `lag` observes it. A renewal
  uses one reading for both, taken before its update, so a slow one yields less than a whole lease.
  An overrun handler (one whose lease ran out though it is alive) is possible but counted
  as a fault, as is a claim or renewal during which the clock ticks, and every store error, platform error and stop, so that `MaxFaults` bounds
  how much goes wrong, not where.
* The handler is abstracted to the chunk at `wk[w].at`: GitHub's (keys in `Marked`) searches
  for its marker on any attempt but the first, Discord's does not (its nonce window is the
  platform's affair and not relied upon).
* `sent`, `disturbed` and `overtaken` are observers: how often a chunk was posted, which keys
  had an attempt cut short, and which were claimed while another handler still ran.
* A timer that fires while a drain is in progress waits for it in the code
  (`while (this.#draining) await …`); in the model it stays armed until then.

### ManagedWrite

`lock` is the inode at `lockPath`, `file[i]` an inode's content (token, age of its
heartbeat, age of its mtime), `proc[p]` a process: `acquireLock`'s position, the open
descriptor, the file moved aside, what was judged, and one heartbeat callback that may
outlive its section. An open descriptor keeps naming its inode after a rename or unlink.
Time passes (`Tick`, at least one heartbeat period) only when no process is between two
dependent file-system calls (`Prompt`) and live holders beat in time (`Punctual`): the
model shows what happens **without** suspended processes, which only makes more possible.
The in-process promise chain is what makes one program counter per process enough.

### DiscordTurns

`phase` is the bot's life cycle (`starting` = logged in but still looking for the forum,
messages are already handled; `replaying`; `up`; `stopping`; `down`). `journal` and
`outbox` are on disk and survive `Exit`; `queue`, `active`, `drain`, `replay` do not.
`Answer` is the end of a provider turn with text: it enqueues the response and, unless a
delivery is active, waits for the drain (`waiting`, `draining`). `ExecuteEvent` is the
outbox handler of an event: it queues the event's turn and the drain awaits it.
Of the outbox only due / put off / settled is kept; leases are `DurableOutbox`'s subject,
and one process at a time runs here.

### ProviderCapacity

Single-threaded JavaScript: each method or callback is one step. `queue`, `active`,
`streak` are the class's fields, `aborted` the active turns whose signal is aborted,
`shutdown` its progress. `bypassed` is an observer. `Pump` is one turn of the loop of
`#pump`; `WorkConserving` shows that a second would find nothing to do.

### GitHubClaims

`claim` and `processed` are the state file, `job[p][t]` the entry process `p` has for trigger
`t`: where its callback is, the age of `confirmedAt` (`age`), whether its signal is aborted,
and a renewal under way (`attempt`). `status[p]` says whether the process is down, polls, or was
stopped and only finishes its jobs; `listed` is what a poll collects. `queue[p]` is the thread queue; `ThreadOf` says which
triggers share a thread.

* A claim names its process instead of a drawn claim id: a process has at most one job per
  trigger (`#pendingTriggerKeys`), and its next claim comes after the former job is gone.
* Ages are ticks since the timestamp, capped past `Stale`. A claim is written and confirmed
  in one step, a renewal is two (sent, answered): an answer may come late.
* A poll reads state, sees a listed trigger and enqueues it in one step; polls that would not
  enqueue change nothing and are left out. `ignored` is what `#ignoreNotificationsBefore`
  passes over; news in the thread (`Notify` again) makes the notification newer than that.
* A notification yields its latest comment only, so a later one takes the place of a trigger
  (`Supersede`). The step is taken where it can matter: for a trigger that is not processed and that no
  process has a job for. A job in progress does not look at the notification again, and what a poll would
  find during it, it would pass over; a trigger that loses its place then is one that loses it just after.
* `turns` and `excused` are observers.

### Reminders

`file` is the reminder's record, `watcher` the `ReminderWatcher`'s memory (`timers`: every
timer that will fire, also those it has lost sight of; `mapped`: the one in its table;
`read`: reloads under way), `box[k]` the outbox record for scheduled time `k`, `fire` the
handler's position, `hand[h]` somebody between reading the file and writing it back: a
button, or a helper in another process. Discord's messages are `message[k]`. `file.recent`, the list of
recent fires, is the set of their times: the code filters and sorts it at every use, and no two fires
of one reminder share an instant. `posts` observes what was posted when.

* Everyone writes the **whole record** on the strength of what was read before: that is the
  code's pattern, and `raced` records when such a write overwrote a change. The properties
  say that nothing else goes wrong without it.
* A tick is one follow-up interval and happens only when nobody is at work: calls that last
  longer than that are not considered.
* A button's clean-up takes one step and tries every message the record names; any of them may be
  passed over, as a failed request is only logged and a channel that is no text channel not even that
  (`bot/reminders.ts:455-474`). `left` observes them, and those of a clean-up that dies with its process.
* A failed read ends a fire for good: `#fireReminder` takes it for a reminder that is gone and returns, which
  completes its outbox record (`FireMisses`; `missed` observes it). An aborted delivery and a failed
  write are retried (`FireFails`).
* A helper snoozes until an interval ahead; the snooze to an arbitrary instant, nearer or past, is left out.
* A repeated send of one fire shows one message, because of the nonce. The cap of 20
  remembered messages, deleted files, todo links, creation and the 24-hour cap of one timer
  (which only re-arms it) are left out.

### EventWatcher

`file` is the event in the file, `made` its version (`createdAt`). Of the `EventWatcher`, `armed` holds
every timer and cron that will fire, `mapped` those in `#timers` and `#crons` (the only ones
`#cancel` can stop), `read` the reloads under way, `notices` what makes it look (`fs.watch` after its
debounce, the scan of the start), `firing` the triggers: `enqueue` (awaits the outbox), `delete`
(awaits the deletion), `retry` (waits in `#triggerRetryTimers`).

* A read yields what the file said when it was opened or what it says when it returns.
* An occurrence is the outbox key. Every write draws a new `createdAt`, which is part of the payload, so
  two versions of a one-shot event for the same time are different work under one key, which
  `enqueue` refuses; the refused trigger is retried every second until the file changes.
* The module's names differ from those of `Reminders` so that one module can extend both and state the
  theorems about the two.
* A cron runs at every tick, some milliseconds late; two crons may or may not share an instant.
  Two triggers of the same version and occurrence in the same stage count as one.
* Left out: the re-arming of timers after 24 hours, cron syntax, several events (they share nothing),
  losses of `fs.watch` that it does not report.

### DeviceCalls

Both programs are single-threaded, so a step is what runs between two awaits. `link[l]` is a
link request in all its parts: the server's `ConnectionState`, the bytes written and not yet
read (`wire`), the connection (`net`), and whether the desktop's `connectOnce` has settled
(`desk`). `current` is `#connections.get(key)`; `call[c]` is a call as `dispatch` sees it,
`run[c]` as the desktop does, `post[c]` its result's request.

* The tokens file is read by loads that take time. `auth` and `post` keep what the file said
  when the load was asked for; it yields that, or what the file says when it returns, or
  fails: in reading, of which the listeners hear as of an empty file, or in `stat`, of which they do not
  hear and only the asker's own link is refused. Loads of other requests only add notifications of the same kind. The API bot runs
  the store without a cache (`api-bot.ts:185`).
* One token, one turn, calls numbered in the order they are made. Attachments and streamed
  text appear as what they can do to a link: fill its socket (`Relay`).
* A desktop asks for its next link only when the former has settled; links still compete on
  the server, which may not have noticed yet.

### Pairing

`pairings[c]` is what `api-pairings.json` says of code `c` (absent, issued, reserved or completed
with a token), `expires[c]` its `expiresAtMs`, `tokens` the tokens file, `mapped` the identities
`humans.json` maps to an account. `req[r]` is one HTTP request: its stage, the code, when it read
the clock (`asked`, before it waited for the lock) and the token it works on.

* One request at a time holds the lock of the pairings file, from `authorize` to `complete`
  (`Critical`); nobody else writes that file meanwhile. The tokens file has its own lock, and the
  operator may edit it in between.
* `Save` is a write of the pairings file: it succeeds, or it throws with or without effect and the
  request ends. `Persist` throws likewise but goes on to `Check`, as the code does.
* A request of an `Agent` comes from `OAuthRoutes`: `Answer` leaves a grant (stage `granted`),
  `Exchange` spends it. A lost response is an answer nobody uses; a retry is another `Ask`.
* `createPairing` is one step: it holds the lock throughout and writes one file. A failed write of it
  shows the member no code.
* `superseded`, `lapsed`, `removed` and `given` are observers.

## 3. What the runs show

| run | bounds | shows |
|---|---|---|
| `outbox_safety` | 2 workers, 1 key, 2 chunks, 2 payloads, lease 2, back-off 1–2, retry-after 0 or 2, 2 faults | `TypeOK`, `ConfirmedLeaseIsOwned`, `NothingReportedUnsent`, `MarkedPostedOnce`, `OnlyTheOwnerSettles`, `ImplementsDelivery` (refinement) |
| `outbox_live` | the same with Discord's handler, 1 fault, fairness | `RepeatsAreExplained`, `OwedIsSettledUnlessSilent` |
| `managed_write` | 2 processes with 1 section each, 5 inodes, 2 lockfiles and 1 beat per process, 2 faults, fairness | `TypeOK`, `OverlapIsExplained`, `SectionKeepsItsLock`, `WaiterGetsIn` |
| `managed_write_exclusion` | 3 processes, no fault, no beat | `MutualExclusion` is **violated** |
| `discord_turns` | 1 message, 1 event, 1 conversation, 3 starts, 1 failure, 1 replay attempt, fairness | `NoMessageIsForgotten`, `PoisonIsAbandoned` (with the shape of the state), `OnlyOverlappedTurnsRepeat`, `DeliveredUnlessCircular` |
| `discord_delivery` | 1 start, no failure, fairness | `ResponsesAreDelivered` is **violated** |
| `capacity` | 6 clients (one hangs, two identities), 2 slots, queue of 3, 2 per identity, burst 2, fairness | `LimitsHold` (with the shape of the state), `WorkConserving`, `BoundedBypass`, `InteractiveAndPassiveServed`, `ShutdownEnds` |
| `github_claims` | 2 processes, 2 triggers of one thread (one open at a time), stale after 3 ticks, renewal 1, safety 1, 1 remembered trigger, 2 starts, 1 fault, fairness | `TypeOK`, `LeaseIsOwned`, `TurnsOverlapOnlyWhenOverrun`, `RepeatsAreExplained`, `OnlyTheHolderSettles`, `ProcessedUnlessLost` |
| `reminders` | 1 reminder (single or recurring), 3 instants, 2 reloads at a time, 1 hand, 1 change, 1 fire per window of 2, 2 faults, fairness | `FiresAreLimited` (with the shape of the state), `LiveMessagesAreTracked`, `DueReminderFires` |
| `events` | 1 event, 2 writes or cancellations, 2 instants, 2 reloads at a time, 4 timers and crons, 1 fault, fairness | `ScheduleIsTheFiles` (with the shape of the state), `DueEventsFire` |
| `device_calls` | 2 calls, 2 links, 2 pending calls per link, 1 tool at a time, 1 fault, fairness | `TypeOK`, `PendingIsReachable`, `NoCallOnceRevocationSeen`, `GivenUpRunsEnd`, `RevocationSticks` |
| `pairing` | 1 member, 2 codes, 1 request of a device and 1 of an agent, codes live 2 ticks, grants 1, clock to 3, 2 tokens drawn per code, 2 edits, 2 faults | `TypeOK`, `OneStoredToken`, `CodeIsNotBurnt` |

Why the bounds are enough. The outbox protocol is per key (keys share nothing but the order
of claims), and every race is between an owner and one successor: two workers, and two
chunks so that there is a first, a last and a checkpoint between them. Two faults allow an
overrun *and* a lost acknowledgement, or a failed settlement after an overrun. For the lock,
the violation needs three processes: the holder, the stealer and the one whose fresh lock is hit.
The passing run has two, of which one may crash and leave its file behind, and spends its states on
faults and liveness; its safety invariants are proved for any number of processes. In `discord_turns`, one message and one event of the *same*
conversation are what it takes for a turn and the drain to meet; three starts allow a
crash during a replay. In `capacity`, two slots and a queue of three reach every limit at
its boundary with each priority class present; the code's burst of 4 is a constant, 2 shows
the same alternation. In `github_claims` two processes are a holder and its successor, two
triggers of one thread make one wait in the queue behind the other, one at a time may be listed and not
processed (`MaxOpen`; a process may still have a job for one that is), and one remembered
trigger makes pruning forget the first; a claim of three ticks with a renewal each leaves
room for a missed renewal, the deadline and the safety interval to come apart. In
`reminders` three instants hold a fire, a follow-up and a snooze, one hand beside the
fire is what a lost write takes, and two reloads overlap and end in either order, each with a record of
its own, one of them without having read it; the instance with a second change and one fault, of 2.3
million states, holds as well and takes five minutes. In `events` two writes are an event
and its successor or cancellation, two instants let the successor be earlier or later, and two
reloads overlap (the scan with the first notice, or two notices); four timers and crons are
more than can be armed at once within these bounds. In `device_calls` two links supersede each
other, and the server admits one call more than the desktop runs (as 16 and 8 in the code),
so that the desktop refuses; two calls cannot exceed the server's limit of two in this instance, so that
clause of `PendingIsReachable` rests on its proof (`PendingReachable`), which is for every pair of limits. In
`pairing` the second code supersedes the first, two requests retry each other's work, two faults
are a failed write and a crash or a failed check, two edits unmap and map again, and the clock
passes the end of both lives; the theorems hold for every bound.

All configurations switch the deadlock check off: a behaviour ends when its bounded
processes have finished or its counters of faults, starts or beats are used up, which is
not a deadlock of the program. That nobody waits for ever is stated by the liveness
properties instead.

### Disagreements found

1. **Two critical sections overlap** (`managed_write_exclusion`). A waiter reads a lockfile
   its holder has just created and not yet filled; by the time it stats the file the holder
   is done and has unlinked it, and "gone" counts as stale (`managed-write.ts:348`). The
   rename then takes the next process's equally empty lock for the one that was judged.
   `OverlapIsExplained` shows that this kind of steal (and the late heartbeat the code's own
   comment mentions) is the *only* way in.
2. **A circular wait** (`discord_delivery`). A turn whose response is enqueued while the
   drain looks for work waits for that drain; the drain then claims an event of the same
   conversation and waits for its turn, queued behind the first. `DeliveredUnlessCircular`
   shows there is no other way for a response to get stuck in a process that stays up.

Observations that no run is spent on:

* Outbox: a worker's confirmed lease outlasts the file's by the time its claim took to be written
  (`outbox.ts:306` against `:259`), so at the end of a first, never renewed lease two workers can both
  trust theirs; the first renewal, a third of the lease later, ends that. `ConfirmedLeaseIsOwned` is
  about the confirmed lease less that delay. A `stop` that falls between claim and `#runClaimed`
  aborts nothing: the handler begins after it.
* Discord: a message whose turn never finishes is run four times, once live and three times by replays,
  before the journal gives it up (`turn-journal.ts:140` counts replays), though `current-state.md:228`
  says that one that "fails to finish 3 times is abandoned". `PoisonIsAbandoned` states the bound of the code.
* Discord: messages handled between login and `claimReplayable` are replayed next to their own live
  turn (`sandi-bot.ts:424`, `:477-486`, `:1324`), though `:1338-1339` says that running one again "would
  answer twice". `OnlyOverlappedTurnsRepeat` has this as its only exception. The outbox drops the
  second response; the second provider turn and its side effects do happen.
* Capacity: the burst rule counts interactive starts only, and passive gates reset it, so a
  steady stream of them keeps background and title work waiting, though
  `current-state.md:250-252` says low-priority work cannot starve.
* GitHub: `#ignoreNotificationsBefore` is set at **every** start (`github-bot.ts:198-203`)
  unless existing notifications are to be processed; `docs/…/github-surface.md:31-34` and
  `current-state.md:152-154` speak of a fresh state file. A trigger whose process dies and is
  restarted is therefore not taken up again by it: the first exception in `ProcessedUnlessLost`. The
  second: only the latest comment of a notification is looked at (`notifications.ts:284-293`), so a mention
  that was released after a failed turn, or left by a crash, or not polled yet, is never answered once
  anybody comments after it; `current-state.md:147-151` means this for "unrelated later activity".
* Reminders: a write that rests on an outdated read can turn the schedule back to a time whose
  outbox key is spent; the reminder then stays active and silent (`DueReminderFires` shows that
  this takes such a write). The same write can make a reminder active again that was marked
  done. Buttons whose message could not be edited or deleted when the reminder was handled stay live, and
  nothing tries again (an exception of `LiveMessagesAreTracked`). A reload that cannot read the file leaves the reminder unscheduled until the file
  changes again, also when an older reload that was under way ends after it (`dropped`). A fire that cannot read the file, before its message or after it, is taken for one whose
  reminder is gone (`bot/reminders.ts:224-232`, `:267-273`): its outbox record is complete, and a reminder that was
  there all the same stays active and silent, its key spent, until somebody changes it. (Both
  are exceptions of `DueReminderFires`.)
* Events: two overlapping reloads each arm a timer or cron, and only the last is ever cancelled, so a
  periodic event that is cancelled later can go on until the process restarts, though
  `current-state.md:582-583` says it "persists until cancelled" (the exception in `ScheduleIsTheFiles`).
  An event written under an id while its predecessor's trigger awaits the outbox is
  deleted unfired (`watcher.ts:240-241`), and one for a time that was already recorded is refused
  for ever (exceptions of `DueEventsFire`). A file that cannot be read, or a broken watch, silences
  an event until the next change or restart.
* Devices: the server admits 16 pending calls per link, the desktop runs 8 and refuses the
  others. Streamed text and attachments are not authorized again; on a link that nobody calls,
  only the heartbeat finds a revocation (the mutant of `RevocationSticks`).
* Pairing: an identity that is unmapped while a redemption is reserved has the reservation dropped
  (`pairing-store.ts:291`) even if its token is on file already; mapped again, the same code yields
  a second token, though `api-bot.ts:903-906` says it "can produce only one". `OneStoredToken` has this
  as its only exception. A reserved redemption that is retried after the operator removed its token
  stores it again.

### Fairness

* Outbox: the clock advances; a running worker's event loop takes the continuations that are
  ready (weak fairness per stage); requests come back with an answer, a loss or an error; the
  process is started by its host. A timer's drain queues behind other drains, so it is only
  repeatedly enabled: strong fairness, which the promise queue justifies. Nothing makes a
  worker crash, stop, renew or a caller enqueue.
* Lock: pending file-system calls return, the sections end, and the clock goes on between
  them (strong fairness, because `Prompt` switches `Tick` off and on).
* Turns: turns end, requests return, put-off records become due, loops that can go on do.
  Nothing makes the process start, stop, exit or fail.
* GitHub: polls recur and, of what stays listed, come to some trigger they may act on; some job that can
  go on does, as turns end, files answer and timers fire; and the clock goes on though turns under way may
  hold it up (strong fairness). Nothing makes a process start, stop or die.
* Reminders: the host keeps the process running; timers fire, files and Discord answer.
  Nothing makes anybody press a button.
* Events: the host starts the process, files and the outbox answer, timers fire; every occurrence has a
  retry timer of its own, so one that is refused over and over does not hold up the others.
* Devices: a broken connection is noticed at both ends, the desktop reads its stream, an
  aborted tool returns, `dispatch` goes on and its back-stop timer runs; the heartbeat
  interval fires and loads return. Nothing makes a tool finish, a socket drain, a turn end, a
  request go away, a desktop link up or the file change.
* Pairing: none; its properties are about what has happened.
* Capacity: provider calls return, a hanging one once it is aborted; the grace timer fires.
  No caller is obliged to come back or to abort.

## 4. What is proved

Every theorem is about `Spec`, without fairness, and holds for all values of the constants
that satisfy the module's `ASSUME`s, which TLC evaluates on every run. An invariant is seldom inductive as
it stands; the conjunction that is was checked by TLC first, on instances up to 6 million
states, and is named below.

`DurableOutbox_proof` (`OutboxAssumption`):

* `TypeCorrect`: `Spec => []TypeOK`. One lemma per kind of update (`RecordType`,
  `SettledType`, `MemoryType`, `FaultType`), then one step per action. `TypeOK` ties
  `wk[w].key` to the program counter, which the other proofs need.
* `LeaseExcludes`: `Spec => []ConfirmedLeaseIsOwned`. What a worker is `Assured` of is its confirmed
  lease, or the one it is about to confirm, less the delay of its claim. With `TypeOK` the formula is
  inductive: a claim needs a lease of zero, or a pending record, so no *other* worker can be assured of
  anything (it is never more than the record's lease); `RunClaimed` confirms what was assured; a tick
  lowers both, also while the claim is being written, by lengthening the delay; a renewal raises both;
  only the owner settles. `HoldingFrame` covers all actions that leave records and assurances alone.
* `NothingIsLost`: `Spec => []NothingReportedUnsent`, by `DeliveryInv`: a worker that delivers has seen
  everything before its chunk posted, whether or not it still owns the record (`Carried`), the owner's
  chunk is the checkpoint, and a record claims no effect that did not happen (`Recorded`). `StepShape`
  reduces every action to one of five shapes (accepts, claims, posts, settles, quiet), on which this
  proof and the next three are carried out.
* `OwnerSettles`: `Spec => OnlyTheOwnerSettles`.
* `DeliveryImplemented`: `Spec => ImplementsDelivery`, the refinement. Initial states map to initial
  states; each shape maps to a step of `AtLeastOnceDelivery` or a stutter. What the abstract
  `Complete` asks for, that every chunk has taken effect, is `NothingReportedUnsent`.
* `RepeatsExplained` and `MarkedOnce`: `Spec => []RepeatsAreExplained`, `Spec => []MarkedPostedOnce`, by
  `RepeatsInv`: on a key that was not overtaken only the owner delivers (`Alone`), and if the handler searches
  for markers, nobody is about to post a chunk that was posted already (`Searched`); on one that was not
  disturbed nothing is posted twice, nor past the checkpoint but by the owner (`Smooth`).

`PowersAssumption` states that powers of two up to `2^20` are natural numbers, which the
back-ends do not know; TLC evaluates it in every outbox run.

`ManagedWrite_proof` (`LockAssumption`):

* `TypeCorrect`: `Spec => []TypeOK`.
* `OverlapExplained` and `SectionKeeps`: `Spec => []OverlapIsExplained`, `Spec => []SectionKeepsItsLock`,
  whatever crashes, fails or expires. `MutualExclusion` itself is false (see above); the invariant
  `IInv` says that while neither recorded race has happened (`Calm`), whoever is past its `open("wx")`
  is `Secured`: the file at `lockPath` is the one it made and still fresh, or bears its token
  and a recent heartbeat, or is emptied by its own heartbeat at this moment. What is taken for
  stale is none of these, so stealing it leaves every holder secured; and two secured holders
  would have made the same file.

`DiscordTurns_proof` (`TurnsAssumption`, which also keeps the names `drain.by` uses for "nobody" and "the
timer" apart from the conversations):

* `AbandonsPoison`: `Spec => []PoisonIsAbandoned`, with the shape of the state.
* `ForgetsNothing`: `Spec => []NoMessageIsForgotten`.
* `RepeatsNeedOverlap`: `Spec => OnlyOverlappedTurnsRepeat`.

`IInv` says, of every turn that was not replayed next to its own live turn: it is in one place at a
time, to be replayed, queued or running (`Once`); no response of it is durable before it runs (`Fresh`);
and the runs it has had and the one it may be waiting for are within what the journal has charged
(`Budgeted`). `Awaited` ties the drain to the event it waits for, and is what keeps a second turn of the same
event out of the queue.

`ProviderCapacity_proof` (`CapacityAssumption`):

* `LimitsAlwaysHold`: `Spec => []LimitsHold`, with the shape of the state.
* `ConservesWork`: `Spec => []WorkConserving`.
* `BypassBounded`: `Spec => []BoundedBypass`.

`IInv` is `Fits` (queue and active set are disjoint, without repetition, and within the limits),
`Streaks` (`bypassed` never exceeds the streak the code counts), and `WorkConserving`, which is inductive with
them: one pass of `#pump` suffices because one step frees at most one slot. The queue's operators
choose by position; that a queue with an entry of a class has an oldest one is the least-number
principle, which `LeastNat` derives from the well-foundedness of `<` on `Nat` (the induction theorem
itself cannot be instantiated).

`GitHubClaims_proof` (`ClaimAssumption`):

* `TypeCorrect`: `Spec => []TypeOK`, where `TypeOK` also says that a lease is at rest outside
  its job's callback.
* `LeaseExcludes`: `Spec => []LeaseIsOwned`, inductive together with `TypeOK`. A claim is taken
  only if there is none or it is stale, that is, older than any confirmed lease that names
  another; a sweep of stale claims removes only such; a renewal counts from when it was sent,
  so a late answer confirms less than it wrote; ages grow together.
* `OverlapNeedsOverrun`: `Spec => []TurnsOverlapOnlyWhenOverrun`, since two confirmed leases
  would both be the file's.
* `RepeatsExplained`: `Spec => []RepeatsAreExplained`. Unless a trigger is excused, it has had one turn at
  most, and none begins once its response is durable (`Explained`); until then only the process its claim
  names has a lease on it, and after a turn that claim, or then the list of processed triggers, keeps every
  other job from the turn (`Unanswered`). `RemovedEntries`,
  `NewestEntries` and `MarkedEntries` say what pruning does to the list of processed triggers.
* `HolderSettles`: `Spec => OnlyTheHolderSettles`.

`DeviceCalls_proof` (`DeviceAssumption`):

* `PendingReachable`: `Spec => []PendingIsReachable`.
* `NoCallAfterRevocation`: `Spec => NoCallOnceRevocationSeen`.
* `DesktopKeepsLimits`: `Spec => []TypeOK`, the shape of the state and the desktop's limits.

The first two rest on the invariant `IInv`, a conjunction of `Types`; `Tables` (the pending tables and the
calls that are `pending` agree, and only the current link is open: without it a teardown could
leave a call behind); `Aged` (a load asked for when the token was gone finds it gone); and `Shut` (once
the removal was reported, an open link has neither a load under way that could still find the
token listed, nor a call with an authorization in hand). Each action has one
lemma per part it can disturb. The limits rest on `DeskOK` besides: a wire carries only events of calls that
were dispatched on its link, so one call fills at most one place in one link's tables, whatever
comes in late; a call that was not dispatched is unknown to the desktop; a tool at work has its entry.

`Pairing_proof` (`PairingAssumption`):

* `TypeCorrect`: `Spec => []TypeOK`, which also says that the file has one pairing per identity, that
  one request is inside the lock, and that it holds the token the file reserves.
* `OneToken` and `NotBurnt`: `Spec => []OneStoredToken`, `Spec => []CodeIsNotBurnt`. `IInv` adds `Filed`
  (a token on file was drawn for its code, and unless the code lapsed, it is the one the pairing
  reserves or has completed, or the pairing is gone for good) and, per request, what its stage
  relies on: a roll-back finds its token missing, an answer or a grant carries a token that was
  stored.

`Schedules_proof` (`ReminderAssumption`, `EventAssumption`), of `Reminders`:

* `FiresStayLimited`: `Spec => []FiresAreLimited`, with the shape of the state. Nothing in the code keeps the
  posts; it keeps a list in the file, and cuts it. `Listed` says that, unless a write was lost
  or a fire cut short, every recent post is on the list, but for that of the fire under way; that whatever
  is scheduled is later than all of the list; and that a fire which was not put off has found room,
  and finds it still when it posts, since nobody else writes to the list. At a post, the posts of any window that is
  still open therefore inject into a list with room for one more (`PostStep`), and recording it drops
  nothing (`NewestIs`).
* `LiveMessagesTracked`: `Spec => []LiveMessagesAreTracked`. At work or at rest, a live message is known to somebody:
  the active record names it, or the fire that posted it is about to read the file again or to
  record it, or a button holds a record that names it and is about to clean up (`Tracked`), or a clean-up
  passed it over (`left`). Done, Snooze
  or Delete on the way of a fire hand it from the first to the third, and the fire's second look at the
  file withdraws what the button could not know of.
* `ActiveRemindersBound`: `Spec => []ActiveIsBound`, the safety half of `DueReminderFires`, a formula of the
  proof module. Once the watcher has noted the last change, an active reminder's time has a timer,
  is being enqueued, or has an outbox record, or a reload holds the present record, whatever older reloads
  have read and in whichever order they end; the exception is a reload that could not read the file,
  until the next is begun. It is inductive together with `TriggeredOK`: the due time that `#schedule`
  would not trigger again is on its way to the outbox or has a record there. What is left to liveness is
  that timers, reloads and drains take their steps, and that a record which is there is not a spent one.

And of `EventWatcher`:

* `ScheduleFollows`: `EventSpec => []ScheduleIsTheFiles`, with the shape of the state. `EventInv` follows one
  look at the file: unless two reloads have overlapped, what is armed is in the map, there is
  at most one of it, and none while a reload is under way (`Alone`); and when no notice is pending, what a
  reload has read is the file, or, with none under way, the file's event is armed or being triggered
  (`Follows`). `KindsOK` (a trigger carries the occurrence of its event as long as it lives) is what
  tells a failed trigger, which waits for its retry, from one that is gone.

Every safety property that a passing run checks is the subject of a theorem. Only model-checked: the liveness
properties (`OwedIsSettledUnlessSilent`, `WaiterGetsIn`, `DeliveredUnlessCircular`,
`InteractiveAndPassiveServed`, `ShutdownEnds`, `ProcessedUnlessLost`, `DueReminderFires`,
`DueEventsFire`, `GivenUpRunsEnd`, `RevocationSticks`), since liveness under fairness and anything with
ENABLED is beyond the installed provers, and so is induction over data.

No module uses RECURSIVE operators.

## 5. Plan

Order of work, most important first. All of it is done.

1. `DurableOutbox` with `AtLeastOnceDelivery` (delivery is the system's promise).
2. `ManagedWrite` (what every other module's atomic step rests on).
3. `DiscordTurns` (composition of queue, journal and outbox).
4. `ProviderCapacity`.
5. `GitHubClaims` (claims, leases and settlement) and `Reminders`.
6. `DeviceCalls` (registry, broker, tokens, desktop).
7. `Pairing`: redemption as a transaction over two files; then `EventWatcher`.
8. Proofs: (a) outbox type correctness and lease exclusion; (b) the invariants of `GitHubClaims`
   and `DeviceCalls`; (c) `ManagedWrite` and `Pairing`; (d) `ProviderCapacity`; (e) the outbox's delivery
   and the refinement `Spec => Delivery!Spec`; (f) `DiscordTurns`; (g) `EventWatcher` and the
   limits of `DeviceCalls`; (h) `Reminders`.

## 6. Not modelled

Contents of messages, chunking, nonces and markers (a marker is found exactly if its chunk
was posted); Windows sharing violations (`EPERM`) and network file systems without POSIX
rename; quarantine and migration of state files; corruption of JSON; the passive reply gate,
reactions, titles and thread creation of Discord; which GitHub notifications are triggers;
several desktops of one identity and tools of the server itself; the rate limit and the web pages
of pairing; the components listed as `not_modelled`.
