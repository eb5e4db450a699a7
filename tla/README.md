# Verification of rstorrent

TLA+ models of rstorrent, a front end for the rtorrent daemon: a Rust core
(`crates/rtorrent`), an HTTP server with a React console (`server`, `src`) and a
native desktop client (`crates/gpui`).  TLC checks the models on small
instances; TLAPS proves theorems about them for every value of the constants.

## 1. Inventory

| Component | Sources | State it keeps | Operations | Hard behaviour | What makes it correct |
|---|---|---|---|---|---|
| Move-on-complete | `mover.rs`, `complete.rs`, `server/src/moves.rs` | journal (memory and file), live handles, cancel flags | plan, begin, gate, stop, mark, copy, point, clear, restart, cancel, retry, prune, recover | detached tasks beside the tick, kills, failing calls, stale rows | data survives; one task, one unfinished entry; recovery first; every torrent gets home and runs again |
| File relocation | `fs.rs` | the disk | rename, copy, verify, cancel, cleanup, erase | partial copies, failing removal, two movers | a whole copy always remains |
| Poller and cache | `server/src/poller.rs`, `state.rs`, `api.rs`, `delta.rs` | snapshot, revision, last delta, request stamp | tick, park, wake, store, disconnect; `/api/state`, `/api/delta` | wakeups, backoff, revisions across restarts, two caches written apart | a client that follows deltas holds the server's snapshot |
| Commands | `server/src/cmd.rs` | none (all in the daemon) | one daemon call per command, set_location, remove, add | races with tasks and ticks | see Move-on-complete |
| Queue policy | `queue.rs`, `poller.rs`, `gpui/policy.rs` | what was active a tick ago, torrents the user resumed or paused; positions and force-start kept in the daemon | decide_queues, force-start, reorder, reset on reconnection | the scheduler's own acts taken for the user's, stale rows, slow torrents | caps respected, the user never fought, everything the caps admit runs |
| Session import/export | `session.rs`, `server/src/session.rs`, `gpui/services.rs` | import journal (memory and file), running flag, cancel flag, status | export, start_import, cancel_import, the job | a kill in the middle, a cancel before the job looks, a manifest that does not parse | what was there is left alone, nothing runs unchecked, a run without failures has left nothing out |
| Sessions and rate limiter | `server/src/auth.rs` | hashed tokens with expiry, in memory and in a file; attempts per address | create, validate, revoke, allow | throttled persistence, restarts, window boundaries | a revoked session stays out, the file never outlives the use, few attempts in any span |
| Settings | `server/src/settings.rs`, `config.rs` | config and config file | get, put, validate | restart-only fields, partial writes | what is saved is what is loaded |
| Schedule and seed goals | `schedule.rs`, `gpui/policy.rs` | held torrents, last limits applied, goal stops | the stages of a policy pass | stages over rows older than what they do, failing calls, lost sessions | nothing runs in a pause window, what it held runs again, the limits are those of the hour |
| Bandwidth rules | `bandwidth.rs`, `gpui/policy.rs`, `model.rs`, `services.rs` | defined throttles, the replay flag; throttle, caps and marker kept in the daemon | replay, plan, define, assign, cap, mark, release | one of its calls refused, a restarted daemon, limits set by hand | the user's own limits stand, every other torrent ends on its rule |
| RSS | `rss.rs`, `gpui/src/rss.rs`, `model.rs` | feeds, rules, last run per rule, seen set (memory and file) | poll, plan, add, remember, save, clear | duplicates across rules and feeds, failing fetches and adds, the cap of the seen set, quits | one add per item, a failed one is tried again |
| Foreign clients import | `foreign.rs`, `torrent_file.rs` | none | parse qBittorrent/Transmission state | formats | parsing, out of scope |
| rtorrent client | `rtorrent/` | connection | XML-RPC over SCGI/HTTP, batches | partial batches, transport errors | external daemon; modelled from its use |
| Web console | `src/` | poll revision, torrents store, optimistic overrides | tick, take a whole state or a delta, resync, ask for a verb, revert | overlapping ticks, lost bodies, rejected deltas, refused verbs | at the server's revision it shows the server's table; in the end it shows the daemon's |
| Desktop UI | `crates/gpui` | view models, prefs, sockets | rendering, dialogs, services | threads, local daemon | only its policy pass, its RSS runner and what they share are of interest |

The components interact in three ways.  The *tick* (`poller.rs:84-169`) fetches
rows, runs the move stage and the queue stage over them and stores the
snapshot.  *Tasks and requests* (move tasks, imports, HTTP commands) run beside
the tick, share `Mutex`-guarded stores with it and call the same daemon.
*Clients* poll the cache by revision.  The hazards of each part are listed at
their lines in `PROJECT.json`.

## 2. Modules

| Module | Lines of code it stands for | Role |
|---|---|---|
| `MoveJournal` | `complete.rs` Journal, `mover.rs` MoveStore | the journal as a set of entries: add, mark, redirect, prune, retry |
| `MoveOnComplete` | `mover.rs`, `fs.rs`, `server/src/moves.rs`, the move stage of `poller.rs`, `cmd.rs` | the moves, the requests of the operator, the daemon and the disk |
| `DataCustody` | none: what relocation promises | abstract: copies of the data of a torrent, and who may drop one |
| `MoveProperties` | | the properties of the moves, the inductive invariant, the refinement |
| `MoveClaims` | | two comments of the code that the code does not keep |
| `MoveProofs` | | theorems on tasks, entries and types |
| `CustodyProofs` | | theorems on the torrent and its data; extends `MoveProofs` |
| `SnapshotDelta` | `delta.rs`, `reconcile` of `torrents.ts` | the difference of two tables and its application |
| `SnapshotServer` | `poller.rs`, `state.rs`, `get_state` and `get_delta` of `api.rs` | the polling loop, the caches, the handlers |
| `WebConsole` | `ipc/web.ts`, `store/torrents.ts`, `actions.ts`, `web/WebApp.tsx` | the ticks of the console, its store, its optimistic verbs; extends `SnapshotServer` |
| `ConsoleProperties` | | the properties of the live table |
| `ConsoleProofs` | | theorems on the live table |
| `QueuePolicy` | `queue.rs` | the decision of one tick and a manual reorder, as operators on rows and memory |
| `PolicyTick` | `gpui/policy.rs`, `schedule.rs`, the poll of `model.rs` | one pass of completion hook, goals, queue, schedule and limits, closed with daemon, user and clock; extends `QueuePolicy` |
| `TickProperties` | | the properties of the pass |
| `BandwidthRules` | `bandwidth.rs`, its stages in `gpui/policy.rs`, the take and put back of `model.rs`, the limits of `services.rs` | the rules, with their properties |
| `RssFeeds` | `rss.rs`, `gpui/rss.rs`, `model.rs` | the passes of the feeds, with their properties |
| `SessionImport` | `session.rs`, `server/src/session.rs` | the import job, with its properties |
| `WebSessions`, `LoginRate` | `server/src/auth.rs` | the login sessions, the login limit, with their properties |
| `TickProofs`, `ShapeProofs`, `RssProofs`, `ImportProofs`, `LoginProofs` | | theorems on these |
| `MCMove`, `MCConsole`, `MCDesktop`, `MCServer` | | instances for TLC |

### Move-on-complete

`job` holds one record per task: the move tasks, by journal id, and the
`set_location` and delete-data requests, in a slot of their own.  Its `pc` is
the await the task is at.  **Every await is a boundary between two actions;
what runs under one lock, or with no await between, is one action**, with every
change it makes: an action that marks an entry also saves the journal, or
fails to.  The tick of the poller goes through `phase`: `Fetch` takes the rows
(`raw`), the recovery settles `todo` one entry per action, then pruning,
settling, planning and the queue stage each work on the rows fetched at the
start, however the daemon changed meanwhile.

| In the code | In the model |
|---|---|
| `execute_move` | `Begin`, `Gate`, `ReadActive`, `StopTorrent`, `MarkInProgress`, the steps of the copy, `PointDaemon`, `ClearIntent`, `RestartHome`, `EndDone`, `Unregister`; `RestartInPlace`, `EndInPlace` after a failure or a cancel |
| `move_with_progress` | `CheckPaths`, `Rename`, or `OpenCopy`, `VerifyCopy`, `EraseSource`, with `CancelCopy`, `CopyFails`, `PlaceFails`, `EraseFails` |
| `resume_moves` | `ResumeMoves`, then `RecoverLanded`, `RecoverOrphan` or `RecoverAbsent` per entry |
| `run_due_moves` | `PruneJournal`, `SettleHomed`, `PlanMoves` |
| the queue stage of `poll_once` | `RunQueue`: starts and stops what is not busy |
| `MoveStore::save` | `Journal`; a save is in place and its error ignored: one that fails leaves the old file or a garbled one, which reads as empty, and so does a kill inside one |
| a kill and a new process | `Restart` |

Faults are named in `Faults`: a daemon call refused or done with its answer lost
(`rpc`), a file operation, a rename that one volume would allow (the code copies after any
failed rename), the removal of a partial target, a save, a torn
save.  Bounds: `MaxMoves` journal ids per torrent, reused once no entry, task or
handle has them (the code takes a time stamp, which it assumes unique); `MaxCrashes`
kills; `MaxSuffix` names the collision gate tries.  Abstractions: `complete`
is "complete and not hashing", what `decide_moves` tests; the journal is a set,
since the code looks entries up by id and hash only; `StopCommand` is stop and
pause, which differ only in what the daemon keeps open; one operator request
per torrent at a time; a path is a directory, a name and a suffix, and its
contents are nothing, part of the data of a torrent or the whole of it.

### The live table

A row is its status, which stands for the fields both `sameTorrent` functions
compare, and its path, which stands for the fields only the server compares
(`savePath`, `forceStart`, `throttleRule`, `views`, `isPrivate`).  `poller` is where
the loop is: at its top, between the look at the idle clock and the wait
(`park`), waiting, polling, or between the two caches it writes one after the
other (`store`).  A slot of `requests` is one tick of the console, or the resync
it started: waiting in `ensure_fresh`, between the reads of the two caches in
`get_delta`, or answered.

| In the code | In the model |
|---|---|
| `poller::run`, `poll_once`, `store`, `set_disconnected` | `CheckIdle`, `Park`, `Poll`, `PollFails`, `StoreCache` |
| `mark_request`, `IDLE_AFTER` | `Arrive`, `IdleElapses` |
| `get_state`, `get_delta`, `ensure_fresh` | `ReadCache`, `ReadDelta` |
| `pollTick` | `StartTick`, `TakeFull`, `TakeDelta`, `TakeSame`, `LoseAnswer` |
| `applySnapshot`, `applyDelta`, `applyOptimistic`, `reconcile` | `Replace`, `Standing`, `ShowRows`, `Reconcile` |
| `transport`, `markOptimistic`, `clearOptimistic`, `post_cmd` | `Ask`, `CommandDone`, `CommandRefused`, `OverrideAges` |
| a new server process | `Restart` |

`Window` bounds the revisions told apart.  They are only compared for equality,
so a revision that nobody holds any more, no cache, no request, no console, may be
taken again (`Recycles`), which lets the loop poll for ever; without it the run
ends at `Window`, and the revisions count as in the code.  `store.overlaid` is a history
variable: the rows an override was laid over since the last whole snapshot.
Abstractions: the way of a request to the server takes no step of its own (it
may wait at its arrival as long); the poll up to its delta is one step, because
only the loop writes what it reads; a 304 on the `ETag` of a delta is an answer
lost, since the console does nothing on either.

### The policy pass

`PolicyTick` is one pass per poll of the desktop client.  `pass[p].stage` is the
await it is at; a stage that has nobody to call is passed over, as in the code.
The rows the pass works on are those of its poll (`pass[p].raw`), however the
user and the daemon change theirs in between.  `policy` is what the code keeps in
`PolicyState`: who was complete, the ratio a goal stopped a torrent at, the
memory of the queue, the window and the torrents it holds, the limits applied.
A pass takes it (`pass[p].own`), which leaves a blank one, and puts it back when
it ends.  Polls come on a timer, so the next may begin beside a slow pass: it takes
the blank, and the last to end has the last word.  A poll reads the rows and
takes the memory in one step; in the code the disk is asked in between.

| In the code | In the model |
|---|---|
| `decide_queues`, `better`, `is_slow`, `QueueMemory` | `Verdict`, with `Managed`, `Better`, `Precedes`, `FirstOf`, `Wanted`, `Judged` |
| `plan_reorder` of one torrent, `toggle_force_start` | `Reordered` in `UserReorders`; `UserForces` |
| `mem::take` and `run_tick` up to the completion hook | `Poll` |
| the seed goals, by ratio | `Reached`, `SeedGoals` |
| the stop batch and the start batch of the queue | `HoldQueued`, `StartQueued` |
| `SchedMemory::transition` and what `run_tick` does of it | `EnterWindow`, `StayInWindow`, `LeaveWindow` |
| the global limits | `ApplyLimits` |
| the moves and the put-back of `poll_once` | the stage "moves", `GiveBack` |
| `PolicyState::disconnect`, `on_reconnect` | `Reconnect` |
| a batch of calls | `Call`: done and answered, refused, or done with its answer lost; a hash that is gone fails it for the caller |

The weekly grid against a clock is an input: `ClockTurns` makes it open, limited
or paused at any time.  `settings` holds caps, goal, first rows, and the kinds of
events that may happen in a behaviour, at most `budget` of them.  `holder` (who
stopped a torrent last; "again" is the user who pauses, inside a window, what he had
resumed there), `announced` and `calm` are history variables.  `UserPauseStands` is about
settings that are `roomy`: no cap is below the number of torrents, there is no slow limit, and no
torrent is forced or unhealthy or becomes so (`HasRoom`, an assumption TLC evaluates).  The
queue then wants every torrent.  Where it does not, it cannot see the pause of one
it does not want, and starts it when it does (`queue.rs:278`).  Kinds are
split over nine settings because each brings about cases of its own; all of
them at once would not fit.

### The bandwidth rules

`slot` is the part of `PolicyState` the rules keep; a pass takes it, leaving a
blank in its place, works on `shaper.own` and puts it back (`model.rs:487-512`).
Each call to the daemon is an action: `Replay` and `Define` a throttle, `Assign` it,
`SetCaps`, `SetMarker`, with a release going through the last three.  `shaping` is
what the daemon keeps of a torrent, `pool` the throttles it knows, which a restart
of the daemon empties.  `LimitByHand`, `CapByHand`, `UnlimitByHand` are the commands
of the detail panel up to the call that sets the limit; `DropMarker` is the call after
it, which drops the marker and whose error is ignored, so it may never happen.  `byHand`,
`clearing` and `crossed` are history variables: whose limits are the user's, which of
them still have their marker to be dropped, and on whom he acted, or had not done acting,
under a pass.  `ManualStands` and `RulesSettle` say nothing of those two.

### Feeds

`rssPass` is the pass that has the runner.  `StartPass` fetches the feeds of the
rules that are due, some of which fail, and plans; `AddItem` adds one entry;
`EndPass` caps the seen set and saves it.  The save (`save_seen`) writes in place and
ignores its error: it is done (`SaveDone`), refused with the file as it was (`SaveRefused`),
or broken off, which leaves a file that `load_seen` reads as empty (`SaveTorn`).  A
`Quit` may fall into it (`QuitInSave`); it rebuilds the runner from its file, or with nothing when
the file cannot be read.  Relisting and the passing of intervals are free.  What a rule
matches and how an item scores are constants.  `added`, `kept` and `saved` are history
variables: `kept` is what this process added in passes that ended, or was started
with, `saved` what the last save that went well recorded, nothing once one broke off.
`NoRepeat` is about `kept`: a lost file is not forgiven within the process, and
after a restart only what the file records is promised.

### The import job

`importJob.phase` is the await the job is at: listing the daemon, then per entry
`TakeItem`, `LoadItem`, `RecheckItem`, `WaitForCheck`, `StartItem`, `SaveImport`, and
`FinishImport`.  `ListPresent` includes the reset of the cancel flag that
follows the listing, `AskImport` the early return while an import runs, `AskGarbage` the
one after the flag is set.  `HearCancel` is the task that mirrors the flag into the job.  `KillImport`
may fall into a save, which leaves the file old, new or unreadable.  `Sourced` says
which entries have something to load: one that has only the path of a torrent
file passes validation and always fails.  A check ends as "clean", or, where data is missing,
as "bad", with a message, or as "partial", without one.  `WaitForCheck` gives up on "bad",
on a check that is not over, on a torrent that is gone, and on any when the daemon cannot be listed
for as long; it lets "partial" pass, as the code does, which looks at `complete` only
of a row with a message.  `ours`, `checked`, `spared`, `erased` and `gone` are history
variables; `checked` are those whose check has ended and reported nothing.

### Sessions and attempts

`WebSessions` keeps tokens with their expiry in memory and in the file, on one
clock; a write may fail.  `Use` slides the expiry and writes when the last write
is `PersistEvery` old; `Login` and `Revoke` write at once; `Expire` is the use
of a token past its expiry.  `LoginRate` is the window of one address.

## 3. Runs

Passing runs:

| Run | Instance | Shows |
|---|---|---|
| `move_faults` | one torrent, one volume whose renames may fail, so that it is renamed or copied, all six faults, one kill, start, stop, cancel, retry, remove | `TypeOK`, `DataSurvives`, `OneTaskPerTorrent`, `OneUnfinishedEntry`, `RecoveryPrecedesMoves`, and that the copies evolve as `DataCustody` allows (`KeepsCustody`) |
| `move_crash` | one torrent, one volume, two kills, failing calls | `PointerFindsData`, `JournalBacksMove`: a kill anywhere leaves the pointer at the data or an entry that names both ends |
| `move_queue` | two torrents of two names, one sent by a rule under auto-rename, the queue stage, cancel, failing file operations | `StoppedWhileMoving`, `CancelLeavesSource`, `RunsAgainAfterMove`, and, under fairness, `CompletedGoHome`: a move nothing makes fail ends with data and pointer at home |
| `move_location` | one torrent, one volume, `set_location`, repoint, delete data, failing calls and files | `KeepsCustody` with two writers of one pointer |
| `console_ticks` | one torrent that comes and goes, two requests under way, lost answers, lost connections, five revisions, `FULL_EVERY` = 3 | `TypeOK`, `SameRevisionSameTable` |
| `console_live` | one torrent, one request, restarts, refused and late commands, overrides, recycled revisions | `CatchesUp` |
| `desktop` | one of three engines at a time. The pass: up to three torrents in nine settings, in one of them two passes at a time. The rules: two torrents, a rule on a tag and one on a label, refused assignments and caps, hand-set limits, lost sessions, restarts of the daemon. The feeds: two items of one episode, two feeds, a plain and a smart rule, a seen set of one, two mishaps | the pass: `TypeOK`, `WindowHalts`, `AnnouncedOnce`, `UserPauseStands`, and in the end `CapsHold`, `SlotsFill`, `LimitsFollow`; the rules: `ShapeTypeOK`, `ManualStands`, and in the end `RulesSettle`; the feeds: `RssTypeOK`, `NoRepeat`, and `InTheEndAdded` |
| `server` | one of three parts at a time. Imports: three asked for, two manifests that share a torrent, one torrent without a source, one whose data a check does not find, two mishaps. Sessions: two, a lifetime of 3, a write every 2, one failing. Attempts: a window of 2, three attempts | imports: `ImportTypeOK`, `FlagFollowsJob`, `CleanMeansComplete`, `SparedStandStill`, `StartsOnlyChecked`, `ImportEnds`; sessions: `SessionsTypeOK`, `SignedOutIsOut`, `FileLagsBriefly`, `FileNeverLeads`; attempts: `FewInAnySpan` |

Why these bounds: two kills are enough to kill the recovery of a kill; two ids
per torrent let a retry or a second plan meet the entry of the first; two
torrents let one task work while the queue and another task act, and tasks
share nothing but the journal, whose operations name one hash.  Hash rows are
independent in a delta, so one hash is enough for the table; two requests are
the least that can answer out of order, and each may be followed by its resync;
five revisions leave room for a whole snapshot, two deltas and a lost
connection between the two.  `console_live` takes `FULL_EVERY` = 2 and `Window` = 4
(five were checked by hand too); the torrent does not change by itself there,
because commands change it and the initial tables are all of them.

The queue compares torrents in pairs and counts groups, so three torrents
under caps of one and two have every verdict: in, out, and out because of the
other group.  Two or three events per setting are the least that let an edge
be made by one actor and misread by another.  A third import after two lets a journal go through
a run killed in a save, one of the other manifest, and a resumed one.  A seen
set of one makes every second item fall out of it; an instance of three
items (329 thousand states) was checked by hand.  Windows of 2 in instants that
go to 7 let one span touch three windows.

In `console_live` a restarted server takes revisions the console does not hold,
and `console_ticks` has no restart: the reuse of revisions is in "Seen while
modelling".  In `desktop` the passes of the bandwidth rules do not overlap and their session is
lost between passes only (`Racing` = FALSE): the put-back of `model.rs:502` overwrites
the reset of a session lost under a pass, and `RulesSettle` does not hold then.
The passes of queue, goals and schedule do overlap, two at most, in one of the
settings, where a session is lost under a pass too; `CapsHold` and `SlotsFill` hold
there.  `AnnouncedOnce` and `LimitsFollow` do not and leave it out, `LimitsFollow`
lost answers as well, and `SlotsFill` the behaviours of `claim_hold`, as their
definitions say and for the reasons given there.

Violations, each a disagreement between the code and what is said of it
(quoted in `PROJECT.json`):

| Run | The code says | TLC shows |
|---|---|---|
| `claim_pending` | recovery puts an interrupted move back to Pending "so the next tick re-plans" | the entry stays Pending for ever: it makes its torrent busy, and retry does not drop it |
| `claim_recovered` | an existing target means "the copy finished before the kill" | a kill in mid-copy leaves a partial target that recovery settles as Done |
| `claim_hold` | "a 1→0 edge on-window is always a manual pause" | a hold of the queue's own is taken for the user's pause when the window has moved on to the torrent by the next tick |
| `claim_resume` | "a kill mid-import resumes cleanly" | a torrent loaded before the kill and journalled after it is skipped by the resumed run, unchecked and stopped, and the run reports no failure |

Seen while modelling, with no run of their own:

- Moves. A source whose removal fails is kept beside its verified copy while
  the torrent is restarted in place (`fs.rs:207`). A torrent started in mid-copy
  runs while its files move (`cmd.rs:26`). Two torrents of one name and destination
  overwrite each other (`fs.rs:119`). A cancelled move is planned again by the
  next tick (`mover.rs:228`). A failing `set_directory` leaves the torrent stopped
  (`mover.rs:578`), and a retry after it always collides with what the first
  attempt moved (`mover.rs:423`). `set_location` clears the intent under a running
  task (`cmd.rs:332`). Under auto-rename a move that has to be renamed always
  fails, because `fs.rs:75-96` joins the old name, and the journal then names a
  path that never exists.
- Live table. A row in which only fields changed that `sameTorrent` omits is kept
  as it was (`torrents.ts:104`). A refused verb's overlay stays until the next
  whole snapshot, since deltas do not name its row (`torrents.ts:260`). A restarted
  server counts revisions from zero, and a console that holds the same number is
  taken for current (`state.rs:51`). Every refetch beside a pending tick leaves one
  more poll loop behind (`web.ts:271`).
- Queue and schedule. The server never resets the memory of its queue when the
  daemon is lost and found (`poller.rs`). `SchedMemory::user_resumed` has no caller
  but a unit test, so the end of a window releases what the user resumed in it, too, and the queue
  starts it even if he paused it again inside the window (`policy.rs:467`), though "exit will
  not touch it either" (`schedule.rs:339`); `UserPauseStands` leaves that out by the
  holder "again", without which TLC finds it.
  Leaving a pause window starts nothing when no cap is configured
  (`policy.rs:467`). A torrent stopped by a goal is one the queue may start again. A
  batch that pauses an erased hash fails, and what it did pause counts as
  paused by the user. A start and a pause of the user between two polls are not
  seen. With a slow limit set, what does not run is slow, too, and is never
  managed (`queue.rs:144`). `plan_reorder` of several torrents to the top or to the
  bottom reverses their order (`queue.rs:333`).
- Overlapping passes. The comment at `model.rs:483-486` says of a pass that finds no
  memory that the "goal memory is keyed to survive one skip".  It takes a blank one,
  so a torrent that a goal stopped and the user started again is stopped once more,
  a completion between the two polls is announced twice or never, a pause by the user is
  forgotten, and the memory of the slower pass, put back last, believes in the
  limits of its own hour.
- Bandwidth. A failed definition counts as defined for the session. Refused
  releases leave a torrent that passes for the user's, or one marked without a throttle.
  Limits cleared by hand are adopted again by the next pass, against the
  comment at `services.rs:679`. A hand-set limit whose marker could not be dropped
  (`:717`, error ignored) is still a rule's, and is overwritten when another rule comes to match. A reset during a pass is lost (`model.rs:502`).
- Import. The running flag stays when the manifest does not parse
  (`server/src/session.rs:188`). A cancel before the daemon is listed is lost (`:275`).
  `session.rs:7-8` promises that an import "resumes only verified data", and `:499-500` that
  missing data fails.  `wait_for_check` returns Clean for any row that is not hashing and
  has no message (`:689`), whatever its `complete` says, so a torrent whose check found data
  missing and set no message is started (`:624`), journalled and reported as restored.  The
  model has this behaviour ("partial"), and `StartsOnlyChecked` promises only that a
  check has ended and reported nothing.
  An entry with only a torrent path passes validation and always fails. Entries
  that are not valid are skipped and not reported as failed. A recheck that
  times out is journalled as done.
- RSS. Two rules, or two feeds, add one item twice in a pass (`gpui/rss.rs:127`).
  Clearing the seen set while a pass has the runner does nothing
  (`model.rs:1063`). The seen set is written in place with errors ignored (`rss.rs:773`):
  after a write that broke off, or a file that cannot be read, and a restart, everything in
  it is added again. A rule counts as polled when its feeds failed. A smart rule
  adds the losers of one pass in the next ones.
- Sessions. What the throttle has not written is lost at a restart, up to
  `PersistEvery`; a revocation whose write failed is undone by one.

Deadlock is checked in every run but `server` and `claim_resume`, where
requests are bounded and a server that is asked nothing more may stop.

## 4. Fairness

*Moves*: weak fairness of the tick, and of each task and request.  tokio polls
ready tasks in turn and every call has a timeout, so none can be put off for ever; operators,
downloads, faults and kills owe nothing.

*Live table*: weak fairness of the loop, of each handler, of the start of a tick
(a visible tab schedules the next one) and of the clock of the overrides; strong
fairness of taking an answer, since a connection that loses every answer for
ever shows nothing.  The premise of `CatchesUp` says the rest: that the daemon
keeps still, the connection stays up and commands are over.

*The policy pass*: the first pass is idle and at the queue stage, which every pass
comes through, again and again (`[]<>`), and the second, which only runs beside
it, always ends.  A step of a begun pass is always possible, so this says what weak
fairness of each pass says, in a form TLC checks faster: the loop of
`model.rs` sleeps and polls again, and every call has a timeout.  The user,
the clock, the daemon and the faults owe nothing; events are bounded, so they end,
and what must hold "in the end" holds once they have.

*Rules, feeds, import*: weak fairness of the step of the pass or of the job
(`ShapeStep`, `PassStepRss`, `JobStep`), and for feeds of the passing of a rule's
interval.  A check of the daemon's may never end: the job's own timeout ends the wait
(`ImportEnds`).

## 5. Proofs

All theorems hold for any number of torrents, directories, journal ids,
revisions and requests, under the named assumptions on the constants
(each module that declares constants has one), which TLC evaluates in every run
that extends the module.

**Moves** (`MoveProofs`).  `TypeCorrect`, `RecoveryComesFirst`, `TasksExclude`,
`EntriesExclude` and `MoveInvariant`, by one inductive invariant in three layers.
`Typed` adds to the types that a job under way has a destination, and a source
while it handles files.  `ControlInv` says that the handles are those of the tasks
and that no tick plans before recovery is over: planning then finds a torrent
busy whenever it has a task, which is why two tasks exclude each other.
`JournalInv` says that an id names one entry, that a torrent has one unfinished
entry in memory and in the file, that a task owns its entry until it ends, and
that what recovery has still to settle is unfinished: so an entry is only added
when none of its torrent is unfinished.  Each layer is proved preserved using
the ones below.

**The torrent and its data** (`CustodyProofs`).  Seven theorems on the same model,
each under the least it needs of the configuration, the commands (`Commands`) and the
faults (`Faults`), for any number of torrents, directories, ids and kills.
`Relocations` are `set_location` and repoint.

| Theorem | Property | Asks for | Because otherwise |
|---|---|---|---|
| `FilesStayStopped` | `StoppedWhileMoving` | no start or relocation by hand, no failing call | the user starts a torrent in mid-copy (`cmd.rs:26`); a failed read of the row counts as stopped |
| `MovedRunAgain` | `RunsAgainAfterMove` | no stop, removal or relocation by hand, no failing call | a start that fails is not repeated (`mover.rs`) |
| `MovesAreBacked` | `JournalBacksMove` | saves that succeed, no auto-rename | a failed save is ignored; under auto-rename the entry names the free path and the task moves to the taken one |
| `DataIsKept` | `DataSurvives` | `KeptApart` | two torrents of one name, or a relocation by hand beside a move when one of the two copies, overwrite what the other counts on (`fs.rs:119`) |
| `CustodyIsKept` | `KeepsCustody` | `KeptApart` | as above |
| `CancelIsHarmless` | `CancelLeavesSource` | distinct names, no relocation by hand, removals of partial copies that work | a removal that fails leaves the partial copy |
| `PointerIsFollowed` | `PointerFindsData` | one volume whose renames do not fail, distinct names, nobody else's data in the way, no auto-rename, saves that work and are not torn, no relocation, retry or delete-data by hand | across volumes the data is in two places for a while; a retry after a failed `set_directory` collides with what the first attempt moved (`mover.rs:423`) |

`KeptApart` says that no two torrents share a name, and that either nobody relocates by
hand or everything lies on one volume, where no rename fails but for its source or a full
target (`NeverCopies`), with nobody else's data in the way.  All other faults and
kills are allowed by `DataIsKept` and `CustodyIsKept`.  Each property has an invariant of its own,
stated in `MoveProperties` where TLC checked it before it was proved.
`TasksKeepStopped`: from the stop to the pointer the torrent of a task is stopped.  `RunningIsOwed`:
what the tick saw running runs, or a task owes it a start, so no task takes
the stop of an earlier one for the user's.  `EntriesBack`: file and memory agree, and the entry of a
task has its destination, and from the mark on is in progress.  `CustodyInv`: data is whole
nowhere before its completion and somewhere after it, and what a job is about to overwrite
or erase is not the last whole copy (`Spares`); so every change of the
whole copies is one of the steps of `DataCustody`: a rename is its `Relocate`, an erased source its
`Drop`, and `CustodyIsKept` goes through them action by action.  `Homing`: automation moves a torrent from where it was loaded to one
destination, so a source is never a destination.  `SourceLast`: the data stays whole at the
source until all of it is at home.  `RenamedOnly` and `PointerInv`: on one volume data
lies in one directory at a time, and from the pointer on it is at home and
the daemon too.

**Live table** (`ConsoleProofs`).  `DiffLeads`: a difference leads where it says.
`TypeCorrect`.  `SameRevision`: without restarts, a console at the revision of the
server shows its table.  `SameRevisionSameTable` is not inductive: it says
nothing of the deltas and answers under way.  The invariant `ConsoleInv` says that there is *some*
history, a table for each revision, to which everything anybody holds is true:
the cache and what the loop is about to store, the cached delta, every snapshot
and body a request holds, and the store up to its overlaid rows.  A poll takes a revision
nobody holds, so the history can be changed there (`HistoryGoesOn`); every other
step hands over something already true to it.  A delta is laid over the store only when
its base is the revision of the store (`TakeTrue`), which is the check the
mutant drops.  The same invariant fails with restarts, where a held
revision is taken again.

**Import** (`ImportProofs`).  `ImportTypeCorrect`, `FlagIsTrue`, and:
`SparedAreLeftAlone`, since the plan is made from the listing that spares them, so that
nothing spared is ever planned or in hand (`SparedInv`);
`StartedAreChecked`, since what was loaded is stopped until its recheck, and what the wait
lets pass has had a check end without a report (`CheckedInv`); `CleanRunIsWhole`, where `CleanMeansComplete` says nothing of a run
that is under way or of a journal nobody reads yet.  The invariant `AccountInv`
keeps the account: every item a job was asked for is in the daemon, was
erased since, is planned or is in hand, unless the job has failed; and every entry of the journal, in memory and
on disk, was added, or erased since.  A torn save only makes a journal shorter.

**Sessions and attempts** (`LoginProofs`).
`SessionsTypeCorrect`, whose one fact beyond the types is that no expiry lies
further off than a lifetime; given it, `SignedOutStaysOut`, `FileStaysBehind` and
`FileLagsLittle` are inductive, each by what an operation does to the sessions
and then by whether its write is done, fails or is put off.  `FewInEverySpan` is not: `RateInv`
says which of the attempts let through are those of the window under way, that
its first came when it began, and that any attempt with a cap's worth of others between itself
and that one came a whole window before.

**Feeds** (`RssProofs`).  `RssTypeCorrect`; `NothingRepeats`, from `KeptInv`: what was
kept is in memory, what was saved is in the file, through the cap, refused and broken saves and
quits, and a plan made from the seen set holds nothing kept.  It does not say that a
save succeeds: what a broken one loses is no longer `saved`, and after a restart not `kept`.

**The policy pass** (`TickProofs`).  Four theorems, for any torrents, settings and
events.  `Announcements`: without overlapping passes
`AnnouncedOnce` holds.  `AnnounceInv` says
that a torrent which was announced, or complete from the start, is complete or
gone for good, and that no memory still has it as partial: not the one in its place,
not one a pass has taken.  It rests on two facts about every other step: rows go,
and stay complete (`Follows`), and no step makes a memory of a torrent but a
poll (`Kept`, `Silent`).

`TickTypes`: every reachable state is well typed (`TickInv`), overlapping passes and lost
sessions included.  What needs an argument is a reorder: its position is an
outermost one, which exists because the torrents are finitely many
(`SetupsAssumption` and well-founded induction).

`WindowsHold`: `WindowHalts`.  A pass that enters the window pauses the rows it read that run
and what it started itself; `Overseen` says that this covers all that runs while
nobody disturbs, and that what the queue wants is running in those rows, known as
paused or about to be started.  `WindowSleeps` then says that a memory that is in the window knows as
paused everything the queue wants, so a later pass starts nothing; the stamp of a
first start moves a torrent up in the order, but only among those wanted anyway.

`PausesStand`: `UserPauseStands`, two passes at a time included.  `PauseInv`: with room for all,
what the user paused is among what the queue remembers as paused or saw running (or the rows of
the pass show running), and neither held by a window nor among what
the pass has set out to start (`PausesRecalled`); what a pass sets out to start did
not run when it judged (`StartsAreFresh`); and the rows of a pass have every torrent the
daemon has (`PassesCover`).

**Bandwidth rules** (`ShapeProofs`).  `HandsOff`: no pass touches what the user set
before its poll (`ManualStands`), for any rules and refusals, also when sessions
are lost under a pass.  `HandInv` says that what is the user's has no marker and a
throttle or caps, in the daemon and in the rows of the pass, and is then neither
planned nor in hand.  `ShapeTypes` (`ShapeTypeOK`): beyond the types, no marker stands beside a limit of the
user's but where he acted under a pass or his command is under way, which follows from the same invariant.

Only model-checked: what TLAPS does not reach, the liveness properties
`CompletedGoHome`, `CatchesUp`, `CapsHold`, `SlotsFill`, `LimitsFollow`,
`RulesSettle`, `InTheEndAdded` and `ImportEnds`.  Every safety invariant and action
property of a passing run is the property of a theorem.

## 6. Not modelled, and the plan

Left out for good, because they are functions of one input with no state of
their own, and unit tests reach them: what is parsed or drawn (torrent files,
foreign clients, XML-RPC framing, the feeds and their titles, the weekly grid
against a clock, views, themes), configuration and its validation, export,
preview and path remaps of a session, the file index, duplicates, tags and secrets.
The desktop client is modelled where it runs the same policies as the server
and where its threads share memory with them; its dialogs, preferences and the
start of a local daemon are not.  Of the commands, those that are one call to the
daemon are not modelled, since nothing in this code depends on them.

Left out of the modules above: seed goals by hours and per label, and rules
that change in the preferences while torrents carry their marker; reordering
several torrents at once; the passwords and cookies around the sessions.  The
slow work of the server's tick (tracker hosts, rate history) shares nothing
with what is modelled.

What would come next: the deterministic halves of the liveness properties, as
action properties of their own (a pass that ends leaves no wanted torrent stopped
that it may start; a pass of the rules that ends leaves each torrent it owns on its
rule, unless a call was refused), which are within the reach of proofs where the
leads-to is not.
