# Verification of osubot-rs

osubot-rs is a QQ bot for the game osu!. It is one tokio process: it keeps a
WebSocket to a OneBot 11 server, answers commands, polls osu! multiplayer matches
and score feeds in the background, runs wasm plugins, and reloads its
configuration while it works. This directory holds TLA+ models of the parts in
which order, concurrency and failure decide whether the bot is right, and of the
algorithms between a message and its answer, TLC configurations that check them,
and TLAPS proofs.

    tlc -config Listener_delivery.cfg MCMatchListener    # a run
    tlapm MatchListenerProofs.tla                        # a proof

## 1. Inventory

| part (source) | state | operations | interacts with | what is hard | correct when |
|---|---|---|---|---|---|
| match listener (`osubot/src/match_listener`, `command/match_listen.rs`) | rows of `match_listeners`: active, expiry, cursor (last event, last notified, pending game) | poll cycle, page processing, delivery, cursor write, start/stop/list | osu! API, OneBot API, database | failed and unconfirmed deliveries, restarts, a row changed while a job works on it, crash before the write | no event skipped, no repeat without a failure, end announced, quota |
| request dedup (`osubot-core/src/dedup.rs`) | map key -> entry, result, semaphore | run_or_wait, guard drop | every command handler | dropped callers, task panics, memory reuse | one execution per key, nobody waits for ever |
| hot reload (`reload.rs`, `ws_loop.rs`, `plugin_runtime.rs`) | drain, in_flight, shared config, plugin manager slot, force_reconnect | debounce, drain, read, plugin reload, swap, side effects, release; connect, admit, close | file watcher, connection loop, tick loop, commands | atomics read one after the other, timeouts, reconnect in the middle | nobody sees a mixed configuration, no edit lost, reload ends, right server reached |
| plugin host (`osubot-plugin`) | slots, command map, message indices, tick registry | new, take/put, complete_exec, reload_instance, reload_all, compact, shutdown | dispatch, tick loop, reload | instances are outside their slot while they run; indices move | maps and slots agree, a tick runs its owner |
| binding (`command/settings.rs`, `main.rs` IRC part, storage), score scheduler (`scheduler.rs`) | bindings, pending codes, confirmations, next updates | bind, unbind, IRC verification; batch, trigger, reschedule, cleanup | IRC, osu! API | check-then-act, repeated codes, statements without a transaction, writes over an unbind | one QQ per user, nothing bound without permission, the schedule follows the bindings |
| connection loop, OneBot client (`ws_loop.rs`, `onebot.rs`) | reconnect delay, tokens for frames, pending echoes | dial, read, close, call, answer, timeout, sweep | all senders, reload | late and dropped answers, callers that go away | every call ends, the sweep spares who still waits |
| command dispatch (`command/mod.rs`) | window of recent commands per user | check, plugins, parse, count, run, sweep | plugins, handlers | the check and the count are several awaits apart | the burst is bounded |
| osu! API client (`api/http.rs`, `api/oauth.rs`, `rate_limiter.rs`) | bucket and waiters, cached token, refresh lock | acquire, refill, refresh, invalidate, retry | all API calls, reload | late 401, credentials replaced in between, latecomers | nobody refreshes what is good, every call returns |
| IRC client (`irc.rs`), bridge (`background.rs`) | connection, delay, unread lines, channel | dial, read with a timeout, keepalive, restart | binding, reload | dead connections, half-read lines, no WebSocket | a code arrives or is lost for a reason |
| shutdown (`shutdown.rs`, `main.rs`, `background.rs`) | flag, notification | set, notify, wait, bounded join | every background task | a notification that nobody waits for yet | the signal ends the program |
| query commands (`command/query.rs`, `utility.rs`, `score_query/*`, `last_beatmap_cache.rs`) | shared requests, bindings, map a chat remembers | resolve whose data, fetch together, select, draw, say | dedup, API, upstream bots, renderer | two handlers share an answer; the remembered map changes in between | a shared answer fits each of them, the chat keeps the map it was shown |
| file caches (`osubot-render/src/cache.rs`, `osubot-core/src/cache.rs`, `api/http.rs`) | files, lock per URL, permits | look, lock, fetch, write, clean | renderer, network | torn writes, cleaners, callers that give up | one fetch per URL, permits come back |
| rendering (`osubot-render`) | render lock, cancel flags | load, hand to a thread, paint, time out | handlers | a thread cannot be stopped | nobody paints for nobody |
| command parsing (`commands/*`), score filter, grades, unstable rate (`score_filter.rs`, `api/*`, `ur.rs`) | none | pure | handlers | many syntaxes that combine, cuts between numbers | coherent commands; filters and their opposites; grades in order |
| beatmap preview (`osubot-beatmap-preview`) | none (the conversion to mania: the notes before) | parse, convert, cut into segments, lay out | handlers | notes depend on notes before; lines dropped; columns and rows cut through notes | charts show every note once, where it is |

`PROJECT.json` lists every component with its sources and status, and under
`hazards` each place where an order, a failure or a boundary a test would hardly reach decides.

## 2. Plan

Order: what a user would notice first when it goes wrong, and what is hardest to test.

| module | models | uses | abstract specification | theorems |
|---|---|---|---|---|
| `MatchEvents`, `MatchEventsLoop` | a page of events and a cursor -> notifications and a new cursor; in closed form and as the loop of the code | | closed form = loop | `PagesAreProcessedAlways` |
| `MatchListener` | rows, poller, jobs, handlers, crashes | `MatchEvents` | `ChatFeed` | `TypeCorrect`, `NothingIsSkipped`, `PendingGamesAreAnnounced`, `ChatsAreTold`, `ListenerImplementsFeed`, `OvershootIsBounded` |
| `RequestDedup` | `run_or_wait` | | | `TypeCorrect`, `MapStaysLive`, `WaitersAreServed`, `EntriesAreAttended`, `SingleExecution`, `SharedAnswers` |
| `HotReload` | reload, connection loop, tick loop, commands | | | `ReloadStaysConsistent`, `SwitchFindsLateTasksOnly`, `EditsAreRead` |
| `PluginManager`, `PluginSlots` | the slots of the plugin host, and who uses them | `PluginManager` (pure operators) | | `SlotsStayConsistent`, `TicksRunTheirOwner`, `ReloadsRunTheFile` |
| `Accounts` | bindings, codes, confirmations, schedule | | | `TypeCorrect`, `OneQqForEachUser`, `BindingsArePermitted` |
| `Connection`, `CommandDispatch`, `ApiClient`, `IrcClient`, `Shutdown` | the way of a message in and of an answer out | `Network` composes them | | `OneTokenIsShared`, `CallersInTimeAreSpared`, `DelayIsCounted`, `BurstsAreBounded` |
| `Queries` | handlers of queries | `ScorePipeline` (pure) | | `SharedAnswersFit`, `ChatsRememberTheirMaps`, `NobodyIsBoundTwice`, `ShownRowsAreTheirs` |
| `FileCache`, `Rendering` | files and pictures | | | `ImagesAreFetchedOnce`, `PicturesAreForSomeone` |
| `Scores` | what becomes of a score | `Ordering` (what a sequence holds at some positions) | definitions it is checked against | `ConditionsAreOpposed`, `GradesAlwaysFollowPlay`, `JudgementsAlwaysCount`, `NothingIsLost`, `NothingIsMissedBetweenPages`, `CoversAlwaysMoveUp` |
| `Commands`, `HitTiming` | parsing, replays | | definitions they are checked against | |
| `ManiaConvert` | the conversion of a map to mania, object by object | | | `NotesFitTheirLanes` |
| `BeatmapFile`, `PreviewSegments`, `TaikoPreview`, `ManiaPreview` | from a file to charts | `PreviewSegments` | definitions they are checked against | |
| `Answers` | composes `MatchEventsLoop`, `Queries`, `Scores`, `FileCache`, `Rendering`, `ManiaConvert`; one of them runs | the six | | in `AnswersProofs` |

The proofs are in modules of their own, `<module>Proofs`; `NumberLemmas` has what several of them need of numbers, of recursion and of putting
sets in order. `Network` and `Answers` compose the parts of their rows and state the assumptions on their constants;
`MCAlgorithms` and `MCAnswers` only give the constants values for TLC, and inputs to the pure modules.

What is worth doing next: proofs about `HitTiming` and `PreviewSegments`, whose sorts and folds would first have to be written as functions
on numbers, as in `Ordering`; and the standard and catch previews once their curves have an integer abstraction.

## 3. Modules and code

Every definition that models code has its lines in `PROJECT.json`, "map". A
definition introduced by "Slip:" in its comment models no code: it is a plausible
mistake in the definition below it, used by a mutant to show that a property notices.

### The match listener

**MatchEvents / MatchEventsLoop** (`poller.rs` `process_events`, `state.rs`). An event
is quiet, text, a game or the disband event; ids are positions in the match's log. A
cursor has the fields of the row. `NewCursor`, `Notifications` and their helpers say in closed
form what the loop with its early breaks computes; `ProcessLoop` is the loop, a fold
over the page. `PagesAreProcessed` says that they agree, that a poll after a failure begins with the
event that failed, and that a listener starts with the game that is being played.

**MatchListener** (`poller.rs`, `match_listen.rs`, the table in `storage.rs`). `rows` is
the table. `cycle` is the poller: expire rows, list active rows, run one job per row, sleep.
A job (`jobs`) keeps the copy of the row it listed: fetch, process, send notification after
notification, write or stop; other actors may change the row meanwhile. `cmd` are start
handlers between their awaits (count, fetch, insert); stop and list are single statements. The
environment publishes events, ends games, fails deliveries before or after they reached
the chat (`DeliveredUnconfirmed`), fails statements, lets time pass and crashes the program. `seen`, `hushed`,
`floor`, `base`, `clean` and `repeated` are history. **ChatFeed** is what a chat is promised:
announcements in order, positions that move over settled events only.

### Requests, reload, plugins

**RequestDedup** (`dedup.rs`). One action per stretch between two awaits: find or insert,
claim, spawn and await, close, remove, and the two drops (waiter, creator with its
guard). Entries are addresses and are reused.

**HotReload** (`reload.rs`, `ws_loop.rs`, `plugin_runtime.rs`). `reload` is the coordinator
with its program counter, `loop` the connection loop, `cmd` command tasks, `tick` the
tick loop. `drain` and `in_flight` are read and written in the code's order; `fetch_update` is
two steps (load, compare-and-swap). Managers carry the connection and generation they were made in.

**PluginManager / PluginSlots** (`osubot-plugin`). `PluginManager` has the manager as a value
and one operator per function: `Added`, `Removed`, `InstanceReloaded`, `ReloadedAll` (diff, removals, reloads,
adds, compact), `ErrorCounted`. `PluginSlots` has who calls them: handlers and the tick loop take an
instance out, work without the lock, and return it by number; the coordinator takes the
manager out of its place; a reconnect drops it. The command timeout may drop a handler anywhere (`CommandTimesOut`): an instance it
had out is lost without an error counted (`abandoned`). Neither this timeout nor a plugin's ends the blocking thread, only the engine's epoch does, later; an
instance whose thread runs on is `adrift` and may register ticks until it ends. Due ticks fire in any order, since a reload appends the ones it restores to the registry. Lists are put in order (`sort_by_key`) or thinned out
(`retain`) by `InOrder`: the member at place k is the one with k members up to it. Names of plugins are taken as unique
(`OrderAssumption`): `PluginManager::new` refuses two of one name (`manager.rs:59`), while `reload_all` would add both.

### Accounts

**Accounts** (`settings.rs`, `storage.rs`, `handle_irc_message`, `scheduler.rs`). The four tables,
handlers with one action per statement (the one transaction is one action), and the
scheduler's pass. Time is per row: a row becomes due, a code or a confirmation expires.
Bindings have three writers: the bind command, a code that comes back over IRC, and `resolve_binding` (`main.rs`), which binds a QQ found
unbound to what another bot answers, with neither code nor permission. `GrantedOnly` says that each binding has one of these sources for just its QQ and user.
A restart keeps the tables and forgets the rest. Game modes are independent and left out: a user has one row.

### The network

**Connection** (`ws_loop.rs`, `onebot.rs`, the sweep of `background.rs`). The loop is in one of three
phases: dial, read, sleep. A call leaves its echo, sends, waits; an answer is a frame like any other and costs a token.
Ages count units of time: `Tick` is not possible while a timer is due, so timers fire on time. A changed URL leaves
the old socket to whoever still holds its write half (`open`).

**CommandDispatch** (`command/mod.rs`). A handler looks at the window, gives the message to the plugins, parses
it, and only then counts. The window of a user ages with `Tick`; the sweep removes idle users. Times are kept in the order they were counted in,
so that what `retain` drops is a prefix (`Expired`), and the window is what follows it.

**ApiClient** (`http.rs`, `oauth.rs`, `rate_limiter.rs`). A request takes a token from the bucket or queues at the `Notify`
(which stores one permit), takes the cached access token, or the refresh lock and looks again, sends, and retries in the two loops of
the code. `UpdateCredentials` is the reload. A token is known by whose credentials it was made with.

**IrcClient** (`irc.rs`, `background.rs`, `reload.rs`). Reading is no step: what a timeout interrupts was `head` of the wire. A code
is on its way, queued, told, or lost for one of the reasons the code has; `fate` says which.

**Shutdown** (`shutdown.rs`, `main.rs`, `background.rs`). Each task is a loop around a select; checking
the flag and beginning to wait are two steps, because `notify_waiters` wakes only those who already wait.

### Answers

**Queries** (`command/query.rs`, `utility.rs`, `score_query/*`, `main.rs` `resolve_binding`, `last_beatmap_cache.rs`). A task per message,
one action per await. `flights` are the tables of `RequestDedup` with their keys: a handler of a key that is in flight waits for its answer,
and an error text may be the one the first handler wrote. **ScorePipeline** is the pure part: how many scores are asked for,
how they are filtered, cut and shown.

**FileCache** (both `cache.rs`, `http.rs`, `ur.rs`). A write is three steps (empty, part, whole); readers look in between. An image takes
the lock of its URL, a permit, and leaves in the order the guards drop; a beatmap removes the files of its other statuses first.

**Rendering** (`osubot-render/src/lib.rs`, `render.rs`). Handler and thread are separate; a timeout only sets the flag. Lists and profiles share no flag
with their handlers, previews neither lock nor flag.

**Commands** (`commands/*`, `onebot.rs`, `command/mod.rs`). A text is a sequence of classified tokens; `Parse` is `parse_command` with its order
of attempts. **Scores** (`stable_grade.rs`, `score_convert.rs`, `osu_api.rs`, `pp.rs`, `score_filter.rs`, covers of `osubot-render`).
**HitTiming** (`ur.rs`): frames, presses, matching, the rate in squares and fractions instead of a root.

### Previews

**BeatmapFile** (`parser.rs`): from the lines of a file to sections, points and objects, line by line. **PreviewSegments** (`time_selection.rs`, `mods.rs`).
**TaikoPreview** (`taiko_conv.rs`, `taiko/*`): conversion, scroll segments, sections, bar lines, rows. **ManiaConvert** (`convert/mania`): one action per
object, the notes depending on those before it; random numbers are choices. **ManiaPreview** (`mania/*`): mods, columns and lines of the still picture, scroll axis of the moving one.

**MCAlgorithms** enumerates the inputs of the pure modules: an initial state is one input (`probe`), and each of the properties
`PagesAreProcessed`, `CommandsAreCoherent`, `ScoresAreTold`, `FiltersAreOpposed`, `PressesMeetTheirNotes`,
`FileIsReadInOrder`, `SegmentsArePlayable` and `ChartsAreSound` looks at the probes of its algorithms. It extends **Answers**, whose parts share no state: a behaviour runs one of them (`part`). **MCAnswers** adds the specification and its properties.

## 4. Runs

| run | checks | shows |
|---|---|---|
| `answers` | 15 properties, below | what an answer takes, part by part |
| `listener_delivery` | `ChatIsTold`, `ImplementsChatFeed`, `EventsAreConsumed` | one listener: failures in the middle of a page, cards switched off, and a crash and an unconfirmed delivery, or a database error, or an expiry |
| `listener_restart` | `NothingSkipped`, `PendingIsAnnounced`, `QuotaOvershootBounded` | stop, expiry and start while the poller holds an old copy of the row, failed statements; two handlers that start listeners of three matches of one chat |
| `dedup` | `MapIsAttended`, `AnswersAreShared`, `OneRunUnlessAbandoned`, `EveryRequestEnds` | three callers, two keys, drops anywhere |
| `reload` | `ReloadIsConsistent`, `OnlyLateTasksSeeTheSwitch`, `NoEditIsLost`, `ReloadsEnd` | two edits over two connections |
| `plugin_slots` | `SlotsAreConsistent`, `TickRunsItsOwner`, `ReloadRunsTheFile` | numbers always name the slot they should, also when handlers are dropped and threads run on |
| `accounts` | `OneQqPerUser`, `GrantedOnly`, `ScheduleFollowsBindings` | concurrent binds, verifications, answers of other bots, unbinds and a scheduler |
| `network` | `SweepSparesCallers`, `DelayCountsFailures`, `BurstIsBounded`, `TokensAreShared`, `EverybodyIsAnswered` | the connection with its calls, the rate limit, the API client, the IRC client and the end of the program, part by part |
| `listener_stale_write`, `dedup_once`, `reload_timeout`, `accounts_rebind` | one property each, violated | section 7 |

The properties of `answers`: `PagesAreProcessed` (match pages); `SharedAnswerFits`, `ChatsKeepTheirMap`, `OneQqPerBoundUser` (queries); `OneFetchPerUrl` (files);
`PaintsForSomeone` (pictures); `NotesCanBePlayed` (mania conversion); `CommandsAreCoherent`, `ScoresAreTold`, `FiltersAreOpposed`, `PressesMeetTheirNotes`,
`FileIsReadInOrder`, `SegmentsArePlayable`, `ChartsAreSound` (algorithms); `EverythingEnds` (queries, files and pictures).

### Bounds

Every bound is a constant of its module and occurs in the guards of the actions it limits, or limits the enumerated inputs.

- `MatchListener`: 3 events make a game with something before and after it; `PageLimit` = 2 makes a match
  longer than a page, so that polls process a part of it. One crash, one unconfirmed delivery, one database error, one restart of a listener per behaviour, and in
  `listener_delivery` one of three combinations of them (`SomeFaults`): the hazards need one of each, and what a second could meet is a state
  the first run could also begin in (cursor and row are all that survives). The theorems have no bounds. Two handlers suffice for the race of the quota.
- `RequestDedup`: the code's interactions are between a creator, a waiter and a newcomer of the same key; two entries make
  reuse and two executions at once possible. One of the three callers asks for one key only. The theorems have no bounds.
- `HotReload`: two edits (one during the reload of the other), two connections (one lost meanwhile), one command at a time beside
  the tick loop; every pair of actors meets. A second command adds nothing the tick loop's guard does not show.
- `PluginSlots`: two plugins, one command both declare; one edit, shutdown, thread left running or handler dropped at work (`MaxEvents`), five tick ids. After an
  instance met a reload outside its slot (`slipped`; one that is adrift counts) no second such reload follows, since the properties say nothing of such
  instances anyway; `Register` leaves an id for a reload. A shutdown happens with the manager in
  its slot, since during a reload there is nothing to shut down.
- `Accounts`: two QQs and two users who want each other's place, one code, two handlers, two commands or other inputs, on an empty
  database and on one where an unbind is pending while a code for the same user is out. Binding races are between two handlers; the
  theorems have no bounds. The scheduler acts without bound.
- `Connection`: one call (calls share only the tokens, which other frames take as well), timeouts of 10 s and 30 s next to the
  floor of 30 s, in units of 10 s; two connections; four failures in a row reach the longest delay, which is no power of two, as in the code.
- `CommandDispatch`: two handlers of one user, a window that holds one command before the extra one; window, idleness and sweep keep the order they have in the code.
- `ApiClient`: two calls, a bucket of one token, 2 retries and 1 refresh instead of 4 and 5, one change of credentials.
- `IrcClient`: one code, a channel and a wire of one and two lines, two dials.
- `Shutdown`: a scheduler, a task with a timer, a task without one, and the loop: one of each kind, tasks do not interact otherwise.
- `Queries`: two handlers with any two of 17 commands, chosen so that each pair of keys that may be confused occurs (lists of different lengths, all or one,
  named or mentioned players, known or unknown maps), in a group and a private chat, over two players with three scores and one.
- `FileCache`: three loads of the same image (one of them forced), of one beatmap under two statuses, or of two files; one permit.
- `Rendering`: any two pictures, one tile each.
- `ManiaConvert`: any number of objects (only the notes of the last one matter for the next), to 2, 4 or 8 columns; for 8, where patterns are many, a few circles and one slider.
  One of the difficulties is above the value from which the conversion to 4 columns fails (section 7), and `NotesCanBePlayed` says that nothing else fails.
- Algorithms: `MCAlgorithms` names for each the inputs that cross its cuts: counts around each grade, times around each window, up to
  three or four lines, points or objects in every order.

### Symmetry and deadlock

`listener_restart` declares handlers symmetric (they are interchangeable, and the run has no liveness property). `answers` gives of two
commands of different kinds the first to the first handler (`HandlersInOrder`), for the same reason; each pair still occurs in both orders of
arrival. Deadlock is checked except where the system ends: `network` (the program exits, calls are over) and `answers` (handlers
are done; a pure function has no next state).

## 5. Fairness

- `MatchListener`: the tokio runtime runs the poller and its jobs (weak fairness of each step); the osu! API answers and a
  delivery of a given event succeeds now and then when tried again and again (strong fairness), since no property of delivery can hold
  if the network never works. A running game ends. Nothing forces commands, crashes or expiry.
- `RequestDedup`: callers take their steps, and the work ends: its HTTP requests have timeouts (`api/mod.rs:41`).
- `HotReload`: coordinator, connection loop, and a tick that holds the manager's lock go on; dialling succeeds now and then;
  frames come. No command and no tick has to end. The part of `ReloadsEnd` about the server additionally assumes, in its statement, that no compare-and-swap
  loses for ever.
- `Accounts`: handlers end (each call has a timeout or fails), the scheduler's loop goes on, time passes; the query of due users and a cleanup succeed now and then. Triggers, edits and
  restarts cease (they are bounded): triggers that never cease could bring the row of an unbound user back after every cleanup.
- `Connection`: time passes, the sweep comes back (it is a loop around a sleep), and a send ends, since TCP gives up on a dead peer. No connection is ever made and no answer ever comes if the environment does not want to.
- `ApiClient`: each request takes its steps, and one of them is always possible: HTTP requests have timeouts, and so has the wait for the bucket. The refill, the expiry of a token and a reload owe nothing.
- `IrcClient`: the client's own steps (dial, read, time out, sleep) and the bridge; the server owes nothing.
- `Shutdown`: tasks are scheduled and timers fire; no task has to finish its work, no message has to come. That frames come
  (OneBot sends heartbeats) is assumed in the statement only: without frames, a connection loop that missed
  the notification waits until the connection closes.
- `Queries`: a handler goes on, and a shared request ends (weak fairness of `Works` and `Land`): all that they await has a timeout. No message has to come.
- `FileCache`: each load goes on; fetches and writes may fail. Nobody has to give up and no cleaner has to come.
- `Rendering`: the blocking thread goes on (tokio runs its blocking pool). Nothing forces a handler: what ends is the thread, so that the lock is free for the next picture.

## 6. Proofs

Proved by TLAPS for every value of the constants that satisfies the assumptions of the modules: nulls are no values; the
databases a run starts with have bindings one to one; bounds are naturals; a match and a chat exist; the tasks of `HotReload`, the handlers of
`MatchListener` and of `CommandDispatch` are finitely many, as are timeouts; plugins are listed once each, and the tick loop is no handler; delays, windows and the margin of the sweep are not zero, and
the window is at most the idle time, which is at most the time between sweeps (3 s, 30 s, 60 s in the code). `Answers` assumes besides that a command has its fields and names a player or a
QQ, asks for one score at least, that images and beatmaps are different files (they have directories of their own), that a map is converted to two keys or more (section 7 says what one key does) and its objects lie to the right of zero
and run their path at least once. No limit or delay is fixed by a proof; the size of a page of best scores is the one definition (`PageSize`) that stands for a number of the code, and the proof needs of it only that it is not zero.
A theorem about an algorithm has hypotheses instead: they describe its inputs and stand in its statement.

- **MatchListenerProofs.** `TypeCorrect`, then `NothingIsSkipped`. `NothingSkipped` is not inductive: a job writes a cursor it computed long ago.
  `SafetyInv` adds that each job's acknowledged cursor (`ack`) stands behind settled events only, that its final cursor (`out`) needs, beyond
  those, exactly its remaining notifications (`todo`), and that a pending game directly follows its cursor. That what a chat was told only grows makes these facts
  stable while other actors change the row.
  On top of these, `TellingInv`: a pending game was announced, in the row, in the copy and in both cursors of a job
  unless its start is still on the list; what is on the list lies behind the acknowledged cursor; a job that saw the disband event still has it on its list or has told it.
  `RepeatInv`: as long as no failure excused a repetition, all that was told lies in front of the cursor the next poll begins at; no job outlives its
  cycle; a row that never was has told nothing. From both follow `PendingGamesAreAnnounced` and `ChatsAreTold`, and
  `ListenerImplementsFeed`: each action maps to a move of `ChatFeed` or to a stutter, the step of a delivery that is told twice included. `OvershootIsBounded` is
  independent: `QuotaInv` counts the active listeners of a chat together with the handlers past their check, all but one of which may be beyond the limit.
- **RequestDedupProofs.** `TypeCorrect`, `MapStaysLive`, `WaitersAreServed`, their conjunction `EntriesAreAttended` (the property of the run), `SingleExecution`. The
  invariant adds the protocol of an entry: allocated, claimed by one
  creator, in the map until its creator removes it, run, closed; an open entry has somebody who will close it, and a run that
  nobody awaits belongs to a dropped creator. `SharedAnswers`: what a caller gets was computed for its key by a run that ended after it asked;
  `AnswerInv` says so of the entries and of the callers that hold them, since an address may be reused.
- **HotReloadProofs.** `CountInv`: `in_flight` is exactly the number of tasks between their increment and their decrement, the tick among
  them, and a manager taken out for a reload exists. `DrainInv`: once a drain has seen zero, each task at work began after `drain` was
  set and looked late (`SwitchFindsLateTasksOnly`). `FitInv`: managers in each place were made for the connection or an earlier one, and what a task holds fits (`ReloadStaysConsistent`).
  `EditsAreRead` needs none of these.
- **NetworkProofs.** `OneTokenIsShared`: the call that asks for a token holds the lock, finds the cache empty and the credentials unchanged until it stores.
  `CallersInTimeAreSpared`: no age runs past its timer, so a call that waits is younger than the sweep's limit whatever the
  timeout was when it began. `DelayIsCounted`: the delay is the power of two of the failures in a row, cut at the maximum, which need not be a power.
  `BurstsAreBounded`: a sum over the user's handlers. Commands within a window are those still counted and those whose handlers looked before they were;
  since times are in order, the windows that begin at each of them are suffixes, and one count per suffix is kept.
- **AccountsProofs.** `TypeCorrect`, `OneQqForEachUser`, `BindingsArePermitted`. What the invariants lack is that a handler about to bind (`bind`, `verify`) already has
  the permission for the QQ and user it holds (`Permitted`; at `adopt`, the answer of the other bot); a handler's fields are set where its step needs them (`Sound`). One lemma per kind of step.
- **PluginSlotsProofs.** First the data. `MembersInOrder`: `InOrder` lists each member of a finite set once, by its rank; from it follow `retain`, the stable
  sort and the old and new numbers of compaction. Then one lemma per function of the host says what it does to slots, lists and ticks. Loops over plugins (adds, reloads) are recursive functions;
  `Recursion` shows that they take the steps one expects, and `UpTo` carries a fact about the first k plugins to the next. The lists of a manager in the middle of a
  reload need not speak of its empty slots (`Sound`), while those of one at rest speak of all of them (`Whole`).
  Then the system. `SlotsInv` has two parts. `Always` holds whatever happens: the manager is whole, and a due tick keeps its owner as long as its id is registered.
  `Tidy` holds until a reload or a shutdown meets an instance at work or adrift (`slipped`): each instance sits in its own slot, is at work for exactly one task, which will bring it back
  there unless it is dropped, or is adrift and in no slot; an empty slot with no error counted and nobody at work is `abandoned`; and while the manager is away nothing is at work. So `compact` may move slots (`ReloadedAllClean`), and `ReloadedAllRuns` says what they run.
- **AnswersProofs.** Only one part moves in a step (`OnePartMoves`), so each part has an invariant of its own.
  Pictures (`PictureInv`): a picture of a score or a match that is queued or in work is for a handler that still waits or has set its cancel flag, and who loads has no picture yet. Files (`CacheInv`): an address has a lock as long as somebody
  is at it, its holder is the one caller that fetches, and who waits finds the file; only a failure makes a second fetch (`ImagesAreFetchedOnce`).
  Queries: `BoundOnce` holds of the bindings whatever upstream bots answer, because a name is bound only while nobody has it. `QueryInv` says what a handler holds at each of its steps: the request it
  waits for is one it would have made, an answer was computed for the key it waits at, and the list it selects from is the answer to its own request.
  The keys of the tables tell apart every two requests whose answers differ (`SharedAnswersFit`), and the map a chat remembers is one that the command meant when it came (`ChatsRememberTheirMaps`).
  Matches: nothing is invariant but the form of the log; `PagesAreProcessedAlways` is about any log. The loop is a recursive function (`LoopSteps`), and after k events it has told what the closed form
  tells of the first k (`ClosedFormFollows`). From a failed notification on, a second page tells what was left (`ResumesFollows`).
  Notes (`LanesInv`, `NoteInv`): lanes are lanes of the map, and with eight lanes the object before never took all that may be drawn from; so a draw finds a free lane. A long note leaves its
  lane to no other before it ends, since all the notes of one object are made together. That a draw fails only where lanes do not suffice is part of the invariant.
  Scores, for every input: conditions and their opposites; the rows shown, by recursion over the scores in whatever order pp is computed; grades, by comparing for each mode
  the counts before and after one judgement is traded (a cut is a multiplication, so no fraction is rounded), where of the two names of a 100 one is used; what is told and filled in, one lemma
  per request, each of which does nothing the second time. Best scores: a list that grows by insertions moves a score of place i to one that is not before i and is followed by at least as many
  (`GrownIsMoved`); after each page, every old score at a place already read has been seen (`PagesInv`), though it was read from another list. Covers: members of 1..n in their order stand
  no later than their own number (`PlacesInOrder`).
- **NumberLemmas.** Induction is done by the smallest counterexample (`SmallestOf`, from the well-foundedness of the numbers; `UpTo`), and `PowersOfTwo` by the number of subsets. `Recursion`: a function defined
  by steps on 0..n exists. `MembersInOrder`: `InOrder` lists each member of a finite set once, by its rank.

The type invariants of `MatchListener`, `RequestDedup` and `Accounts` are proved and no longer part of a run. Only model-checked:

- liveness and what needs fairness (`EventsAreConsumed`, `EveryRequestEnds`, `ReloadsEnd`, `ScheduleFollowsBindings`, `EverybodyIsAnswered`, `EverythingEnds`), which is out of the prover's reach;
- `CommandsAreCoherent`, `PressesMeetTheirNotes`, `FileIsReadInOrder`, `SegmentsArePlayable`, `ChartsAreSound`: their algorithms select from, sort and fold sequences
  with the operators of the community modules, which take operators as parameters; what such a fold computes of every input is an induction over data.
  (`Scores` and the listener's loop have theorems because they are written as functions on numbers, where `Recursion` and `UpTo` apply.)

`ScoresAreTold` is the conjunction, over the inputs of the run, of the six properties that `GradesAlwaysFollowPlay`, `NothingIsMissedBetweenPages`, `NothingIsLost`, `JudgementsAlwaysCount`,
`CoversAlwaysMoveUp` and `ShownRowsAreTheirs` prove of any input that meets their hypotheses; `FiltersAreOpposed` likewise of `ConditionsAreOpposed`.

## 7. Where code and words differ

Shown by a run (PROJECT.json, "findings"):

1. `listener_stale_write`: a poll under way when a listener is stopped and started again overwrites the cursor of the new listener
   (`poller.rs:421`; `storage.rs:2119` tests that a restart resets it). `NothingSkipped` still holds, only repetitions follow.
2. `dedup_once`: `dedup.rs:9` "execute only once": the guard of a dropped creator has no handle any more and does not stop its task (`dedup.rs:107`).
3. `reload_timeout`: `reload.rs:20` "forces the switch after the timeout": it does not, and leaves the bot draining (`reload.rs:217`).
4. `accounts_rebind`: `strings.rs:64` "you are bound, unbind first": two binds in flight, a verification over IRC (`main.rs:369`) or the answer of another bot
   (`main.rs:178`) replace a binding without an unbind, because the writer looks only for another QQ of the user (`storage.rs:430-432`).

Met while modelling, without a run of their own; the models do what the code does.

Listener, reload, plugins:

- Quota: `docs/commands.md:62` gives a fixed limit; `match_listen.rs:240` counts, awaits, inserts. `QuotaOvershootBounded` says by how much it is exceeded.
- The cursor passes the disband event before the listener is stopped, and a failure of that statement is ignored (`poller.rs:436`): the listener then stays active until it
  expires, since the event is never read again; `docs/commands.md:64` says listening stops.
- `reload_plugins` takes the plugin section from the configuration before the swap (`reload.rs:403`): plugins run the previous section
  until the next edit; `README.md:18` of the repository promises that plugins are reloaded with the file. When watching a new plugin directory fails, the old one is no longer watched either (`reload.rs:296`).
- The tick loop checks `drain`, then counts itself (`plugin_runtime.rs:235`); the comment above (223-225) says `wait_drain()` waits for ticks, which it does not for one in between.
- A manager taken out for a reload is put back after its connection ended (`reload.rs:416`), although `plugin_runtime.rs:354` says its life is that of the connection.
- `osubot.example.toml:103` and `lib.rs:62` "consecutive errors": no success resets the counter (`dispatch.rs:127-130`), only a reload does.
- `compact` (`osubot-plugin/src/reload.rs:538-542`) leaves the tick entries of removed slots that were empty; their number may later name another plugin. `PluginSlots` sets these apart (`orphans`).
- A slot whose instance was lost stays empty: after a timeout of the plugin until the threshold of errors is reached, which an empty slot no longer counts towards, and after the command timeout
  (`ws_loop.rs:413`, possible whenever `command_timeout_secs` is below the plugin's timeout) for ever; only an edit of the file brings it back. `README.md:22` of the repository and `osubot.example.toml:103` promise a reload after errors.
- A plugin that is at work is passed over by a second message (`dispatch.rs:67`): a command then goes to the next plugin that declares it, or to none.

Accounts:

- `strings.rs:65` one pending request per QQ: two commands interleave between `settings.rs:141` and `:169`.
- `docs/commands.md` "unbind needs a second confirmation": after an unbind and a new bind within the same five minutes, or two confirmations at once, the new binding goes without having been asked about.
- `scheduler.rs:252` "retry in 6 h instead of 48 h": a failed evaluation sets the next update to now (`scheduler.rs:168`), so it is retried at the next pass.
- `docs/scheduler.md` "reschedule_all takes effect at once" and triggers: a batch under way writes its own times over them (`scheduler.rs:163-172`); and it "waits" for quota of the osu! API: `try_acquire` returns at once.

Network:

- `README.md:20` and the comment at `command/mod.rs:312` say 5 commands in 3 s; the comparison admits 6, and handlers at work at the same time are admitted beside them (`BurstIsBounded` says how many).
- `onebot.rs:48` says the sweep never cancels a caller that waits: it does when the send itself took the margin, or a reload has shortened the timeout. `SweepSparesCallers` says what holds.
- The delay of a reconnect is doubled in `next_reconnect_delay` too (`ws_loop.rs:475`), which never sees a value above one, since a connection resets it. `clear_current_write` leaves nothing for `current_write.replace` to find.
- A 401 of the osu! API itself is classified as an invalid response, so `retry_on_401` only reacts to the token endpoint (`oauth.rs`): a revoked token is used until it expires locally. A failed refresh invalidates whatever token is there by then.
- One permit of the limiter is taken for a call of up to 5 requests and 30 refreshes (`http.rs`). The ten seconds of `acquire` start again with each notification, and latecomers may pass (`rate_limiter.rs:120`).
- The delay of the IRC client grows with each disconnect and no connection resets it (`irc.rs:66-87`), only a restart. A line half read at a timeout is lost (`irc.rs:127-131`); codes are dropped while there is no WebSocket; the line being sent is lost at a restart (`reload.rs:447-479`).
- `shutdown.rs:1` says there is no race; between the look at the flag and the wait (`shutdown.rs:14`) a notification is lost, and the task ends only at its next event.

Commands, queries, scores:

- `!ps 5 #2-3` and `!ps 2-3 5` ask for more than the range holds: the subtraction at `score_query/mod.rs:1140` goes below zero.
- `+HD,pp>500` drops mods and conditions silently; numbers and names after a condition are ignored; `#N name` loses both; `!ml start 123` is not accepted; `!mode garbage` is no mode; a filter with a mod twice compares lengths.
- A command that names a user and mentions another runs in the mentioned one's mode (`command/mod.rs:38` says otherwise).
- Error texts of shared requests name the QQ of the handler that ran them (`main.rs:103` and `score_query/mod.rs:428` differ; `main.rs:252`, `query.rs:128`, `utility.rs:243`). "Send failed" of an audio may only mean that the confirmation was lost (`audio.rs:42`).
- The chat remembers the first score of the list (`score_query/mod.rs:1027`), also when another is shown; `docs/commands.md:98`.
- `get_user_best` pages by offset while the list may change: a new score puts one into two pages. `ScoresAreTold` says what still holds.
- A play with nothing hit that counts as passed gets an X with accuracy 0 in `stable_grade.rs`; it prefers `count_100` to `ok`, `score_convert.rs` the reverse, which also counts a mania `ok` twice when `katu` is 0 (`score_convert.rs:212-232`); `ScoresAreTold` leaves these plays out. Perfect counts among the hidden mods.
- A card of a list shows the cover of a later score when one before it could not be loaded (`osubot-render/src/lib.rs:656-692`); the comment at 557 says "the cover of each score", and
  `score_query/render.rs:224` passes one place per score. `ScoresAreTold` excuses this and holds of what remains: never an earlier cover, none twice.
- `ur.rs` takes the first frame for an offset when it is outside 0..10000 and adds its absolute value, which is wrong for a larger one.

Files and pictures:

- The guard of a fetch removes the entry of its URL while others queue at it: a third caller fetches at the same time (`osubot-render/src/cache.rs:190`). Images are served from empty or torn files; the path of a beatmap is returned although it could not be written; callers with different
  statuses delete each other's file, and statuses that are not cached leave files behind.
- `cleanup_dir` goes on when the directory cannot be read (`osubot-core/src/cache.rs`).
- Lists and profiles have no cancel flag their handlers could set; the outer timeout of a list equals the inner one. Previews are painted without lock or flag.

Previews:

- The parser keeps timing points with a positive beat length only (`parser.rs:237-239`), so green lines never count and no preview has a slider velocity other than 1; `mania/gif.rs:59` and `:285` are written for them.
- The conversion to 4 keys fails above a difficulty of 6.5 (`circle.rs:248`); to 1 key it fails or leaves the range; with 8 columns `random_multiple` may put two notes on one place; a negative x gives a negative lane.
- Timing points at most half a millisecond after 0 are skipped by both loops over taiko points. Labels are only compared with the line before. A forced segment may overlap one that was asked for.
- The taiko gif takes a red point for the velocity 1, while the conversion adds a point only where the velocity changes (`taiko_conv.rs:215-277`): a slider of the same velocity after a red point scrolls too slow.
- A hold that ends exactly at the end of a column leaves a stub in the next (`png.rs:349-407`); notes before the start of the chart are drawn off the canvas.

## 8. Not modelled

- Message texts, cards, templates and styles, drawing, slider curves, the standard and catch previews: layout and floating point.
- Numbers of libraries: pp and stars (`rosu_pp`), map attributes under mods, highlights of a group (`highlight.rs` is a sum of weighted numbers).
- `Config::validate` and group filters: checks of single values without state. The default mode command: one independent row.
- The HTTP services of the upstream bots (`xfs_upstream.rs`, `yumu_upstream.rs`): the chain finds a player or not.
- HTTP, WebSocket framing, SQLite itself and wasm: libraries. Statements are atomic, connections are independent, transactions are serial.
- `on_unload` hooks and what a plugin computes.
- A text is modelled from its tokens on: how characters are split into them is not.
- The hazard of `reload.rs:416` has no property, since the code does what the properties of `HotReload` would have to forbid (section 7).
