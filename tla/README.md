# Verification of the Feral File device software

TLA+ models of the services that run on a Feral File device (FF1, FF-X1), checked by TLC
on small instances and, for their main invariants, proved by TLAPS for every instance.
Paths are relative to the repository; `components/` is left out of the paths below where
the daemon is named.

## 1. The system

A device shows digital art in a Chromium kiosk. Five daemons and a set of scripts keep it
on the air; they share the system D-Bus and Chromium's debugging port (CDP).

| component | state it keeps | operations | talks to |
|---|---|---|---|
| **feral-connectd** relayer client (`relayer/relayer.go`) | the socket to the relay server, `done`, `pingDoneChan`, the handlers, one mutex | Connect, RetryableConnect, Send, SendNotification, Close, a reader and a pinger goroutine per connection | relay server |
| connectd pairing (`dbus/dbus.go`, `state/state.go`) | topic in memory and in a state file | GetRelayerTopicID: register a handler, connect, wait for the system message, save | setupd, relayer |
| connectd mediator and commands (`mediator`, `command`) | last system metrics, cursor and screen initialisation flags | forward a command to the page or execute it | relayer, CDP, setupd |
| connectd status poller (`status/`) | a hash per notification type, a refresh queue of ten | poll every 10 s, notify on change | CDP, relayer |
| connectd CDP client (`cdp/cdp.go`) | one websocket, a request counter | Init, Send, Close | Chromium |
| **feral-watchdog** Chromium monitor (`chromium.go`) | time of the last good answer, restart history | check every 5 s; restart the kiosk; reboot | Chromium, commands |
| watchdog memory, disk, temperature (`ram.go`, `disk.go`, `cpu.go`) | start of a high reading, cooldowns, last restart, "cleaned" | handle a metrics sample: restart, clean, notify, reboot | sys-monitord, CDP, commands |
| watchdog GPU handler (`gpu.go`) | a scheduled reboot and its timer | hang schedules, recovery cancels, the timer reboots | sys-monitord, commands |
| watchdog commands (`commands.go`) | a mutex, two "running" flags | restartKiosk, rebootSystem, cleanupPacmanCache | systemd, pacman |
| **feral-sys-monitord** connectivity (`connectivity.go`) | the last answer, `doneChan` | poll every 30 s or 3 s, report a change | connectd |
| sys-monitord events and metrics (`event.go`, `metric/`) | the last sample | journal lines to GPU signals; a sample every 2 s | watchdog, connectd |
| **feral-setupd** pages (`main.rs`) | the page it believes is shown, `auto_proceed` | first start, wifi set-up over BLE, QR code, update, factory reset | BLE, CDP, connectd |
| setupd helpers (`wifi_utils.rs`, `connectivity.rs`, `updater.rs`, `cache.rs`) | scan cache, cached connectivity, remote version, key=value file | refresh, wait, tail the updater's log, save | nmcli, systemd |
| **feral-app-monitord** | none that outlives a heartbeat | sign and send a heartbeat | heartbeat server |
| image scripts (`archiso-radxa-x4/airootfs`) | boot state, snapshots, locks | update, factory reset, rollback | systemd, btrfs |
| launcher app, web pages, distribution worker, benchmarks, installers | - | user interface, downloads, measurement | - |

The behaviours that are hard, and what each component owes:

* **relayer** - main, a connectivity signal, a pairing call and a reader that lost its link may
  all dial; links die silently; contexts of finished calls live on in goroutines. Correct:
  one socket and one reader for it, every drop seen and repaired, no write lost to a reconnect.
* **status, commands, CDP client** - handlers in goroutines of their own share one socket, one
  orientation file and one cursor without a lock. Correct: an answer belongs to its request, a
  change is followed by a poll, what is saved is what is shown once the overlap is over.
* **pairing** - the topic arrives in a goroutine of its own while the call registers, times out
  or fails to save. Correct: an answered topic is on disk and no handler outlives its call.
* **watchdog** - commands take long and block the handlers, the reading that triggered them is
  old by then, reboots may fail. Correct: pressure is acted on in time and escalated, restarts
  and reboots are spaced and earned, commands exclude one another and always return.
* **sys-monitord** - a watcher restarts itself on every change, an event passes three goroutines,
  readers of one round fail one by one. Correct: the settled network is recorded, no event and no
  reading is lost on the way, no channel is closed under a goroutine that sends on it.
* **setupd** - several tasks navigate one screen and save one file; a waiter can miss a wake-up.
  Correct: a page that is not shown again is shown already, a saved topic stays, commands end.
* **scripts** - a power cut between any two steps. Correct: the device boots, old or new.

`PROJECT.json` lists each component with its status and each hazard at its line.

## 2. Modules

    Session            what the relayer promises: one attended session at a time
    Relayer            relayer.go and its callers: connections, readers, pingers, shutdown;
                         implements Session
      RelayerWrites      EXTENDS Relayer: Send and SendNotification on the shared socket
      RelayerProofs      the inductive invariants of both and their theorems, the refinement
                         among them
    TopicCall          dbus.go, state.go, the handler list and dispatch of relayer.go
      TopicCallProofs    its types, that an answered topic is on disk, that no handler is
                         left behind, that a call is heard
    PageCalls          what callers of connectd's CDP client are promised: atomic calls
    CDPClient          cdp.go and the page it talks to; implements PageCalls
      StatusPoller       EXTENDS CDPClient: status.go, device_status.go
      Player             EXTENDS StatusPoller: mediator.go, command.go; PlayerProofs
    Monitord           main.go and mediator.go of sys-monitord: the context, the registration
      Connectivity       EXTENDS Monitord: connectivity.go
      EventWatcher       EXTENDS Monitord: event.go
      MetricSampler      EXTENDS Monitord: metric/metric.go
      SysMonitord        the three side by side; SysMonitordProofs
    Setup              setupd: main.rs, cdp.rs, cache.rs, the version check of updater.rs
    SSIDsCacher        setupd: the wifi names of wifi_utils.rs; SetupProofs (both)
    ChromiumMonitor    chromium.go; ChromiumMonitorProofs
    MetricsMonitor     ram.go, disk.go, cpu.go behind ProcessMetrics; MetricsMonitorProofs
    Commands           commands.go: the mutex and flags, as actions of a caller
      GPUHandler         EXTENDS Commands: gpu.go and the other callers; GPUHandlerProofs
    MC*                instances for TLC

**Relayer.** A connection `c` stands for a socket, its reader goroutine (thread `c`) and its
pinger; a name is used again once all three are gone, so runs hold any number of sessions with
two names. `pc[t]` is where a thread is in Connect, RetryableConnect or `background`: `connect`
(about to take the mutex), `dial` (mutex held), `pinger` and `reader` (unlocked, starting the
goroutines), `sleep` (between retries), `wait` (returned); a reader is at `top` (select), `enter`
(copies `conn` under the mutex), `read`, `fail`. The mutex is held over more than one step only
while dialling and between a ping and its read deadline. `link` is `silent` when the peer is gone
and the socket will never say so. A failed call cancels its context, `ctx[c]` is the context a
connection inherited; one dialled for the connectivity signal runs under `context.Background()`, which
SIGTERM does not cancel (`main.go:281`, `:307`). The pong deadline is armed after the ping is written, as in the code, so a
fast pong may come first and the deadline then expires on a live link. `ReaderFails` and the
redial that follows cover it.

**RelayerWrites** adds the writes: `Send` holds the mutex, `SendNotification` asks under it and
writes without it.

**TopicCall** is the other half of `relayer.go`, the handlers, with `GetRelayerTopicID`. A call is
`register` (about to add its handler), `connect` (in RetryableConnect) or `wait` (its select); its
name is used again once nothing refers to it. `view` is what the reader's `range` over `r.handlers`
has yet to visit: `RemoveRelayerMessage` shifts the entries of the array under it, so a handler may
be skipped or run twice, and it compares the addresses of the handlers' code, the same for all calls,
so it removes the first call's. Each visit starts a goroutine (`task[g]`), which is `start` (may be
cut off by its context), `save` (the topic is in the shared `State`, not yet on disk), `remove`
(doneChan closed) or `err` (blocked on `errChan` until its call returns). The connection is kept only as
`owner`, the context it runs under; everything else about it is in Relayer. `memory` and `file` are the
topic in the shared State and on disk; `Restart` loads the one from the other. `crowded` and `told` are
history variables. The connect command of the app saves the same State (`CommandSaves`).

Behaviours of the code this shows, which no property calls wrong: of two overlapping calls one
removes the other's handler, and a late handler of a call that timed out removes the next call's, so
the victim waits for its deadline (hence `crowded` in `HearsTopic`); a call that looked for the topic
just before another's handler saved it waits although the topic is known. Calls do overlap: setupd
gives up after 31 s and asks again, while connectd's call may be retrying its dial past its own 30 s.

**CDPClient, PageCalls.** `at[c]` is where goroutine `c` is in `Send`: `call` (about to look at `conn`
under the mutex), `ready` (it has seen a connection and let go of the mutex), `written` (the mutex is held
until one reply is read), `returned`. Requests are on their way to the page in `asked`, replies in
`answers`. The page answers, throws, or is refused by Chromium; `Page!Spec` with `calls` read off `at` and
`answers` says that a call takes effect once, between its start and its return, and returns its own answer.
Nothing compares the ids of replies, so this rests on the mutex alone. Close is main's deferred call: it is
reached once the context is cancelled (`CloseRuns`) or when the start-up fails before the poller is set
(`RunFails`, `main.go:186-209`); a Send between its two looks at `conn` then panics.

**StatusPoller.** `poll` is where the goroutine is in its loop; both polls, their errors, `hash` (recorded
first) and `told` (what was written to the relay server). `SendNotification` is two steps, as in the code: a look at the
connection under the relayer's mutex (`TellsPlayer`, `TellsDevice`), then a use of it without the mutex,
which writes, fails, or meets the nil pointer a reconnect has left in between (`NotifyPanics`: the process
ends). `queue` is refreshChan; a full one drops the
request. `unreported` and `unread` are history: whose change no poll has looked at since.

**Player.** The handlers. `pc[h]` is where a goroutine is in `handleRelayerMessage`, `handleDBusSignal` or
a command. Rotations read the orientation (`file`), apply it, empty the file, write it; pointer commands
measure the page unless it is known, then move one coordinate: read, add, clamp, store are separate steps,
as nothing locks them. `crossed` marks commands that ran beside another of their kind, `drifted` and
`strayed` that none has run alone since: what the code cannot promise then is not asked of it, what the
next command alone restores is.

**Connectivity, EventWatcher, MetricSampler.** One goroutine each and those it starts. The restart after a
change is two steps, as it takes no lock: `open` is the channel in doneChan, and a notifier that runs
between them drops its report. In EventWatcher a line goes from the scanning goroutine (`scan`) over an
unbuffered channel to the watcher and on to a notifier (`events`). In MetricSampler each ticker runs its
readers one after the other (`turn`), each may fail, find nothing or read; the sample is shared and sent as
it is by then.

**Setup.** Each BLE command, each D-Bus signal and the start-up is a task; `task[t]` is where it is, the
page it wants and where it goes on. All navigations are the same three steps under the same two mutexes
(`pageBy`, `socketBy`), in the two orders main.rs has. `wire` is what Chromium has been sent and not done
yet: after a time-out the navigation may still come, so `stale` holds until the next one is answered. A
save is three steps over a file that crossed saves may garble; `torn` says that the last saves crossed,
failed or were cut. `excused` are the tasks that asked for the versions at once: the second
`OnceLock::set` is unwrapped. A restart may come at any step, and never after a garbled file.

**SSIDsCacher.** `get[r]` is a request: `look` (with the lock), `gap` (the lock let go, not yet waiting),
`wait`. `scan[s]` is a refresh task; `missed` are requests whose wake-up came in their gap.

**ChromiumMonitor.** Time is a tick; moments the code remembers are ages. A check, a restart and a
reboot are steps of the one goroutine; a command takes up to `CommandTime`, a reboot may fail.

**MetricsMonitor.** `at` is where `ProcessMetrics` is: one of the handlers, the command that
handler runs, or the notification. A sample that arrives while `at # "idle"` is dropped, as
`isProcessingMetrics` does. sys-monitord sends every 2 s and a tick is 5 s; one sample per tick is
enough since every threshold is a multiple of a tick and only the age of a reading is compared.

**Commands, GPUHandler.** Every caller (a signal's goroutine, a timer's callback, another monitor) has
an `op`, the command it is in and where in it, and runs the bodies of `commands.go` step by step with
the command mutex; the kiosk restart and the cleanup are the same protocol, each with its own flag
(`flags`); the GPU handler's own mutex is never held over a command or over two steps, so each of its
critical sections is one action. A timer that has fired cannot be stopped any more, so a cancellation
may come too late. A timer name is reused once its callback has returned.

## 3. Runs

| run | question | bounds |
|---|---|---|
| `relayer` | does it implement Session: one socket, one reader; ping channels in order; writes | 2 connections, main and 1 signal and 1 pairing call, or main and 1 sender and 1 notifier; both dial errors, SIGTERM |
| `relayer_live` | half-open links noticed, lost links replaced | 2 connections, main, transient errors |
| `topic_call` | no handler outlives its call, an answered topic is on disk, a call is heard | 2 overlapping calls, 2 handlers running at once, 1 topic |
| `player` | Send is atomic, changes are polled, rotations and cursor come right, only a notification panics in service | 2 handlers and the poller, 2 works, a queue of 1, 6 mixes |
| `sys_monitord` | rate and life of the watcher, no event or reading lost, no panic | 2 targets, 2 tickers, one watcher moving |
| `setup` | recorded page shown, saved topic kept, panics excused, wake-ups, every command ends | main and 2 commands, 1 navigation under way, 2 requests and 2 scans, 7 mixes |
| `chromium` | spaced restarts, earned reboot, escalation | thresholds 2, 4, 24 ticks, 3 restarts, commands up to 4 ticks |
| `metrics` | memory acted on in nine ticks, spacing, escalation | thresholds of the code in ticks of 5 s, reboot window 9 instead of 12 |
| `gpu` | schedule and timer agree, commands exclude, calls return | 2 signals, 2 timers, 1 other monitor, delay 2 |
| `relayer_listening` | (violated) a failed call closes the relayer for good | 2 connections, main, 1 signal, 1 pairing call |
| `connectivity_lost` | (violated) a change is recorded and its report dropped | as `sys_monitord` |
| `status_lost` | (violated) a status is recorded as told and never was | as `player` |

*Why the bounds are enough.* The relayer keeps one connection and what it forgets about an earlier
one is what could go wrong: two names, reused, give every overlap of an old and a new generation.
Signals and calls differ only in their contexts, one of each suffices for their races with main and
with a reconnecting reader. In a behaviour of `relayer` either they run beside main or the writers do: what
writers race with, a reconnect and a Close, main and its readers do as well. Connections are a symmetry set
in the safety runs of the relayer. In `topic_call` two
calls give every overlap of one with another or with what another left behind, as names are reused without
limit; two goroutines are a handler of each, or two of one call, and the dispatch of a third waits for a
free one; with one topic the order in which two topics are saved is left out (whether the server ever sends
two is not visible here).

`player` and `setup` would be too large with every kind of command meeting every other. In each behaviour
the commands are those of one *mix*, fixed at the start; commands that share state are together in one:
two forwarded commands and the poller; a forwarded command with link failures; rotation and poller; two
rotations; pointer commands and a rotation; keys, signals and a forwarded command under a cancelled
context or a start-up that fails. A queue of one is full after one request, as ten would be after ten. In `setup`: one wifi command
against the start-up; a command or the start-up alone with restarts; two commands that save and check
versions at once; a command and a factory reset; greetings, page switches and the start-up; requests for
wifi names. A command may come `most` times in a behaviour, and one navigation may outlive its time-out
(`MaxWire`). Crossed saves and restarts meet in no mix. The theorems of section 5 have no mixes and no such
bounds: they are about `Player` and `Setup` as they stand. The watchers of sys-monitord share only the
context and the mediator, hence one of them moves at a time in `sys_monitord`.

The Chromium window is six thresholds long and holds the three restarts even when each takes the longest
command. `Escalates` needs `2 * (HangThreshold + CheckInterval + CommandTime) <= Window` (the code: 20, 5
and 300 s). In `metrics` the reboot window is shortened to nine ticks, still longer than a cooldown, a
monitoring period and the longest commands between them. Two GPU signals and two timers give a stale
callback beside a new schedule. Deadlock is checked in `chromium`, `metrics` and `topic_call`; connectd,
sys-monitord, setupd and the GPU model end with their process, so there it is not (`FlowsEnd`, `SamplerSends`
and `CallsReturn` say what must not get stuck).

Every property has a mutant in `PROJECT.json`: a plausible mistake in the code, next to the
definition it changes, that the property catches.

## 4. Fairness

* Relayer: a goroutine that can run does (weak); a `Lock` that is waited for is granted in turn
  (strong: `sync.Mutex` is starvation free); timers and tickers fire; a dial ends, by the dialer's
  handshake timeout. That dials succeed again is assumed of the network (`ServerReachable`) and only
  in `relayer_live`: `LostIsReplaced` asks that a name for a new connection is free again and again, the
  bound on names and no property of the code. Nothing is assumed of link failures, signals, calls or SIGTERM.
* Watchdog: its tickers fire, its goroutines run, and an external command ends (`CommandTime`).
  `Escalates`, `MemoryEscalates` and `DiskEscalates` assume nothing of the browser or the readings:
  the condition is in the property. `metrics` restricts the page to one that answers (`Pages`): with one
  that does not, `ActedOnInTime` fails (section 6).
* sys-monitord: the polling goroutine, the tickers and the notifiers run (weak). Nothing is assumed of the
  network (`Settles` has it in its premise), of readers' results, or of SIGTERM.
* setupd: every task that can step does (weak), Chromium performs what it was sent, or the three seconds
  pass; tokio's mutexes are first in, first out, so a task that waits for one gets it (strong). Waiting for
  the internet and following the updater's log may last for ever, and `FlowsEnd` counts them as ends.
* GPU: callers that can step do; the mutexes are granted in turn; the clock goes on while a timer is
  armed.

## 5. Proofs

`tlapm` checks these for every value of the constants that meets the `ASSUME`s (sets of threads are
disjoint, durations are naturals with the order the code's constants have).

* **Relayer** (`RelayerProofs`). The safety invariants are not inductive: what a thread between the
  dial and the start of the goroutines may rely on, who holds the mutex and which reader may be in its
  loop is the strengthening `IInv`. From it: `TypeCorrect`, `ReaderIsCurrent`, `SocketsAreClosed`,
  `ConnectedListens`, `PingChannels`, and the action property `OnlyItsReaderDrops`. The argument: until
  `done`, a connection leaves `conn` only by its own reader's `reconnect`, so at most one reader is in
  its loop and dialling with `conn = Nil` under the mutex cannot overwrite anything. `SessionKept` is
  the refinement: every step of every goroutine is a step of `Session` or none.
* **RelayerWrites** (`RelayerProofs`). `IInv` asks of the mutex only what the thread relies on that dials or
  pings, so a writer keeps it; a relayer step beside a writer leaves the writer's mutex alone
  (`OthersRespectLock`). `WriteInv` adds that Send holds the mutex for the connection it writes to.
  From it: `SendIsNotCutOff`, `WritersExclude`, `WritersDisturbNothing` (what holds of the relayer holds
  beside the writers), `SessionKeptBesideWrites` (the refinement once more), and `MutexIsGivenBack`: while
  the mutex is held somebody dials, pings or sends, and can only go on by giving it back, so nobody returns
  with it. How soon that happens is not part of it.
* **TopicCall** (`TopicCallProofs`). `TypeCorrect`, whose substance is that removing an entry from the
  list, and from under the reader's range, leaves lists of handlers. `AnsweredTopicIsSaved`: a handler
  that saves has put a topic into memory, doneChan is closed only once a topic is on disk, and memory is
  never behind the file, so no other writer of the file (another handler, the connect command) takes it away.
  `HandlersAreTakenOff` counts. Which call's handler a removal takes does not matter, only that a call that
  ends has taken one off: `LeftInv` says that finitely many calls wait, and that there are no more entries
  than those. `UncrowdedCallHears`: as long as a call has met no other (`AloneInv`), every entry, handler and
  dial is its own. What an earlier, crowded call left behind is the difficulty, and that `LeftInv` excludes:
  the list is empty of calls whenever none waits.
* **ChromiumMonitor**. The strengthening relates the history to the hang clock: a restart resets the
  clock, so two entries are a threshold apart; a reboot is decided only on a history within the window.
* **MetricsMonitor**. The cooldown and the monitoring period are ages; `IInv` bounds what has
  passed since the restart by their sum (`MemoryRebootIsSpaced`, `DiskRebootIsEarned`). `MemoryIsActedOn`
  has hypotheses, `Prompt`: the page answers, the two durations are positive, and `ActionDeadline` exceeds a
  cooldown, a monitoring period and two longest commands. `TimelyInv` bounds `untreated` in each stage: in
  the cooldown, before monitoring (a cleanup may hold it up), while monitoring, after it (another cleanup).
  The bound is tight: TLC finds a behaviour that reaches it. `RestartsDoNotLoop`: if the reboot window is
  longer than that, the kiosk is not restarted again for memory that stayed high since the last
  restart. With the durations of `ram.go` this asks that cleaning the disk takes less than 20 s, which nothing
  in the code ensures.
* **GPUHandler**. `Inductive` says who owns each mutex and flag; `OneAtATime`, `FlagHasOwner` and
  `ScheduleMatchesTimer` follow for any number of callers and timers.
* **SysMonitord**, with all three watchers moving at once. `RateIsRight`: nobody but an ending process leaves a
  waiting watcher with a closed doneChan. `NoPanicRunning`, `NoEventDropped`: an event is counted from the
  kernel log to the notifier, through the unbuffered channel.
* **Player**. `SendIsAtomic` is the refinement of `PageCalls`: the mutex leaves one request or one answer
  on the wire (`SendInv`). `ChangesAreSeen` follows each request of the page to a poll that begins after it
  (`AskInv`, `ChangeInv`), `ScreenStaysSaved` and `CursorStaysOnScreen` say what a command that runs alone
  may rely on. `OnlyNotificationsPanic` says that a running connectd meets one nil pointer and no other: the
relayer's connection in a notification of the poller, while there is no connection. The CDP client's is taken
away only by a cancelled context or a start-up that fails (`ServiceInv`), so no command meets it in service.
* **Setup, SSIDsCacher** (`SetupProofs`). `RecordedPageIsShown`: who holds the two mutexes, and that what was
  sent last is the page its holder wants (`ShowInv`). `SavedTopicIsKept`: a save that meets no other has the
  file for itself. `OnlyExcusedPanic`, `WaitingHasRefresh`, and `MutexesDoNotLock`: the two mutexes are taken
  in two orders, and still nobody waits through more than one other.

Every invariant, every action property and both refinements of the passing runs are theorems. Only
model-checked are the liveness properties `HalfOpenIsDropped`, `LostIsReplaced`, `Escalates`,
`MemoryEscalates`, `DiskEscalates`, `HangIsActedOn`, `CallsReturn`, `WatcherSettles`, `SamplerSends` and
`FlowsEnd`: they rest on fairness, and the prover reasons about neither fairness nor `ENABLED`. Where it says
something on the way there, their safety half is proved (`MutexIsGivenBack`, `RestartsDoNotLoop`,
`MutexesDoNotLock`). `Player`, `Setup`, `Relayer` and `TopicCall` are proved without the mixes and bounds of
their instances.

## 6. What the checks found

* `relayer_listening`: the context of a failed pairing call closes the relayer; later connections are
  not read (`relayer.go:346`, `dbus.go:136`).
* `connectivity_lost`: a change of connectivity is recorded, and its report dropped by the restart that
  follows (`connectivity.go:113` against `:182`).
* `status_lost`: a status whose notification could not be sent counts as sent (`status.go:95`).

Behaviours the models have and no property calls wrong, worth a look by who maintains the code:

* connectd: `SendNotification` may dereference a connection that a reconnect has removed between its look
  at `relayer.go:497` and its use at `:522`, and the process ends. The models have it (`NotifyPanics`,
  `NotifyWrites`); `OnlyNotifyPanics` and `OnlyNotifyOverlaps` excuse it by name. A topic is in the shared state before its save, and answers later calls although the
  save failed (`dbus.go:104`, `mediator.go:168`). Crossed rotations leave screen and file apart, crossed
  moves leave the cursor off the screen, until one runs alone.
* watchdog: the temperature notification reads without a deadline and blocks memory and disk behind a hung
  page (`packages/cdp/cdp.go:231`).
* setupd: `auto_proceed` may be set after a wifi request cleared it, or be read before (`main.rs:180`).
  A request for wifi names may miss its wake-up and wait for another's refresh (`wifi_utils.rs:135`).
  Crossed saves may garble the cache so that setupd does not start again (`cache.rs:56`). Two requests for
  the versions at once end one of them in a panic (`updater.rs:202`). `factory_reset` reports success when
  the command fails, as only the join is looked at (`system.rs:10-33`). The updater's unit is started
  without waiting for it (`updater.rs:64` says it waits), and lines written before its log is opened are
  skipped, so the tail may not end (`updater.rs:87`).
* The first failed health check restarts the kiosk at once, as `lastSuccessfulResp` starts at zero
  (`chromium.go:44`; feral-watchdog/README.md:9 says 20 s); a body that cannot be read skips the hang
  check (`chromium.go:108`; README.md:8); the third restart is replaced by the reboot (README.md:10);
  the GPU reboot comes after a delay (`gpu.go:12`; README.md:18 says immediately); a failed first dial
  ends connectd (`main.go:206`).

## 7. Not modelled

* Reading sensors and parsing, logging and tracing, the wrappers and mocks, the user interfaces, the
  distribution worker and the installers: no state that the daemons share.
* app-monitord: one loop that keeps nothing between heartbeats; any failure ends the process.
* The systemd watchdog tickers: they run whatever the rest does.
* The scripts of update and factory reset: what survives a power cut is decided by btrfs, mkinitcpio and the
  boot loader, none of which is in the repository; a model would be about an invented file system.
* Of modelled components: the contents of messages, two dimensions of the pointer, the clamping of a single
  offset, the fields of the metrics sample that goroutines write without a lock, the age of setupd's
  connectivity answer, the stages of the updater's log, BLE and D-Bus framing, `Init` of connectd's CDP
  client. What two pairing topics in a row would do is left out, as whether the server sends two is not
  visible here; nor is a system message with an empty topic (`dbus.go:96-105`).
* Steps that are coarser than the code. A write to a socket ends, well or not: one blocked on the full
  buffer of a half-open link, with the relayer's mutex held (`relayer.go:430`, `:418`), is left out, and
  `HalfOpenIsDropped` and `MutexIsGivenBack` say nothing of it. Go's `append` may put a new handler into the
  slot that a removal has left behind the array a reader ranges over (`relayer.go:326`, `:335`, `:383`); the
  model leaves the range as it was. setupd's three seconds do not cover the write of a navigation
  (`cdp.rs:96`), in the model they do, which gives it behaviours more. The GPU callback looks at its context
  and takes the mutex in one action (`gpu.go:50-57`). Memory that rises is dated by the tick it is handled
  in, the code by the sample (`ram.go:75`), less than a tick before.
* What properties excuse. `HearsTopic` asks for calls that met no other, so a handler skipped or removed by
  another call's (`relayer.go:334`, `:383`) is not caught; `SavedTopicStays` excuses saves that crossed,
  failed or were cut (`torn`), `PanicsOnlyExcused` overlapping requests for the versions and failed saves
  (`excused`), and `WaitsForRefresh` a wake-up missed between the look and the wait (`missed`). The models
  have each of these, and sections 2 and 6 name them; the properties say that there are no others.
  `ActedOnInTime` is checked for a page that answers.

## 8. What is left

1. Liveness of `Player`: that every Send returns once Chromium answers or ends. It was tried with the mixes
   of `player` and takes longer than a run may; it needs an instance of its own with one handler.
2. The safety halves of the other liveness properties (`CallsReturn`, `WatcherSettles`) as theorems.
3. connectd's CDP `Init` and the watchdog's client as a second instance of CDPClient without the lock.
