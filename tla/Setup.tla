------------------------------- MODULE Setup -------------------------------
(***************************************************************************)
(* feral-setupd: the tasks that set the device up and decide what the      *)
(* screen shows (main.rs), over the CDP client (cdp.rs), the cache file    *)
(* (cache.rs) and the updater (updater.rs).  Each BLE command, each signal *)
(* of connectd and the start-up is a task; a task it spawns goes on in its *)
(* name, for it has nothing left to do but to answer.                      *)
(***************************************************************************)
EXTENDS Naturals, Sequences

CONSTANTS
  Tasks,    \* the tasks
  Main,     \* the one of the start-up
  Nil,
  MaxWire   \* bound of the model: navigations sent and not performed yet

ASSUME SetupAssumption == Main \in Tasks /\ Nil \notin Tasks /\ MaxWire \in Nat \ {0}

VARIABLES
  task,     \* where each task is, what page it wants, and where it goes then
  page,     \* the page recorded in AppState
  pageBy,   \* the task that holds its mutex
  socketBy, \* the task that holds the mutex of the CDP socket
  wire,     \* navigations Chromium has not performed yet
  replied,  \* the reply the holder of the socket waits for has come
  screen,   \* the page Chromium shows
  stale,    \* the last navigation was given up
  mem,      \* the keys in app_cache
  file,     \* the keys in its file
  text,     \* what a task is about to write to it
  saved,    \* a topic was saved
  torn,     \* the last saves crossed, failed, or were cut short
  versions, \* REMOTE_VERSIONS: whether an update is required
  excused,  \* tasks whose request for the versions met another, or whose save failed
  auto,     \* auto_proceed
  listening \* main has started to listen to connectd

taskVars == <<task>>
pageVars == <<page, pageBy, socketBy, wire, replied, screen, stale>>
cacheVars == <<mem, file, text, saved, torn>>
restVars == <<versions, excused, auto, listening>>
vars == <<task, pageVars, cacheVars, restVars>>

Kept == {"WebApp", "QRCode"}  \* shown with the mutex of the page held
Pages == Kept \cup {"None", "Message", "SystemUpgrade", "FactoryReset"}
Keys == {"topic", "connected"}
Garbled == "garbled"           \* a line of the file is no key and value

Places ==
  {"boot", "armed", "waiting", "load", "version", "fetch", "home", "relayer", "wifi", "webapp",
   "updater", "tail", "reset", "create", "snap", "flush", "success", "page", "socket", "sent",
   "record", "idle", "panicked"}

TypeOK ==
  /\ task \in [Tasks -> [at : Places, want : Pages, then : Places]]
  /\ page \in Pages  /\ screen \in Pages
  /\ pageBy \in Tasks \cup {Nil}  /\ socketBy \in Tasks \cup {Nil}
  /\ wire \in Seq(Pages)  /\ replied \in BOOLEAN  /\ stale \in BOOLEAN
  /\ mem \subseteq Keys  /\ file \subseteq Keys \cup {Garbled}
  /\ text \in [Tasks -> SUBSET Keys]  /\ saved \in BOOLEAN  /\ torn \in BOOLEAN
  /\ versions \in {"none", "current", "old"}
  /\ excused \subseteq Tasks  /\ auto \in BOOLEAN  /\ listening \in BOOLEAN

Doing(at, then) == [at |-> at, want |-> "None", then |-> then]
Idle == Doing("idle", "idle")

Init ==
  /\ task = [t \in Tasks |-> IF t = Main THEN Doing("boot", "idle") ELSE Idle]
  /\ page = "None"  /\ pageBy = Nil  /\ socketBy = Nil
  /\ wire = <<>>  /\ replied = FALSE  /\ screen = "None"  /\ stale = FALSE
  /\ file \in SUBSET Keys  /\ mem = file
  /\ text = [t \in Tasks |-> {}]  /\ saved = ("topic" \in file)  /\ torn = FALSE
  /\ versions = "none"  /\ excused = {}  /\ auto = FALSE  /\ listening = FALSE

At(t, place) == task[t].at = place
Goes(t, where) == task' = [task EXCEPT ![t] = where]

\* show_qrcode and show_webapp take the mutex first, the others navigate first.
Showing(p, then) == [at |-> IF p \in Kept THEN "page" ELSE "socket", want |-> p, then |-> then]
Shows(t, p, then) == Goes(t, Showing(p, then))

\* What a step does to nothing but its task.
Alone == UNCHANGED <<pageVars, cacheVars, restVars>>

-----------------------------------------------------------------------------
\* Mutant: the page is looked at but not locked.
LooksAtPage(t) ==
  /\ At(t, "page") /\ pageBy = Nil
  /\ IF task[t].want = "WebApp" /\ page = "WebApp"
     THEN Goes(t, Doing(task[t].then, "idle"))
     ELSE Goes(t, [task[t] EXCEPT !.at = "socket"])
  /\ UNCHANGED <<page, pageBy, socketBy, wire, replied, screen, stale, cacheVars, restVars>>

\* show_webapp, show_qrcode: the page is locked, and the web app not shown twice.
LocksPage(t) ==
  /\ At(t, "page") /\ pageBy = Nil
  /\ IF task[t].want = "WebApp" /\ page = "WebApp"
     THEN Goes(t, Doing(task[t].then, "idle")) /\ UNCHANGED pageBy
     ELSE Goes(t, [task[t] EXCEPT !.at = "socket"]) /\ pageBy' = t
  /\ UNCHANGED <<page, socketBy, wire, replied, screen, stale, cacheVars, restVars>>

\* send_cmd: one command at a time, ...
Navigates(t) ==
  /\ At(t, "socket") /\ socketBy = Nil /\ Len(wire) < MaxWire
  /\ Goes(t, [task[t] EXCEPT !.at = "sent"])
  /\ socketBy' = t /\ replied' = FALSE
  /\ wire' = Append(wire, task[t].want)
  /\ UNCHANGED <<page, pageBy, screen, stale, cacheVars, restVars>>

\* (Chromium performs them in their order, and answers)
Performs ==
  /\ wire # <<>>
  /\ screen' = Head(wire) /\ wire' = Tail(wire)
  /\ replied' = (Len(wire) = 1 /\ socketBy # Nil)
  /\ UNCHANGED <<task, page, pageBy, socketBy, stale, cacheVars, restVars>>

\* Mutant: the mutex of the socket is not given back.
ReplyKeepsSocket(t) ==
  /\ At(t, "sent") /\ replied
  /\ Goes(t, [task[t] EXCEPT !.at = "record"])
  /\ replied' = FALSE /\ stale' = FALSE
  /\ UNCHANGED <<page, pageBy, socketBy, wire, screen, cacheVars, restVars>>

\* ... until its reply has come ...
ReplyComes(t) ==
  /\ At(t, "sent") /\ replied
  /\ Goes(t, [task[t] EXCEPT !.at = "record"])
  /\ socketBy' = Nil /\ replied' = FALSE /\ stale' = FALSE
  /\ UNCHANGED <<page, pageBy, wire, screen, cacheVars, restVars>>

\* ... or three seconds are over, or it is an error: nothing is recorded, and
\* the caller goes on.
GivesUp(t) ==
  /\ At(t, "sent")
  /\ Goes(t, Doing(task[t].then, "idle"))
  /\ socketBy' = Nil /\ replied' = FALSE /\ stale' = TRUE
  /\ pageBy' = IF pageBy = t THEN Nil ELSE pageBy
  /\ UNCHANGED <<page, wire, screen, cacheVars, restVars>>

\* The address of the web app cannot be read, or the socket takes no command.
CannotNavigate(t) ==
  /\ At(t, "socket") /\ (task[t].want = "WebApp" \/ socketBy = Nil)
  /\ Goes(t, Doing(task[t].then, "idle"))
  /\ pageBy' = IF pageBy = t THEN Nil ELSE pageBy
  /\ UNCHANGED <<page, socketBy, wire, replied, screen, stale, cacheVars, restVars>>

Records(t) ==
  /\ At(t, "record") /\ pageBy \in {t, Nil}
  /\ Goes(t, Doing(task[t].then, "idle"))
  /\ page' = task[t].want /\ pageBy' = Nil
  /\ UNCHANGED <<socketBy, wire, replied, screen, stale, cacheVars, restVars>>

ShowStep(t) ==
  \/ LocksPage(t) \/ Navigates(t) \/ ReplyComes(t) \/ GivesUp(t) \/ CannotNavigate(t) \/ Records(t)

-----------------------------------------------------------------------------
\* Cache::save: the file is emptied, the map copied, and the copy written over
\* what another save may have written by then.
Saving == {t \in Tasks : At(t, "snap") \/ At(t, "flush")}

Creates(t) ==
  /\ At(t, "create")
  /\ Goes(t, Doing("snap", task[t].then))
  /\ file' = {}  /\ torn' = (Saving # {})
  /\ UNCHANGED <<mem, text, saved, pageVars, restVars>>

\* Mutant: only the key just set is written.
CopiesNew(t) ==
  /\ At(t, "snap")
  /\ Goes(t, Doing("flush", task[t].then))
  /\ text' = [text EXCEPT ![t] = IF task[t].then = "success" THEN {"topic"} ELSE {"connected"}]
  /\ UNCHANGED <<mem, file, saved, torn, pageVars, restVars>>

Copies(t) ==
  /\ At(t, "snap")
  /\ Goes(t, Doing("flush", task[t].then))
  /\ text' = [text EXCEPT ![t] = mem]
  /\ UNCHANGED <<mem, file, saved, torn, pageVars, restVars>>

\* Where the caller of save goes on.
Continues(t) ==
  CASE task[t].then = "success" -> Showing("Message", "webapp")
    [] task[t].then = "version" -> Doing("version", "home")
    [] OTHER -> Doing(task[t].then, "idle")

Flushes(t) ==
  /\ At(t, "flush")
  /\ Goes(t, Continues(t))
  /\ file' \in IF file \subseteq text[t] THEN {text[t]} ELSE {file, text[t], {Garbled}}
  /\ saved' = (saved \/ "topic" \in text[t])
  /\ text' = [text EXCEPT ![t] = {}]
  /\ UNCHANGED <<mem, torn, pageVars, restVars>>

\* The file cannot be created, which is logged for the topic and unwrapped for
\* "connected"; or what is buffered cannot be written, which nobody is told.
SaveFails(t) ==
  /\ \/ /\ At(t, "create") /\ task[t].then # "success"
        /\ Goes(t, Doing("panicked", "idle")) /\ excused' = excused \cup {t}
     \/ /\ (At(t, "create") /\ task[t].then = "success") \/ At(t, "flush")
        /\ Goes(t, Continues(t)) /\ UNCHANGED excused
  /\ torn' = TRUE
  /\ text' = [text EXCEPT ![t] = {}]
  /\ UNCHANGED <<mem, file, saved, pageVars, versions, auto, listening>>

SaveStep(t) == Creates(t) \/ Copies(t) \/ Flushes(t) \/ SaveFails(t)

\* A key is set and the cache saved.
SetsKey(t, key, then) ==
  /\ mem' = mem \cup {key}
  /\ Goes(t, Doing("create", then))
  /\ UNCHANGED <<file, text, saved, torn, pageVars>>

-----------------------------------------------------------------------------
\* main: a device that was online before waits for a moment; then it is online
\* or shows the QR code, ...
Boots ==
  /\ At(Main, "boot")
  /\ \/ Shows(Main, "QRCode", "armed") /\ UNCHANGED <<cacheVars, pageVars>>
     \/ "connected" \in mem /\ Goes(Main, Doing("version", "home")) /\ UNCHANGED <<cacheVars, pageVars>>
     \/ "connected" \notin mem /\ SetsKey(Main, "connected", "version")
  /\ UNCHANGED restVars

\* ... sets auto_proceed, spawns the task that waits, and listens to connectd.
Arms ==
  /\ At(Main, "armed")
  /\ Goes(Main, Doing("waiting", "idle"))
  /\ auto' = TRUE /\ listening' = TRUE
  /\ UNCHANGED <<pageVars, cacheVars, versions, excused>>

\* wait_until_online has returned.
GetsOnline ==
  /\ At(Main, "waiting")
  /\ IF "connected" \in mem
     THEN Goes(Main, Doing("load", "idle")) /\ UNCHANGED <<cacheVars, pageVars>>
     ELSE SetsKey(Main, "connected", "load")
  /\ UNCHANGED restVars

Proceeds ==
  /\ At(Main, "load")
  /\ Goes(Main, IF auto THEN Doing("version", "home") ELSE Idle)
  /\ Alone

\* The start-up is over: main listens to connectd.
Listens ==
  /\ At(Main, "idle") /\ ~listening
  /\ listening' = TRUE
  /\ UNCHANGED <<taskVars, pageVars, cacheVars, versions, excused, auto>>

\* on_startup_with_internet, no update required.
GoesHome(t) ==
  /\ At(t, "home")
  /\ Shows(t, IF "topic" \in mem THEN "WebApp" ELSE "QRCode", "idle")
  /\ Alone

-----------------------------------------------------------------------------
\* is_update_required: known from the cache, ...
Decided(t, v) == IF v = "old" THEN Showing("SystemUpgrade", "updater") ELSE Doing(task[t].then, "idle")

Fetching == {t \in Tasks : At(t, "fetch")}

\* Mutant: the cache is not looked at first.
FetchesAlways(t) ==
  /\ At(t, "version")
  /\ Goes(t, [task[t] EXCEPT !.at = "fetch"])
  /\ excused' = IF Fetching = {} THEN excused ELSE excused \cup Fetching \cup {t}
  /\ UNCHANGED <<pageVars, cacheVars, versions, auto, listening>>

LooksUpVersions(t) ==
  /\ At(t, "version")
  /\ Goes(t, IF versions = "none" THEN [task[t] EXCEPT !.at = "fetch"] ELSE Decided(t, versions))
  /\ excused' = IF versions = "none" /\ Fetching # {} THEN excused \cup Fetching \cup {t} ELSE excused
  /\ UNCHANGED <<pageVars, cacheVars, versions, auto, listening>>

\* ... or asked for and set, once: a second set is unwrapped.
GetsVersions(t, v) ==
  /\ At(t, "fetch")
  /\ IF versions = "none"
     THEN Goes(t, Decided(t, v)) /\ versions' = v
     ELSE Goes(t, Doing("panicked", "idle")) /\ UNCHANGED versions
  /\ UNCHANGED <<pageVars, cacheVars, excused, auto, listening>>

\* The message that the check has failed.
GetsNoVersions(t) ==
  /\ At(t, "fetch")
  /\ Shows(t, "Message", "idle")
  /\ excused' = excused \ {t}
  /\ UNCHANGED <<pageVars, cacheVars, versions, auto, listening>>

\* update: the unit is started and its log followed until it ends, or fails to start.
StartsUpdater(t) ==
  /\ At(t, "updater")
  /\ Goes(t, Doing("tail", "idle")) \/ Goes(t, Idle)
  /\ Alone

TellsProgress(t) ==
  /\ At(t, "tail")
  /\ Shows(t, "SystemUpgrade", "tail") \/ Goes(t, Idle)
  /\ Alone

-----------------------------------------------------------------------------
\* bt_connected_cb, qrcode_switch_cb and factory_reset_cb; connect_wifi_cb shows
\* a message first, keep_wifi_cb checks the internet.
Starts(t) == t # Main /\ At(t, "idle") /\ Alone

Welcomes(t) == Starts(t) /\ Shows(t, "Message", "idle")
Switches(t, p) == listening /\ p \in Kept /\ Starts(t) /\ Shows(t, p, "idle")
FactoryResets(t) == Starts(t) /\ Shows(t, "FactoryReset", "reset")
ConnectsWifi(t) == Starts(t) /\ Shows(t, "Message", "wifi")
KeepsWifi(t) == Starts(t) /\ Goes(t, Doing("version", "relayer"))

\* The user has chosen another wifi: it fails or leads nowhere, or is set up.
TriesWifi(t) ==
  /\ At(t, "wifi")
  /\ auto' = FALSE
  /\ Shows(t, "Message", "idle") \/ Goes(t, Doing("version", "relayer"))
  /\ UNCHANGED <<pageVars, cacheVars, versions, excused, listening>>

\* internet_setup_successfully_cb: the topic from connectd is saved, ...
GetsTopic(t) ==
  /\ At(t, "relayer")
  /\ \/ SetsKey(t, "topic", "success")
     \/ Goes(t, Idle) /\ UNCHANGED <<cacheVars, pageVars>>
  /\ UNCHANGED restVars

\* ... and after a message the web app is shown.
OpensWebApp(t) ==
  /\ At(t, "webapp")
  /\ Shows(t, "WebApp", "idle")
  /\ Alone

\* set-factory-boot.service is started; the central is told.
Resets(t) ==
  /\ At(t, "reset")
  /\ Goes(t, Idle)
  /\ Alone

-----------------------------------------------------------------------------
\* A panic of main ends the process; so may a signal, a power cut and the end
\* of the kiosk, which setupd is part of.  It does not start with a file that
\* Cache::new cannot read.
Down == At(Main, "panicked") /\ ~listening

Restarts ==
  /\ Garbled \notin file
  /\ task' = [t \in Tasks |-> IF t = Main THEN Doing("boot", "idle") ELSE Idle]
  /\ page' = "None" /\ pageBy' = Nil /\ socketBy' = Nil /\ wire' = <<>> /\ replied' = FALSE
  /\ screen' \in {screen, "None"} \cup {wire[i] : i \in DOMAIN wire} /\ stale' = FALSE
  /\ mem' = file /\ text' = [t \in Tasks |-> {}]
  /\ saved' = (saved /\ ~torn /\ Saving = {}) /\ torn' = FALSE
  /\ versions' = "none" /\ excused' = {} /\ auto' = FALSE /\ listening' = FALSE
  /\ UNCHANGED file

Commands(t) ==
  \/ Welcomes(t) \/ FactoryResets(t) \/ ConnectsWifi(t) \/ KeepsWifi(t)
  \/ \E p \in Kept : Switches(t, p)

\* What a task does until it ends, waits for the internet, or follows the log.
GoesOn(t) ==
  \/ ShowStep(t) \/ SaveStep(t)
  \/ GoesHome(t) \/ LooksUpVersions(t) \/ GetsNoVersions(t)
  \/ \E v \in {"current", "old"} : GetsVersions(t, v)
  \/ StartsUpdater(t) \/ TriesWifi(t) \/ GetsTopic(t) \/ OpensWebApp(t) \/ Resets(t)

MainStep == Boots \/ Arms \/ Proceeds

Next ==
  \/ /\ ~Down
     /\ \/ \E t \in Tasks : Commands(t) \/ GoesOn(t) \/ TellsProgress(t)
        \/ MainStep \/ GetsOnline \/ Listens \/ Performs
  \/ Restarts

Spec == Init /\ [][Next]_vars

-----------------------------------------------------------------------------
\* "For webapp, we only navigate if the page is not it already" (main.rs:531):
\* while the page recorded is the web app or the QR code, Chromium shows it,
\* unless a navigation is under way or the last one was given up.
RecordedIsShown ==
  page \in Kept /\ ~stale /\ (\A t \in Tasks : ~At(t, "sent") /\ ~At(t, "record")) => screen = page

\* A topic that was saved is known and in the file, over restarts and other
\* saves, unless saves crossed or one was cut short (cache.rs:55-62).
SavedTopicStays ==
  saved /\ ~torn => "topic" \in mem /\ (Saving = {} => file \cap {"topic", Garbled} = {"topic"})

\* The unwraps of setupd (updater.rs:202, main.rs:195, 206) end a task only if
\* two of them asked for the versions at once, or its file cannot be created.
PanicsOnlyExcused == \A t \in Tasks : At(t, "panicked") => t \in excused

\* Every command and the start-up come to their end, whichever navigations fail:
\* the two mutexes are given back and never waited for in a circle.
Resting == {"idle", "waiting", "tail", "panicked"}
FlowsEnd == \A t \in Tasks : ~At(t, "idle") ~> Down \/ At(Main, "boot") \/ task[t].at \in Resting
=============================================================================
