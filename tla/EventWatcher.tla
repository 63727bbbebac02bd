---------------------------- MODULE EventWatcher ----------------------------
(***************************************************************************)
(* The event watcher of feral-sys-monitord (event.go): a goroutine scans   *)
(* the kernel log of the GPU driver and hands what it finds over an        *)
(* unbuffered channel to the watcher's own goroutine, which starts a       *)
(* notifier goroutine for each event and closes the channels when it ends. *)
(***************************************************************************)
EXTENDS Monitord

VARIABLES
  scan,      \* where the scanning goroutine is
  line,      \* the line it has yet to hand over
  watching,  \* the watcher's goroutine runs: its channels are open
  stopped,   \* doneChan is closed
  events,    \* notifier goroutines that have yet to run, by their event
  panicked   \* a send on a closed channel

eventVars == <<scan, line, watching, stopped, events, panicked>>

Lines == {"gpu_hang", "submission_enabled", "other"}
EventOf == [l \in {"gpu_hang", "submission_enabled"} |->
              IF l = "gpu_hang" THEN "gpu_hanging" ELSE "gpu_recover"]

EventTypeOK ==
  /\ scan \in {"start", "scan", "select", "send", "error", "ended"}
  /\ line \in Lines
  /\ watching \in BOOLEAN  /\ stopped \in BOOLEAN  /\ panicked \in BOOLEAN
  /\ events \subseteq {"gpu_hanging", "gpu_recover"}

EventInit ==
  /\ scan = "start"  /\ line = "other"
  /\ watching = TRUE  /\ stopped = FALSE  /\ events = {}  /\ panicked = FALSE

Ending == ctxDone \/ stopped

\* monitorHangingGPU starts journalctl, or has an error to send.
JournalStarts ==
  /\ scan = "start"
  /\ scan' \in {"scan", "error"}
  /\ UNCHANGED <<line, watching, stopped, events, panicked>>

\* The next line of the kernel log, or the end of journalctl.
LineScanned ==
  /\ scan = "scan"
  /\ \/ scan' = "select" /\ line' \in Lines
     \/ scan' = "ended" /\ UNCHANGED line
  /\ UNCHANGED <<watching, stopped, events, panicked>>

\* Mutant: a line is only looked at if the ticker has fired already.
LineSkipped ==
  /\ scan = "select"
  /\ scan' = IF Ending THEN "ended" ELSE "scan"
  /\ line' = "other"
  /\ UNCHANGED <<watching, stopped, events, panicked>>

\* A line is looked at when the 100 ms ticker fires; ending, it may be dropped.
LineLookedAt ==
  /\ scan = "select"
  /\ scan' = IF line \in DOMAIN EventOf THEN "send" ELSE "scan"
  /\ UNCHANGED <<line, watching, stopped, events, panicked>>

ScanEnds ==
  /\ scan = "select" /\ Ending
  /\ scan' = "ended" /\ line' = "other"
  /\ UNCHANGED <<watching, stopped, events, panicked>>

\* Mutant: the watcher returns once it has received an event.
EventEndsWatcher ==
  /\ watching /\ scan = "send" /\ EventOf[line] \notin events
  /\ scan' = "scan" /\ line' = "other" /\ watching' = FALSE
  /\ events' = IF registered THEN events \cup {EventOf[line]} ELSE events
  /\ UNCHANGED <<stopped, panicked>>

\* notifyHandlers.  Bound of the model: one waiting notifier for each event.
EventReceived ==
  /\ watching /\ scan = "send" /\ EventOf[line] \notin events
  /\ scan' = "scan" /\ line' = "other"
  /\ events' = IF registered THEN events \cup {EventOf[line]} ELSE events
  /\ UNCHANGED <<watching, stopped, panicked>>

\* An error is logged; the scanning goroutine has returned.
ErrorReceived ==
  /\ watching /\ scan = "error"
  /\ scan' = "ended"
  /\ UNCHANGED <<line, watching, stopped, events, panicked>>

\* The watcher returns: its deferred closes run.
WatcherEnds ==
  /\ watching /\ Ending
  /\ watching' = FALSE
  /\ UNCHANGED <<scan, line, stopped, events, panicked>>

\* Sending on the channel the watcher has closed.
SendPanics ==
  /\ ~watching /\ scan \in {"send", "error"}
  /\ scan' = "ended" /\ line' = "other" /\ panicked' = TRUE
  /\ UNCHANGED <<watching, stopped, events>>

\* A notifier signals its event, unless the watcher is being stopped.
EventSignalled(e) ==
  /\ e \in events
  /\ events' = events \ {e}
  /\ UNCHANGED <<scan, line, watching, stopped, panicked>>

\* main's deferred Stop.
EventsStopped ==
  /\ ctxDone /\ ~stopped
  /\ stopped' = TRUE
  /\ UNCHANGED <<scan, line, watching, events, panicked>>

ScanStep == JournalStarts \/ LineScanned \/ LineLookedAt \/ ScanEnds \/ SendPanics
WatchStep == EventReceived \/ ErrorReceived \/ WatcherEnds

EventNext ==
  \/ ScanStep \/ WatchStep \/ EventsStopped
  \/ \E e \in events : EventSignalled(e)

-----------------------------------------------------------------------------
\* What the scanning goroutine found and nobody was told of yet.
Found(e) == scan \in {"select", "send"} /\ line \in DOMAIN EventOf /\ EventOf[line] = e

\* A GPU event in the kernel log is not dropped between the goroutines: once
\* its line was scanned it stays scanned until a notifier carries it, unless
\* the process ends or nobody has registered for it.
FoundIsNotified ==
  [][\A e \in {"gpu_hanging", "gpu_recover"} :
       Found(e) /\ ~Found(e)' => e \in events' \/ Ending \/ ~registered]_eventVars

\* The channels are closed under the scanning goroutine only when the process
\* ends: no error of journalctl and no event makes sys-monitord panic.
PanicsOnlyEnding == panicked => ctxDone
=============================================================================
