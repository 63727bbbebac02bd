--------------------------- MODULE MetricsMonitor ---------------------------
(***************************************************************************)
(* What the watchdog does with the metrics of sys-monitord: ProcessMetrics *)
(* of mediator.go and, in its order, the handlers of ram.go, disk.go and   *)
(* cpu.go, whose commands and whose CDP request block it.  Signals reach   *)
(* the mediator in goroutines of their own; a sample that arrives while    *)
(* another one is processed is dropped.                                    *)
(*                                                                         *)
(* Time is discrete, one sample per tick.  A moment the code remembers is  *)
(* kept as its age, up to the threshold it is compared with, and a         *)
(* cooldown as the ticks that remain of it.                                *)
(***************************************************************************)
EXTENDS Naturals

CONSTANTS
  MonitorDuration,  \* RAM_MONITOR_DURATION_THRESHOLD
  RebootWindow,     \* RAM_REBOOT_DURATION_THRESHOLD
  MemoryCooldown,   \* RAM_RESTART_KIOSK_COOLDOWN
  DiskCooldown,     \* DISK_MONITOR_COOLDOWN
  HotDuration,      \* CPU_MONITOR_DURATION_THRESHOLD
  CommandTime,      \* longest time a command takes (external)
  MemLevels,        \* memory readings: "normal", "high" (>= 95%), "unknown"
  DiskLevels,       \* "normal", "warning" (> 90%), "critical" (> 95%), "unknown"
  Temps,            \* "cool", "hot" (>= 85 degrees)
  Pages,            \* whether the page may answer CDP requests, or not
  ActionDeadline    \* bound on ActedOnInTime

ASSUME DurationAssumption ==
  /\ MonitorDuration \in Nat /\ RebootWindow \in Nat /\ MemoryCooldown \in Nat
  /\ DiskCooldown \in Nat /\ HotDuration \in Nat
  /\ CommandTime \in Nat /\ ActionDeadline \in Nat
ASSUME LevelAssumption ==
  /\ MemLevels \subseteq {"normal", "high", "unknown"}
  /\ DiskLevels \subseteq {"normal", "warning", "critical", "unknown"}
  /\ Temps \subseteq {"cool", "hot"} /\ Pages \subseteq BOOLEAN

Samples == [mem : MemLevels, disk : DiskLevels, temp : Temps]
Commands == {"restart", "memReboot", "cleanup", "diskReboot"}

VARIABLES
  at,          \* ProcessMetrics: "idle", a handler, or what that handler runs
  sample,      \* the sample it processes
  sent,        \* the last sample sent, processed or dropped
  fresh,       \* the sample of this tick has been sent
  busy,        \* age of the running command
  monitoring,  \* highMemoryMonitoring
  highAge,     \* age of highMemStartTime
  memFreeze,   \* what remains of memoryMonitorCoolDown
  restartAge,  \* age of lastKioskRestart
  diskFreeze,  \* what remains of diskCleanupCooldown
  isCleaned,
  hot,         \* highTempMonitoring
  hotAge,      \* age of highTempStartTime
  cdp,         \* the CDP connection: "open", "stale" (Chromium restarted), "none"
  page,        \* the page answers CDP requests
  untreated,   \* history variable: ticks memory was high and neither restart nor reboot begun
  cleanAge,    \* history variable: age of the last cleanup
  relieved     \* history variable: the disk was found normal since then

memVars == <<monitoring, highAge, memFreeze, restartAge>>
diskVars == <<diskFreeze, isCleaned>>
cpuVars == <<hot, hotAge, cdp>>
histVars == <<untreated, cleanAge, relieved>>
vars == <<at, sample, sent, fresh, busy, memVars, diskVars, cpuVars, page, histVars>>

TypeOK ==
  /\ at \in {"idle", "memory", "disk", "cpu", "notify"} \cup Commands
  /\ sample \in Samples /\ sent \in Samples
  /\ fresh \in BOOLEAN
  /\ busy \in 0 .. CommandTime
  /\ monitoring \in BOOLEAN /\ highAge \in 0 .. MonitorDuration
  /\ memFreeze \in 0 .. MemoryCooldown /\ restartAge \in 0 .. RebootWindow
  /\ diskFreeze \in 0 .. DiskCooldown /\ isCleaned \in BOOLEAN
  /\ hot \in BOOLEAN /\ hotAge \in 0 .. HotDuration
  /\ cdp \in {"open", "stale", "none"} /\ page \in BOOLEAN
  /\ untreated \in 0 .. ActionDeadline
  /\ cleanAge \in 0 .. DiskCooldown /\ relieved \in BOOLEAN

\* No kiosk restart and no cleanup yet: both longer ago than any threshold.
Init ==
  /\ at = "idle" /\ sample \in Samples /\ sent = sample
  /\ fresh = FALSE /\ busy = 0
  /\ monitoring = FALSE /\ highAge = 0 /\ memFreeze = 0 /\ restartAge = RebootWindow
  /\ diskFreeze = 0 /\ isCleaned = FALSE
  /\ hot = FALSE /\ hotAge = 0 /\ cdp = "open" /\ page = TRUE
  /\ untreated = 0 /\ cleanAge = 0 /\ relieved = TRUE

Older(age, cap) == IF age < cap THEN age + 1 ELSE age
Less(n) == IF n > 0 THEN n - 1 ELSE 0

\* Handlers take no time; a command and a CDP request may.
Tick ==
  /\ fresh /\ fresh' = FALSE
  /\ at \in {"idle", "notify"} \cup Commands
  /\ at \in Commands => busy < CommandTime
  /\ at = "notify" => ~page \* a page that answers does so at once
  /\ busy' = IF at \in Commands THEN busy + 1 ELSE 0
  /\ highAge' = IF monitoring THEN Older(highAge, MonitorDuration) ELSE 0
  /\ memFreeze' = Less(memFreeze)
  /\ restartAge' = Older(restartAge, RebootWindow)
  /\ diskFreeze' = Less(diskFreeze)
  /\ hotAge' = IF hot THEN Older(hotAge, HotDuration) ELSE 0
  /\ cleanAge' = Older(cleanAge, DiskCooldown)
  /\ untreated' = IF sent.mem = "high" /\ at \notin {"restart", "memReboot"}
                  THEN Older(untreated, ActionDeadline) ELSE 0
  /\ UNCHANGED <<at, sample, sent, monitoring, isCleaned, hot, cdp, page,
                 relieved>>

\* Chromium is restarted by somebody else, which loses a CDP connection to it,
\* or its page stops or starts answering.
BrowserChanges ==
  /\ cdp' \in {cdp, IF cdp = "open" THEN "stale" ELSE cdp}
  /\ page' \in IF cdp' # cdp THEN {TRUE} ELSE Pages
  /\ <<cdp, page>>' # <<cdp, page>>
  /\ UNCHANGED <<at, sample, sent, fresh, busy, memVars, diskVars, hot, hotAge, histVars>>

-----------------------------------------------------------------------------
\* ProcessMetrics: isProcessingMetrics drops the sample or admits it.
SampleArrives(s) ==
  /\ ~fresh /\ fresh' = TRUE
  /\ sent' = s
  /\ IF at = "idle" THEN at' = "memory" /\ sample' = s ELSE UNCHANGED <<at, sample>>
  /\ UNCHANGED <<busy, memVars, diskVars, cpuVars, page, untreated, cleanAge, relieved>>

-----------------------------------------------------------------------------
(***************************************************************************)
(* checkMemoryUsage.                                                       *)
(***************************************************************************)

\* In its cooldown, without a reading, or not high for long enough yet.
MemoryPasses ==
  /\ at = "memory"
  /\ \/ memFreeze > 0 \/ sample.mem = "unknown"
     \/ sample.mem = "high" /\ monitoring /\ highAge < MonitorDuration
  /\ at' = "disk"
  /\ UNCHANGED <<sample, sent, fresh, busy, memVars, diskVars, cpuVars, page, histVars>>

MemoryNormal ==
  /\ at = "memory" /\ memFreeze = 0 /\ sample.mem = "normal"
  /\ at' = "disk"
  /\ monitoring' = FALSE /\ highAge' = 0
  /\ UNCHANGED <<sample, sent, fresh, busy, memFreeze, restartAge, diskVars, cpuVars, page,
                 histVars>>

\* Mutant: each high reading starts the monitoring anew.
MemoryRisesAgain ==
  /\ at = "memory" /\ memFreeze = 0 /\ sample.mem = "high"
  /\ at' = "disk"
  /\ monitoring' = TRUE /\ highAge' = 0
  /\ UNCHANGED <<sample, sent, fresh, busy, memFreeze, restartAge, diskVars, cpuVars, page,
                 untreated, cleanAge, relieved>>

MemoryRises ==
  /\ at = "memory" /\ memFreeze = 0 /\ sample.mem = "high" /\ ~monitoring
  /\ at' = "disk"
  /\ monitoring' = TRUE /\ highAge' = 0
  /\ UNCHANGED <<sample, sent, fresh, busy, memFreeze, restartAge, diskVars, cpuVars, page,
                 untreated, cleanAge, relieved>>

\* High for long enough: reboot if the kiosk was restarted lately, else restart it.
MemoryActs ==
  /\ at = "memory" /\ memFreeze = 0 /\ sample.mem = "high"
  /\ monitoring /\ highAge >= MonitorDuration
  /\ at' = IF restartAge < RebootWindow THEN "memReboot" ELSE "restart"
  /\ busy' = 0
  /\ untreated' = 0
  /\ UNCHANGED <<sample, sent, fresh, memVars, diskVars, cpuVars, page, cleanAge, relieved>>

\* Mutant: monitoring goes on through the restart, whose cooldown is not set.
KioskRestartForgets ==
  /\ at = "restart" /\ at' = "disk"
  /\ restartAge' = 0
  /\ cdp' = IF cdp = "open" THEN "stale" ELSE cdp
  /\ UNCHANGED <<sample, sent, fresh, busy, monitoring, highAge, memFreeze, diskVars, hot, hotAge,
                 page, histVars>>

\* Mutant: the restart is not remembered.
KioskRestartUnrecorded ==
  /\ at = "restart" /\ at' = "disk"
  /\ memFreeze' = MemoryCooldown
  /\ monitoring' = FALSE /\ highAge' = 0
  /\ cdp' \in {cdp, IF cdp = "open" THEN "stale" ELSE cdp}
  /\ page' \in {page, TRUE}
  /\ UNCHANGED <<sample, sent, fresh, busy, restartAge, diskVars, hot, hotAge, histVars>>

\* restartKiosk returned (done, failed or skipped): cooldown, resetMonitoring.
KioskRestarted ==
  /\ at = "restart" /\ at' = "disk"
  /\ restartAge' = 0 /\ memFreeze' = MemoryCooldown
  /\ monitoring' = FALSE /\ highAge' = 0
  /\ cdp' \in {cdp, IF cdp = "open" THEN "stale" ELSE cdp}
  /\ page' \in {page, TRUE}
  /\ UNCHANGED <<sample, sent, fresh, busy, diskVars, hot, hotAge, histVars>>

\* rebootSystem failed: nothing is reset.
MemoryRebootFails ==
  /\ at = "memReboot" /\ at' = "disk"
  /\ UNCHANGED <<sample, sent, fresh, busy, memVars, diskVars, cpuVars, page, histVars>>

-----------------------------------------------------------------------------
(***************************************************************************)
(* checkDiskUsage.                                                         *)
(***************************************************************************)

DiskPasses ==
  /\ at = "disk" /\ (diskFreeze > 0 \/ sample.disk = "unknown")
  /\ at' = "cpu"
  /\ UNCHANGED <<sample, sent, fresh, busy, memVars, diskVars, cpuVars, page, histVars>>

\* Mutant: the flag outlives the pressure it was set for.
DiskNormalKeeps ==
  /\ at = "disk" /\ diskFreeze = 0 /\ sample.disk = "normal"
  /\ at' = "cpu"
  /\ relieved' = TRUE
  /\ UNCHANGED <<sample, sent, fresh, busy, memVars, diskVars, cpuVars, page, untreated,
                 cleanAge>>

DiskNormal ==
  /\ at = "disk" /\ diskFreeze = 0 /\ sample.disk = "normal"
  /\ at' = "cpu" /\ isCleaned' = FALSE
  /\ relieved' = TRUE
  /\ UNCHANGED <<sample, sent, fresh, busy, memVars, diskFreeze, cpuVars, page, untreated, cleanAge>>

DiskActs ==
  /\ at = "disk" /\ diskFreeze = 0 /\ sample.disk \in {"warning", "critical"}
  /\ at' = IF sample.disk = "critical" /\ isCleaned THEN "diskReboot" ELSE "cleanup"
  /\ busy' = 0
  /\ UNCHANGED <<sample, sent, fresh, memVars, diskVars, cpuVars, page, histVars>>

\* Mutant: only the cooldown is set.
DiskCleanedUnflagged ==
  /\ at = "cleanup" /\ at' = "cpu"
  /\ diskFreeze' = DiskCooldown /\ UNCHANGED isCleaned
  /\ cleanAge' = 0 /\ relieved' = FALSE
  /\ UNCHANGED <<sample, sent, fresh, busy, memVars, cpuVars, page, untreated>>

\* cleanupPacmanCache returned, done or failed: isCleaned and the cooldown.
DiskCleaned ==
  /\ at = "cleanup" /\ at' = "cpu"
  /\ isCleaned' = TRUE /\ diskFreeze' = DiskCooldown
  /\ cleanAge' = 0 /\ relieved' = FALSE
  /\ UNCHANGED <<sample, sent, fresh, busy, memVars, cpuVars, page, untreated>>

DiskRebootFails ==
  /\ at = "diskReboot" /\ at' = "cpu"
  /\ UNCHANGED <<sample, sent, fresh, busy, memVars, diskVars, cpuVars, page, histVars>>

-----------------------------------------------------------------------------
(***************************************************************************)
(* checkCPUTemperature, and the CDP request it makes.                      *)
(***************************************************************************)

CpuCool ==
  /\ at = "cpu" /\ sample.temp = "cool"
  /\ at' = "idle" /\ hot' = FALSE /\ hotAge' = 0
  /\ UNCHANGED <<sample, sent, fresh, busy, memVars, diskVars, cdp, page, untreated,
                 cleanAge, relieved>>

CpuHeats ==
  /\ at = "cpu" /\ sample.temp = "hot" /\ (hot => hotAge < HotDuration)
  /\ at' = "idle" /\ hot' = TRUE
  /\ hotAge' = IF hot THEN hotAge ELSE 0
  /\ UNCHANGED <<sample, sent, fresh, busy, memVars, diskVars, cdp, page, histVars>>

CpuNotifies ==
  /\ at = "cpu" /\ sample.temp = "hot" /\ hot /\ hotAge >= HotDuration
  /\ at' = "notify"
  /\ UNCHANGED <<sample, sent, fresh, busy, memVars, diskVars, cpuVars, page, histVars>>

\* Send got its reply.
NotifyAnswered ==
  /\ at = "notify" /\ cdp = "open" /\ page
  /\ at' = "idle"
  /\ UNCHANGED <<sample, sent, fresh, busy, memVars, diskVars, cpuVars, page, untreated,
                 cleanAge, relieved>>

\* Send failed on a lost connection: Reconnect; or there is none, and that is all.
NotifyFails ==
  /\ at = "notify" /\ cdp # "open"
  /\ at' = "idle"
  /\ cdp' \in IF cdp = "stale" THEN {"open", "none"} ELSE {"none"}
  /\ UNCHANGED <<sample, sent, fresh, busy, memVars, diskVars, hot, hotAge, page, histVars>>

Handlers ==
  \/ MemoryPasses \/ MemoryNormal \/ MemoryRises \/ MemoryActs
  \/ KioskRestarted \/ MemoryRebootFails
  \/ DiskPasses \/ DiskNormal \/ DiskActs \/ DiskCleaned \/ DiskRebootFails
  \/ CpuCool \/ CpuHeats \/ CpuNotifies \/ NotifyAnswered \/ NotifyFails

Next == Tick \/ BrowserChanges \/ Handlers \/ \E s \in Samples : SampleArrives(s)

Spec == Init /\ [][Next]_vars

\* Time passes, sys-monitord sends its samples, and handlers that can run do.
FairSpec == Spec /\ WF_vars(Tick) /\ WF_vars(Handlers) /\ WF_vars(\E s \in Samples : SampleArrives(s))

-----------------------------------------------------------------------------
Begins(command) == at # command /\ at' = command

\* A restarted kiosk is given its cooldown and a whole monitoring period before
\* memory makes the watchdog reboot, whatever samples were lost in between and
\* however often a reboot failed.
RebootSpaced ==
  [][Begins("memReboot") => restartAge >= MemoryCooldown + MonitorDuration]_vars

\* The disk gets the device rebooted only when a cleanup returned at least a
\* cooldown ago and no check has found the disk normal since.
DiskRebootEarned ==
  [][Begins("diskReboot") => cleanAge >= DiskCooldown /\ ~relieved]_vars

\* "If RAM usage > 95% for more than 15s, then restart kiosk" (README.md:31):
\* memory is not high for longer than the time it takes to be sure of it, and
\* for the handlers to be free, without a restart or a reboot being begun.
ActedOnInTime == untreated < ActionDeadline

\* Memory that stays high gets the device rebooted, and not the kiosk restarted
\* for ever: the second restart would come after the window has passed.
MemoryEscalates == <>[](sent.mem = "high") => []<>(at = "memReboot")

\* A disk that stays critical gets the device rebooted.
DiskEscalates == <>[](sent.disk = "critical") => []<>(at = "diskReboot")
=============================================================================
