------------------------ MODULE MetricsMonitorProofs ------------------------
(***************************************************************************)
(* What memory and disk do to the device, for every duration and every set *)
(* of readings: when it may be rebooted, and how soon memory is acted on.  *)
(***************************************************************************)
EXTENDS MetricsMonitor, TLAPS

\* As long as the last kiosk restart counts as recent, what is left of its
\* cooldown and what has passed since make up the cooldown, and a monitoring
\* period lies wholly after the cooldown.
MemoryInv ==
  restartAge < RebootWindow =>
    /\ memFreeze + restartAge >= MemoryCooldown
    /\ monitoring => restartAge >= MemoryCooldown + highAge

\* isCleaned stands for a cleanup after which the disk was not found normal.
DiskInv ==
  isCleaned => ~relieved /\ diskFreeze + cleanAge >= DiskCooldown

\* The two halves of TypeOK: where the handlers are, and what they remember.
Places ==
  /\ at \in {"idle", "memory", "disk", "cpu", "notify"} \cup Commands
  /\ sample \in Samples /\ sent \in Samples
  /\ busy \in 0 .. CommandTime
  /\ highAge \in 0 .. MonitorDuration
  /\ memFreeze \in 0 .. MemoryCooldown /\ restartAge \in 0 .. RebootWindow
  /\ diskFreeze \in 0 .. DiskCooldown /\ hotAge \in 0 .. HotDuration
  /\ cdp \in {"open", "stale", "none"}
  /\ untreated \in 0 .. ActionDeadline /\ cleanAge \in 0 .. DiskCooldown
Flags ==
  /\ fresh \in BOOLEAN /\ monitoring \in BOOLEAN /\ isCleaned \in BOOLEAN
  /\ hot \in BOOLEAN /\ page \in BOOLEAN /\ relieved \in BOOLEAN

IInv == Places /\ Flags /\ MemoryInv /\ DiskInv

USE DurationAssumption, LevelAssumption

LEMMA TypeOKParts == TypeOK <=> Places /\ Flags
  BY DEF TypeOK, Places, Flags

\* The invariant holds at start-up.
LEMMA Initially == Init => IInv
<1> SUFFICES ASSUME Init PROVE IInv
  OBVIOUS
<1>1. Places
  BY DEF Init, Places, Samples
<1>2. Flags
  BY DEF Init, Flags
<1>3. MemoryInv /\ DiskInv
  BY DEF Init, MemoryInv, DiskInv
<1> QED
  BY <1>1, <1>2, <1>3 DEF IInv

\* Time, the environment and the arrival of samples preserve it.
LEMMA WorldKeepsIInv ==
  ASSUME IInv, Tick \/ BrowserChanges \/ \E s \in Samples : SampleArrives(s)
  PROVE  IInv'
<1> USE DEF IInv, memVars, diskVars, cpuVars, histVars, Commands
<1>1. CASE Tick
  <2>1. Places'
    BY <1>1 DEF Tick, Older, Less, Places
  <2>2. Flags'
    BY <1>1 DEF Tick, Flags
  <2>3. MemoryInv'
    BY <1>1 DEF Tick, Older, Less, Places, MemoryInv
  <2>4. DiskInv'
    BY <1>1 DEF Tick, Older, Less, Places, DiskInv
  <2> QED
    BY <2>1, <2>2, <2>3, <2>4
<1>2. CASE BrowserChanges
  <2>1. Places'
    BY <1>2 DEF BrowserChanges, Places
  <2>2. Flags'
    BY <1>2 DEF BrowserChanges, Flags
  <2>3. MemoryInv'
    BY <1>2 DEF BrowserChanges, Places, MemoryInv
  <2>4. DiskInv'
    BY <1>2 DEF BrowserChanges, Places, DiskInv
  <2> QED
    BY <2>1, <2>2, <2>3, <2>4
<1>3. ASSUME NEW s \in Samples, SampleArrives(s)
      PROVE  IInv'
  <2>1. Places'
    BY <1>3 DEF SampleArrives, Places
  <2>2. Flags'
    BY <1>3 DEF SampleArrives, Flags
  <2>3. MemoryInv'
    BY <1>3 DEF SampleArrives, Places, MemoryInv
  <2>4. DiskInv'
    BY <1>3 DEF SampleArrives, Places, DiskInv
  <2> QED
    BY <2>1, <2>2, <2>3, <2>4
<1> QED
  BY <1>1, <1>2, <1>3

\* The handlers preserve it.
LEMMA HandlersKeepIInv ==
  ASSUME IInv, Handlers
  PROVE  IInv'
<1> USE DEF IInv, memVars, diskVars, cpuVars, histVars, Commands
<1>1. CASE MemoryPasses
  <2>1. Places'
    BY <1>1 DEF MemoryPasses, Places
  <2>2. Flags'
    BY <1>1 DEF MemoryPasses, Flags
  <2>3. MemoryInv'
    BY <1>1 DEF MemoryPasses, Places, MemoryInv
  <2>4. DiskInv'
    BY <1>1 DEF MemoryPasses, Places, DiskInv
  <2> QED
    BY <2>1, <2>2, <2>3, <2>4
<1>2. CASE MemoryNormal
  <2>1. Places'
    BY <1>2 DEF MemoryNormal, Places
  <2>2. Flags'
    BY <1>2 DEF MemoryNormal, Flags
  <2>3. MemoryInv'
    BY <1>2 DEF MemoryNormal, Places, MemoryInv
  <2>4. DiskInv'
    BY <1>2 DEF MemoryNormal, Places, DiskInv
  <2> QED
    BY <2>1, <2>2, <2>3, <2>4
<1>3. CASE MemoryRises
  <2>1. Places'
    BY <1>3 DEF MemoryRises, Places
  <2>2. Flags'
    BY <1>3 DEF MemoryRises, Flags
  <2>3. MemoryInv'
    BY <1>3 DEF MemoryRises, Places, MemoryInv
  <2>4. DiskInv'
    BY <1>3 DEF MemoryRises, Places, DiskInv
  <2> QED
    BY <2>1, <2>2, <2>3, <2>4
<1>4. CASE MemoryActs
  <2>1. Places'
    BY <1>4 DEF MemoryActs, Places
  <2>2. Flags'
    BY <1>4 DEF MemoryActs, Flags
  <2>3. MemoryInv'
    BY <1>4 DEF MemoryActs, Places, MemoryInv
  <2>4. DiskInv'
    BY <1>4 DEF MemoryActs, Places, DiskInv
  <2> QED
    BY <2>1, <2>2, <2>3, <2>4
<1>5. CASE KioskRestarted
  <2>1. Places'
    BY <1>5 DEF KioskRestarted, Places
  <2>2. Flags'
    BY <1>5 DEF KioskRestarted, Flags
  <2>3. MemoryInv'
    BY <1>5 DEF KioskRestarted, Places, MemoryInv
  <2>4. DiskInv'
    BY <1>5 DEF KioskRestarted, Places, DiskInv
  <2> QED
    BY <2>1, <2>2, <2>3, <2>4
<1>6. CASE MemoryRebootFails
  <2>1. Places'
    BY <1>6 DEF MemoryRebootFails, Places
  <2>2. Flags'
    BY <1>6 DEF MemoryRebootFails, Flags
  <2>3. MemoryInv'
    BY <1>6 DEF MemoryRebootFails, Places, MemoryInv
  <2>4. DiskInv'
    BY <1>6 DEF MemoryRebootFails, Places, DiskInv
  <2> QED
    BY <2>1, <2>2, <2>3, <2>4
<1>7. CASE DiskPasses
  <2>1. Places'
    BY <1>7 DEF DiskPasses, Places
  <2>2. Flags'
    BY <1>7 DEF DiskPasses, Flags
  <2>3. MemoryInv'
    BY <1>7 DEF DiskPasses, Places, MemoryInv
  <2>4. DiskInv'
    BY <1>7 DEF DiskPasses, Places, DiskInv
  <2> QED
    BY <2>1, <2>2, <2>3, <2>4
<1>8. CASE DiskNormal
  <2>1. Places'
    BY <1>8 DEF DiskNormal, Places
  <2>2. Flags'
    BY <1>8 DEF DiskNormal, Flags
  <2>3. MemoryInv'
    BY <1>8 DEF DiskNormal, Places, MemoryInv
  <2>4. DiskInv'
    BY <1>8 DEF DiskNormal, Places, DiskInv
  <2> QED
    BY <2>1, <2>2, <2>3, <2>4
<1>9. CASE DiskActs
  <2>1. Places'
    BY <1>9 DEF DiskActs, Places
  <2>2. Flags'
    BY <1>9 DEF DiskActs, Flags
  <2>3. MemoryInv'
    BY <1>9 DEF DiskActs, Places, MemoryInv
  <2>4. DiskInv'
    BY <1>9 DEF DiskActs, Places, DiskInv
  <2> QED
    BY <2>1, <2>2, <2>3, <2>4
<1>10. CASE DiskCleaned
  <2>1. Places'
    BY <1>10 DEF DiskCleaned, Places
  <2>2. Flags'
    BY <1>10 DEF DiskCleaned, Flags
  <2>3. MemoryInv'
    BY <1>10 DEF DiskCleaned, Places, MemoryInv
  <2>4. DiskInv'
    BY <1>10 DEF DiskCleaned, Places, DiskInv
  <2> QED
    BY <2>1, <2>2, <2>3, <2>4
<1>11. CASE DiskRebootFails
  <2>1. Places'
    BY <1>11 DEF DiskRebootFails, Places
  <2>2. Flags'
    BY <1>11 DEF DiskRebootFails, Flags
  <2>3. MemoryInv'
    BY <1>11 DEF DiskRebootFails, Places, MemoryInv
  <2>4. DiskInv'
    BY <1>11 DEF DiskRebootFails, Places, DiskInv
  <2> QED
    BY <2>1, <2>2, <2>3, <2>4
<1>12. CASE CpuCool
  <2>1. Places'
    BY <1>12 DEF CpuCool, Places
  <2>2. Flags'
    BY <1>12 DEF CpuCool, Flags
  <2>3. MemoryInv'
    BY <1>12 DEF CpuCool, Places, MemoryInv
  <2>4. DiskInv'
    BY <1>12 DEF CpuCool, Places, DiskInv
  <2> QED
    BY <2>1, <2>2, <2>3, <2>4
<1>13. CASE CpuHeats
  <2>1. Places'
    BY <1>13 DEF CpuHeats, Places
  <2>2. Flags'
    BY <1>13 DEF CpuHeats, Flags
  <2>3. MemoryInv'
    BY <1>13 DEF CpuHeats, Places, MemoryInv
  <2>4. DiskInv'
    BY <1>13 DEF CpuHeats, Places, DiskInv
  <2> QED
    BY <2>1, <2>2, <2>3, <2>4
<1>14. CASE CpuNotifies
  <2>1. Places'
    BY <1>14 DEF CpuNotifies, Places
  <2>2. Flags'
    BY <1>14 DEF CpuNotifies, Flags
  <2>3. MemoryInv'
    BY <1>14 DEF CpuNotifies, Places, MemoryInv
  <2>4. DiskInv'
    BY <1>14 DEF CpuNotifies, Places, DiskInv
  <2> QED
    BY <2>1, <2>2, <2>3, <2>4
<1>15. CASE NotifyAnswered
  <2>1. Places'
    BY <1>15 DEF NotifyAnswered, Places
  <2>2. Flags'
    BY <1>15 DEF NotifyAnswered, Flags
  <2>3. MemoryInv'
    BY <1>15 DEF NotifyAnswered, Places, MemoryInv
  <2>4. DiskInv'
    BY <1>15 DEF NotifyAnswered, Places, DiskInv
  <2> QED
    BY <2>1, <2>2, <2>3, <2>4
<1>16. CASE NotifyFails
  <2>1. Places'
    BY <1>16 DEF NotifyFails, Places
  <2>2. Flags'
    BY <1>16 DEF NotifyFails, Flags
  <2>3. MemoryInv'
    BY <1>16 DEF NotifyFails, Places, MemoryInv
  <2>4. DiskInv'
    BY <1>16 DEF NotifyFails, Places, DiskInv
  <2> QED
    BY <2>1, <2>2, <2>3, <2>4
<1> QED
  BY <1>1, <1>2, <1>3, <1>4, <1>5, <1>6, <1>7, <1>8, <1>9, <1>10, <1>11, <1>12, <1>13,
     <1>14, <1>15, <1>16 DEF Handlers

\* So does doing nothing.
LEMMA StutterKeepsIInv == IInv /\ UNCHANGED vars => IInv'
  BY DEF IInv, Places, Flags, MemoryInv, DiskInv, vars, memVars, diskVars, cpuVars, histVars

\* The invariant the other theorems follow from.
THEOREM Inductive == Spec => []IInv
<1>1. IInv /\ [Next]_vars => IInv'
  BY WorldKeepsIInv, HandlersKeepIInv, StutterKeepsIInv DEF Next
<1> QED
  BY Initially, <1>1, PTL DEF Spec

\* Every variable of ProcessMetrics keeps its type.
THEOREM TypeCorrect == Spec => []TypeOK
  BY Inductive, TypeOKParts, PTL DEF IInv

\* A reboot for memory leaves the restarted kiosk its cooldown and a whole
\* monitoring period.
THEOREM MemoryRebootIsSpaced == Spec => RebootSpaced
<1>1. ASSUME IInv, [Next]_vars, Begins("memReboot")
      PROVE  restartAge >= MemoryCooldown + MonitorDuration
  <2>1. MemoryActs
    BY <1>1 DEF Begins, Next, vars, Handlers, Tick, BrowserChanges, SampleArrives,
       MemoryPasses, MemoryNormal, MemoryRises, KioskRestarted, MemoryRebootFails, DiskPasses,
       DiskNormal, DiskActs, DiskCleaned, DiskRebootFails, CpuCool, CpuHeats, CpuNotifies,
       NotifyAnswered, NotifyFails
  <2>2. restartAge < RebootWindow /\ monitoring /\ highAge >= MonitorDuration
    BY <1>1, <2>1 DEF MemoryActs, Begins
  <2>3. restartAge >= MemoryCooldown + highAge
    BY <1>1, <2>2 DEF IInv, MemoryInv
  <2> QED
    BY <1>1, <2>2, <2>3 DEF IInv, Places
<1> QED
  BY Inductive, <1>1, PTL DEF Spec, RebootSpaced

\* A reboot for the disk follows a cleanup that did not help.
THEOREM DiskRebootIsEarned == Spec => DiskRebootEarned
<1>1. ASSUME IInv, [Next]_vars, Begins("diskReboot")
      PROVE  cleanAge >= DiskCooldown /\ ~relieved
  <2>1. DiskActs
    BY <1>1 DEF Begins, Next, vars, Handlers, Tick, BrowserChanges, SampleArrives,
       MemoryPasses, MemoryNormal, MemoryRises, MemoryActs, KioskRestarted, MemoryRebootFails,
       DiskPasses, DiskNormal, DiskCleaned, DiskRebootFails, CpuCool, CpuHeats, CpuNotifies,
       NotifyAnswered, NotifyFails
  <2>2. isCleaned /\ diskFreeze = 0
    BY <1>1, <2>1 DEF DiskActs, Begins
  <2>3. ~relieved /\ diskFreeze + cleanAge >= DiskCooldown
    BY <1>1, <2>2 DEF IInv, DiskInv
  <2> QED
    BY <1>1, <2>2, <2>3 DEF IInv, Places
<1> QED
  BY Inductive, <1>1, PTL DEF Spec, DiskRebootEarned
-----------------------------------------------------------------------------
(***************************************************************************)
(* How long memory may be high before something is done about it.  The     *)
(* longest it takes is what is left of a cooldown, a disk command that was *)
(* running when it ended, the monitoring period, and a disk command that   *)
(* was running when that ended.  A page that does not answer could add any *)
(* time, so it is assumed to answer.                                       *)
(***************************************************************************)
Longest == MemoryCooldown + CommandTime + MonitorDuration + CommandTime

Prompt ==
  /\ Pages = {TRUE}
  /\ MemoryCooldown > 0 /\ MonitorDuration > 0
  /\ ActionDeadline > Longest

\* The sample of this tick has not arrived yet, or has found memory high: the
\* next tick does not clear the count.
Counted == ~fresh \/ sent.mem = "high"

\* The ticks a command of the disk handler may have held up the memory handler:
\* it is over by the time the next sample is admitted.
Admitting == at = "memory" \/ (at = "idle" /\ ~fresh)
Waited ==
  IF at \in {"cleanup", "diskReboot"} THEN busy - 1
  ELSE IF Admitting THEN CommandTime ELSE CommandTime - 1

\* Where the handlers are when memory is high and nothing was done about it yet.
StageInv ==
  /\ page
  /\ at = "memory" => fresh /\ sent = sample
  /\ at \in {"restart", "memReboot"} => untreated = 0 /\ monitoring /\ memFreeze = 0
  /\ memFreeze > 0 => ~monitoring
  /\ at = "disk" /\ Counted /\ memFreeze = 0 =>
       monitoring /\ (highAge >= MonitorDuration => untreated = 0)

\* How long that has been so, in a cooldown, before, during and after the
\* monitoring period.
CountInv ==
  /\ untreated <= Longest
  /\ memFreeze > 0 => untreated + memFreeze <= MemoryCooldown
  /\ Counted /\ memFreeze = 0 =>
       untreated <= MemoryCooldown
                      + (IF ~monitoring THEN Waited
                         ELSE IF highAge < MonitorDuration THEN CommandTime + highAge
                         ELSE CommandTime + MonitorDuration + Waited)

TimelyInv == StageInv /\ CountInv

LEMMA WorldKeepsTimely ==
  ASSUME Prompt, IInv, TimelyInv, Tick \/ BrowserChanges \/ \E s \in Samples : SampleArrives(s)
  PROVE  TimelyInv'
<1> USE DEF Prompt, Longest, IInv, Places, Flags, TimelyInv, StageInv, CountInv, Counted, Waited,
            Admitting, memVars, diskVars, cpuVars, histVars, Commands
<1>1. CASE Tick
  <2>1. StageInv'
    BY <1>1 DEF Tick, Older, Less
  <2>2. CountInv'
    BY <1>1 DEF Tick, Older, Less
  <2> QED
    BY <2>1, <2>2
<1>2. CASE BrowserChanges
  BY <1>2 DEF BrowserChanges
<1>3. ASSUME NEW s \in Samples, SampleArrives(s) PROVE TimelyInv'
  BY <1>3 DEF SampleArrives
<1> QED
  BY <1>1, <1>2, <1>3

LEMMA HandlersKeepTimely ==
  ASSUME Prompt, IInv, TimelyInv, Handlers
  PROVE  TimelyInv'
<1> USE DEF Prompt, Longest, IInv, Places, Flags, TimelyInv, StageInv, CountInv, Counted, Waited,
            Admitting, memVars, diskVars, cpuVars, histVars, Commands
<1>1. CASE MemoryPasses
  <2>1. StageInv'
    BY <1>1 DEF MemoryPasses
  <2>2. CountInv'
    BY <1>1 DEF MemoryPasses
  <2> QED
    BY <2>1, <2>2
<1>2. CASE MemoryNormal
  <2>1. StageInv'
    BY <1>2 DEF MemoryNormal
  <2>2. CountInv'
    BY <1>2 DEF MemoryNormal
  <2> QED
    BY <2>1, <2>2
<1>3. CASE MemoryRises
  <2>1. StageInv'
    BY <1>3 DEF MemoryRises
  <2>2. CountInv'
    BY <1>3 DEF MemoryRises
  <2> QED
    BY <2>1, <2>2
<1>4. CASE MemoryActs
  <2>1. StageInv'
    BY <1>4 DEF MemoryActs
  <2>2. CountInv'
    BY <1>4 DEF MemoryActs
  <2> QED
    BY <2>1, <2>2
<1>5. CASE KioskRestarted
  <2>1. StageInv'
    BY <1>5 DEF KioskRestarted
  <2>2. CountInv'
    BY <1>5 DEF KioskRestarted
  <2> QED
    BY <2>1, <2>2
<1>6. CASE MemoryRebootFails
  <2>1. StageInv'
    BY <1>6 DEF MemoryRebootFails
  <2>2. CountInv'
    BY <1>6 DEF MemoryRebootFails
  <2> QED
    BY <2>1, <2>2
<1>7. CASE DiskPasses
  <2>1. StageInv'
    BY <1>7 DEF DiskPasses
  <2>2. CountInv'
    BY <1>7 DEF DiskPasses
  <2> QED
    BY <2>1, <2>2
<1>8. CASE DiskNormal
  <2>1. StageInv'
    BY <1>8 DEF DiskNormal
  <2>2. CountInv'
    BY <1>8 DEF DiskNormal
  <2> QED
    BY <2>1, <2>2
<1>9. CASE DiskActs
  <2>1. StageInv'
    BY <1>9 DEF DiskActs
  <2>2. CountInv'
    BY <1>9 DEF DiskActs
  <2> QED
    BY <2>1, <2>2
<1>10. CASE DiskCleaned
  <2>1. StageInv'
    BY <1>10 DEF DiskCleaned
  <2>2. CountInv'
    BY <1>10 DEF DiskCleaned
  <2> QED
    BY <2>1, <2>2
<1>11. CASE DiskRebootFails
  <2>1. StageInv'
    BY <1>11 DEF DiskRebootFails
  <2>2. CountInv'
    BY <1>11 DEF DiskRebootFails
  <2> QED
    BY <2>1, <2>2
<1>12. CASE CpuCool
  <2>1. StageInv'
    BY <1>12 DEF CpuCool
  <2>2. CountInv'
    BY <1>12 DEF CpuCool
  <2> QED
    BY <2>1, <2>2
<1>13. CASE CpuHeats
  <2>1. StageInv'
    BY <1>13 DEF CpuHeats
  <2>2. CountInv'
    BY <1>13 DEF CpuHeats
  <2> QED
    BY <2>1, <2>2
<1>14. CASE CpuNotifies
  <2>1. StageInv'
    BY <1>14 DEF CpuNotifies
  <2>2. CountInv'
    BY <1>14 DEF CpuNotifies
  <2> QED
    BY <2>1, <2>2
<1>15. CASE NotifyAnswered
  <2>1. StageInv'
    BY <1>15 DEF NotifyAnswered
  <2>2. CountInv'
    BY <1>15 DEF NotifyAnswered
  <2> QED
    BY <2>1, <2>2
<1>16. CASE NotifyFails
  <2>1. StageInv'
    BY <1>16 DEF NotifyFails
  <2>2. CountInv'
    BY <1>16 DEF NotifyFails
  <2> QED
    BY <2>1, <2>2
<1> QED
  BY <1>1, <1>2, <1>3, <1>4, <1>5, <1>6, <1>7, <1>8, <1>9, <1>10,
     <1>11, <1>12, <1>13, <1>14, <1>15, <1>16 DEF Handlers

\* It holds at start-up, and every step preserves it.
LEMMA TimelyInit == ASSUME Prompt PROVE Init => TimelyInv
BY DEF Init, Prompt, Longest, TimelyInv, StageInv, CountInv, Counted, Waited, Admitting, Samples

LEMMA TimelyNext == ASSUME Prompt PROVE IInv /\ TimelyInv /\ [Next]_vars => TimelyInv'
<1>1. IInv /\ TimelyInv /\ UNCHANGED vars => TimelyInv'
  BY DEF TimelyInv, StageInv, CountInv, Counted, Waited, Admitting, vars, memVars, diskVars,
     cpuVars, histVars
<1> QED
  BY <1>1, WorldKeepsTimely, HandlersKeepTimely DEF Next

\* On a page that answers, memory is never high for the sum of a cooldown, a
\* monitoring period and two disk commands without a restart or a reboot being
\* begun, whichever samples are dropped while a command blocks the handlers.
THEOREM MemoryIsActedOn == ASSUME Prompt PROVE Spec => []ActedOnInTime
<1>1. IInv /\ TimelyInv => ActedOnInTime
  BY DEF IInv, Places, TimelyInv, CountInv, Prompt, Longest, ActedOnInTime
<1> QED
  BY Inductive, TimelyInit, TimelyNext, <1>1, PTL DEF Spec

\* A kiosk is restarted again only if memory was not high all the time since the
\* last restart, or a reboot was begun: what MemoryEscalates says, as a safety
\* property (untreated is 0 while a restart or a reboot runs).
NoRestartLoop == [][Begins("restart") => untreated < restartAge]_vars

\* It holds when the window in which a restart counts as recent is longer than
\* memory can be high without anything being begun: with the durations of ram.go
\* (60, 15 and 5 s) as long as no command for the disk takes 20 s.
THEOREM RestartsDoNotLoop ==
  ASSUME Prompt, RebootWindow > Longest
  PROVE  Spec => NoRestartLoop
<1>1. ASSUME IInv, TimelyInv, [Next]_vars, Begins("restart")
      PROVE  untreated < restartAge
  <2>1. MemoryActs
    BY <1>1 DEF Begins, Next, vars, Handlers, Tick, BrowserChanges, SampleArrives,
       MemoryPasses, MemoryNormal, MemoryRises, KioskRestarted, MemoryRebootFails, DiskPasses,
       DiskNormal, DiskActs, DiskCleaned, DiskRebootFails, CpuCool, CpuHeats, CpuNotifies,
       NotifyAnswered, NotifyFails
  <2>2. restartAge >= RebootWindow
    BY <1>1, <2>1 DEF MemoryActs, Begins, IInv, Places
  <2>3. untreated <= Longest
    BY <1>1 DEF TimelyInv, CountInv
  <2> QED
    BY <1>1, <2>2, <2>3 DEF IInv, Places, Longest
<1> QED
  BY Inductive, TimelyInit, TimelyNext, <1>1, PTL DEF Spec, NoRestartLoop
=============================================================================
