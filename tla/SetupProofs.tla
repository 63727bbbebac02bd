---------------------------- MODULE SetupProofs ----------------------------
(***************************************************************************)
(* The safety properties of Setup and of SSIDsCacher for any tasks, bound  *)
(* on the wire, requests and scans.  What TLC checks is not inductive: for *)
(* the screen the invariant adds who holds the two mutexes and what is on  *)
(* the wire, for the cache what a lone save has done so far, and for the   *)
(* panics who is fetching the versions.  That nobody waits in a circle for *)
(* the two mutexes follows from who holds them.                            *)
(***************************************************************************)
EXTENDS Setup, SSIDsCacher, SequenceTheorems, TLAPS

\* Where a task goes on after a navigation, a save or a check.
After == {"armed", "home", "load", "version", "idle", "updater", "tail", "reset", "wifi", "relayer",
          "success", "webapp"}
TypeInv == TypeOK /\ \A t \in Tasks : task[t].then \in After

\* A task between its navigation and the record of it, and before.
Navigating == {"socket", "sent", "record"}
Unsure == {"sent", "record"}

LastToRecord(t) ==
  At(t, "record") /\ task[t].want \in Kept /\ (\A u \in Tasks : At(u, "record") => u = t)

ShowInv ==
  /\ \A t \in Tasks : At(t, "page") => task[t].want \in Kept
  /\ \A t \in Tasks : pageBy = t <=> task[t].at \in Navigating /\ task[t].want \in Kept
  /\ \A t \in Tasks : socketBy = t <=> At(t, "sent")
  /\ replied => wire = <<>>
  /\ ~stale /\ socketBy = Nil => wire = <<>>
  /\ socketBy # Nil /\ replied => screen = task[socketBy].want
  /\ socketBy # Nil /\ ~replied => wire # <<>> /\ wire[Len(wire)] = task[socketBy].want
  /\ ~stale /\ socketBy = Nil =>
       \A t \in Tasks : LastToRecord(t) => screen = task[t].want
  /\ RecordedIsShown

\* A save that meets no other has the file for itself.
SaveInv ==
  /\ ~torn => \A t, u \in Saving : t = u
  /\ ~torn /\ Saving # {} => file = {}
  /\ \A t \in Tasks : text[t] \subseteq mem
  /\ saved => "topic" \in mem
  /\ ~torn /\ saved => \A t \in Tasks : At(t, "flush") => "topic" \in text[t]
  /\ ~torn /\ saved /\ Saving = {} => "topic" \in file /\ Garbled \notin file

VersionInv ==
  /\ \A t, u \in Tasks : At(t, "fetch") /\ At(u, "fetch") /\ t # u => t \in excused
  /\ \A t \in Tasks : At(t, "fetch") /\ versions # "none" => t \in excused
  /\ PanicsOnlyExcused

-----------------------------------------------------------------------------
\* The steps of a task, sorted by what else they change: the page, the cache,
\* the versions, or nothing but auto and listening.
Turning(t) == task' = [task EXCEPT ![t] = task'[t]]

\* Those that need no more than the place of the task.
Simply(t) ==
  \/ GoesHome(t) \/ StartsUpdater(t) \/ TellsProgress(t) \/ TriesWifi(t) \/ OpensWebApp(t)
  \/ Resets(t) \/ Commands(t)
  \/ t = Main /\ (Arms \/ Proceeds)

\* Those that may put a key into the cache.
Enters(t) == GetsTopic(t) \/ (t = Main /\ (Boots \/ GetsOnline))

Asking(t) == LooksUpVersions(t) \/ GetsNoVersions(t) \/ \E v \in {"current", "old"} : GetsVersions(t, v)

Remains == Listens \/ UNCHANGED vars

LEMMA Steps ==
  ASSUME [Next]_vars
  PROVE  \/ \E t \in Tasks : ShowStep(t) \/ SaveStep(t) \/ Simply(t) \/ Enters(t) \/ Asking(t)
         \/ Remains \/ Performs \/ Restarts
<1>1. Main \in Tasks
  BY SetupAssumption
<1> QED
  <2>1. CASE \E t \in Tasks : Commands(t) \/ GoesOn(t) \/ TellsProgress(t)
    <3>1. PICK t \in Tasks : Commands(t) \/ GoesOn(t) \/ TellsProgress(t)
      BY <2>1
    <3>2. CASE Commands(t) \/ TellsProgress(t)
      BY <3>2 DEF Simply
    <3>3. CASE GoesOn(t)
      <4>1. CASE GoesHome(t) \/ StartsUpdater(t) \/ TriesWifi(t) \/ OpensWebApp(t) \/ Resets(t)
        BY <4>1 DEF Simply
      <4>2. CASE LooksUpVersions(t) \/ GetsNoVersions(t) \/ \E v \in {"current", "old"} : GetsVersions(t, v)
        BY <4>2 DEF Asking
      <4>3. CASE GetsTopic(t)
        BY <4>3 DEF Enters
      <4> QED
        BY <3>3, <4>1, <4>2, <4>3 DEF GoesOn
    <3> QED
      BY <3>1, <3>2, <3>3
  <2>2. CASE MainStep \/ GetsOnline
    BY <1>1, <2>2 DEF MainStep, Simply, Enters
  <2> QED
    BY <2>1, <2>2 DEF Next, Remains

\* The places between which those steps move their task.
LEMMA SimplyMoves ==
  ASSUME TypeInv, NEW t \in Tasks, Simply(t)
  PROVE  /\ Turning(t) /\ UNCHANGED <<pageVars, cacheVars, versions, excused>>
         /\ task[t].at \notin Navigating \cup {"create", "snap", "flush", "fetch", "panicked"}
         /\ task'[t].at \notin Unsure \cup {"create", "snap", "flush", "fetch", "panicked"}
         /\ task'[t].at = "socket" => task'[t].want \notin Kept
         /\ task'[t].at = "page" => task'[t].want \in Kept
         /\ task'[t] \in [at : Places, want : Pages, then : After]
<1> USE DEF TypeInv, TypeOK, Turning, Goes, Shows, Showing, Doing, Idle, At, Alone, Navigating, Unsure,
            Places, After, Kept, Pages, pageVars, cacheVars, restVars
<1>1. CASE GoesHome(t) \/ StartsUpdater(t) \/ TellsProgress(t)
  BY <1>1 DEF GoesHome, StartsUpdater, TellsProgress
<1>2. CASE TriesWifi(t)
  BY <1>2 DEF TriesWifi
<1>5. CASE OpensWebApp(t) \/ Resets(t)
  BY <1>5 DEF OpensWebApp, Resets
<1>3. CASE Commands(t)
  BY <1>3 DEF Commands, Starts, Welcomes, FactoryResets, ConnectsWifi, KeepsWifi, Switches
<1>4. CASE t = Main /\ Arms
  BY <1>4 DEF Arms
<1>6. CASE t = Main /\ Proceeds
  BY <1>6 DEF Proceeds
<1> QED
  BY <1>1, <1>2, <1>3, <1>4, <1>5, <1>6 DEF Simply

LEMMA EntersMoves ==
  ASSUME TypeInv, NEW t \in Tasks, Enters(t)
  PROVE  /\ Turning(t) /\ UNCHANGED <<pageVars, file, text, saved, torn, restVars>>
         /\ task[t].at \notin Navigating \cup {"create", "snap", "flush", "fetch", "panicked"}
         /\ task'[t].at \notin Unsure \cup {"snap", "flush", "fetch", "panicked"}
         /\ task'[t].at = "socket" => task'[t].want \notin Kept
         /\ task'[t].at = "page" => task'[t].want \in Kept
         /\ task'[t] \in [at : Places, want : Pages, then : After]
         /\ mem \subseteq mem' /\ mem' \subseteq Keys
<1> USE DEF TypeInv, TypeOK, Turning, Goes, Shows, Showing, Doing, Idle, At, Navigating, Unsure, Places,
            After, Kept, Pages, Keys, pageVars, cacheVars, restVars
<1>1. mem' = mem \/ \E key \in Keys : mem' = mem \cup {key}
  BY DEF Enters, GetsTopic, Boots, GetsOnline, SetsKey
<1>2. mem \subseteq mem' /\ mem' \subseteq Keys
  BY <1>1
<1>3. CASE GetsTopic(t)
  BY <1>2, <1>3 DEF GetsTopic, SetsKey
<1>4. CASE t = Main /\ Boots
  BY <1>2, <1>4 DEF Boots, SetsKey
<1>5. CASE t = Main /\ GetsOnline
  BY <1>2, <1>5 DEF GetsOnline, SetsKey
<1> QED
  BY <1>3, <1>4, <1>5 DEF Enters

LEMMA AskingMoves ==
  ASSUME TypeInv, NEW t \in Tasks, Asking(t)
  PROVE  /\ Turning(t) /\ UNCHANGED <<pageVars, cacheVars, auto, listening>>
         /\ task[t].at \notin Navigating \cup {"create", "snap", "flush", "panicked"}
         /\ task'[t].at \notin Unsure \cup {"create", "snap", "flush"}
         /\ task'[t].at = "socket" => task'[t].want \notin Kept
         /\ task'[t].at = "page" => task'[t].want \in Kept
         /\ task'[t] \in [at : Places, want : Pages, then : After]
         /\ versions' \in {"none", "current", "old"} /\ excused' \subseteq Tasks
<1> USE DEF TypeInv, TypeOK, Turning, Goes, Shows, Showing, Doing, Idle, At, Navigating, Unsure, Places,
            After, Kept, Pages, Decided, Fetching, pageVars, cacheVars
<1>1. CASE LooksUpVersions(t)
  BY <1>1 DEF LooksUpVersions
<1>2. CASE GetsNoVersions(t)
  BY <1>2 DEF GetsNoVersions
<1>3. CASE \E v \in {"current", "old"} : GetsVersions(t, v)
  BY <1>3 DEF GetsVersions
<1> QED
  BY <1>1, <1>2, <1>3 DEF Asking

LEMMA SaveMoves ==
  ASSUME TypeInv, NEW t \in Tasks, SaveStep(t)
  PROVE  /\ Turning(t) /\ UNCHANGED <<pageVars, versions, auto, listening>>
         /\ task[t].at \in {"create", "snap", "flush"}
         /\ task'[t].at \notin Unsure \cup {"fetch"}
         /\ task'[t].at = "socket" => task'[t].want \notin Kept
         /\ task'[t].at = "page" => task'[t].want \in Kept
         /\ task'[t].at = "panicked" => t \in excused'
         /\ task'[t] \in [at : Places, want : Pages, then : After]
         /\ excused \subseteq excused' /\ excused' \subseteq Tasks
<1> USE DEF TypeInv, TypeOK, Turning, Goes, Showing, Doing, At, Navigating, Unsure, Places, After, Kept,
            Pages, pageVars, restVars
<1>1. Continues(t) \in [at : After \cup {"socket"}, want : {"Message", "None"}, then : After]
      /\ (Continues(t).at = "socket" => Continues(t).want = "Message")
  <2>1. CASE task[t].then = "success"
    BY <2>1 DEF Continues
  <2>2. CASE task[t].then = "version"
    BY <2>2 DEF Continues
  <2>3. CASE task[t].then \notin {"success", "version"}
    BY <2>3 DEF Continues
  <2> QED
    BY <2>1, <2>2, <2>3
<1>2. CASE Creates(t) \/ Copies(t)
  BY <1>2 DEF Creates, Copies
<1>3. CASE Flushes(t)
  BY <1>1, <1>3 DEF Flushes
<1>4. CASE SaveFails(t)
  BY <1>1, <1>4 DEF SaveFails
<1> QED
  BY <1>2, <1>3, <1>4 DEF SaveStep

LEMMA ShowMoves ==
  ASSUME TypeInv, NEW t \in Tasks, ShowStep(t)
  PROVE  /\ Turning(t) /\ UNCHANGED <<cacheVars, restVars>>
         /\ task[t].at \notin {"snap", "flush", "fetch", "panicked"}
         /\ task'[t].at \notin {"snap", "flush", "fetch", "panicked"}
         /\ task'[t] \in [at : Places, want : Pages, then : After]
<1> USE DEF TypeInv, TypeOK, Turning, Goes, Doing, At, Navigating, Places, After, Pages, cacheVars, restVars
<1>1. CASE LocksPage(t) \/ Navigates(t) \/ ReplyComes(t)
  BY <1>1 DEF LocksPage, Navigates, ReplyComes
<1>2. CASE GivesUp(t) \/ CannotNavigate(t) \/ Records(t)
  BY <1>2 DEF GivesUp, CannotNavigate, Records
<1> QED
  BY <1>1, <1>2 DEF ShowStep

-----------------------------------------------------------------------------
\* The types, and the places a task may be sent back to.
LEMMA TypeInit == Init => TypeInv
<1> SUFFICES ASSUME Init PROVE TypeInv
  OBVIOUS
<1> USE DEF Init
<1>1. task \in [Tasks -> [at : Places, want : Pages, then : After]] /\ After \subseteq Places
  BY DEF After, Places, Pages, Kept, Doing, Idle
<1>2. /\ page \in Pages /\ screen \in Pages /\ wire \in Seq(Pages)
      /\ pageBy \in Tasks \cup {Nil} /\ socketBy \in Tasks \cup {Nil}
  BY DEF Pages, Kept
<1>3. /\ mem \subseteq Keys /\ file \subseteq Keys \cup {Garbled} /\ text \in [Tasks -> SUBSET Keys]
      /\ versions \in {"none", "current", "old"} /\ excused \subseteq Tasks
  OBVIOUS
<1>4. replied \in BOOLEAN /\ stale \in BOOLEAN /\ torn \in BOOLEAN
  OBVIOUS
<1>6. saved \in BOOLEAN
  OBVIOUS
<1>5. auto \in BOOLEAN /\ listening \in BOOLEAN
  OBVIOUS
<1> QED
  BY <1>1, <1>2, <1>3, <1>4, <1>5, <1>6 DEF TypeInv, TypeOK

LEMMA TaskType ==
  ASSUME TypeInv, NEW t \in Tasks, Turning(t), task'[t] \in [at : Places, want : Pages, then : After]
  PROVE  /\ task' \in [Tasks -> [at : Places, want : Pages, then : Places]]
         /\ \A u \in Tasks : task'[u].then \in After
<1>1. After \subseteq Places
  BY DEF After, Places
<1> QED
  BY <1>1 DEF TypeInv, TypeOK, Turning

LEMMA TypeNext == TypeInv /\ [Next]_vars => TypeInv'
<1> SUFFICES ASSUME TypeInv, [Next]_vars PROVE TypeInv'
  OBVIOUS
<1> USE DEF TypeInv, TypeOK, Turning, pageVars, cacheVars, restVars
<1>1. ASSUME NEW t \in Tasks, Simply(t) PROVE TypeInv'
  <2>1. auto' \in BOOLEAN /\ listening' \in BOOLEAN
    BY <1>1
       DEF Simply, GoesHome, StartsUpdater, TellsProgress, TriesWifi, OpensWebApp, Resets, Commands,
           Starts, Welcomes, FactoryResets, ConnectsWifi, KeepsWifi, Switches, Arms, Proceeds, Alone
  <2> QED
    BY <1>1, <2>1, SimplyMoves, TaskType
<1>2. ASSUME NEW t \in Tasks, Enters(t) PROVE TypeInv'
  BY <1>2, EntersMoves, TaskType
<1>3. ASSUME NEW t \in Tasks, Asking(t) PROVE TypeInv'
  BY <1>3, AskingMoves, TaskType
<1>4. ASSUME NEW t \in Tasks, ShowStep(t) PROVE TypeInv'
  <2>1. task' \in [Tasks -> [at : Places, want : Pages, then : Places]]
        /\ \A u \in Tasks : task'[u].then \in After
    BY <1>4, ShowMoves, TaskType
  <2>2. wire' \in Seq(Pages) /\ page' \in Pages /\ screen' \in Pages
    <3>1. task[t].want \in Pages
      OBVIOUS
    <3>2. wire' \in {wire, Append(wire, task[t].want)} /\ page' \in {page, task[t].want}
          /\ screen' = screen
      BY <1>4 DEF ShowStep, LocksPage, Navigates, ReplyComes, GivesUp, CannotNavigate, Records
    <3>3. \A w \in Seq(Pages), p \in Pages : Append(w, p) \in Seq(Pages)
      OBVIOUS
    <3> HIDE DEF TypeInv
    <3>4. wire \in Seq(Pages) /\ page \in Pages /\ screen \in Pages
      BY DEF TypeInv, TypeOK
    <3> QED
      BY <3>1, <3>2, <3>3, <3>4
  <2>3. pageBy' \in Tasks \cup {Nil} /\ socketBy' \in Tasks \cup {Nil}
    BY <1>4
       DEF ShowStep, LocksPage, Navigates, ReplyComes, GivesUp, CannotNavigate, Records
  <2>4. replied' \in BOOLEAN /\ stale' \in BOOLEAN
    BY <1>4
       DEF ShowStep, LocksPage, Navigates, ReplyComes, GivesUp, CannotNavigate, Records
  <2> QED
    BY <1>4, <2>1, <2>2, <2>3, <2>4, ShowMoves
<1>5. ASSUME NEW t \in Tasks, SaveStep(t) PROVE TypeInv'
  <2>1. /\ mem' = mem /\ file' \in SUBSET (Keys \cup {Garbled})
        /\ text' \in [Tasks -> SUBSET Keys]
    BY <1>5 DEF SaveStep, Creates, Copies, Flushes, SaveFails
  <2>2. saved' \in BOOLEAN /\ torn' \in BOOLEAN
    BY <1>5 DEF SaveStep, Creates, Copies, Flushes, SaveFails
  <2> QED
    BY <1>5, <2>1, <2>2, SaveMoves, TaskType
<1>6. CASE Remains
  <2>1. UNCHANGED <<task, page, pageBy, socketBy, wire, replied, screen, stale>>
    BY <1>6 DEF Remains, Listens, vars, taskVars
  <2>2. UNCHANGED <<mem, file, text, saved, torn, versions, excused>>
    BY <1>6 DEF Remains, Listens, vars
  <2>3. auto' \in BOOLEAN /\ listening' \in BOOLEAN
    BY <1>6 DEF Remains, Listens, vars
  <2> QED
    BY <2>1, <2>2, <2>3
<1>7. CASE Performs
  BY <1>7 DEF Performs
<1>8. CASE Restarts
  <2> USE <1>8 DEF Restarts
  <2>1. task' \in [Tasks -> [at : Places, want : Pages, then : After]] /\ After \subseteq Places
    BY DEF Idle, Doing, Places, After, Pages, Kept
  <2>2. page' \in Pages /\ screen' \in Pages /\ wire' \in Seq(Pages)
    BY DEF Pages, Kept
  <2>3. /\ mem' \subseteq Keys /\ file' \subseteq Keys \cup {Garbled} /\ text' \in [Tasks -> SUBSET Keys]
        /\ versions' \in {"none", "current", "old"} /\ excused' \subseteq Tasks
        /\ pageBy' \in Tasks \cup {Nil} /\ socketBy' \in Tasks \cup {Nil}
    OBVIOUS
  <2>4. replied' \in BOOLEAN /\ stale' \in BOOLEAN /\ saved' \in BOOLEAN /\ torn' \in BOOLEAN
    OBVIOUS
  <2>5. auto' \in BOOLEAN /\ listening' \in BOOLEAN
    OBVIOUS
  <2> QED
    BY <2>1, <2>2, <2>3, <2>4, <2>5
<1> QED
  BY <1>1, <1>2, <1>3, <1>4, <1>5, <1>6, <1>7, <1>8, Steps

-----------------------------------------------------------------------------
\* The versions: whoever fetches them with another is excused.
LEMMA VersionInit == Init => VersionInv
BY DEF Init, VersionInv, PanicsOnlyExcused, At, Doing, Idle

LEMMA VersionNext == TypeInv /\ VersionInv /\ [Next]_vars => VersionInv'
<1> SUFFICES ASSUME TypeInv, VersionInv, [Next]_vars PROVE VersionInv'
  OBVIOUS
<1> USE DEF TypeInv, TypeOK, Turning, VersionInv, PanicsOnlyExcused, At, restVars
<1>1. ASSUME NEW t \in Tasks, Simply(t) PROVE VersionInv'
  BY <1>1, SimplyMoves
<1>2. ASSUME NEW t \in Tasks, Enters(t) PROVE VersionInv'
  BY <1>2, EntersMoves
<1>3. ASSUME NEW t \in Tasks, LooksUpVersions(t) PROVE VersionInv'
  BY <1>3 DEF LooksUpVersions, Goes, Decided, Showing, Doing, Fetching, Kept, After
<1>4. ASSUME NEW t \in Tasks, GetsNoVersions(t) PROVE VersionInv'
  BY <1>4 DEF GetsNoVersions, Goes, Shows, Showing, Doing, Kept
<1>5. ASSUME NEW t \in Tasks, NEW v \in {"current", "old"}, GetsVersions(t, v) PROVE VersionInv'
  BY <1>5 DEF GetsVersions, Goes, Decided, Showing, Doing, Kept, After
<1>6. ASSUME NEW t \in Tasks, ShowStep(t) PROVE VersionInv'
  BY <1>6, ShowMoves
<1>7. ASSUME NEW t \in Tasks, SaveStep(t) PROVE VersionInv'
  BY <1>7, SaveMoves
<1>8. CASE Remains \/ Performs
  BY <1>8 DEF Remains, Listens, Performs, vars, taskVars
<1>9. CASE Restarts
  BY <1>9 DEF Restarts, Idle, Doing
<1> QED
  BY <1>1, <1>2, <1>3, <1>4, <1>5, <1>6, <1>7, <1>8, <1>9, Steps DEF Asking

-----------------------------------------------------------------------------
\* The cache and its file.
LEMMA SaveInit == Init => SaveInv
<1> SUFFICES ASSUME Init PROVE SaveInv
  OBVIOUS
<1>1. Saving = {} /\ (\A t \in Tasks : text[t] = {} /\ ~At(t, "flush"))
  BY DEF Init, Saving, At, Doing, Idle
<1>2. Garbled \notin file /\ mem = file
  BY DEF Init, Garbled, Keys
<1>3. saved => "topic" \in file
  BY DEF Init
<1> QED
  BY <1>1, <1>2, <1>3 DEF SaveInv

\* A step of a task that is not saving and leaves the file alone.
LEMMA SaveFrame ==
  ASSUME TypeInv, SaveInv, NEW t \in Tasks, Turning(t),
         UNCHANGED <<file, text, saved, torn>>, mem \subseteq mem',
         task[t].at \notin {"snap", "flush"}, task'[t].at \notin {"snap", "flush"}
  PROVE  SaveInv'
<1>1. \A u \in Tasks : (At(u, "snap")' <=> At(u, "snap")) /\ (At(u, "flush")' <=> At(u, "flush"))
  BY DEF TypeInv, TypeOK, Turning, At
<1>2. Saving' = Saving
  BY <1>1 DEF Saving
<1>3. \A u \in Tasks : text'[u] \subseteq mem'
  BY DEF SaveInv
<1> QED
  BY <1>1, <1>2, <1>3 DEF SaveInv

LEMMA SaveNext == TypeInv /\ SaveInv /\ [Next]_vars => SaveInv'
<1> SUFFICES ASSUME TypeInv, SaveInv, [Next]_vars PROVE SaveInv'
  OBVIOUS
<1> USE DEF TypeInv, TypeOK, Turning, SaveInv, Saving, At, cacheVars
<1>1. ASSUME NEW t \in Tasks, Simply(t) PROVE SaveInv'
  BY <1>1, SimplyMoves, SaveFrame
<1>2. ASSUME NEW t \in Tasks, Enters(t) PROVE SaveInv'
  BY <1>2, EntersMoves, SaveFrame
<1>3. ASSUME NEW t \in Tasks, Asking(t) PROVE SaveInv'
  BY <1>3, AskingMoves, SaveFrame
<1>4. ASSUME NEW t \in Tasks, ShowStep(t) PROVE SaveInv'
  BY <1>4, ShowMoves, SaveFrame
<1>5. ASSUME NEW t \in Tasks, Creates(t) PROVE SaveInv'
  BY <1>5 DEF Creates, Goes, Doing
<1>6. ASSUME NEW t \in Tasks, Copies(t) PROVE SaveInv'
  BY <1>6 DEF Copies, Goes, Doing
<1>7. ASSUME NEW t \in Tasks, Flushes(t) PROVE SaveInv'
  <2> USE <1>7 DEF Flushes, Goes
  <2>1. /\ Turning(t) /\ task'[t].at \notin {"snap", "flush"} /\ task[t].at = "flush" /\ torn' = torn
        /\ mem' = mem /\ text' = [text EXCEPT ![t] = {}]
    <3>1. task'[t].at \notin {"snap", "flush"}
      BY DEF Continues, Showing, Doing, Kept, After
    <3> QED
      BY <3>1
  <2>2. ~torn => Saving = {t} /\ Saving' = {}
    BY <2>1
  <2>3. ~torn => file = {} /\ file' = text[t]
    BY <2>1
  <2>4. saved' => saved \/ "topic" \in text[t]
    OBVIOUS
  <2>5. saved' => "topic" \in mem'
    BY <2>1, <2>4
  <2>6. ~torn /\ saved' => "topic" \in file' /\ Garbled \notin file'
    <3>1. ~torn /\ saved' => "topic" \in text[t]
      BY <2>1, <2>4
    <3>2. Garbled \notin text[t]
      BY DEF Garbled, Keys
    <3> QED
      BY <2>3, <3>1, <3>2
  <2> QED
    BY <2>1, <2>2, <2>5, <2>6
<1>8. ASSUME NEW t \in Tasks, SaveFails(t) PROVE SaveInv'
  BY <1>8, SaveMoves DEF SaveFails, SaveStep
<1>9. CASE Remains \/ Performs
  BY <1>9 DEF Remains, Listens, Performs, vars, taskVars
<1>10. CASE Restarts
  BY <1>10 DEF Restarts, Idle, Doing
<1> QED
  BY <1>1, <1>2, <1>3, <1>4, <1>5, <1>6, <1>7, <1>8, <1>9, <1>10, Steps DEF SaveStep

-----------------------------------------------------------------------------
\* What was sent last stays last.
LEMMA LastOfTail ==
  ASSUME NEW s \in Seq(Pages), s # <<>>, Len(s) # 1
  PROVE  Tail(s) # <<>> /\ Tail(s)[Len(Tail(s))] = s[Len(s)]
<1>1. Len(s) \in Nat /\ Len(s) > 1
  <2>1. Len(s) \in Nat
    OBVIOUS
  <2>2. Len(s) # 0
    BY EmptySeq
  <2>3. \A n \in Nat : n # 0 /\ n # 1 => n > 1
    OBVIOUS
  <2> QED
    BY <2>1, <2>2, <2>3
<1>2. Tail(s) \in Seq(Pages) /\ Len(Tail(s)) = Len(s) - 1
  BY <1>1
<1>3. Tail(s)[Len(s) - 1] = s[Len(s)]
  BY <1>1
<1> QED
  BY <1>1, <1>2, <1>3

\* The page recorded and the screen.
LEMMA ShowInit == Init => ShowInv
<1> SUFFICES ASSUME Init PROVE ShowInv
  OBVIOUS
<1>1. /\ pageBy = Nil /\ socketBy = Nil /\ wire = <<>> /\ ~replied /\ page \notin Kept
      /\ \A t \in Tasks : task[t].at \notin Navigating /\ task[t].at # "page"
  BY DEF Init, Navigating, Doing, Idle, Kept
<1>2. \A t \in Tasks : ~At(t, "page") /\ ~At(t, "sent") /\ ~At(t, "record")
  BY <1>1 DEF At, Navigating
<1> QED
  BY <1>1, <1>2, SetupAssumption DEF ShowInv, RecordedIsShown, LastToRecord

\* A step that leaves the page alone and sends nobody past the mutexes.
LEMMA ShowFrame ==
  ASSUME TypeInv, ShowInv, UNCHANGED pageVars, NEW t \in Tasks, Turning(t),
         task[t].at \notin Navigating, task'[t].at \notin Unsure,
         task'[t].at = "socket" => task'[t].want \notin Kept,
         task'[t].at = "page" => task'[t].want \in Kept
  PROVE  ShowInv'
<1>1. \A u \in Tasks : (task'[u].at \in Navigating /\ task'[u].want \in Kept)
                         <=> (task[u].at \in Navigating /\ task[u].want \in Kept)
  BY DEF TypeInv, TypeOK, Turning, Navigating, Unsure
<1>2. \A u \in Tasks : /\ task[u].at \in Unsure <=> task'[u].at \in Unsure
                       /\ task[u].at \in Unsure => task'[u] = task[u]
  <2>1. \A u \in Tasks : u # t => task'[u] = task[u]
    BY DEF TypeInv, TypeOK, Turning
  <2>2. task[t].at \notin Unsure
    BY DEF Navigating, Unsure
  <2>3. \A u \in Tasks : u = t => task[u].at \notin Unsure /\ task'[u].at \notin Unsure
    BY <2>2
  <2> QED
    BY <2>1, <2>3
<1>3. \A u \in Tasks : (At(u, "sent") <=> At(u, "sent")') /\ (At(u, "record") <=> At(u, "record")')
  <2> SUFFICES ASSUME NEW u \in Tasks
               PROVE  (At(u, "sent") <=> At(u, "sent")') /\ (At(u, "record") <=> At(u, "record")')
    OBVIOUS
  <2>1. CASE task[u].at \in Unsure
    <3>1. task'[u] = task[u]
      BY <1>2, <2>1
    <3> QED
      BY <3>1 DEF At
  <2>2. CASE task[u].at \notin Unsure
    BY <1>2, <2>2 DEF At, Unsure
  <2> QED
    BY <2>1, <2>2
<1>4. socketBy # Nil => socketBy \in Tasks /\ task'[socketBy] = task[socketBy]
  <2>1. socketBy # Nil => socketBy \in Tasks /\ At(socketBy, "sent")
    BY DEF TypeInv, TypeOK, ShowInv
  <2>2. socketBy # Nil => task[socketBy].at \in Unsure
    BY <2>1 DEF Unsure, At
  <2> QED
    BY <1>2, <2>1, <2>2
<1>5. \A u \in Tasks : At(u, "page")' => task'[u].want \in Kept
  BY DEF TypeInv, TypeOK, ShowInv, Turning, At
<1>6. \A u \in Tasks : LastToRecord(u)' => LastToRecord(u) /\ task'[u].want = task[u].want
  BY <1>2, <1>3 DEF LastToRecord, Unsure, At
<1> QED
  BY <1>1, <1>3, <1>4, <1>5, <1>6 DEF ShowInv, RecordedIsShown, pageVars

LEMMA ShowNext == TypeInv /\ ShowInv /\ [Next]_vars => ShowInv'
<1> SUFFICES ASSUME TypeInv, ShowInv, [Next]_vars PROVE ShowInv'
  OBVIOUS
<1>1. ASSUME NEW t \in Tasks, Simply(t) PROVE ShowInv'
  BY <1>1, SimplyMoves, ShowFrame
<1>2. ASSUME NEW t \in Tasks, Enters(t) PROVE ShowInv'
  BY <1>2, EntersMoves, ShowFrame
<1>3. ASSUME NEW t \in Tasks, Asking(t) PROVE ShowInv'
  BY <1>3, AskingMoves, ShowFrame
<1>4. ASSUME NEW t \in Tasks, SaveStep(t) PROVE ShowInv'
  BY <1>4, SaveMoves, ShowFrame DEF Navigating
<1> USE SetupAssumption
    DEF TypeInv, TypeOK, ShowInv, RecordedIsShown, LastToRecord, At, Navigating, Goes, Doing, After
<1>5. ASSUME NEW t \in Tasks, LocksPage(t) PROVE ShowInv'
  <2>1. CASE task[t].want = "WebApp" /\ page = "WebApp"
    <3>1. UNCHANGED pageVars /\ Turning(t) /\ task[t].at = "page" /\ task'[t].at \in After
      BY <1>5, <2>1 DEF LocksPage, Turning, pageVars
    <3> QED
      BY <3>1, ShowFrame DEF Unsure
  <2>2. CASE ~(task[t].want = "WebApp" /\ page = "WebApp")
    <3>1. /\ task[t].want \in Kept /\ pageBy = Nil /\ pageBy' = t /\ At(t, "page")
          /\ task' = [task EXCEPT ![t] = [task[t] EXCEPT !.at = "socket"]]
          /\ UNCHANGED <<page, socketBy, wire, replied, screen, stale>>
      BY <1>5, <2>2 DEF LocksPage
    <3> QED
      BY <3>1
  <2> QED
    BY <2>1, <2>2
<1>6. ASSUME NEW t \in Tasks, Navigates(t) PROVE ShowInv'
  BY <1>6 DEF Navigates
<1>7. CASE Performs
  <2>1. CASE Len(wire) = 1
    <3>1. wire' = <<>> /\ wire[1] = wire[Len(wire)] /\ screen' = wire[1]
      BY <1>7, <2>1 DEF Performs
    <3> QED
      BY <1>7, <2>1, <3>1 DEF Performs
  <2>2. CASE Len(wire) # 1
    <3>1. wire' # <<>> /\ wire'[Len(wire')] = wire[Len(wire)]
      <4>1. wire' = Tail(wire) /\ wire # <<>>
        BY <1>7 DEF Performs
      <4> QED
        BY <2>2, <4>1, LastOfTail
    <3> QED
      BY <1>7, <2>2, <3>1 DEF Performs
  <2> QED
    BY <2>1, <2>2
<1>8. ASSUME NEW t \in Tasks, ReplyComes(t) PROVE ShowInv'
  BY <1>8 DEF ReplyComes
<1>9. ASSUME NEW t \in Tasks, GivesUp(t) PROVE ShowInv'
  BY <1>9 DEF GivesUp
<1>10. ASSUME NEW t \in Tasks, CannotNavigate(t) PROVE ShowInv'
  BY <1>10 DEF CannotNavigate
<1>11. ASSUME NEW t \in Tasks, Records(t) PROVE ShowInv'
  BY <1>11 DEF Records
<1>12. CASE Remains
  BY <1>12 DEF Remains, Listens, vars, taskVars, pageVars
<1>13. CASE Restarts
  BY <1>13 DEF Restarts, Idle, Kept
<1> QED
  BY <1>1, <1>2, <1>3, <1>4, <1>5, <1>6, <1>7, <1>8, <1>9, <1>10, <1>11, <1>12, <1>13, Steps DEF ShowStep

-----------------------------------------------------------------------------
\* The scans: one that refreshes is on its way to wake who waits.
SSIDInv ==
  /\ SSIDTypeOK
  /\ refreshing => \E s \in Scans : scan[s] = "list"
  /\ \A r \in Requests : get[r] \in {"gap", "wait"} => (\E s \in Scans : scan[s] # "over") \/ r \in missed

LEMMA SSIDInitially == SSIDInit => SSIDInv
BY DEF SSIDInit, SSIDInv, SSIDTypeOK

LEMMA SSIDSteps == SSIDInv /\ [SSIDNext]_ssidVars => SSIDInv'
<1> SUFFICES ASSUME SSIDInv, [SSIDNext]_ssidVars PROVE SSIDInv'
  OBVIOUS
<1> USE DEF SSIDInv, SSIDTypeOK, Turns, Spawns
<1>1. CASE Triggered \/ Expires \/ UNCHANGED ssidVars
  BY <1>1 DEF Triggered, Expires, ssidVars
<1>2. ASSUME NEW r \in Requests, Asks(r) \/ Waits(r) PROVE SSIDInv'
  BY <1>2 DEF Asks, Waits
<1>7. ASSUME NEW r \in Requests, GetsNames(r) PROVE SSIDInv'
  <2>1. /\ get' = [get EXCEPT ![r] = "idle"] /\ UNCHANGED <<scan, refreshing, missed>>
        /\ names' \in {"none", "some", "empty"}
    BY <1>7 DEF GetsNames
  <2>2. failed' \in BOOLEAN
    BY <1>7 DEF GetsNames
  <2> QED
    BY <2>1, <2>2
<1>8. ASSUME NEW r \in Requests, GetsError(r) PROVE SSIDInv'
  BY <1>8 DEF GetsError
<1>3. ASSUME NEW r \in Requests, GetsNothing(r) PROVE SSIDInv'
  BY <1>3 DEF GetsNothing
<1>4. ASSUME NEW s \in Scans, RefreshBegins(s) PROVE SSIDInv'
  BY <1>4 DEF RefreshBegins
<1>5. ASSUME NEW s \in Scans, Listed(s) PROVE SSIDInv'
  BY <1>5 DEF Listed
<1>6. ASSUME NEW s \in Scans, Notifies(s) PROVE SSIDInv'
  BY <1>6 DEF Notifies
<1> QED
  BY <1>1, <1>2, <1>3, <1>4, <1>5, <1>6, <1>7, <1>8 DEF SSIDNext

-----------------------------------------------------------------------------
\* Every variable of Setup keeps its type, for any tasks and any bound on the wire.
THEOREM TypeCorrect == Spec => []TypeOK
<1>1. TypeInv => TypeOK
  BY DEF TypeInv
<1> QED
  BY TypeInit, TypeNext, <1>1, PTL DEF Spec

\* show_webapp may skip its navigation (main.rs:560): while the web app or the
\* QR code is the page recorded, Chromium shows it, whoever navigates meanwhile.
THEOREM RecordedPageIsShown == Spec => []RecordedIsShown
<1>1. ShowInv => RecordedIsShown
  BY DEF ShowInv
<1> QED
  BY TypeInit, TypeNext, ShowInit, ShowNext, <1>1, PTL DEF Spec

\* A topic that was saved stays known and in the file (cache.rs:55-62), over
\* later saves and restarts, unless saves crossed, failed or were cut short.
THEOREM SavedTopicIsKept == Spec => []SavedTopicStays
<1>1. SaveInv => SavedTopicStays
  BY DEF SaveInv, SavedTopicStays
<1> QED
  BY TypeInit, TypeNext, SaveInit, SaveNext, <1>1, PTL DEF Spec

\* A task panics (updater.rs:202, main.rs:195, 206) only if its request for the
\* versions met another, or the file of the cache could not be created.
THEOREM OnlyExcusedPanic == Spec => []PanicsOnlyExcused
<1>1. VersionInv => PanicsOnlyExcused
  BY DEF VersionInv
<1> QED
  BY TypeInit, TypeNext, VersionInit, VersionNext, <1>1, PTL DEF Spec

\* A request for wifi names that waits (wifi_utils.rs:135) has a refresh on its
\* way to wake it, or has missed its wake-up, for any requests and refreshes.
THEOREM WaitingHasRefresh == SSIDInit /\ [][SSIDNext]_ssidVars => []WaitsForRefresh
<1>1. SSIDInv => WaitsForRefresh
  BY DEF SSIDInv, WaitsForRefresh
<1> QED
  BY SSIDInitially, SSIDSteps, <1>1, PTL

-----------------------------------------------------------------------------
\* t waits for a mutex that u holds: the one of the page, to lock it or to record
\* what it has shown, or the one of the CDP socket.
WaitsFor(t, u) ==
  \/ At(t, "page") /\ pageBy = u
  \/ At(t, "record") /\ pageBy = u /\ u # t
  \/ At(t, "socket") /\ socketBy = u

NobodyWaitsLong == \A t, u, v, w \in Tasks : ~(WaitsFor(t, u) /\ WaitsFor(u, v) /\ WaitsFor(v, w))

\* show_webapp and show_qrcode lock the page and navigate under the lock
\* (main.rs:457-550), the others navigate and lock it to record the page: however
\* many tasks show pages at once, who waits waits for one that navigates, which
\* waits at most for one that awaits its reply.  So no circle of waiting arises.
THEOREM MutexesDoNotLock == Spec => []NobodyWaitsLong
<1>1. TypeInv /\ ShowInv => NobodyWaitsLong
  <2>1. SUFFICES ASSUME ShowInv, NEW t \in Tasks, NEW u \in Tasks, NEW v \in Tasks, NEW w \in Tasks,
                        WaitsFor(t, u), WaitsFor(u, v), WaitsFor(v, w)
                 PROVE  FALSE
    BY DEF NobodyWaitsLong
  <2>2. pageBy = u => task[u].at \in Navigating /\ task[u].want \in Kept
    BY <2>1 DEF ShowInv
  <2>3. pageBy = v => task[v].at \in Navigating /\ task[v].want \in Kept
    BY <2>1 DEF ShowInv
  <2> QED
    BY <2>1, <2>2, <2>3 DEF WaitsFor, ShowInv, Navigating, At
<1> QED
  BY TypeInit, TypeNext, ShowInit, ShowNext, <1>1, PTL DEF Spec
=============================================================================
