------------------------------- MODULE Player -------------------------------
(***************************************************************************)
(* The goroutines of connectd that work on messages and signals: the       *)
(* mediator's handlers (mediator.go) and the commands they execute         *)
(* (command.go), over one CDP client and beside the status poller.  Every  *)
(* message is handled in a goroutine of its own; none of the command       *)
(* handler's state but the system metrics has a lock.                      *)
(***************************************************************************)
EXTENDS StatusPoller, Integers

CONSTANT Handlers  \* the goroutines that handle messages, Clients as well

ASSUME HandlerAssumption == Handlers \subseteq Clients \ {Poller}

VARIABLES
  pc,      \* where each handler is
  held,    \* the orientation or position a command is about to apply or store
  screen,  \* the transform of the screen
  crossed, \* handlers of a rotation that ran while another did, and of a pointer command likewise
  drifted, \* no rotation ran alone since one was crossed or could not write its file
  known,   \* screenInitialized
  width,   \* screenWidth, in coarse units; the height is like it
  cursor,  \* cursorPositionX
  strayed  \* no move ran alone since one was crossed

jobVars == <<pc, held, screen, crossed, drifted, known, width, cursor, strayed>>
vars == <<cdpVars, pollVars, jobVars>>

\* The width of a layout, and the default when the page does not say.
WidthOf == [wide |-> 2, tall |-> 1]
Default == WidthOf["wide"]

Rotating == {h \in Handlers : pc[h] \in {"read", "apply", "write", "save", "reset"}}
Pointing == {h \in Handlers : pc[h] \in {"sizeMove", "sizeTap", "shift", "add", "clamp", "store"}}

JobTypeOK ==
  /\ pc \in [Handlers -> {"idle", "web", "refresh", "signal", "connect", "key", "keyup", "sizeMove",
                          "sizeTap", "shift", "add", "clamp", "store", "trail", "point", "press", "release",
                          "read", "apply", "write", "save", "reset", "respond"}]
  /\ held \in [Handlers -> Int]
  /\ screen \in Orientations
  /\ crossed \subseteq Handlers  /\ drifted \in BOOLEAN  /\ known \in BOOLEAN
  /\ width \in Nat  /\ cursor \in Int  /\ strayed \in BOOLEAN

TypeOK == CDPTypeOK /\ PollTypeOK /\ JobTypeOK

\* The compositor starts with the orientation saved.
Init ==
  /\ CDPInit /\ PollInit
  /\ pc = [h \in Handlers |-> "idle"]
  /\ held = [h \in Handlers |-> 0]
  /\ screen = 0  /\ crossed = {}  /\ drifted = FALSE
  /\ known = FALSE  /\ width = 0  /\ cursor = 0  /\ strayed = FALSE

\* The commands crossed once h runs beside the others.
Beside(h, others) == IF others = {} THEN crossed ELSE crossed \cup others \cup {h}

Goes(h, to) == pc' = [pc EXCEPT ![h] = to]
Calls(h, w) == SendCalled(h, w) /\ UNCHANGED pageVars

\* What a step of the mediator or of a command that does not touch the screen
\* or the pointer leaves alone.
screenVars == <<screen, drifted>>
pointerVars == <<known, width, cursor, strayed>>
stepVars == <<held, crossed>>
fileVars == <<file, unread>>
statusVars == <<poll, ready, online, hash, told>>

-----------------------------------------------------------------------------
\* handleRelayerMessage: a command for the page is forwarded to it, ...
\* (Bound of the model: not by a handler whose last change is still unreported.)
WebArrives(h) ==
  /\ pc[h] = "idle" /\ h \notin unreported
  /\ Goes(h, "web") /\ \E w \in Works : Calls(h, w)
  /\ UNCHANGED <<stepVars, screenVars, pointerVars, pollVars>>

\* ... an error ends it, ...
WebFails(h) ==
  /\ pc[h] = "web" /\ reply[h] = "error" /\ SendTaken(h)
  /\ Goes(h, "idle")
  /\ unreported' = unreported \ {h}
  /\ UNCHANGED <<work, layout, stepVars, screenVars, pointerVars, pollVars>>

WebReturns(h) ==
  /\ pc[h] = "web" /\ reply[h] # "error" /\ SendTaken(h)
  /\ Goes(h, "refresh")
  /\ UNCHANGED <<pageVars, stepVars, screenVars, pointerVars, pollVars>>

\* Mutant: a refresh is not asked for while the poller is at work.
WebRefreshesIdle(h) ==
  /\ pc[h] = "refresh"
  /\ Goes(h, "respond")
  /\ IF poll = "wait" THEN ForceRefresh ELSE UNCHANGED queue
  /\ unreported' = IF ready THEN unreported ELSE unreported \ {h}
  /\ UNCHANGED <<sendVars, socketVars, work, layout, ctxDone, panicked, stepVars, screenVars,
                 pointerVars, statusVars, fileVars>>

\* ... and after a pause the poller, if it is set, is asked to refresh.
WebRefreshes(h) ==
  /\ pc[h] = "refresh"
  /\ Goes(h, "respond")
  /\ IF ready THEN ForceRefresh ELSE UNCHANGED queue
  /\ unreported' = IF ready THEN unreported ELSE unreported \ {h}
  /\ UNCHANGED <<sendVars, socketVars, work, layout, ctxDone, panicked, stepVars, screenVars,
                 pointerVars, statusVars, fileVars>>

\* relayer.Send of the result; without a connection it is an error.
Responds(h) ==
  /\ pc[h] = "respond"
  /\ Goes(h, "idle")
  /\ UNCHANGED <<cdpVars, stepVars, screenVars, pointerVars, pollVars>>

\* handleDBusSignal of a connectivity change: the page is told first, and
\* whatever it answers a device that is online connects its relayer.
SignalArrives(h) ==
  /\ pc[h] = "idle"
  /\ Goes(h, "signal") /\ Calls(h, "input")
  /\ UNCHANGED <<stepVars, screenVars, pointerVars, pollVars>>

SignalToldPage(h) ==
  /\ pc[h] = "signal" /\ SendTaken(h)
  /\ Goes(h, "connect")
  /\ UNCHANGED <<pageVars, stepVars, screenVars, pointerVars, pollVars>>

SignalConnects(h) ==
  /\ pc[h] = "connect"
  /\ Goes(h, "idle")
  /\ online' \in {online, TRUE}
  /\ UNCHANGED <<cdpVars, stepVars, screenVars, pointerVars, poll, ready, queue, fileVars, hash, told>>

-----------------------------------------------------------------------------
\* Execute of a command that leaves the player alone: the metrics, the device
\* status, pairing code, shutdown and update.  An error ends it.
OtherArrives(h) ==
  /\ pc[h] = "idle"
  /\ Goes(h, "respond")
  /\ UNCHANGED <<cdpVars, stepVars, screenVars, pointerVars, pollVars>>

\* handleKeyboardEvent: a key down and, for a printable key, a key up whose
\* error is only logged.
KeyArrives(h) ==
  /\ pc[h] = "idle"
  /\ Goes(h, "key") /\ Calls(h, "input")
  /\ UNCHANGED <<stepVars, screenVars, pointerVars, pollVars>>

KeyGoesUp(h) ==
  /\ pc[h] = "key" /\ reply[h] # "error" /\ SendAgain(h, "input")
  /\ Goes(h, "keyup")
  /\ UNCHANGED <<pageVars, stepVars, screenVars, pointerVars, pollVars>>

\* A Send was the last of its command, or failed.
LastSendReturns(h) ==
  /\ pc[h] \in {"key", "keyup", "trail", "point", "press", "release"} /\ SendTaken(h)
  /\ \/ reply[h] = "error" /\ pc[h] # "keyup" /\ Goes(h, "idle")
     \/ reply[h] # "error" /\ pc[h] \in {"key", "point", "release"} /\ Goes(h, "respond")
     \/ pc[h] = "keyup" /\ Goes(h, "respond")
  /\ UNCHANGED <<pageVars, stepVars, screenVars, pointerVars, pollVars>>

-----------------------------------------------------------------------------
\* handleScreenRotation: read the orientation that was saved, ...
\* (Bound of the model: not by a handler whose last one is still unread.)
RotationArrives(h) ==
  /\ pc[h] = "idle" /\ h \notin unread
  /\ Goes(h, "read")
  /\ crossed' = Beside(h, Rotating)
  /\ UNCHANGED <<cdpVars, held, screenVars, pointerVars, pollVars>>

RotationReads(h, by) ==
  /\ pc[h] = "read"
  /\ held' = [held EXCEPT ![h] = (file + by) % 4]
  /\ Goes(h, "apply")
  /\ UNCHANGED <<cdpVars, screenVars, crossed, pointerVars, pollVars>>

\* Mutant: the screen is turned from where it is.
RotationAppliesRelative(h) ==
  /\ pc[h] = "apply"
  /\ screen' = (screen + held[h] - file + 4) % 4
  /\ Goes(h, "write")
  /\ UNCHANGED <<cdpVars, stepVars, drifted, pointerVars, pollVars>>

\* ... apply the next one with wlr-randr, ...
RotationApplies(h) ==
  /\ pc[h] = "apply"
  /\ screen' = held[h]
  /\ Goes(h, "write")
  /\ UNCHANGED <<cdpVars, stepVars, drifted, pointerVars, pollVars>>

\* (wlr-randr finds no output, or fails)
RotationFails(h) ==
  /\ pc[h] \in {"read", "apply"}
  /\ Goes(h, "idle")
  /\ crossed' = crossed \ {h}
  /\ held' = [held EXCEPT ![h] = 0]
  /\ UNCHANGED <<cdpVars, screenVars, pointerVars, pollVars>>

\* ... and save it: the file is emptied, which reads as 0, and then written.  A
\* failure of either is only logged.
RotationEmpties(h) ==
  /\ pc[h] = "write"
  /\ Goes(h, "save")
  /\ file' = 0
  /\ UNCHANGED <<cdpVars, stepVars, screenVars, pointerVars, statusVars, queue, unread>>

RotationSaves(h) ==
  /\ pc[h] = "save"
  /\ Goes(h, "reset")
  /\ file' = held[h]  /\ unread' = unread \cup {h}
  /\ drifted' = (h \in crossed)
  /\ held' = [held EXCEPT ![h] = 0]
  /\ UNCHANGED <<cdpVars, crossed, screen, pointerVars, statusVars, queue>>

RotationCannotSave(h) ==
  /\ pc[h] \in {"write", "save"}
  /\ Goes(h, "reset")
  /\ drifted' = TRUE
  /\ held' = [held EXCEPT ![h] = 0]
  /\ UNCHANGED <<cdpVars, crossed, screen, pointerVars, pollVars>>

\* screenInitialized is reset and the poller asked to refresh, set or not.
RotationResets(h) ==
  /\ pc[h] = "reset"
  /\ known' = FALSE
  /\ IF ready
     THEN ForceRefresh /\ Goes(h, "respond") /\ crossed' = crossed \ {h} /\ UNCHANGED panicked
     ELSE panicked' = TRUE /\ UNCHANGED <<pc, queue, crossed>>
  /\ UNCHANGED <<sendVars, socketVars, pageVars, ctxDone, held, screenVars, width, cursor, strayed,
                 statusVars, fileVars>>

\* The page follows the screen.
LayoutFollows ==
  /\ layout' = IF screen \in {0, 2} THEN "wide" ELSE "tall"
  /\ layout' # layout
  /\ UNCHANGED <<sendVars, socketVars, work, unreported, ctxDone, panicked, pollVars, jobVars>>

-----------------------------------------------------------------------------
\* initializeScreenDimensions is over: the move or the tap goes on, unless the
\* move has no offsets or none that can be parsed.
MoveOrTap(h) ==
  \/ pc[h] = "sizeMove" /\ Goes(h, "shift") /\ SendTaken(h) /\ UNCHANGED crossed
  \/ /\ pc[h] = "sizeMove" /\ SendTaken(h) /\ crossed' = crossed \ {h}
     /\ Goes(h, "idle") \/ Goes(h, "respond")
  \/ pc[h] = "sizeTap" /\ Goes(h, "press") /\ SendAgain(h, "input") /\ crossed' = crossed \ {h}

\* handleMouseMoveEvent and handleMouseTapEvent ask for the size of the page
\* unless it is known, ...
PointerArrives(h, move) ==
  /\ pc[h] = "idle"
  /\ IF known
     THEN IF move THEN Goes(h, "shift") /\ UNCHANGED cdpVars ELSE Goes(h, "press") /\ Calls(h, "input")
     ELSE Goes(h, IF move THEN "sizeMove" ELSE "sizeTap") /\ Calls(h, "size")
  /\ crossed' = IF known /\ ~move THEN crossed ELSE Beside(h, Pointing)
  /\ UNCHANGED <<held, screenVars, pointerVars, pollVars>>

\* Without an answer the width is the default, with an empty one what it was.
Measured(v) ==
  IF v \in DOMAIN WidthOf THEN WidthOf[v] ELSE IF v = "error" THEN Default ELSE width

\* Mutant: the cursor stays where it was on the screen it was on.
SizeKnownKeepsCursor(h) ==
  /\ MoveOrTap(h)
  /\ width' = Measured(reply[h])
  /\ cursor' = IF width = 0 THEN Measured(reply[h]) \div 2 ELSE cursor
  /\ known' = TRUE
  /\ strayed' = (h \in crossed)
  /\ UNCHANGED <<pageVars, held, screenVars, pollVars>>

\* ... and put the cursor in its middle.
SizeKnown(h) ==
  /\ MoveOrTap(h)
  /\ width' = Measured(reply[h]) /\ cursor' = Measured(reply[h]) \div 2
  /\ known' = TRUE
  /\ strayed' = (h \in crossed)
  /\ UNCHANGED <<pageVars, held, screenVars, pollVars>>

\* An offset is added to the position, read before and stored after, ...
PointerReads(h) ==
  /\ pc[h] = "shift"
  /\ held' = [held EXCEPT ![h] = cursor]
  /\ Goes(h, "add")
  /\ UNCHANGED <<cdpVars, crossed, screenVars, pointerVars, pollVars>>

\* (Bound of the model: one unit off the screen.)
PointerShifts(h, by) ==
  /\ pc[h] = "add" /\ held[h] + by \in -1..(WidthOf["wide"] + 1)
  /\ cursor' = held[h] + by
  /\ held' = [held EXCEPT ![h] = 0]
  /\ Goes(h, "clamp")
  /\ UNCHANGED <<cdpVars, crossed, screenVars, known, width, strayed, pollVars>>

Clamped(x) == IF x < 0 THEN 0 ELSE IF x > width THEN width ELSE x

\* ... which is then brought back onto the screen, in two steps again; ...
PointerClamps(h) ==
  /\ pc[h] = "clamp"
  /\ held' = [held EXCEPT ![h] = Clamped(cursor)]
  /\ Goes(h, "store")
  /\ UNCHANGED <<cdpVars, crossed, screenVars, pointerVars, pollVars>>

\* ... the positions are sent to the page, and then the last one.
PointerStores(h) ==
  /\ pc[h] = "store"
  /\ cursor' = held[h]
  /\ strayed' = (h \in crossed)
  /\ \/ Goes(h, "shift") /\ UNCHANGED <<cdpVars, crossed>>
     \/ Goes(h, "trail") /\ Calls(h, "input") /\ crossed' = crossed \ {h}
  /\ held' = [held EXCEPT ![h] = 0]
  /\ UNCHANGED <<screenVars, known, width, pollVars>>

\* The position of the cursor is sent as it is by then.
PointerSends(h) ==
  /\ pc[h] \in {"trail", "press"} /\ reply[h] # "error" /\ SendAgain(h, "input")
  /\ Goes(h, IF pc[h] = "trail" THEN "point" ELSE "release")
  /\ UNCHANGED <<pageVars, stepVars, screenVars, pointerVars, pollVars>>

-----------------------------------------------------------------------------
WebGoesOn(h) == WebFails(h) \/ WebReturns(h) \/ WebRefreshes(h)
SignalGoesOn(h) == SignalToldPage(h) \/ SignalConnects(h)
RotationGoesOn(h) ==
  \/ RotationApplies(h) \/ RotationFails(h) \/ RotationEmpties(h)
  \/ RotationSaves(h) \/ RotationCannotSave(h) \/ RotationResets(h)
  \/ \E by \in {-1, 1} : RotationReads(h, by)
PointerGoesOn(h) ==
  \/ SizeKnown(h) \/ PointerReads(h) \/ PointerClamps(h) \/ PointerStores(h) \/ PointerSends(h)
  \/ \E by \in {-1, 1} : PointerShifts(h, by)

GoesOn(h) ==
  \/ WebGoesOn(h) \/ SignalGoesOn(h) \/ KeyGoesUp(h) \/ RotationGoesOn(h) \/ PointerGoesOn(h)
  \/ Responds(h) \/ LastSendReturns(h)

\* What a message or a signal may start.
Arrives(h) ==
  \/ WebArrives(h) \/ SignalArrives(h) \/ KeyArrives(h) \/ RotationArrives(h) \/ OtherArrives(h)
  \/ \E move \in BOOLEAN : PointerArrives(h, move)

Next ==
  /\ ~panicked
  /\ \/ \E h \in Handlers : Arrives(h) \/ GoesOn(h)
     \/ PollNext /\ UNCHANGED jobVars
     \/ CDPNext /\ UNCHANGED <<pollVars, jobVars>>
     \/ LayoutFollows

Spec == Init /\ [][Next]_vars

-----------------------------------------------------------------------------
\* A change the page was asked for, or a rotation that was saved, is never
\* left to the ticker: until a poll has asked for it, its handler has yet to
\* ask for a refresh, or a refresh is queued, or a poll is on its way to it.
\* (mediator.go:253-258, command.go:294-297, status.go:125-146)
PollIsComing ==
  \/ poll = "start"
  \/ poll = "asked" /\ (\A v \in answers : v[1] # Poller)
       /\ (at[Poller] = "returned" => reply[Poller] = "error")

ChangeWillBeSeen ==
  /\ \A h \in unreported : pc[h] \in {"web", "refresh"} \/ queue > 0 \/ PollIsComing
  /\ \A h \in unread : pc[h] = "reset" \/ queue > 0 \/ poll \in {"start", "asked", "tell", "write", "device"}

\* "This makes wlr-randr and config file stay in sync" (command.go:276): after
\* a rotation that ran alone and could save its file, the screen is what the
\* file says, whatever happened before.
ScreenIsSaved == Rotating = {} /\ ~drifted => screen = file

\* "Ensure position stays within screen bounds" (command.go:456): once a move
\* or a measure has run beside no other, the cursor is on the screen, whatever
\* the size of the screen was before, until pointer commands cross again.
CursorOnScreen == Pointing = {} /\ ~strayed => cursor \in 0..width

\* In service, once the poller is set and until the context is cancelled, no
\* goroutine finds a nil pointer but one: the poller, in a notification that a
\* lost link overtook between its look at the relayer's connection and its use
\* of it (relayer.go:497, 522).  The CDP client's is nil before and after only
\* (cdp.go:204), and so is the poller's own (command.go:297).
OnlyNotifyPanics ==
  panicked /\ ready /\ ~ctxDone => poll \in {"write", "writeDevice"} /\ ~online
=============================================================================
