---------------------------- MODULE StatusPoller ----------------------------
(***************************************************************************)
(* The status poller of connectd (status.go, device_status.go): on a       *)
(* ticker, or when a command asks for a refresh, it asks the page for the  *)
(* player's status and reads the device's, and notifies what changed.      *)
(***************************************************************************)
EXTENDS CDPClient, Naturals

CONSTANTS
  Poller,     \* its goroutine, one of the Clients
  QueueSize   \* the capacity of refreshChan: 10

ASSUME PollerAssumption == Poller \in Clients /\ QueueSize \in Nat \ {0}

VARIABLES
  poll,    \* where the poller is
  ready,   \* main has set and started it
  queue,   \* refreshes in refreshChan
  online,  \* relayer.IsConnected()
  file,    \* the orientation saved in screen-orientation
  unread,  \* goroutines whose change of file the poller has not read yet
  hash,    \* lastStatusHashes: the player's and the device's status recorded last
  told     \* what the relay server was told last

pollVars == <<poll, ready, queue, online, file, unread, hash, told>>

Orientations == 0..3  \* normal, 90, 180, 270

PollTypeOK ==
  /\ poll \in {"start", "asked", "tell", "write", "device", "tellDevice", "writeDevice", "wait", "ended"}
  /\ ready \in BOOLEAN  /\ online \in BOOLEAN
  /\ queue \in 0..QueueSize
  /\ file \in Orientations
  /\ unread \subseteq Clients
  /\ hash \in [player : Works \cup {Nil}, device : Orientations \cup {Nil}]
  /\ told \in [player : Works \cup {Nil}, device : Orientations \cup {Nil}]

PollInit ==
  /\ poll = "start"  /\ ready = FALSE  /\ queue = 0
  /\ online \in BOOLEAN
  /\ file = 0  /\ unread = {}
  /\ hash = [player |-> Nil, device |-> Nil]  /\ told = hash

\* run sets the poller in the mediator and the command handler, and starts it.
PollerStarts ==
  /\ ~ready /\ poll = "start"
  /\ ready' = TRUE
  /\ UNCHANGED <<poll, queue, online, file, unread, hash, told, cdpVars>>

\* It fails before, for want of D-Bus or of the relay server, and runs the
\* deferred Close of the CDP client under a context that nobody cancelled.
RunFails ==
  /\ ~ready /\ poll = "start"
  /\ conn /\ mu = Nil
  /\ conn' = FALSE
  /\ poll' = "ended"
  /\ UNCHANGED <<ready, queue, online, file, unread, hash, told, mu, at, ask, reply, socketVars, pageVars,
                 ctxDone, panicked>>

\* ForceRefresh, as a conjunct of a caller's step: a full queue drops it.
ForceRefresh == queue' = IF queue < QueueSize THEN queue + 1 ELSE queue

Ticks ==
  /\ poll = "wait"
  /\ poll' = "start"
  /\ UNCHANGED <<ready, queue, online, file, unread, hash, told, cdpVars>>

TakesRefresh ==
  /\ poll = "wait" /\ queue > 0
  /\ poll' = "start"  /\ queue' = queue - 1
  /\ UNCHANGED <<ready, online, file, unread, hash, told, cdpVars>>

PollEnds ==
  /\ poll = "wait" /\ ctxDone
  /\ poll' = "ended"
  /\ UNCHANGED <<ready, queue, online, file, unread, hash, told, cdpVars>>

\* pollPlayerStatus: skipped while the relayer is not connected.
AsksPlayer ==
  /\ poll = "start" /\ ready /\ online
  /\ poll' = "asked"
  /\ SendCalled(Poller, "status")
  /\ UNCHANGED <<ready, queue, online, file, unread, hash, told, pageVars>>

SkipsPlayer ==
  /\ poll = "start" /\ ready /\ ~online
  /\ poll' = "device"
  /\ unreported' = {}
  /\ UNCHANGED <<ready, queue, online, file, unread, hash, told, sendVars, socketVars, work, layout,
                 ctxDone, panicked>>

\* shouldSendNotification compares with the hash and records the new one.
LooksAtPlayer ==
  /\ poll = "asked"
  /\ SendTaken(Poller)
  /\ IF reply[Poller] \in {"error", "nothing", hash.player}
     THEN poll' = "device" /\ UNCHANGED hash
     ELSE poll' = "tell" /\ hash' = [hash EXCEPT !.player = reply[Poller]]
  /\ unreported' = IF reply[Poller] = "error" THEN {} ELSE unreported
  /\ UNCHANGED <<ready, queue, online, file, unread, told, work, layout>>

\* pollDeviceStatus: GetStatus reads the file, or fails with the version query.
ReadsDevice ==
  /\ poll = "device"
  /\ \/ poll' = "wait" /\ UNCHANGED hash
     \/ online /\ file # hash.device /\ poll' = "tellDevice" /\ hash' = [hash EXCEPT !.device = file]
  /\ unread' = {}
  /\ UNCHANGED <<ready, queue, online, file, told, cdpVars>>

\* SendNotification is skipped without a connection: it looks under the
\* relayer's mutex, ...
TellsPlayer ==
  /\ poll = "tell"
  /\ poll' = IF online THEN "write" ELSE "device"
  /\ UNCHANGED <<ready, queue, online, file, unread, hash, told, cdpVars>>

TellsDevice ==
  /\ poll = "tellDevice"
  /\ poll' = IF online THEN "writeDevice" ELSE "wait"
  /\ UNCHANGED <<ready, queue, online, file, unread, hash, told, cdpVars>>

\* ... and reads r.conn anew without it, to write, ...
WritesPlayer ==
  /\ poll = "write" /\ online
  /\ poll' = "device"
  /\ told' = [told EXCEPT !.player = hash.player]
  /\ UNCHANGED <<ready, queue, online, file, unread, hash, cdpVars>>

WritesDevice ==
  /\ poll = "writeDevice" /\ online
  /\ poll' = "wait"
  /\ told' = [told EXCEPT !.device = hash.device]
  /\ UNCHANGED <<ready, queue, online, file, unread, hash, cdpVars>>

\* ... which an error of the socket ends, only logged, ...
WriteFails ==
  /\ poll \in {"write", "writeDevice"} /\ online
  /\ poll' = IF poll = "write" THEN "device" ELSE "wait"
  /\ UNCHANGED <<ready, queue, online, file, unread, hash, told, cdpVars>>

\* ... or to find nil there, which the reader's reconnect has put.
NotifyPanics ==
  /\ poll \in {"write", "writeDevice"} /\ ~online
  /\ panicked' = TRUE
  /\ UNCHANGED <<pollVars, sendVars, socketVars, pageVars, ctxDone>>

\* The relayer of connectd loses its connection or gets one.
LinkChanges ==
  /\ online' = ~online
  /\ UNCHANGED <<poll, ready, queue, file, unread, hash, told, cdpVars>>

PollerStep ==
  \/ TakesRefresh \/ AsksPlayer \/ SkipsPlayer \/ LooksAtPlayer \/ TellsPlayer \/ WritesPlayer
  \/ ReadsDevice \/ TellsDevice \/ WritesDevice \/ NotifyPanics

PollNext == PollerStarts \/ RunFails \/ Ticks \/ PollEnds \/ PollerStep \/ LinkChanges \/ WriteFails

-----------------------------------------------------------------------------
\* "shouldSendNotification checks if the status has changed since last
\* notification" (status.go:72): when a poll is over, the status it holds for
\* the last notified is the one the server was told last.
HashIsTold == poll = "wait" => hash = told
=============================================================================
