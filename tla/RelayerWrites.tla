--------------------------- MODULE RelayerWrites ---------------------------
(***************************************************************************)
(* The writers that share the relayer's socket with its pingers: Send,     *)
(* used by the goroutines that answer relay messages, which writes under   *)
(* the mutex, and SendNotification, used by the one status poller, which   *)
(* asks IsConnected under the mutex and writes without it.                 *)
(* A panic in any goroutine ends the process.                              *)
(***************************************************************************)
EXTENDS Relayer

VARIABLES
  sending,   \* the connection a Send is writing to
  notify,    \* where the status poller is in SendNotification
  target,    \* the connection SendNotification is writing to
  panicked   \* a goroutine has dereferenced a nil connection

writeVars == <<sending, notify, target, panicked>>
allVars == <<vars, writeVars>>

WriteTypeOK ==
  /\ StateTypeOK
  /\ lock \in {Nil} \cup ({"dial"} \X Threads) \cup ({"ping", "send"} \X Conns)
  /\ sending \in Conns \cup {Nil}
  /\ notify \in {"idle", "checked", "writing"}
  /\ target \in Conns \cup {Nil} /\ (notify = "writing" <=> target # Nil)
  /\ panicked \in BOOLEAN

WriteInit ==
  /\ Init
  /\ sending = Nil /\ notify = "idle" /\ target = Nil /\ panicked = FALSE

\* Send: ErrNotConnected without a connection, else WriteJSON under the lock.
SendBegins ==
  /\ ~exited /\ lock = Nil /\ conn # Nil
  /\ lock' = <<"send", conn>>
  /\ sending' = conn
  /\ UNCHANGED <<topic, conn, done, chanVars, sockVars, pc, ctx, dialed, reads, pingVars,
                 cancelled, exited, notify, target, panicked>>

SendReturns ==
  /\ ~exited /\ sending # Nil
  /\ lock' = Nil
  /\ sending' = Nil
  /\ UNCHANGED <<topic, conn, done, chanVars, sockVars, pc, ctx, dialed, reads, pingVars,
                 cancelled, exited, notify, target, panicked>>

\* SendNotification: IsConnected; if not, the notification is skipped.
NotifyChecks ==
  /\ ~exited /\ lock = Nil /\ conn # Nil
  /\ pc[Main] \in {"wait", "exit"} \* run starts the poller after its Connect
  /\ notify = "idle" /\ notify' = "checked"
  /\ UNCHANGED <<vars, sending, target, panicked>>

\* r.conn.WriteJSON: r.conn is read again, without the lock.
NotifyWrites ==
  /\ ~exited /\ notify = "checked"
  /\ IF conn = Nil
     THEN panicked' = TRUE /\ exited' = TRUE /\ UNCHANGED <<notify, target>>
     ELSE notify' = "writing" /\ target' = conn /\ UNCHANGED <<panicked, exited>>
  /\ UNCHANGED <<topic, lock, conn, done, chanVars, sockVars, pc, ctx, dialed, reads, pingVars,
                 cancelled, sending>>

NotifyReturns ==
  /\ ~exited /\ notify = "writing"
  /\ notify' = "idle" /\ target' = Nil
  /\ UNCHANGED <<vars, sending, panicked>>

\* A connection being written to is still referred to: Fresh does not take it.
RelayerStep == Next /\ UNCHANGED writeVars /\ (conn' # conn /\ conn' # Nil => conn' # target)

WriteNext ==
  \/ RelayerStep \/ SendBegins \/ SendReturns
  \/ NotifyChecks \/ NotifyWrites \/ NotifyReturns

WriteSpec == WriteInit /\ [][WriteNext]_allVars

-----------------------------------------------------------------------------
\* The threads that may be inside a write to connection c.
Writers(c) ==
  {<<"send", c>> : x \in {sending} \cap {c}}
    \cup {<<"notify", c>> : x \in {target} \cap {c}}
    \cup {<<"ping", d>> : d \in {d \in Conns : pinger[d] = "arm" /\ conn = c}}

\* A message that Send is writing is never cut off by a close, a reconnect or
\* an exit path of this process: the connection stays open and current.
SendKeepsConn == (sending # Nil /\ ~exited) => conn = sending /\ link[conn] # "closed"

\* Only a notification ever writes at the same time as another writer: Send
\* and the pingers, leftover pingers included, exclude one another.
OnlyNotifyOverlaps ==
  \A c \in Conns : \A w, x \in Writers(c) :
     w # x => (w[1] = "notify" \/ x[1] = "notify")
=============================================================================
