------------------------------ MODULE Commands ------------------------------
(***************************************************************************)
(* The CommandHandler the watchdog's monitors share (commands.go): one     *)
(* mutex, held across a reboot command but not across a kiosk restart or a *)
(* cleanup, which a flag each keeps from running twice.  A caller is a     *)
(* goroutine that makes one call at a time.                                *)
(***************************************************************************)
EXTENDS Naturals, FiniteSets

CONSTANTS
  Callers,   \* goroutines that run commands
  Nil        \* a free mutex

ASSUME NilAssumption == Nil \notin Callers

VARIABLES
  mu,     \* who holds c.mu
  flags,  \* the commands whose flag, isRestartingKiosk or isCleaningDisk, is set
  op      \* the command each caller is in, and where in it

commandVars == <<mu, flags, op>>

Flagged == {"restart", "clean"}
Idle == <<"none", "idle">>
Ops == {Idle} \cup (Flagged \X {"called", "runs", "ended"}) \cup ({"reboot"} \X {"called", "runs"})

CommandTypeOK ==
  /\ mu \in Callers \cup {Nil}
  /\ flags \in SUBSET Flagged
  /\ op \in [Callers -> Ops]
  /\ mu # Nil => op[mu] = <<"reboot", "runs">>

CommandInit == mu = Nil /\ flags = {} /\ op = [c \in Callers |-> Idle]

Moves(c, from, to) == op[c] = from /\ op' = [op EXCEPT ![c] = to]

\* A goroutine calls restartKiosk, cleanupPacmanCache or rebootSystem.
Calls(c, command) ==
  /\ Moves(c, Idle, <<command, "called">>)
  /\ UNCHANGED <<mu, flags>>

\* Mutant: the flag is tested and not claimed.
EntersUnclaimed(c, k) ==
  /\ mu = Nil /\ k \notin flags
  /\ Moves(c, <<k, "called">>, <<k, "runs">>)
  /\ UNCHANGED <<mu, flags>>

\* Under the mutex, claim the flag; the command runs without it.
Enters(c, k) ==
  /\ mu = Nil /\ k \notin flags
  /\ Moves(c, <<k, "called">>, <<k, "runs">>)
  /\ flags' = flags \cup {k}
  /\ UNCHANGED mu

\* Mutant: the deferred function also runs for a call that returns early.
SkipsClearing(c, k) ==
  /\ mu = Nil /\ k \in flags
  /\ Moves(c, <<k, "called">>, Idle)
  /\ flags' = flags \ {k}
  /\ UNCHANGED mu

\* Somebody has claimed it: return.
Skips(c, k) ==
  /\ mu = Nil /\ k \in flags
  /\ Moves(c, <<k, "called">>, Idle)
  /\ UNCHANGED <<mu, flags>>

CommandEnds(c, k) ==
  /\ Moves(c, <<k, "runs">>, <<k, "ended">>)
  /\ UNCHANGED <<mu, flags>>

\* The deferred function takes the mutex again to give the flag back.
Leaves(c, k) ==
  /\ mu = Nil
  /\ Moves(c, <<k, "ended">>, Idle)
  /\ flags' = flags \ {k}
  /\ UNCHANGED mu

RebootEnters(c) ==
  /\ mu = Nil /\ mu' = c
  /\ Moves(c, <<"reboot", "called">>, <<"reboot", "runs">>)
  /\ UNCHANGED flags

\* Mutant: the mutex is kept.
RebootFailsLocked(c) ==
  /\ Moves(c, <<"reboot", "runs">>, Idle)
  /\ UNCHANGED <<mu, flags>>

\* The command failed: had it not, nothing would follow.
RebootFails(c) ==
  /\ mu' = Nil
  /\ Moves(c, <<"reboot", "runs">>, Idle)
  /\ UNCHANGED flags

\* The steps that wait for the mutex, and those a command's end lets happen.
Locks(c) == (\E k \in Flagged : Enters(c, k) \/ Skips(c, k) \/ Leaves(c, k)) \/ RebootEnters(c)
Ends(c) == (\E k \in Flagged : CommandEnds(c, k)) \/ RebootFails(c)

CommandStep(c) == Locks(c) \/ Ends(c)

-----------------------------------------------------------------------------
\* Never two kiosk restarts at once, whoever asks for them, and never two
\* cleanups or two reboot commands.
OneAtATime ==
  \A c, d \in Callers : \A k \in Flagged \cup {"reboot"} :
    op[c] = <<k, "runs">> /\ op[d] = <<k, "runs">> => c = d

\* A flag is set exactly while one caller has the command to finish: it is never
\* left behind, which would turn every later restart or cleanup into nothing.
FlagHasOwner ==
  \A k \in Flagged :
    k \in flags <=> \E c \in Callers : op[c] \in {<<k, "runs">>, <<k, "ended">>}

\* Every call returns: a mutex held across a command and a flag given back under
\* that mutex do not block each other.
CallsReturn == \A c \in Callers : op[c] # Idle ~> op[c] = Idle
=============================================================================
