--------------------------- MODULE MetricSampler ---------------------------
(***************************************************************************)
(* The resource monitor of feral-sys-monitord (metric/metric.go): a few    *)
(* tickers, each running its readers one after the other.  A reader puts   *)
(* what it read into the one lastMetrics all share; a round in which some  *)
(* reader succeeded starts a notifier, which sends all of lastMetrics as   *)
(* it is when the notifier gets to marshal it.                             *)
(***************************************************************************)
EXTENDS Monitord, Naturals, Sequences

CONSTANT Rounds  \* the readers each ticker runs, in their order

VARIABLES
  turn,     \* the reader each ticker runs now, 0 between rounds
  updated,  \* tickers in whose round a reader has succeeded
  samples,  \* tickers with a notifier that has yet to run
  unsent    \* readers whose last reading no notification has carried yet

sampleVars == <<turn, updated, samples, unsent>>

Tickers == DOMAIN Rounds
Readers == {"cpuFrequency", "gpuFrequency", "memory", "disk", "cpuTemperature",
            "uptime", "screen"}
ASSUME RoundsAreReaders == \A t \in Tickers : Rounds[t] \in Seq(Readers)

SampleTypeOK ==
  /\ turn \in [Tickers -> Nat]
  /\ updated \subseteq Tickers  /\ samples \subseteq Tickers
  /\ unsent \subseteq Readers

SampleInit ==
  /\ turn = [t \in Tickers |-> 1]  \* each ticker runs its readers once at the start
  /\ updated = {}  /\ samples = {}  /\ unsent = {}

\* How a call of a reader may end: with an error (which may leave the first of
\* two fields in lastMetrics), without one but with nothing found, or with all
\* of its reading in lastMetrics.
CpuFrequency == {"error", "read"}
CpuTemperature == {"error", "nothing", "read"}
\* intel_gpu_top runs until its timeout; when it ends by itself nothing is read.
GpuFrequency == {"error", "nothing", "read"}
Memory == {"error", "read"}
Uptime == {"error", "read"}
Screen == {"error", "nothing", "read"}
Disk == {"error", "read"}

Outcomes ==
  [cpuFrequency |-> CpuFrequency, gpuFrequency |-> GpuFrequency, memory |-> Memory,
   disk |-> Disk, cpuTemperature |-> CpuTemperature, uptime |-> Uptime, screen |-> Screen]

TickerFires(t) ==
  /\ turn[t] = 0
  /\ turn' = [turn EXCEPT ![t] = 1]
  /\ UNCHANGED <<updated, samples, unsent>>

\* Mutant: the first error ends the round.
ReaderEndsRound(t) ==
  /\ turn[t] \in 1..Len(Rounds[t])
  /\ \E o \in Outcomes[Rounds[t][turn[t]]] :
       /\ unsent' = IF o = "read" THEN unsent \cup {Rounds[t][turn[t]]} ELSE unsent
       /\ updated' = IF o # "error" THEN updated \cup {t} ELSE updated \ {t}
       /\ turn' = [turn EXCEPT ![t] = IF o # "error" THEN @ + 1 ELSE 0]
  /\ UNCHANGED samples

\* A reader returns; after an error the round goes on with the next.
ReaderReturns(t) ==
  /\ turn[t] \in 1..Len(Rounds[t])
  /\ \E o \in Outcomes[Rounds[t][turn[t]]] :
       /\ unsent' = IF o = "read" THEN unsent \cup {Rounds[t][turn[t]]} ELSE unsent
       /\ updated' = IF o # "error" THEN updated \cup {t} ELSE updated
  /\ turn' = [turn EXCEPT ![t] = @ + 1]
  /\ UNCHANGED samples

\* The round ends; if any reader succeeded its notifier starts.  Bound of the
\* model: one waiting notifier for each ticker.
RoundEnds(t) ==
  /\ turn[t] = Len(Rounds[t]) + 1 /\ t \notin samples
  /\ turn' = [turn EXCEPT ![t] = 0]
  /\ updated' = updated \ {t}
  /\ IF registered
     THEN samples' = samples \cup ({t} \cap updated) /\ UNCHANGED unsent
     ELSE unsent' = {} /\ UNCHANGED samples  \* nobody to send them to

\* ctx.Done() or doneChan, between two rounds.
TickerStops(t) ==
  /\ ctxDone /\ turn[t] = 0
  /\ turn' = [turn EXCEPT ![t] = Len(Rounds[t]) + 2]
  /\ UNCHANGED <<updated, samples, unsent>>

\* handleSysMetrics marshals lastMetrics and sends it, or finds the context done.
NotifierSends(t) ==
  /\ t \in samples
  /\ samples' = samples \ {t}
  /\ unsent' = IF ctxDone THEN unsent ELSE {}
  /\ UNCHANGED <<turn, updated>>

TickerStep(t) == TickerFires(t) \/ ReaderReturns(t) \/ RoundEnds(t) \/ TickerStops(t)

SampleNext == \E t \in Tickers : TickerStep(t) \/ NotifierSends(t)

-----------------------------------------------------------------------------
\* What a reader read is signalled (it, or a later reading of the same) even
\* if the other readers of its round fail, unless the process ends.
ReadingIsSent ==
  \A r \in Readers : (r \in unsent /\ registered) ~> (r \notin unsent \/ ctxDone)
=============================================================================
