--------------------------- MODULE MCSysMonitord ---------------------------
(***************************************************************************)
(* An instance of SysMonitord for TLC.  The watchers share nothing but the *)
(* context and the mediator's start, so that it is enough to let one of    *)
(* them move in each behaviour: every property is about a single one.      *)
(***************************************************************************)
EXTENDS SysMonitord

VARIABLE moving  \* the watcher that moves

mcvars == <<vars, moving>>

\* run: the 2 s and the 4 s ticker; those of 30 and 60 s are like the latter.
MCRounds == [two |-> <<"cpuFrequency", "gpuFrequency", "memory", "disk">>,
             four |-> <<"cpuTemperature">>]

Moves(w, A) == moving = w /\ A /\ UNCHANGED moving

MCInit == Init /\ moving \in {"connectivity", "events", "metrics"}

MCNext ==
  \/ ProcessStep(ProcessNext) /\ UNCHANGED moving
  \/ Moves("connectivity", ConnStep(ConnNext))
  \/ Moves("events", EventStep(EventNext))
  \/ Moves("metrics", SampleStep(SampleNext))

MCSpec ==
  /\ MCInit /\ [][MCNext]_mcvars
  /\ WF_mcvars(Moves("connectivity", ConnStep(PollStep)))
  /\ \A state \in States : WF_mcvars(Moves("connectivity", ConnStep(NotifierRuns(state))))
  /\ \A t \in Tickers :
       /\ WF_mcvars(Moves("metrics", SampleStep(TickerStep(t))))
       /\ WF_mcvars(Moves("metrics", SampleStep(NotifierSends(t))))

\* The watcher that moves records the network once it has settled ...
WatcherSettles == moving = "connectivity" => Settles

\* ... and the sampler that moves sends what its readers read.
SamplerSends == moving = "metrics" => ReadingIsSent
=============================================================================
