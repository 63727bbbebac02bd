---------------------------- MODULE SysMonitord ----------------------------
(***************************************************************************)
(* feral-sys-monitord: its three watchers and main.go, side by side.       *)
(***************************************************************************)
EXTENDS Connectivity, EventWatcher, MetricSampler

vars == <<processVars, connVars, eventVars, sampleVars>>

TypeOK == ProcessTypeOK /\ ConnTypeOK /\ EventTypeOK /\ SampleTypeOK

Init == ProcessInit /\ ConnInit /\ EventInit /\ SampleInit

ProcessStep(A) == A /\ UNCHANGED <<connVars, eventVars, sampleVars>>
ConnStep(A) == A /\ UNCHANGED <<processVars, eventVars, sampleVars>>
EventStep(A) == A /\ UNCHANGED <<processVars, connVars, sampleVars>>
SampleStep(A) == A /\ UNCHANGED <<processVars, connVars, eventVars>>

Next ==
  \/ ProcessStep(ProcessNext) \/ ConnStep(ConnNext)
  \/ EventStep(EventNext) \/ SampleStep(SampleNext)

Spec == Init /\ [][Next]_vars
=============================================================================
