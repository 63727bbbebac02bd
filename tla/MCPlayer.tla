------------------------------ MODULE MCPlayer ------------------------------
(***************************************************************************)
(* An instance of Player for TLC: two handlers beside the poller.  In each *)
(* behaviour each handler is given messages of the kinds of one mix, so    *)
(* that the kinds which share state meet somewhere without all of them     *)
(* meeting everywhere.                                                     *)
(***************************************************************************)
EXTENDS Player, TLC

CONSTANTS h1, h2

VARIABLE mix  \* who is given what in this behaviour

mcvars == <<vars, mix>>

\* Besides: "poll": the poller is started; "link": the relayer's connection
\* comes and goes; "moves": the page goes on by itself; "ends": the process is
\* cancelled or its run fails, its browser ends.
Mix(kinds1, kinds2, besides) == [jobs |-> (h1 :> kinds1 @@ h2 :> kinds2), besides |-> besides]
Mixes ==
  {Mix({"web"}, {"web"}, {"poll"}),
   Mix({"web"}, {}, {"poll", "link", "moves"}),
   Mix({"rotation"}, {"other"}, {"poll"}),
   Mix({"rotation"}, {"rotation"}, {}),
   Mix({"pointer", "rotation"}, {"pointer"}, {}),
   Mix({"key", "signal"}, {"web"}, {"ends", "link"})}

MCInit ==
  /\ Init /\ mix \in Mixes
  /\ work = CHOOSE w \in Works : TRUE
  /\ online = ("link" \notin mix.besides)

ArrivesOf(h) ==
  \/ "web" \in mix.jobs[h] /\ WebArrives(h)
  \/ "signal" \in mix.jobs[h] /\ SignalArrives(h)
  \/ "key" \in mix.jobs[h] /\ KeyArrives(h)
  \/ "other" \in mix.jobs[h] /\ OtherArrives(h)
  \/ "rotation" \in mix.jobs[h] /\ RotationArrives(h)
  \/ "pointer" \in mix.jobs[h] /\ \E move \in BOOLEAN : PointerArrives(h, move)

CDPOf ==
  \/ \E c \in Clients : SendGoesOn(c) \/ SendLocks(c)
  \/ \E r \in asked : PageAnswers(r)
  \/ "moves" \in mix.besides /\ WorkChanges
  \/ "ends" \in mix.besides /\ (CloseRuns \/ Cancelled \/ ChromiumEnds)

PollOf ==
  \/ PollerStarts
  \/ "ends" \in mix.besides /\ RunFails
  \/ "poll" \in mix.besides /\ (Ticks \/ PollEnds \/ PollerStep)
  \/ "link" \in mix.besides /\ (LinkChanges \/ WriteFails)

MCNext ==
  /\ ~panicked /\ UNCHANGED mix
  /\ \/ \E h \in Handlers : ArrivesOf(h) \/ GoesOn(h)
     \/ PollOf /\ UNCHANGED jobVars
     \/ CDPOf /\ UNCHANGED <<pollVars, jobVars>>
     \/ LayoutFollows

MCSpec == MCInit /\ [][MCNext]_mcvars
=============================================================================
