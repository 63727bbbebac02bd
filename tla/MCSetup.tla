------------------------------ MODULE MCSetup ------------------------------
(***************************************************************************)
(* An instance of Setup and of SSIDsCacher for TLC: the start-up and two   *)
(* BLE commands, and requests for wifi names.  In each behaviour the       *)
(* commands are of the kinds of one mix, so that the kinds which share     *)
(* state meet somewhere without all of them meeting everywhere.            *)
(***************************************************************************)
EXTENDS Setup, SSIDsCacher, TLC

CONSTANTS main, c1, c2, r1, r2, s1, s2

VARIABLES
  mix,  \* who does what in this behaviour
  left  \* bound of the instance: commands still to come

mcvars == <<vars, ssidVars, mix, left>>

\* Besides: "online": the device may be online; "restarts": setupd is
\* restarted; "names": requests for wifi names.
Mix(keys, kinds1, kinds2, most, besides) ==
  [file |-> keys, kinds |-> (main :> {} @@ c1 :> kinds1 @@ c2 :> kinds2), most |-> most, besides |-> besides]
Mixes ==
  {Mix({}, {"connect"}, {}, 1, {"online"}),
   Mix({}, {"keep"}, {}, 1, {"restarts"}),
   Mix({"topic"}, {}, {}, 0, {"online", "restarts"}),
   Mix({}, {"keep"}, {"keep"}, 2, {}),
   Mix({"topic"}, {"keep"}, {"reset"}, 2, {}),
   Mix(Keys, {"welcome"}, {"switch"}, 2, {"online"}),
   Mix(Keys, {}, {}, 0, {"names"})}

MCInit == Init /\ SSIDInit /\ mix \in Mixes /\ file = mix.file /\ left = mix.most

CommandOf(t) ==
  \/ "welcome" \in mix.kinds[t] /\ Welcomes(t)
  \/ "reset" \in mix.kinds[t] /\ FactoryResets(t)
  \/ "connect" \in mix.kinds[t] /\ ConnectsWifi(t)
  \/ "keep" \in mix.kinds[t] /\ KeepsWifi(t)
  \/ "switch" \in mix.kinds[t] /\ \E p \in Kept : Switches(t, p)

MainOf ==
  /\ MainStep \/ GetsOnline \/ Listens
  /\ "online" \in mix.besides \/ task'[Main].want = "QRCode" \/ At(Main, "armed")

SetupOf ==
  \/ ~Down /\ left > 0 /\ left' = left - 1 /\ \E t \in Tasks : CommandOf(t)
  \/ /\ ~Down /\ UNCHANGED left
     /\ \/ \E t \in Tasks : GoesOn(t) \/ TellsProgress(t)
        \/ MainOf \/ Performs
  \/ "restarts" \in mix.besides /\ Restarts /\ left' = mix.most

MCNext ==
  /\ UNCHANGED mix
  /\ \/ "names" \notin mix.besides /\ SetupOf /\ UNCHANGED ssidVars
     \/ "names" \in mix.besides /\ SSIDNext /\ UNCHANGED <<vars, left>>

\* The runtime runs every task, Chromium answers or the three seconds pass, and
\* the two mutexes serve those who wait in their order.
Alive == ~Down /\ "names" \notin mix.besides /\ UNCHANGED <<mix, left, ssidVars>>
Fairness ==
  /\ \A t \in Tasks : WF_mcvars(Alive /\ GoesOn(t))
  /\ \A t \in Tasks : SF_mcvars(Alive /\ (LocksPage(t) \/ Navigates(t) \/ Records(t)))
  /\ WF_mcvars(Alive /\ MainOf)
  /\ WF_mcvars(Alive /\ Performs)

MCSpec == MCInit /\ [][MCNext]_mcvars /\ Fairness
=============================================================================
