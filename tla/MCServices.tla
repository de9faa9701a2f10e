----------------------------- MODULE MCServices -----------------------------
(***************************************************************************)
(* The components around the core that share no state with one another:    *)
(* hold triggers, the scheduler of time triggers, scripts, widget packs,   *)
(* sessions and enrolment, API tokens and their scopes, the Hue and the    *)
(* Zigbee2MQTT driver, the streaming calls of the API and the entity store *)
(* of the web application.  A behaviour runs one of them, chosen at the    *)
(* start, and leaves the others in their initial states, so that one run   *)
(* explores the sum of their state spaces.                                 *)
(***************************************************************************)
EXTENDS HoldTrigger, TimeScheduler, Scripts, Packs, Access, TokenScope, HueDriver,
        WebStore, ApiStream, Z2mDriver, TLC

Seqs == INSTANCE SequencesExt

CONSTANTS k1, k2, p1, p2, p3, i1, i2

VARIABLE service

Services == {"hold", "time", "script", "pack", "access", "token", "hue", "web", "stream", "z2m"}

\* Two versions of one pack, and another pack.
TwoVersions == {{p1, p2}}

\* Action names, and the stems of patterns: "", "a" and "ab".
NoName == <<>>
ActionNames == {<<>>, <<"a">>, <<"a", "b">>}
StartsWith == {pair \in ActionNames \X ActionNames : Seqs!IsPrefix(pair[2], pair[1])}

\* A device with two entities, which share its topics, and one with a single one.
EntitiesOf == (p1 :> {k1, k2}) @@ (p2 :> {i1})

vars == <<service, holdVars, schedVars, scriptVars, packVars, accessVars, mintVars, hueVars,
          webVars, streamVars, zVars>>

\* The components not chosen are in one fixed initial state.
Unchosen ==
  /\ service # "hold" => holds
  /\ service # "hue" => bulb = Gone
  /\ service # "stream" => rpc = "entity"

Init ==
  /\ service \in Services
  /\ HoldInit /\ SchedInit /\ ScriptInit /\ PackInit /\ AccessInit /\ TokenInit /\ HueInit
  /\ WebInit /\ StreamInit /\ ZInit
  /\ Unchosen

Hold == service = "hold" /\ HoldNext
        /\ UNCHANGED <<service, schedVars, scriptVars, packVars, accessVars, mintVars, hueVars, webVars,
                       streamVars, zVars>>
Time == service = "time" /\ SchedNext
        /\ UNCHANGED <<service, holdVars, scriptVars, packVars, accessVars, mintVars, hueVars, webVars,
                       streamVars, zVars>>
Script == service = "script" /\ ScriptNext
        /\ UNCHANGED <<service, holdVars, schedVars, packVars, accessVars, mintVars, hueVars, webVars,
                       streamVars, zVars>>
Pack == service = "pack" /\ PackNext
        /\ UNCHANGED <<service, holdVars, schedVars, scriptVars, accessVars, mintVars, hueVars, webVars,
                       streamVars, zVars>>
Sessions == service = "access" /\ AccessNext
        /\ UNCHANGED <<service, holdVars, schedVars, scriptVars, packVars, mintVars, hueVars, webVars,
                       streamVars, zVars>>
Token == service = "token" /\ TokenNext
        /\ UNCHANGED <<service, holdVars, schedVars, scriptVars, packVars, accessVars, hueVars, webVars,
                       streamVars, zVars>>
Hue == service = "hue" /\ HueNext
        /\ UNCHANGED <<service, holdVars, schedVars, scriptVars, packVars, accessVars, mintVars, webVars,
                       streamVars, zVars>>

Web == service = "web" /\ WebNext
        /\ UNCHANGED <<service, holdVars, schedVars, scriptVars, packVars, accessVars, mintVars, hueVars,
                       streamVars, zVars>>

Stream == service = "stream" /\ StreamNext
        /\ UNCHANGED <<service, holdVars, schedVars, scriptVars, packVars, accessVars, mintVars, hueVars,
                       webVars, zVars>>

Z2m == service = "z2m" /\ ZNext
        /\ UNCHANGED <<service, holdVars, schedVars, scriptVars, packVars, accessVars, mintVars, hueVars,
                       webVars, streamVars>>

Next == Hold \/ Time \/ Script \/ Pack \/ Sessions \/ Token \/ Hue \/ Web \/ Stream \/ Z2m

\* Goroutines that can run do, timers expire, and what was added wakes the loop.
\* No call, change, reload, failure or passage of time is promised.  Steps that
\* cannot go on for ever without one another share a fairness condition.
Fairness ==
  /\ WF_holdVars(service = "hold" /\ (Arm \/ StoreTimer \/ \E n \in Changes : HoldTimer(n)))
  /\ WF_schedVars(service = "time" /\ (WakeLoop \/ SchedRun))
  /\ WF_hueVars(service = "hue" /\ (BuildDriver \/ HueStep("loop")))
  /\ WF_hueVars(service = "hue" /\ HueStep("ticker"))
  /\ WF_hueVars(service = "hue" /\ HueStep("run"))
  /\ WF_webVars(service = "web" /\ WebRuns)
  /\ WF_streamVars(service = "stream" /\ SourceRuns)
  /\ WF_streamVars(service = "stream" /\ (FanRuns \/ (handler = "returned" /\ RequestDone)))
  /\ WF_zVars(service = "z2m" /\ (OnConnect \/ OnBridgeDevices))

FairSpec == Init /\ [][Next]_vars /\ Fairness
=============================================================================
