----------------------------- MODULE Z2mDriver -----------------------------
(***************************************************************************)
(* The Zigbee2MQTT driver (drivers/z2m): the reconciliation of its         *)
(* entities, listeners and MQTT subscriptions with the list of devices     *)
(* that the bridge keeps retained on bridge/devices, over a connection     *)
(* that breaks and comes back.                                             *)
(*                                                                         *)
(* The MQTT library calls the message handlers one at a time; its          *)
(* connection handlers run at any time.  A device's state and availability *)
(* topics are subscribed and dropped together and count as one, named for  *)
(* the device.  The values on those topics are left out, and so is what a  *)
(* rename does: it emits the attributes again and changes nothing else.    *)
(***************************************************************************)
EXTENDS Naturals, Sequences

CONSTANTS
  Devices,         \* IEEE addresses
  EntitiesFor,     \* the entities of each device
  Friendly,        \* friendly names
  Unpaired,        \* the device is not on the network
  MaxPairings,     \* bound: devices paired, renamed and removed
  MaxInbox,        \* bound: lists received and not handled
  MaxOutages       \* bound: lost connections and ended processes

ASSUME Z2mAssumption == Unpaired \notin Friendly

VARIABLES
  network,         \* the list the bridge retains: each device's friendly name
  pairings, outages,
  linkUp,          \* the connection to the broker
  subscribed,      \* the topics subscribed at the broker
  inbox,           \* bridge/devices payloads received and not handled
  topicHandlers,   \* Client.handlers: the topics to assert on every connect
  kitEntities,     \* Driver.entities
  friendlyByEnt,
  listeners,       \* entityByTopic: which entity listens to which topic
  devices,         \* cache.devices: the list applied last
  applying,        \* the list being applied, <<>> if none
  adds, removes,   \* the entities it has still to add, and to remove
  subscribing      \* the topic whose Subscribe is about to call the broker

networkVars == <<network, pairings>>
linkVars == <<linkUp, subscribed, outages>>
cacheVars == <<kitEntities, friendlyByEnt, listeners>>
passVars == <<devices, applying, adds, removes, subscribing>>
zVars == <<networkVars, linkVars, inbox, topicHandlers, cacheVars, passVars>>

Entities == UNION {EntitiesFor[d] : d \in Devices}
Lists == {l \in [Devices -> Friendly \union {Unpaired}] :
            \A d, e \in Devices : l[d] = l[e] => d = e \/ l[d] = Unpaired}
Present(l) == {d \in Devices : l[d] # Unpaired}
DeviceOf(e) == CHOOSE d \in Devices : e \in EntitiesFor[d]

\* A process that has connected and subscribed to the bridge's topics.
FreshDriver ==
  /\ topicHandlers' = {} /\ kitEntities' = {} /\ listeners' = {}
  /\ friendlyByEnt' = [e \in Entities |-> Unpaired]
  /\ devices' = [d \in Devices |-> Unpaired]
  /\ applying' = <<>> /\ adds' = {} /\ removes' = {} /\ subscribing' = Unpaired

ZInit ==
  /\ network = [d \in Devices |-> Unpaired] /\ pairings = 0 /\ outages = 0
  /\ linkUp = TRUE /\ subscribed = {} /\ inbox = <<network>>
  /\ topicHandlers = {} /\ kitEntities = {} /\ listeners = {}
  /\ friendlyByEnt = [e \in Entities |-> Unpaired]
  /\ devices = [d \in Devices |-> Unpaired]
  /\ applying = <<>> /\ adds = {} /\ removes = {} /\ subscribing = Unpaired
-----------------------------------------------------------------------------
\* The bridge publishes a new list when a device is paired, renamed or removed,
\* or when one takes the place and the name of another.
NetworkChanges ==
  /\ pairings < MaxPairings /\ pairings' = pairings + 1
  /\ \E l \in Lists \ {network} :
       /\ network' = l
       /\ IF linkUp
          THEN Len(inbox) < MaxInbox /\ inbox' = Append(inbox, l)
          ELSE UNCHANGED inbox
  /\ UNCHANGED <<linkVars, topicHandlers, cacheVars, passVars>>

\* What was on its way is lost; the broker keeps the session, or has lost it too.
LinkLost ==
  /\ linkUp /\ outages < MaxOutages
  /\ linkUp' = FALSE /\ outages' = outages + 1
  /\ subscribed' \in {subscribed, {}}
  /\ \E n \in 0 .. Len(inbox) : inbox' = SubSeq(inbox, 1, n)
  /\ UNCHANGED <<networkVars, topicHandlers, cacheVars, passVars>>

\* The OnConnect handler asserts every subscription again, upon which the broker
\* replays the list it retains.
OnConnect ==
  /\ ~ linkUp /\ linkUp' = TRUE
  /\ subscribed' = subscribed \union topicHandlers
  /\ inbox' = Append(inbox, network)
  /\ UNCHANGED <<networkVars, outages, topicHandlers, cacheVars, passVars>>

\* The process ends; the supervisor starts another, under a client id of its own.
DriverRestarts ==
  /\ outages < MaxOutages /\ outages' = outages + 1
  /\ linkUp' = TRUE /\ subscribed' = {} /\ inbox' = <<network>>
  /\ FreshDriver
  /\ UNCHANGED networkVars
-----------------------------------------------------------------------------
\* onBridgeDevices and Reconcile
Reconcile ==
  /\ applying = <<>> /\ inbox # <<>>
  /\ inbox' = Tail(inbox)
  /\ applying' = <<Head(inbox)>>
  /\ adds' = UNION {EntitiesFor[d] : d \in Present(Head(inbox)) \ Present(devices)}
  /\ removes' = UNION {EntitiesFor[d] : d \in Present(devices) \ Present(Head(inbox))}
  /\ UNCHANGED <<networkVars, linkVars, topicHandlers, cacheVars, devices, subscribing>>

\* applyAdd, up to the entry of Subscribe.
ApplyAdd(e) ==
  LET name == applying[1][DeviceOf(e)] IN
  /\ e \in adds /\ subscribing = Unpaired
  /\ adds' = adds \ {e}
  /\ IF e \in kitEntities               \* ErrEntityAlreadyRegistered
     THEN UNCHANGED <<cacheVars, topicHandlers, subscribing>>
     ELSE /\ kitEntities' = kitEntities \union {e}
          /\ friendlyByEnt' = [friendlyByEnt EXCEPT ![e] = name]
          /\ listeners' = listeners \union {<<name, e>>}
          /\ topicHandlers' = topicHandlers \union {name}
          /\ subscribing' = name
  /\ UNCHANGED <<networkVars, linkVars, inbox, devices, applying, removes>>

\* The rest of Subscribe: nothing more if the connection is down.
SubscribeTopic ==
  /\ subscribing # Unpaired
  /\ subscribed' = IF linkUp THEN subscribed \union {subscribing} ELSE subscribed
  /\ subscribing' = Unpaired
  /\ UNCHANGED <<networkVars, linkUp, outages, inbox, topicHandlers, cacheVars, devices,
                 applying, adds, removes>>

\* MUTANT: the topics are dropped although another entity listens to them.
MutApplyRemove(e) ==
  LET name == devices[DeviceOf(e)] IN
  /\ adds = {} /\ subscribing = Unpaired /\ e \in removes
  /\ removes' = removes \ {e}
  /\ kitEntities' = kitEntities \ {e}
  /\ friendlyByEnt' = [friendlyByEnt EXCEPT ![e] = Unpaired]
  /\ listeners' = listeners \ {<<name, e>>}
  /\ topicHandlers' = topicHandlers \ {name}
  /\ subscribed' = IF linkUp THEN subscribed \ {name} ELSE subscribed
  /\ UNCHANGED <<networkVars, linkUp, outages, inbox, devices, applying, adds,
                 subscribing>>

\* applyRemove, under the name the device had in the list applied last: the last
\* entity that listens to a topic takes the subscription with it.
ApplyRemove(e) ==
  LET name == devices[DeviceOf(e)]
      last == \A l \in listeners : l[1] = name => l[2] = e IN
  /\ adds = {} /\ subscribing = Unpaired /\ e \in removes
  /\ removes' = removes \ {e}
  /\ kitEntities' = kitEntities \ {e}
  /\ friendlyByEnt' = [friendlyByEnt EXCEPT ![e] = Unpaired]
  /\ listeners' = listeners \ {<<name, e>>}
  /\ topicHandlers' = IF last THEN topicHandlers \ {name} ELSE topicHandlers
  /\ subscribed' = IF last /\ linkUp THEN subscribed \ {name} ELSE subscribed
  /\ UNCHANGED <<networkVars, linkUp, outages, inbox, devices, applying, adds,
                 subscribing>>

\* The renames, which change nothing here, and the list becomes the last one.
ListApplied ==
  /\ applying # <<>> /\ adds = {} /\ removes = {} /\ subscribing = Unpaired
  /\ devices' = applying[1] /\ applying' = <<>>
  /\ UNCHANGED <<networkVars, linkVars, inbox, topicHandlers, cacheVars, adds, removes,
                 subscribing>>
-----------------------------------------------------------------------------
OnBridgeDevices ==
  \/ Reconcile \/ SubscribeTopic \/ ListApplied
  \/ \E e \in Entities : ApplyAdd(e) \/ ApplyRemove(e)

ZNext == NetworkChanges \/ LinkLost \/ OnConnect \/ DriverRestarts \/ OnBridgeDevices

Heard(d) ==
  \A e \in EntitiesFor[d] :
    friendlyByEnt[e] = network[d] => <<network[d], e>> \in listeners /\ network[d] \in subscribed

\* Whatever lists, connections and processes were lost on the way, the driver
\* ends up with the entities of the devices on the network, each subscribed and
\* listening to its device's topic, unless the device has been renamed since it
\* was added: adding and removing of entities that share a topic, and a
\* connection that comes and goes between them, leave none deaf.
FollowsBridge ==
  <>[](linkUp =>
        /\ kitEntities = UNION {EntitiesFor[d] : d \in Present(network)}
        /\ \A d \in Present(network) : Heard(d))
=============================================================================
