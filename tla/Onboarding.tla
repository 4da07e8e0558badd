----------------------------- MODULE Onboarding -----------------------------
(* Adding machines and changing their options: the config and options flows, *)
(* several of which may be open at once (browser tabs, discovery cards), and *)
(* the D-Bus pairing that a config flow awaits, which goes on when its flow  *)
(* has been dismissed.  Home Assistant aborts a flow whose unique id another *)
(* flow in progress has, and replaces an entry that is created again; BlueZ  *)
(* forgets what a client registered when its bus disconnects.                *)
EXTENDS FiniteSets

CONSTANTS
  Flows,      \* config and options flows
  Machines,   \* machines, by unique id
  NoMachine

ASSUME NoMachineAssumption == NoMachine \notin Machines

VARIABLES
  entries,    \* machines with a config entry
  options,    \* per machine and form: "default", or "set" by the user
  flow,       \* per flow: its step, its machine, the options its form shows
  seen,       \* per flow: _discovered_devices
  pairing,    \* per flow: the await of async_pair_device it is at
  target,     \* per flow: the machine it pairs
  buses,      \* flows with a D-Bus connection
  agents,     \* flows with an agent registered at BlueZ
  scans,      \* flows with a BlueZ discovery running
  paired      \* machines BlueZ is paired with

entryVars == <<entries, options>>
bluezVars == <<pairing, target, buses, agents, scans, paired>>
vars == <<entries, options, flow, seen, pairing, target, buses, agents, scans, paired>>

Forms == {"basic", "advanced"}
Defaults == [k \in Forms |-> "default"]
Over == [step |-> "none", machine |-> NoMachine, shows |-> "default"]

Init ==
  /\ entries \in SUBSET Machines
  /\ options = [m \in Machines |-> Defaults]
  /\ flow = [f \in Flows |-> Over]
  /\ seen = [f \in Flows |-> {}]
  /\ pairing = [f \in Flows |-> "none"] /\ target = [f \in Flows |-> NoMachine]
  /\ buses = {} /\ agents = {} /\ scans = {} /\ paired = {}

-----------------------------------------------------------------------------
At(f, step) == flow[f].step = step
To(f, step, m) ==
  flow' = [flow EXCEPT ![f] = [step |-> step, machine |-> m, shows |-> "default"]]
Ends(f) == flow' = [flow EXCEPT ![f] = Over]
Free(f) == At(f, "none") /\ pairing[f] = "none"

ConfigSteps == {"scan", "user", "manual", "confirm", "pair", "pairing"}

InProgress(f, m) ==
  \E g \in Flows \ {f} : flow[g].machine = m /\ flow[g].step \in ConfigSteps

(* async_set_unique_id and _abort_if_unique_id_configured.                   *)
Taken(f, m) == InProgress(f, m) \/ m \in entries

Claims(f, m, step) == IF Taken(f, m) THEN Ends(f) ELSE To(f, step, m)

(* async_step_user without input: Home Assistant's own list, or a scan.      *)
UserStarts(f) ==
  /\ Free(f)
  /\ \E found \in SUBSET Machines :
       /\ seen' = [seen EXCEPT ![f] = found]
       /\ To(f, IF found = {} THEN "scan" ELSE "user", NoMachine)
  /\ UNCHANGED <<entryVars, bluezVars>>

ScanEnds(f) ==
  /\ At(f, "scan")
  /\ \E found \in SUBSET Machines :
       /\ seen' = [seen EXCEPT ![f] = found]
       /\ To(f, IF found = {} THEN "manual" ELSE "user", NoMachine)
  /\ UNCHANGED <<entryVars, bluezVars>>

PicksMachine(f) ==
  /\ At(f, "user")
  /\ \/ \E m \in seen[f] : Claims(f, m, "pair")
     \/ To(f, "manual", NoMachine)
  /\ UNCHANGED <<entryVars, seen, bluezVars>>

(* A well-formed address; any other only shows the form again.               *)
EntersAddress(f) ==
  /\ At(f, "manual")
  /\ \E m \in Machines : Claims(f, m, "pair")
  /\ UNCHANGED <<entryVars, seen, bluezVars>>

Discovered(f) ==
  /\ Free(f)
  /\ \E m \in Machines : ~Taken(f, m) /\ To(f, "confirm", m)
  /\ UNCHANGED <<entryVars, seen, bluezVars>>

ConfirmsDiscovery(f) ==
  /\ At(f, "confirm")
  /\ To(f, "pair", flow[f].machine)
  /\ UNCHANGED <<entryVars, seen, bluezVars>>

-----------------------------------------------------------------------------
(* async_create_entry; Home Assistant replaces an entry of the unique id.    *)
Creates(m) ==
  /\ entries' = entries \cup {m}
  /\ options' = [options EXCEPT ![m] = Defaults]

(* async_step_pair goes on with the result, unless its flow is gone.         *)
Continues(f, result) ==
  IF ~At(f, "pairing")
    THEN UNCHANGED <<entryVars, flow>>
    ELSE IF result = "ok"
      THEN Creates(flow[f].machine) /\ Ends(f)
      ELSE To(f, "pair", flow[f].machine) /\ UNCHANGED entryVars

SubmitsPair(f) ==
  /\ At(f, "pair") /\ pairing[f] = "none"
  /\ To(f, "pairing", flow[f].machine)
  /\ pairing' = [pairing EXCEPT ![f] = "bus"]
  /\ target' = [target EXCEPT ![f] = flow[f].machine]
  /\ UNCHANGED <<entryVars, seen, buses, agents, scans, paired>>

Moves(f, at) == pairing' = [pairing EXCEPT ![f] = at]

(* Without D-Bus, or its library, pairing is left to the proxy.              *)
BusConnects(f) ==
  /\ pairing[f] = "bus"
  /\ \/ /\ Moves(f, "adapter") /\ buses' = buses \cup {f}
        /\ UNCHANGED <<entryVars, flow>>
     \/ /\ Moves(f, "none") /\ Continues(f, "ok")
        /\ UNCHANGED buses
  /\ UNCHANGED <<seen, target, agents, scans, paired>>

(* No adapter, or an error on the way to it: the same, with the bus closed.  *)
AdapterFound(f) ==
  /\ pairing[f] = "adapter"
  /\ \/ Moves(f, "agent") /\ UNCHANGED buses
     \/ Moves(f, "clean_ok") /\ buses' = buses \ {f}
  /\ UNCHANGED <<entryVars, flow, seen, target, agents, scans, paired>>

AgentRegistered(f) ==
  /\ pairing[f] = "agent"
  /\ \/ Moves(f, "check") /\ agents' = agents \cup {f}
     \/ Moves(f, "clean_failed") /\ agents' \in {agents, agents \cup {f}}
  /\ UNCHANGED <<entryVars, flow, seen, target, buses, scans, paired>>

(* Already paired, known but not paired, or not known (or not readable).     *)
Checked(f) ==
  /\ pairing[f] = "check"
  /\ \/ target[f] \in paired /\ Moves(f, "clean_ok")
     \/ target[f] \notin paired /\ Moves(f, "pair")
     \/ Moves(f, "discover")
  /\ UNCHANGED <<entryVars, flow, seen, target, buses, agents, scans, paired>>

(* StartDiscovery may fail and be ignored; a device that does not appear     *)
(* leaves discovery_started unset, and the discovery to the bus.             *)
DeviceAppears(f) ==
  /\ pairing[f] = "discover"
  /\ scans' \in {scans, scans \cup {f}}
  /\ Moves(f, "pair") \/ Moves(f, "clean_absent")
  /\ UNCHANGED <<entryVars, flow, seen, target, buses, agents, paired>>

(* Pair and trust; AlreadyExists counts as paired.                           *)
PairReturns(f) ==
  /\ pairing[f] = "pair"
  /\ \/ Moves(f, "clean_ok") /\ paired' = paired \cup {target[f]}
     \/ Moves(f, "clean_failed") /\ paired' \in {paired, paired \cup {target[f]}}
  /\ UNCHANGED <<entryVars, flow, seen, target, buses, agents, scans>>

(* Mutant: nothing but the calls that may fail.                              *)
ReleasesByCalls(f) ==
  /\ buses' = buses
  /\ agents' \in {agents, agents \ {f}}
  /\ scans' \in {scans, scans \ {f}}

(* _cleanup: stop, unregister, disconnect, each whatever the others did.     *)
Releases(f) ==
  /\ buses' = buses \ {f}
  /\ agents' = agents \ {f}
  /\ scans' = scans \ {f}

Outcome == [clean_ok |-> "ok", clean_failed |-> "pairing_failed",
            clean_absent |-> "cannot_connect"]

CleansUp(f) ==
  /\ pairing[f] \in DOMAIN Outcome
  /\ Releases(f)
  /\ Moves(f, "none")
  /\ Continues(f, Outcome[pairing[f]])
  /\ UNCHANGED <<seen, target, paired>>

-----------------------------------------------------------------------------
(* The options flow: a form shows what is set now and returns all its fields.*)
OpensForm(f) ==
  /\ Free(f)
  /\ \E m \in entries, k \in Forms :
       flow' = [flow EXCEPT ![f] = [step |-> k, machine |-> m, shows |-> options[m][k]]]
  /\ UNCHANGED <<entryVars, seen, bluezVars>>

(* Mutant: the submit starts from the defaults.                              *)
MergedAfresh(m, k, v) == [Defaults EXCEPT ![k] = IF m \in entries THEN v ELSE @]

(* {**entry.options, **user_input}                                           *)
Merged(m, k, v) == [options[m] EXCEPT ![k] = v]

SubmitsForm(f) ==
  /\ flow[f].step \in Forms
  /\ LET m == flow[f].machine IN
       IF m \in entries
         THEN \E v \in {flow[f].shows, "set"} :
                options' = [options EXCEPT ![m] = Merged(m, flow[f].step, v)]
         ELSE UNCHANGED options
  /\ Ends(f)
  /\ UNCHANGED <<entries, seen, bluezVars>>

(* async_step_reconfigure: only an address of the entry's own machine.       *)
OpensReconfigure(f) ==
  /\ Free(f)
  /\ \E m \in entries : To(f, "reconfigure", m)
  /\ UNCHANGED <<entryVars, seen, bluezVars>>

Reconfigures(f) ==
  /\ At(f, "reconfigure")
  /\ Ends(f)
  /\ UNCHANGED <<entryVars, seen, bluezVars>>

(* The user closes the dialog; a pairing it awaited goes on without it.      *)
Dismisses(f) ==
  /\ ~At(f, "none")
  /\ Ends(f)
  /\ UNCHANGED <<entryVars, seen, bluezVars>>

RemovesEntry(m) ==
  /\ m \in entries
  /\ entries' = entries \ {m}
  /\ options' = [options EXCEPT ![m] = Defaults]
  /\ UNCHANGED <<flow, seen, bluezVars>>

-----------------------------------------------------------------------------
Pairs(f) ==
  \/ BusConnects(f) \/ AdapterFound(f) \/ AgentRegistered(f) \/ Checked(f)
  \/ DeviceAppears(f) \/ PairReturns(f) \/ CleansUp(f)

User(f) ==
  \/ UserStarts(f) \/ ScanEnds(f) \/ PicksMachine(f) \/ EntersAddress(f)
  \/ Discovered(f) \/ ConfirmsDiscovery(f) \/ SubmitsPair(f)
  \/ OpensForm(f) \/ SubmitsForm(f) \/ OpensReconfigure(f) \/ Reconfigures(f)
  \/ Dismisses(f)

Next ==
  \/ \E f \in Flows : Pairs(f) \/ User(f)
  \/ \E m \in Machines : RemovesEntry(m)

Spec == Init /\ [][Next]_vars

-----------------------------------------------------------------------------
(* What the user set on one form stays until that form is submitted for the  *)
(* machine or its entry is removed: not lost to the other form, nor to a     *)
(* flow that adds the machine once more after a long pairing (async_step_    *)
(* basic, async_step_advanced, _abort_if_unique_id_configured).              *)
OptionsKept ==
  [][\A m \in Machines, k \in Forms :
       options[m][k] = "set" /\ options'[m][k] # "set" =>
         \/ m \notin entries'
         \/ \E f \in Flows : flow[f].step = k /\ flow[f].machine = m /\ flow'[f] = Over]_vars

(* Once a pairing has ended, by whatever return or error and whether its     *)
(* flow is still there, none of its agent, discovery and bus remains.        *)
NothingLeftBehind ==
  \A f \in Flows : pairing[f] = "none" => f \notin buses \cup agents \cup scans
=============================================================================
