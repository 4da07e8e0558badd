------------------------- MODULE Onboarding_proofs -------------------------
(* Proofs about Onboarding, for any flows and machines: a pairing leaves     *)
(* nothing behind, and what the user set is kept.  The first goes by the     *)
(* pairing's progress.  The second is about flows that know nothing of each  *)
(* other: an entry is created again, with new options, only if its machine   *)
(* had none while the flow was pairing, which rests on one flow at a time    *)
(* having claimed a machine, and that only while it has no entry.            *)
EXTENDS Onboarding, TLAPS

(* The types.                                                                *)
Steps == {"none", "reconfigure"} \cup ConfigSteps \cup Forms
Stages == {"none", "bus", "adapter", "agent", "check", "discover", "pair",
           "clean_ok", "clean_failed", "clean_absent"}
Values == {"default", "set"}
Records == [step : Steps, machine : Machines \cup {NoMachine}, shows : Values]

Types ==
  /\ entries \subseteq Machines
  /\ options \in [Machines -> [Forms -> Values]]
  /\ flow \in [Flows -> Records]
  /\ seen \in [Flows -> SUBSET Machines]
  /\ pairing \in [Flows -> Stages]

(* A flow has claimed its machine from the unique id to the new entry.       *)
Claimed == {"confirm", "pair", "pairing"}
Holds(f) == flow[f].step \in Claimed

(* A claimed machine has no entry.                                           *)
ClaimedIsNew == \A f \in Flows : Holds(f) => flow[f].machine \in Machines \ entries

(* No two flows have claimed the same machine.                               *)
OneFlowEach ==
  \A f, g \in Flows : f # g /\ Holds(f) /\ Holds(g) => flow[f].machine # flow[g].machine

(* Without an entry there are no options but the defaults.                   *)
OptionsWithEntry == \A m \in Machines : m \notin entries => options[m] = Defaults

(* Before the bus and after the clean-up a pairing has nothing.              *)
ReleasedAtRest ==
  \A f \in Flows : pairing[f] \in {"none", "bus"} => f \notin buses \cup agents \cup scans

(* The inductive invariant.                                                  *)
FlowInv == Types /\ ClaimedIsNew /\ OneFlowEach /\ OptionsWithEntry
IInv == FlowInv /\ ReleasedAtRest

-----------------------------------------------------------------------------
(* At the start no flow is open and every option has its default.            *)
LEMMA InitIInv == Init => IInv
<1> SUFFICES ASSUME Init PROVE IInv
  OBVIOUS
<1> USE DEF Init
<1>1. Over \in Records /\ Over.step \notin Claimed
  BY DEF Over, Records, Values, Claimed, Steps
<1>2. Defaults \in [Forms -> Values]
  BY DEF Defaults, Values
<1>3. Types
  BY <1>1, <1>2 DEF Types, Stages
<1>4. \A f \in Flows : ~Holds(f)
  BY <1>1 DEF Holds
<1>5. ClaimedIsNew /\ OneFlowEach
  BY <1>4 DEF ClaimedIsNew, OneFlowEach
<1>6. OptionsWithEntry /\ ReleasedAtRest
  BY DEF OptionsWithEntry, ReleasedAtRest
<1> QED
  BY <1>3, <1>5, <1>6 DEF IInv, FlowInv

(* One flow moves on, and claims a machine only if that is free.             *)
LEMMA FlowMoves ==
  ASSUME FlowInv, NEW f \in Flows, NEW r \in Records,
         flow' = [flow EXCEPT ![f] = r],
         entries' \subseteq entries,
         r.step \in Claimed => /\ r.machine \in Machines \ entries
                               /\ \A g \in Flows \ {f} : Holds(g) => flow[g].machine # r.machine
  PROVE  flow' \in [Flows -> Records] /\ ClaimedIsNew' /\ OneFlowEach'
<1> USE DEF FlowInv, Types
<1>1. flow' \in [Flows -> Records]
  OBVIOUS
<1>2. flow'[f] = r /\ \A g \in Flows \ {f} : flow'[g] = flow[g]
  OBVIOUS
<1>3. \A g \in Flows \ {f} : Holds(g)' <=> Holds(g)
  BY <1>2 DEF Holds
<1>4. Holds(f)' <=> r.step \in Claimed
  BY <1>2 DEF Holds
<1>5. ClaimedIsNew'
  BY <1>2, <1>3, <1>4 DEF ClaimedIsNew
<1>6. OneFlowEach'
  BY <1>2, <1>3, <1>4 DEF OneFlowEach
<1> QED
  BY <1>1, <1>5, <1>6

(* A flow ends.                                                              *)
LEMMA FlowEnds ==
  ASSUME FlowInv, NEW f \in Flows, Ends(f), entries' \subseteq entries
  PROVE  flow' \in [Flows -> Records] /\ ClaimedIsNew' /\ OneFlowEach'
<1>1. Over \in Records /\ Over.step \notin Claimed
  BY DEF Over, Records, Values, Claimed, Steps
<1> QED
  BY <1>1, FlowMoves DEF Ends

(* A flow goes to a step at which no machine is claimed.                     *)
LEMMA FlowGoes ==
  ASSUME FlowInv, NEW f \in Flows, NEW step \in Steps, step \notin Claimed,
         NEW m \in Machines \cup {NoMachine}, To(f, step, m), entries' \subseteq entries
  PROVE  flow' \in [Flows -> Records] /\ ClaimedIsNew' /\ OneFlowEach'
<1> DEFINE r == [step |-> step, machine |-> m, shows |-> "default"]
<1>1. r \in Records /\ r.step \notin Claimed
  BY DEF Records, Values
<1> HIDE DEF r
<1>2. flow' = [flow EXCEPT ![f] = r]
  BY DEF To, r
<1> QED
  BY <1>1, <1>2, FlowMoves

(* A flow claims a machine that is not taken, or keeps the one it has.       *)
LEMMA FlowClaims ==
  ASSUME FlowInv, NEW f \in Flows, NEW step \in Steps,
         NEW m \in Machines, To(f, step, m), entries' = entries,
         ~Taken(f, m) \/ (Holds(f) /\ m = flow[f].machine)
  PROVE  flow' \in [Flows -> Records] /\ ClaimedIsNew' /\ OneFlowEach'
<1> DEFINE r == [step |-> step, machine |-> m, shows |-> "default"]
<1>1. r \in Records /\ r.machine = m
  BY DEF Records, Values
<1>2. m \in Machines \ entries /\ \A g \in Flows \ {f} : Holds(g) => flow[g].machine # m
  <2>1. CASE ~Taken(f, m)
    BY <2>1 DEF Taken, InProgress, Holds, Claimed, ConfigSteps
  <2>2. CASE Holds(f) /\ m = flow[f].machine
    BY <2>2 DEF FlowInv, ClaimedIsNew, OneFlowEach
  <2> QED
    BY <2>1, <2>2
<1> HIDE DEF r
<1>3. flow' = [flow EXCEPT ![f] = r]
  BY DEF To, r
<1> QED
  BY <1>1, <1>2, <1>3, FlowMoves

(* Claims is one or the other.                                               *)
LEMMA ClaimsMoves ==
  ASSUME FlowInv, NEW f \in Flows, NEW m \in Machines, Claims(f, m, "pair"),
         entries' = entries
  PROVE  flow' \in [Flows -> Records] /\ ClaimedIsNew' /\ OneFlowEach'
<1>1. CASE Taken(f, m)
  BY <1>1, FlowEnds DEF Claims
<1>2. CASE ~Taken(f, m)
  BY <1>2, FlowClaims DEF Claims, Steps, ConfigSteps
<1> QED
  BY <1>1, <1>2

(* A step that leaves the entries alone keeps the invariant of the flows.    *)
LEMMA FlowInvKept ==
  ASSUME FlowInv, UNCHANGED entryVars, seen' \in [Flows -> SUBSET Machines],
         pairing' \in [Flows -> Stages],
         flow' \in [Flows -> Records] /\ ClaimedIsNew' /\ OneFlowEach'
  PROVE  FlowInv'
BY DEF FlowInv, Types, OptionsWithEntry, entryVars, Values

-----------------------------------------------------------------------------
(* What becomes of a flow when its pairing returns.                          *)
LEMMA ContinuesInv ==
  ASSUME FlowInv, NEW f \in Flows, NEW result, Continues(f, result),
         UNCHANGED seen, pairing' \in [Flows -> Stages]
  PROVE  FlowInv'
<1> USE DEF FlowInv
<1>1. CASE ~At(f, "pairing")
  <2>1. UNCHANGED <<entryVars, flow>>
    BY <1>1 DEF Continues
  <2>2. ClaimedIsNew' /\ OneFlowEach'
    BY <2>1 DEF ClaimedIsNew, OneFlowEach, Holds, entryVars
  <2> QED
    BY <2>1, <2>2, FlowInvKept DEF Types
<1>2. CASE At(f, "pairing") /\ result # "ok"
  <2>1. To(f, "pair", flow[f].machine) /\ UNCHANGED entryVars
    BY <1>2 DEF Continues
  <2>2. Holds(f) /\ flow[f].machine \in Machines
    BY <1>2 DEF At, Holds, Claimed, ClaimedIsNew
  <2>3. flow' \in [Flows -> Records] /\ ClaimedIsNew' /\ OneFlowEach'
    BY <2>1, <2>2, FlowClaims DEF entryVars, Steps, ConfigSteps
  <2> QED
    BY <2>1, <2>3, FlowInvKept DEF Types
<1>3. CASE At(f, "pairing") /\ result = "ok"
  <2> DEFINE m == flow[f].machine
  <2>1. Creates(m) /\ Ends(f)
    BY <1>3 DEF Continues
  <2>2. Holds(f) /\ m \in Machines \ entries
    BY <1>3 DEF At, Holds, Claimed, ClaimedIsNew
  <2>3. entries' = entries \cup {m} /\ options' = [options EXCEPT ![m] = Defaults]
    BY <2>1 DEF Creates
  <2>4. Over \in Records /\ Over.step \notin Claimed
    BY DEF Over, Records, Values, Claimed, Steps
  <2>5. flow' \in [Flows -> Records] /\ flow'[f] = Over
        /\ \A g \in Flows \ {f} : flow'[g] = flow[g]
    BY <2>1, <2>4 DEF Ends, Types
  <2>6. ~Holds(f)' /\ \A g \in Flows \ {f} : Holds(g)' <=> Holds(g)
    BY <2>4, <2>5 DEF Holds
  <2>7. ClaimedIsNew'
    BY <2>2, <2>3, <2>5, <2>6 DEF ClaimedIsNew, OneFlowEach
  <2>8. OneFlowEach'
    BY <2>5, <2>6 DEF OneFlowEach
  <2>9. Defaults \in [Forms -> Values]
    BY DEF Defaults, Values
  <2>10. entries' \subseteq Machines /\ options' \in [Machines -> [Forms -> Values]]
    BY <2>2, <2>3, <2>9 DEF Types
  <2>11. OptionsWithEntry'
    BY <2>2, <2>3 DEF OptionsWithEntry, Types
  <2> QED
    BY <2>5, <2>7, <2>8, <2>10, <2>11 DEF Types
<1> QED
  BY <1>1, <1>2, <1>3

(* Every step of a pairing keeps the invariant of the flows.                 *)
LEMMA PairsFlowInv ==
  ASSUME FlowInv, NEW f \in Flows, Pairs(f)
  PROVE  FlowInv'
<1>1. pairing' \in [Flows -> Stages] /\ seen' = seen
  BY DEF Pairs, BusConnects, AdapterFound, AgentRegistered, Checked, DeviceAppears,
         PairReturns, CleansUp, Moves, FlowInv, Types, Stages
<1>2. CASE UNCHANGED <<entryVars, flow>>
  <2>1. ClaimedIsNew' /\ OneFlowEach'
    BY <1>2 DEF FlowInv, ClaimedIsNew, OneFlowEach, Holds, entryVars
  <2> QED
    BY <1>1, <1>2, <2>1, FlowInvKept DEF FlowInv, Types
<1>3. CASE \E result \in {Outcome[p] : p \in DOMAIN Outcome} \cup {"ok"} : Continues(f, result)
  BY <1>1, <1>3, ContinuesInv
<1> QED
  BY <1>2, <1>3 DEF Pairs, BusConnects, AdapterFound, AgentRegistered, Checked,
                    DeviceAppears, PairReturns, CleansUp

(* Every step of a user or of discovery keeps it.                            *)
LEMMA UserFlowInv ==
  ASSUME FlowInv, NEW f \in Flows, User(f)
  PROVE  FlowInv'
<1> USE DEF bluezVars
<1> DEFINE Good == flow' \in [Flows -> Records] /\ ClaimedIsNew' /\ OneFlowEach'
<1>0. /\ seen \in [Flows -> SUBSET Machines] /\ pairing \in [Flows -> Stages]
      /\ Holds(f) => flow[f].machine \in Machines
  BY DEF FlowInv, Types, ClaimedIsNew
<1>1. ASSUME UserStarts(f) PROVE FlowInv'
  <2>1. PICK found \in SUBSET Machines :
          /\ seen' = [seen EXCEPT ![f] = found]
          /\ To(f, IF found = {} THEN "scan" ELSE "user", NoMachine)
    BY <1>1 DEF UserStarts
  <2>2. UNCHANGED entryVars /\ UNCHANGED pairing
    BY <1>1 DEF UserStarts
  <2>3. Good
    BY <2>1, <2>2, FlowGoes DEF Claimed, entryVars, Steps, ConfigSteps, Forms
  <2> QED
    BY <1>0, <2>1, <2>2, <2>3, FlowInvKept
<1>2. ASSUME ScanEnds(f) PROVE FlowInv'
  <2>1. PICK found \in SUBSET Machines :
          /\ seen' = [seen EXCEPT ![f] = found]
          /\ To(f, IF found = {} THEN "manual" ELSE "user", NoMachine)
    BY <1>2 DEF ScanEnds
  <2>2. UNCHANGED entryVars /\ UNCHANGED pairing
    BY <1>2 DEF ScanEnds
  <2>3. Good
    BY <2>1, <2>2, FlowGoes DEF Claimed, entryVars, Steps, ConfigSteps, Forms
  <2> QED
    BY <1>0, <2>1, <2>2, <2>3, FlowInvKept
<1>3. ASSUME PicksMachine(f) PROVE FlowInv'
  <2>1. UNCHANGED entryVars /\ UNCHANGED <<seen, pairing>>
    BY <1>3 DEF PicksMachine
  <2>2. ASSUME NEW m \in seen[f], Claims(f, m, "pair") PROVE Good
    BY <1>0, <2>1, <2>2, ClaimsMoves DEF entryVars
  <2>3. ASSUME To(f, "manual", NoMachine) PROVE Good
    BY <2>1, <2>3, FlowGoes DEF Claimed, entryVars, Steps, ConfigSteps, Forms
  <2> QED
    BY <1>0, <1>3, <2>1, <2>2, <2>3, FlowInvKept DEF PicksMachine
<1>4. ASSUME EntersAddress(f) PROVE FlowInv'
  <2>1. UNCHANGED entryVars /\ UNCHANGED <<seen, pairing>>
    BY <1>4 DEF EntersAddress
  <2>2. Good
    BY <1>4, <2>1, ClaimsMoves DEF EntersAddress, entryVars
  <2> QED
    BY <1>0, <2>1, <2>2, FlowInvKept
<1>5. ASSUME Discovered(f) PROVE FlowInv'
  <2>1. UNCHANGED entryVars /\ UNCHANGED <<seen, pairing>>
    BY <1>5 DEF Discovered
  <2>2. Good
    BY <1>5, <2>1, FlowClaims DEF Discovered, entryVars, Steps, ConfigSteps
  <2> QED
    BY <1>0, <2>1, <2>2, FlowInvKept
<1>6. ASSUME ConfirmsDiscovery(f) \/ SubmitsPair(f) PROVE FlowInv'
  <2>1. UNCHANGED entryVars /\ UNCHANGED seen /\ pairing' \in [Flows -> Stages]
    BY <1>0, <1>6 DEF ConfirmsDiscovery, SubmitsPair, Stages
  <2>2. Holds(f)
    BY <1>6 DEF ConfirmsDiscovery, SubmitsPair, At, Holds, Claimed
  <2>3. \E step \in Steps : To(f, step, flow[f].machine)
    BY <1>6 DEF ConfirmsDiscovery, SubmitsPair, Steps, ConfigSteps
  <2>4. Good
    BY <1>0, <2>1, <2>2, <2>3, FlowClaims DEF entryVars
  <2> QED
    BY <1>0, <2>1, <2>4, FlowInvKept
<1>7. ASSUME OpensForm(f) PROVE FlowInv'
  <2>1. PICK m \in entries, k \in Forms :
          flow' = [flow EXCEPT ![f] = [step |-> k, machine |-> m, shows |-> options[m][k]]]
    BY <1>7 DEF OpensForm
  <2>2. UNCHANGED entryVars /\ UNCHANGED <<seen, pairing>>
    BY <1>7 DEF OpensForm
  <2> DEFINE r == [step |-> k, machine |-> m, shows |-> options[m][k]]
  <2>3. options[m][k] \in Values /\ m \in Machines
    BY DEF FlowInv, Types
  <2>4. r \in Records /\ r.step \notin Claimed
    BY <2>3 DEF Records, Forms, Claimed, Steps
  <2>5. Good
    BY <2>1, <2>2, <2>4, FlowMoves DEF entryVars
  <2> QED
    BY <1>0, <2>2, <2>5, FlowInvKept
<1>8. ASSUME SubmitsForm(f) PROVE FlowInv'
  <2> DEFINE m == flow[f].machine
             k == flow[f].step
  <2>1. Ends(f) /\ entries' = entries /\ UNCHANGED <<seen, pairing>> /\ k \in Forms
    BY <1>8 DEF SubmitsForm
  <2>2. Good
    BY <2>1, FlowEnds
  <2>3. CASE m \notin entries
    <3>1. UNCHANGED entryVars
      BY <1>8, <2>1, <2>3 DEF SubmitsForm, entryVars
    <3> QED
      BY <1>0, <2>1, <2>2, <3>1, FlowInvKept
  <2>4. CASE m \in entries
    <3>1. PICK v \in {flow[f].shows, "set"} : options' = [options EXCEPT ![m] = Merged(m, k, v)]
      BY <1>8, <2>4 DEF SubmitsForm
    <3>2. v \in Values /\ m \in Machines /\ options[m] \in [Forms -> Values]
      BY <2>4 DEF FlowInv, Types, Records, Values
    <3>3. Merged(m, k, v) \in [Forms -> Values]
      BY <2>1, <3>2 DEF Merged
    <3>4. options' \in [Machines -> [Forms -> Values]]
      BY <3>1, <3>3 DEF FlowInv, Types
    <3>5. OptionsWithEntry'
      BY <2>1, <2>4, <3>1 DEF FlowInv, Types, OptionsWithEntry
    <3> QED
      BY <2>1, <2>2, <3>4, <3>5 DEF FlowInv, Types
  <2> QED
    BY <2>3, <2>4
<1>9. ASSUME OpensReconfigure(f) PROVE FlowInv'
  <2>1. UNCHANGED entryVars /\ UNCHANGED <<seen, pairing>>
    BY <1>9 DEF OpensReconfigure
  <2>2. entries \subseteq Machines
    BY DEF FlowInv, Types
  <2>3. Good
    BY <1>9, <2>1, <2>2, FlowGoes DEF OpensReconfigure, Claimed, entryVars, Steps
  <2> QED
    BY <1>0, <2>1, <2>3, FlowInvKept
<1>10. ASSUME Reconfigures(f) \/ Dismisses(f) PROVE FlowInv'
  <2>1. UNCHANGED entryVars /\ UNCHANGED <<seen, pairing>> /\ Ends(f)
    BY <1>10 DEF Reconfigures, Dismisses
  <2>2. Good
    BY <2>1, FlowEnds DEF entryVars
  <2> QED
    BY <1>0, <2>1, <2>2, FlowInvKept
<1> QED
  BY <1>1, <1>2, <1>3, <1>4, <1>5, <1>6, <1>7, <1>8, <1>9, <1>10 DEF User

(* So does the removal of an entry: fewer machines are taken.                *)
LEMMA RemovesFlowInv ==
  ASSUME FlowInv, NEW m \in Machines, RemovesEntry(m)
  PROVE  FlowInv'
<1> USE DEF FlowInv, bluezVars
<1>1. /\ entries' = entries \ {m} /\ options' = [options EXCEPT ![m] = Defaults]
      /\ UNCHANGED <<flow, seen, pairing>>
  BY DEF RemovesEntry
<1>2. Defaults \in [Forms -> Values]
  BY DEF Defaults, Values
<1>3. Types'
  BY <1>1, <1>2 DEF Types
<1>4. ClaimedIsNew' /\ OneFlowEach'
  BY <1>1 DEF ClaimedIsNew, OneFlowEach, Holds
<1>5. OptionsWithEntry'
  BY <1>1 DEF OptionsWithEntry, Types
<1> QED
  BY <1>3, <1>4, <1>5

(* What a pairing has registered it has until the clean-up takes it all.     *)
LEMMA ReleasedNext ==
  ASSUME Types, ReleasedAtRest, [Next]_vars
  PROVE  ReleasedAtRest'
<1> USE DEF ReleasedAtRest, bluezVars
<1>1. ASSUME NEW f \in Flows, Pairs(f) PROVE ReleasedAtRest'
  <2> USE DEF Types, Moves
  <2>1. CASE BusConnects(f)
    BY <2>1 DEF BusConnects
  <2>2. CASE AdapterFound(f) \/ AgentRegistered(f)
    BY <2>2 DEF AdapterFound, AgentRegistered
  <2>3. CASE Checked(f) \/ DeviceAppears(f) \/ PairReturns(f)
    BY <2>3 DEF Checked, DeviceAppears, PairReturns
  <2>4. CASE CleansUp(f)
    BY <2>4 DEF CleansUp, Releases
  <2> QED
    BY <1>1, <2>1, <2>2, <2>3, <2>4 DEF Pairs
<1>2. ASSUME NEW f \in Flows, SubmitsPair(f) PROVE ReleasedAtRest'
  BY <1>2 DEF SubmitsPair, Types
<1>3. ASSUME NEW f \in Flows, User(f), ~SubmitsPair(f)
      PROVE  UNCHANGED <<pairing, buses, agents, scans>>
  BY <1>3 DEF User, UserStarts, ScanEnds, PicksMachine, EntersAddress, Discovered,
       ConfirmsDiscovery, OpensForm, SubmitsForm, OpensReconfigure, Reconfigures, Dismisses
<1>4. ASSUME NEW m \in Machines, RemovesEntry(m)
      PROVE  UNCHANGED <<pairing, buses, agents, scans>>
  BY <1>4 DEF RemovesEntry
<1>5. CASE UNCHANGED vars
  BY <1>5 DEF vars
<1> QED
  BY <1>1, <1>2, <1>3, <1>4, <1>5 DEF Next

(* Every step preserves the invariant.                                       *)
LEMMA NextIInv == IInv /\ [Next]_vars => IInv'
<1> SUFFICES ASSUME IInv, [Next]_vars PROVE IInv'
  OBVIOUS
<1>1. FlowInv'
  <2>1. CASE UNCHANGED vars
    BY <2>1 DEF vars, IInv, FlowInv, Types, ClaimedIsNew, OneFlowEach, Holds, OptionsWithEntry
  <2> QED
    BY <2>1, PairsFlowInv, UserFlowInv, RemovesFlowInv DEF IInv, Next
<1>2. ReleasedAtRest'
  BY ReleasedNext DEF IInv, FlowInv
<1> QED
  BY <1>1, <1>2 DEF IInv

(* The inductive invariant holds in every reachable state.                   *)
THEOREM Invariance == Spec => []IInv
BY InitIInv, NextIInv, PTL DEF Spec

(* No pairing that has ended leaves its agent, its discovery or its bus      *)
(* (async_pair_device, _cleanup).                                            *)
THEOREM PairingLeavesNothing == Spec => []NothingLeftBehind
<1>1. IInv => NothingLeftBehind
  BY DEF IInv, ReleasedAtRest, NothingLeftBehind
<1> QED
  BY Invariance, <1>1, PTL

-----------------------------------------------------------------------------
(* What one step may do to an option the user has set.                       *)
LEMMA StepKeeps ==
  ASSUME IInv, [Next]_vars, NEW m \in Machines, NEW k \in Forms,
         options[m][k] = "set", options'[m][k] # "set"
  PROVE  \/ m \notin entries'
         \/ \E f \in Flows : flow[f].step = k /\ flow[f].machine = m /\ flow'[f] = Over
<1> USE DEF IInv, FlowInv, Types
<1>1. options[m] # Defaults
  BY DEF Defaults
<1>2. m \in entries
  BY <1>1 DEF OptionsWithEntry
<1>3. options' # options
  OBVIOUS
<1>4. ASSUME NEW f \in Flows, NEW result, Continues(f, result) PROVE FALSE
  <2>1. At(f, "pairing") /\ Creates(flow[f].machine)
    BY <1>3, <1>4 DEF Continues, entryVars
  <2>2. flow[f].machine \in Machines \ entries
    BY <2>1 DEF At, ClaimedIsNew, Holds, Claimed
  <2>3. options' = [options EXCEPT ![flow[f].machine] = Defaults]
    BY <2>1 DEF Creates
  <2>4. options'[m] = options[m]
    BY <1>2, <2>2, <2>3
  <2> QED
    BY <2>4
<1>5. ASSUME NEW f \in Flows, Pairs(f) PROVE FALSE
  BY <1>3, <1>4, <1>5 DEF Pairs, BusConnects, AdapterFound, AgentRegistered, Checked,
       DeviceAppears, PairReturns, CleansUp, entryVars
<1>6. ASSUME NEW f \in Flows, SubmitsForm(f)
      PROVE  flow[f].step = k /\ flow[f].machine = m /\ flow'[f] = Over
  <2> DEFINE n == flow[f].machine
             j == flow[f].step
  <2>1. n \in entries
    BY <1>3, <1>6 DEF SubmitsForm
  <2>2. PICK v : options' = [options EXCEPT ![n] = Merged(n, j, v)]
    BY <1>6, <2>1 DEF SubmitsForm
  <2>3. n = m
    <3>1. ASSUME n # m PROVE options'[m] = options[m]
      BY <2>2, <3>1
    <3> QED
      BY <3>1
  <2>4. options'[m] = Merged(m, j, v)
    BY <2>2, <2>3
  <2>5. j = k
    <3>1. ASSUME j # k PROVE Merged(m, j, v)[k] = options[m][k]
      BY <3>1 DEF Merged
    <3> QED
      BY <2>4, <3>1
  <2>6. flow'[f] = Over
    BY <1>6 DEF SubmitsForm, Ends
  <2> QED
    BY <2>3, <2>5, <2>6
<1>7. ASSUME NEW f \in Flows, User(f), ~SubmitsForm(f) PROVE FALSE
  BY <1>3, <1>7 DEF User, UserStarts, ScanEnds, PicksMachine, EntersAddress, Discovered,
       ConfirmsDiscovery, SubmitsPair, OpensForm, OpensReconfigure, Reconfigures, Dismisses,
       entryVars
<1>8. ASSUME NEW n \in Machines, RemovesEntry(n) PROVE m \notin entries'
  <2>1. options' = [options EXCEPT ![n] = Defaults] /\ entries' = entries \ {n}
    BY <1>8 DEF RemovesEntry
  <2>2. n = m
    <3>1. ASSUME n # m PROVE options'[m] = options[m]
      BY <2>1, <3>1
    <3> QED
      BY <3>1
  <2> QED
    BY <2>1, <2>2
<1>9. CASE UNCHANGED vars
  BY <1>3, <1>9 DEF vars
<1> QED
  BY <1>5, <1>6, <1>7, <1>8, <1>9 DEF Next

(* What the user set on a form stays, whatever the other form, a second flow *)
(* for the machine or a pairing that ends late do to its entry.              *)
THEOREM UserOptionsKept == Spec => OptionsKept
<1>1. IInv /\ [Next]_vars =>
        [\A m \in Machines, k \in Forms :
           options[m][k] = "set" /\ options'[m][k] # "set" =>
             \/ m \notin entries'
             \/ \E f \in Flows : flow[f].step = k /\ flow[f].machine = m /\ flow'[f] = Over]_vars
  BY StepKeeps
<1> QED
  BY Invariance, <1>1, PTL DEF Spec, OptionsKept
=============================================================================
