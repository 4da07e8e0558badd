------------------------ MODULE LinkServices_proofs ------------------------
(* Proof about LinkServices that auto-confirm begins one confirmation for    *)
(* each appearance of a prompt, for any prompts and synchronisations.  The   *)
(* count alone is not inductive: that a prompt which goes on being reported  *)
(* is not confirmed again rests on the debounce agreeing with the last       *)
(* status, which every report and nothing else may change.                   *)
EXTENDS LinkServices, TLAPS

(* _last_auto_confirmed is the soft prompt of the last report, or none.      *)
DebounceFollows == last = Debounce(status)

(* The inductive invariant.                                                  *)
IInv == asked \in {0, 1} /\ DebounceFollows

-----------------------------------------------------------------------------
(* A session starts with no prompt reported and none confirmed.              *)
LEMMA InitIInv == Init => IInv
BY PromptsAssumption DEF Init, IInv, DebounceFollows, Debounce

(* A report that repeats the last prompt does not confirm it; one that names *)
(* another prompt starts the count again.                                    *)
LEMMA ReportIInv == IInv /\ StatusArrives => IInv'
<1> SUFFICES ASSUME IInv, StatusArrives PROVE IInv'
  OBVIOUS
<1> DEFINE p == Head(report)
<1>1. status' = p /\ last' = Debounce(p)
      /\ asked' = (IF p = status THEN asked ELSE 0) + (IF Confirms(p) THEN 1 ELSE 0)
  BY DEF StatusArrives
<1>2. DebounceFollows'
  BY <1>1 DEF DebounceFollows, Debounce
<1>3. CASE p = status
  <2>1. ~Confirms(p)
    BY <1>3 DEF IInv, DebounceFollows, Debounce, Confirms
  <2>2. asked' = asked
    BY <1>1, <1>3, <2>1 DEF IInv
  <2> QED
    BY <1>2, <2>2 DEF IInv
<1>4. CASE p # status
  <2>1. asked' \in {0, 1}
    BY <1>1, <1>4
  <2> QED
    BY <1>2, <2>1 DEF IInv
<1> QED
  BY <1>3, <1>4

(* No other step changes the last status, the debounce or the count.         *)
LEMMA OthersIInv ==
  ASSUME [Next]_vars, ~StatusArrives
  PROVE  UNCHANGED <<status, last, asked>>
<1> USE DEF promptVars, clockVars
<1>1. ASSUME NEW p \in Prompts, MachineShows(p) PROVE UNCHANGED <<status, last, asked>>
  BY <1>1 DEF MachineShows
<1>2. CASE MachineReports \/ ConfirmLands \/ ConfirmFails
  BY <1>2 DEF MachineReports, ConfirmLands, ConfirmFails
<1>3. ASSUME NEW s \in Syncs, SyncSteps(s) PROVE UNCHANGED <<status, last, asked>>
  BY <1>3 DEF SyncSteps, SyncBegins, ReadAnswers, ReadFails, WriteLands, WriteFails
<1>4. CASE DailyTick \/ ServiceSyncs \/ HoursPass
  BY <1>4 DEF DailyTick, ServiceSyncs, HoursPass
<1>5. CASE Connects \/ Drops
  BY <1>5 DEF Connects, Drops
<1>6. CASE UNCHANGED vars
  BY <1>6 DEF vars
<1> QED
  BY <1>1, <1>2, <1>3, <1>4, <1>5, <1>6 DEF Next

(* Every step preserves the invariant.                                       *)
LEMMA NextIInv == IInv /\ [Next]_vars => IInv'
BY ReportIInv, OthersIInv DEF IInv, DebounceFollows, Debounce

(* Each prompt is confirmed at most once while the reports go on naming it,  *)
(* over failed confirmations and reconnects (_maybe_auto_confirm).           *)
THEOREM ConfirmedOnce == Spec => []OncePerAppearance
<1>1. IInv => OncePerAppearance
  BY DEF IInv, OncePerAppearance
<1> QED
  BY InitIInv, NextIInv, <1>1, PTL DEF Spec
=============================================================================
