------------------------ MODULE BrewCommands_proofs ------------------------
(***************************************************************************)
(* Proofs about BrewCommands: its type invariant, the inductive invariant  *)
(* IInv, and from it OwnRecipe and PollingResumes.  The argument is that   *)
(* _brew_lock admits one command at a time (LockHeld), so that nobody else *)
(* writes to the temporary recipe (SlotInUse), and that every override is  *)
(* accounted for from the first write to the start (Accounted).            *)
(***************************************************************************)
EXTENDS BrewCommands, TLAPS

USE BrewAssumption DEF BrewAssumption, Registers, Temp, Saved, NoArg, Old

-----------------------------------------------------------------------------
\* The initial state satisfies the inductive invariant.
LEMMA InitIInv == Init => IInv
<1> USE DEF Init, Request!Init, Request!NoCall
<1>1. Init => TypeOK
  <2> SUFFICES ASSUME Init PROVE TypeOK
    OBVIOUS
  <2>1. call \in [Tasks -> Calls] /\ (\A t \in Tasks : call[t] = Request!NoCall)
    BY DEF Calls
  <2>2. \A t \in Tasks : pc[t] = "idle"
    OBVIOUS
  <2> QED
    BY <2>1, <2>2 DEF TypeOK
<1>2. Init => LockHeld /\ CallsFit /\ SlotInUse
  BY DEF LockHeld, CallsFit, SlotInUse
<1>3. Init => CarriedOut /\ Accounted /\ PollingDue
  BY DEF CarriedOut, Accounted, PollingDue
<1> QED
  BY <1>1, <1>2, <1>3 DEF IInv

\* Every step keeps the types.
LEMMA TypeOKNext == TypeOK /\ CallsFit /\ [Next]_vars => TypeOK'
<1> SUFFICES ASSUME TypeOK, CallsFit, [Next]_vars PROVE TypeOK'
  OBVIOUS
<1> USE DEF TypeOK, CallsFit, Calls, client, brew, request, Connected
<1>1. ASSUME NEW t \in Tasks, BrewTemp(t) PROVE TypeOK'
  <2>1. PICK fields \in SUBSET Fields :
          /\ overrides' = [overrides EXCEPT ![t] = fields]
          /\ todo' = [todo EXCEPT ![t] = fields]
    BY <1>1 DEF BrewTemp
  <2>2. overrides' \in [Tasks -> SUBSET Fields] /\ todo' \in [Tasks -> SUBSET Fields]
    BY <2>1
  <2>3. call' = [call EXCEPT ![t] = [op |-> "HW", arg |-> TypeRegister]]
        /\ pc' = [pc EXCEPT ![t] = "write"] /\ done' = done
    BY <1>1 DEF BrewTemp, CallAt, Request!Begin
  <2>4. call' \in [Tasks -> Calls] /\ pc' \in [Tasks ->
          {"idle", "write", "sleep", "start", "edit"}]
    BY <2>3
  <2>5. \A u \in Tasks :
          pc'[u] \in {"write", "start", "edit"} <=> call'[u] # Request!NoCall
    BY <2>3 DEF Request!NoCall
  <2> QED
    BY <1>1, <2>2, <2>3, <2>4, <2>5 DEF BrewTemp, Enter, Request!NoCall
<1>2. ASSUME NEW t \in Tasks, BrewSaved(t) PROVE TypeOK'
  BY <1>2 DEF BrewSaved, Enter, CallAt, Request!Begin, Request!NoCall
<1>3. ASSUME NEW t \in Tasks, WriteAlpha(t) PROVE TypeOK'
  BY <1>3 DEF WriteAlpha, Enter, CallAt, Request!Begin, Request!NoCall
<1>4. ASSUME NEW t \in Tasks, Written(t) PROVE TypeOK'
  <2>1. failed' \in [Tasks -> SUBSET Registers]
    BY <1>4 DEF Written
  <2>2. call' = [call EXCEPT ![t] = Request!NoCall] /\ done' = [done EXCEPT ![t] = 0]
        /\ pc' = [pc EXCEPT ![t] = "sleep"]
    BY <1>4 DEF Written, Request!End
  <2> QED
    BY <1>4, <2>1, <2>2 DEF Written, Request!NoCall
<1>5. ASSUME NEW t \in Tasks, WriteNext(t) PROVE TypeOK'
  BY <1>5 DEF WriteNext, CallAt, Request!Begin, Request!NoCall
<1>6. ASSUME NEW t \in Tasks, StartProcess(t) PROVE TypeOK'
  BY <1>6 DEF StartProcess, CallAt, Request!Begin, Request!NoCall
<1>7. ASSUME NEW t \in Tasks, Finish(t) PROVE TypeOK'
  BY <1>7 DEF Finish, Leave, Request!End, Request!NoCall
<1>8. ASSUME NEW t \in Tasks, Cancelled(t) PROVE TypeOK'
  BY <1>8 DEF Cancelled, Leave, Request!NoCall
<1>9. ASSUME NEW t \in Tasks, CarryOut(t) PROVE TypeOK'
  BY <1>9 DEF CarryOut, Request!CarryOut, Request!NoCall
<1>10. CASE LinkMade
  BY <1>10 DEF LinkMade
<1>11. CASE ConnectReturns
  BY <1>11 DEF ConnectReturns
<1>12. CASE LinkLost
  BY <1>12 DEF LinkLost
<1>13. CASE PollExits
  BY <1>13 DEF PollExits
<1>14. CASE StatusArrives
  BY <1>14 DEF StatusArrives
<1>15. CASE UNCHANGED vars
  BY <1>15 DEF vars
<1> QED
  BY <1>1, <1>2, <1>3, <1>4, <1>5, <1>6, <1>7, <1>8, <1>9, <1>10, <1>11,
     <1>12, <1>13, <1>14, <1>15
  DEF Next, Begins, Steps

\* The lock is taken where a command begins and released where it ends.
LEMMA LockHeldNext == TypeOK /\ LockHeld /\ [Next]_vars => LockHeld'
<1> SUFFICES ASSUME TypeOK, LockHeld, [Next]_vars PROVE LockHeld'
  OBVIOUS
<1> USE DEF TypeOK, LockHeld, client, brew, request, Connected
<1>1. ASSUME NEW t \in Tasks, BrewTemp(t) PROVE LockHeld'
  BY <1>1 DEF BrewTemp, Enter, CallAt, Request!Begin, Request!NoCall
<1>2. ASSUME NEW t \in Tasks, BrewSaved(t) PROVE LockHeld'
  BY <1>2 DEF BrewSaved, Enter, CallAt, Request!Begin, Request!NoCall
<1>3. ASSUME NEW t \in Tasks, WriteAlpha(t) PROVE LockHeld'
  BY <1>3 DEF WriteAlpha, Enter, CallAt, Request!Begin, Request!NoCall
<1>4. ASSUME NEW t \in Tasks, Written(t) PROVE LockHeld'
  BY <1>4 DEF Written, Request!End, Request!NoCall
<1>5. ASSUME NEW t \in Tasks, WriteNext(t) PROVE LockHeld'
  BY <1>5 DEF WriteNext, CallAt, Request!Begin, Request!NoCall
<1>6. ASSUME NEW t \in Tasks, StartProcess(t) PROVE LockHeld'
  BY <1>6 DEF StartProcess, CallAt, Request!Begin, Request!NoCall
<1>7. ASSUME NEW t \in Tasks, Finish(t) PROVE LockHeld'
  BY <1>7 DEF Finish, Leave, Request!End, Request!NoCall
<1>8. ASSUME NEW t \in Tasks, Cancelled(t) PROVE LockHeld'
  BY <1>8 DEF Cancelled, Leave, Request!NoCall
<1>9. ASSUME NEW t \in Tasks, CarryOut(t) PROVE LockHeld'
  BY <1>9 DEF CarryOut, Request!CarryOut, Request!NoCall
<1>10. CASE LinkMade
  BY <1>10 DEF LinkMade
<1>11. CASE ConnectReturns
  BY <1>11 DEF ConnectReturns
<1>12. CASE LinkLost
  BY <1>12 DEF LinkLost
<1>13. CASE PollExits
  BY <1>13 DEF PollExits
<1>14. CASE StatusArrives
  BY <1>14 DEF StatusArrives
<1>15. CASE UNCHANGED vars
  BY <1>15 DEF vars
<1> QED
  BY <1>1, <1>2, <1>3, <1>4, <1>5, <1>6, <1>7, <1>8, <1>9, <1>10, <1>11,
     <1>12, <1>13, <1>14, <1>15
  DEF Next, Begins, Steps

\* A task asks for what its place in the command says.
LEMMA CallsFitNext == TypeOK /\ CallsFit /\ [Next]_vars => CallsFit'
<1> SUFFICES ASSUME TypeOK, CallsFit, [Next]_vars PROVE CallsFit'
  OBVIOUS
<1> USE DEF TypeOK, LockHeld, CallsFit, Calls, client, brew, request, Connected
<1>1. ASSUME NEW t \in Tasks, BrewTemp(t) PROVE CallsFit'
  BY <1>1 DEF BrewTemp, Enter, CallAt, Request!Begin, Request!NoCall
<1>2. ASSUME NEW t \in Tasks, BrewSaved(t) PROVE CallsFit'
  BY <1>2 DEF BrewSaved, Enter, CallAt, Request!Begin, Request!NoCall
<1>3. ASSUME NEW t \in Tasks, WriteAlpha(t) PROVE CallsFit'
  BY <1>3 DEF WriteAlpha, Enter, CallAt, Request!Begin, Request!NoCall
<1>4. ASSUME NEW t \in Tasks, Written(t) PROVE CallsFit'
  BY <1>4 DEF Written, Request!End, Request!NoCall
<1>5. ASSUME NEW t \in Tasks, WriteNext(t) PROVE CallsFit'
  BY <1>5 DEF WriteNext, CallAt, Request!Begin, Request!NoCall
<1>6. ASSUME NEW t \in Tasks, StartProcess(t) PROVE CallsFit'
  BY <1>6 DEF StartProcess, CallAt, Request!Begin, Request!NoCall
<1>7. ASSUME NEW t \in Tasks, Finish(t) PROVE CallsFit'
  BY <1>7 DEF Finish, Leave, Request!End, Request!NoCall
<1>8. ASSUME NEW t \in Tasks, Cancelled(t) PROVE CallsFit'
  BY <1>8 DEF Cancelled, Leave, Request!NoCall
<1>9. ASSUME NEW t \in Tasks, CarryOut(t) PROVE CallsFit'
  BY <1>9 DEF CarryOut, Request!CarryOut, Request!NoCall
<1>10. CASE LinkMade
  BY <1>10 DEF LinkMade
<1>11. CASE ConnectReturns
  BY <1>11 DEF ConnectReturns
<1>12. CASE LinkLost
  BY <1>12 DEF LinkLost
<1>13. CASE PollExits
  BY <1>13 DEF PollExits
<1>14. CASE StatusArrives
  BY <1>14 DEF StatusArrives
<1>15. CASE UNCHANGED vars
  BY <1>15 DEF vars
<1> QED
  BY <1>1, <1>2, <1>3, <1>4, <1>5, <1>6, <1>7, <1>8, <1>9, <1>10, <1>11,
     <1>12, <1>13, <1>14, <1>15
  DEF Next, Begins, Steps

\* The temporary recipe is written by the holder of the lock only.
LEMMA SlotInUseNext ==
  TypeOK /\ LockHeld /\ CallsFit /\ SlotInUse /\ [Next]_vars => SlotInUse'
<1> SUFFICES ASSUME TypeOK, LockHeld, CallsFit, SlotInUse, [Next]_vars
             PROVE SlotInUse'
  OBVIOUS
<1> USE DEF TypeOK, LockHeld, CallsFit, SlotInUse, Calls, client, brew, request, Connected
<1>1. ASSUME NEW t \in Tasks, BrewTemp(t) PROVE SlotInUse'
  BY <1>1 DEF BrewTemp, Enter, CallAt, Request!Begin, Request!NoCall
<1>2. ASSUME NEW t \in Tasks, BrewSaved(t) PROVE SlotInUse'
  BY <1>2 DEF BrewSaved, Enter, CallAt, Request!Begin, Request!NoCall
<1>3. ASSUME NEW t \in Tasks, WriteAlpha(t) PROVE SlotInUse'
  BY <1>3 DEF WriteAlpha, Enter, CallAt, Request!Begin, Request!NoCall
<1>4. ASSUME NEW t \in Tasks, Written(t) PROVE SlotInUse'
  BY <1>4 DEF Written, Request!End, Request!NoCall
<1>5. ASSUME NEW t \in Tasks, WriteNext(t) PROVE SlotInUse'
  BY <1>5 DEF WriteNext, CallAt, Request!Begin, Request!NoCall
<1>6. ASSUME NEW t \in Tasks, StartProcess(t) PROVE SlotInUse'
  BY <1>6 DEF StartProcess, CallAt, Request!Begin, Request!NoCall
<1>7. ASSUME NEW t \in Tasks, Finish(t) PROVE SlotInUse'
  BY <1>7 DEF Finish, Leave, Request!End, Request!NoCall
<1>8. ASSUME NEW t \in Tasks, Cancelled(t) PROVE SlotInUse'
  BY <1>8 DEF Cancelled, Leave, Request!NoCall
<1>9. ASSUME NEW t \in Tasks, CarryOut(t) PROVE SlotInUse'
  BY <1>9 DEF CarryOut, Request!CarryOut, Request!NoCall
<1>10. CASE LinkMade
  BY <1>10 DEF LinkMade
<1>11. CASE ConnectReturns
  BY <1>11 DEF ConnectReturns
<1>12. CASE LinkLost
  BY <1>12 DEF LinkLost
<1>13. CASE PollExits
  BY <1>13 DEF PollExits
<1>14. CASE StatusArrives
  BY <1>14 DEF StatusArrives
<1>15. CASE UNCHANGED vars
  BY <1>15 DEF vars
<1> QED
  BY <1>1, <1>2, <1>3, <1>4, <1>5, <1>6, <1>7, <1>8, <1>9, <1>10, <1>11,
     <1>12, <1>13, <1>14, <1>15
  DEF Next, Begins, Steps

\* The machine writes what it is told.
LEMMA CarriedOutNext ==
  TypeOK /\ LockHeld /\ CallsFit /\ CarriedOut /\ [Next]_vars => CarriedOut'
<1> SUFFICES ASSUME TypeOK, LockHeld, CallsFit, CarriedOut, [Next]_vars
             PROVE CarriedOut'
  OBVIOUS
<1> USE DEF TypeOK, LockHeld, CallsFit, CarriedOut, Calls, client, brew, request, Connected
<1>1. ASSUME NEW t \in Tasks, BrewTemp(t) PROVE CarriedOut'
  BY <1>1 DEF BrewTemp, Enter, CallAt, Request!Begin, Request!NoCall
<1>2. ASSUME NEW t \in Tasks, BrewSaved(t) PROVE CarriedOut'
  BY <1>2 DEF BrewSaved, Enter, CallAt, Request!Begin, Request!NoCall
<1>3. ASSUME NEW t \in Tasks, WriteAlpha(t) PROVE CarriedOut'
  BY <1>3 DEF WriteAlpha, Enter, CallAt, Request!Begin, Request!NoCall
<1>4. ASSUME NEW t \in Tasks, Written(t) PROVE CarriedOut'
  BY <1>4 DEF Written, Request!End, Request!NoCall
<1>5. ASSUME NEW t \in Tasks, WriteNext(t) PROVE CarriedOut'
  BY <1>5 DEF WriteNext, CallAt, Request!Begin, Request!NoCall
<1>6. ASSUME NEW t \in Tasks, StartProcess(t) PROVE CarriedOut'
  BY <1>6 DEF StartProcess, CallAt, Request!Begin, Request!NoCall
<1>7. ASSUME NEW t \in Tasks, Finish(t) PROVE CarriedOut'
  BY <1>7 DEF Finish, Leave, Request!End, Request!NoCall
<1>8. ASSUME NEW t \in Tasks, Cancelled(t) PROVE CarriedOut'
  BY <1>8 DEF Cancelled, Leave, Request!NoCall
<1>9. ASSUME NEW t \in Tasks, CarryOut(t) PROVE CarriedOut'
  BY <1>9 DEF CarryOut, Request!CarryOut, Request!NoCall
<1>10. CASE LinkMade
  BY <1>10 DEF LinkMade
<1>11. CASE ConnectReturns
  BY <1>11 DEF ConnectReturns
<1>12. CASE LinkLost
  BY <1>12 DEF LinkLost
<1>13. CASE PollExits
  BY <1>13 DEF PollExits
<1>14. CASE StatusArrives
  BY <1>14 DEF StatusArrives
<1>15. CASE UNCHANGED vars
  BY <1>15 DEF vars
<1> QED
  BY <1>1, <1>2, <1>3, <1>4, <1>5, <1>6, <1>7, <1>8, <1>9, <1>10, <1>11,
     <1>12, <1>13, <1>14, <1>15
  DEF Next, Begins, Steps

\* No override goes missing.
LEMMA AccountedNext ==
  TypeOK /\ LockHeld /\ CallsFit /\ CarriedOut /\ Accounted /\ [Next]_vars
    => Accounted'
<1> SUFFICES ASSUME TypeOK, LockHeld, CallsFit, CarriedOut, Accounted, [Next]_vars
             PROVE Accounted'
  OBVIOUS
<1> USE DEF TypeOK, LockHeld, CallsFit, CarriedOut, Accounted, Calls, client, brew, request, Connected
<1>1. ASSUME NEW t \in Tasks, BrewTemp(t) PROVE Accounted'
  BY <1>1 DEF BrewTemp, Enter, CallAt, Request!Begin, Request!NoCall
<1>2. ASSUME NEW t \in Tasks, BrewSaved(t) PROVE Accounted'
  BY <1>2 DEF BrewSaved, Enter, CallAt, Request!Begin, Request!NoCall
<1>3. ASSUME NEW t \in Tasks, WriteAlpha(t) PROVE Accounted'
  BY <1>3 DEF WriteAlpha, Enter, CallAt, Request!Begin, Request!NoCall
<1>4. ASSUME NEW t \in Tasks, Written(t) PROVE Accounted'
  BY <1>4 DEF Written, Request!End, Request!NoCall
<1>5. ASSUME NEW t \in Tasks, WriteNext(t) PROVE Accounted'
  BY <1>5 DEF WriteNext, CallAt, Request!Begin, Request!NoCall
<1>6. ASSUME NEW t \in Tasks, StartProcess(t) PROVE Accounted'
  BY <1>6 DEF StartProcess, CallAt, Request!Begin, Request!NoCall
<1>7. ASSUME NEW t \in Tasks, Finish(t) PROVE Accounted'
  BY <1>7 DEF Finish, Leave, Request!End, Request!NoCall
<1>8. ASSUME NEW t \in Tasks, Cancelled(t) PROVE Accounted'
  BY <1>8 DEF Cancelled, Leave, Request!NoCall
<1>9. ASSUME NEW t \in Tasks, CarryOut(t) PROVE Accounted'
  BY <1>9 DEF CarryOut, Request!CarryOut, Request!NoCall
<1>10. CASE LinkMade
  BY <1>10 DEF LinkMade
<1>11. CASE ConnectReturns
  BY <1>11 DEF ConnectReturns
<1>12. CASE LinkLost
  BY <1>12 DEF LinkLost
<1>13. CASE PollExits
  BY <1>13 DEF PollExits
<1>14. CASE StatusArrives
  BY <1>14 DEF StatusArrives
<1>15. CASE UNCHANGED vars
  BY <1>15 DEF vars
<1> QED
  BY <1>1, <1>2, <1>3, <1>4, <1>5, <1>6, <1>7, <1>8, <1>9, <1>10, <1>11,
     <1>12, <1>13, <1>14, <1>15
  DEF Next, Begins, Steps

\* Polling stops for a command and resumes after it.
LEMMA PollingDueNext ==
  TypeOK /\ LockHeld /\ PollingDue /\ [Next]_vars => PollingDue'
<1> SUFFICES ASSUME TypeOK, LockHeld, PollingDue, [Next]_vars
             PROVE PollingDue'
  OBVIOUS
<1> USE DEF TypeOK, LockHeld, CallsFit, PollingDue, client, brew, request, Connected
<1>1. ASSUME NEW t \in Tasks, BrewTemp(t) PROVE PollingDue'
  BY <1>1 DEF BrewTemp, Enter, CallAt, Request!Begin, Request!NoCall
<1>2. ASSUME NEW t \in Tasks, BrewSaved(t) PROVE PollingDue'
  BY <1>2 DEF BrewSaved, Enter, CallAt, Request!Begin, Request!NoCall
<1>3. ASSUME NEW t \in Tasks, WriteAlpha(t) PROVE PollingDue'
  BY <1>3 DEF WriteAlpha, Enter, CallAt, Request!Begin, Request!NoCall
<1>4. ASSUME NEW t \in Tasks, Written(t) PROVE PollingDue'
  BY <1>4 DEF Written, Request!End, Request!NoCall
<1>5. ASSUME NEW t \in Tasks, WriteNext(t) PROVE PollingDue'
  BY <1>5 DEF WriteNext, CallAt, Request!Begin, Request!NoCall
<1>6. ASSUME NEW t \in Tasks, StartProcess(t) PROVE PollingDue'
  BY <1>6 DEF StartProcess, CallAt, Request!Begin, Request!NoCall
<1>7. ASSUME NEW t \in Tasks, Finish(t) PROVE PollingDue'
  BY <1>7 DEF Finish, Leave, Request!End, Request!NoCall
<1>8. ASSUME NEW t \in Tasks, Cancelled(t) PROVE PollingDue'
  BY <1>8 DEF Cancelled, Leave, Request!NoCall
<1>9. ASSUME NEW t \in Tasks, CarryOut(t) PROVE PollingDue'
  BY <1>9 DEF CarryOut, Request!CarryOut, Request!NoCall
<1>10. CASE LinkMade
  BY <1>10 DEF LinkMade
<1>11. CASE ConnectReturns
  BY <1>11 DEF ConnectReturns
<1>12. CASE LinkLost
  BY <1>12 DEF LinkLost
<1>13. CASE PollExits
  BY <1>13 DEF PollExits
<1>14. CASE StatusArrives
  BY <1>14 DEF StatusArrives
<1>15. CASE UNCHANGED vars
  BY <1>15 DEF vars
<1> QED
  BY <1>1, <1>2, <1>3, <1>4, <1>5, <1>6, <1>7, <1>8, <1>9, <1>10, <1>11,
     <1>12, <1>13, <1>14, <1>15
  DEF Next, Begins, Steps

-----------------------------------------------------------------------------
(* The theorems *)

\* The inductive invariant holds in every reachable state.
THEOREM Invariance == Spec => []IInv
<1>1. IInv /\ [Next]_vars => IInv'
  BY TypeOKNext, LockHeldNext, CallsFitNext, SlotInUseNext, CarriedOutNext,
     AccountedNext, PollingDueNext DEF IInv
<1> QED
  BY InitIInv, <1>1, PTL DEF Spec

\* Every variable keeps its type, and a task waits for a call exactly where
\* the code awaits one.
THEOREM TypeCorrect == Spec => []TypeOK
<1>1. IInv => TypeOK
  BY DEF IInv
<1> QED
  BY Invariance, <1>1, PTL

\* A brew that asks the machine to start finds its own overrides in the
\* temporary recipe, or those of nobody under way: any number of callers and
\* of override fields.
THEOREM RecipeIsOwn == Spec => []OwnRecipe
<1>1. IInv => OwnRecipe
  BY DEF IInv, OwnRecipe, LockHeld, CallsFit, SlotInUse, Accounted, TypeOK
<1> QED
  BY Invariance, <1>1, PTL

\* A session nobody is brewing on is polled.
THEOREM SessionsPolled == Spec => []PollingResumes
<1>1. IInv => PollingResumes
  BY DEF IInv, PollingResumes, PollingDue
<1> QED
  BY Invariance, <1>1, PTL
=============================================================================
