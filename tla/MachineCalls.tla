---------------------------- MODULE MachineCalls ----------------------------
(***************************************************************************)
(* What the request layer promises its callers, with neither frames, locks *)
(* nor timers: a call that is under way may be carried out by the machine, *)
(* once per attempt, and ends with an answer to that very call or with     *)
(* none.                                                                   *)
(***************************************************************************)
EXTENDS Naturals

CONSTANTS Tasks, Writes, Reads, Args, Retries, NoArg

VARIABLES
  call,    \* each task's call, NoCall when it has none
  done,    \* how often the machine has carried it out
  result   \* what its last call returned

NoCall   == [op |-> "none", arg |-> NoArg]
NoResult == [is |-> "none", arg |-> NoArg]
Outcomes == {"true", "value", "false", "raised", "cancelled"}

Init ==
  /\ call = [t \in Tasks |-> NoCall]
  /\ done = [t \in Tasks |-> 0]
  /\ result = [t \in Tasks |-> NoResult]

Begin(t, op, arg) ==
  /\ call[t] = NoCall
  /\ op \in Writes \cup Reads /\ arg \in Args
  /\ call' = [call EXCEPT ![t] = [op |-> op, arg |-> arg]]
  /\ result' = [result EXCEPT ![t] = NoResult]
  /\ UNCHANGED done

CarryOut(t) ==
  /\ call[t] # NoCall /\ call[t].op \in Writes /\ done[t] < Retries
  /\ done' = [done EXCEPT ![t] = @ + 1]
  /\ UNCHANGED <<call, result>>

\* True needs an execution and a value is the one asked for; the other
\* outcomes promise nothing.
End(t, o) ==
  /\ call[t] # NoCall
  /\ o = "true" => call[t].op \in Writes /\ done[t] > 0
  /\ o = "value" => call[t].op \in Reads
  /\ call' = [call EXCEPT ![t] = NoCall]
  /\ done' = [done EXCEPT ![t] = 0]
  /\ result' = [result EXCEPT ![t] =
       [is |-> o, arg |-> IF o = "value" THEN call[t].arg ELSE NoArg]]

Next ==
  \E t \in Tasks :
    \/ \E op \in Writes \cup Reads, arg \in Args : Begin(t, op, arg)
    \/ CarryOut(t)
    \/ \E o \in Outcomes : End(t, o)

Spec == Init /\ [][Next]_<<call, done, result>>
=============================================================================
