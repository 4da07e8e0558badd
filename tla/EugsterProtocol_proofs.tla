----------------------- MODULE EugsterProtocol_proofs -----------------------
(***************************************************************************)
(* Proofs about EugsterProtocol: its type invariant, the inductive         *)
(* invariant IInv, and that with a machine that is timely and keeps its    *)
(* sessions apart it implements MachineCalls, over any number of           *)
(* reconnects.  The argument is that the _lock of an object lets one of    *)
(* its calls at a time have anything in flight, that only calls of the     *)
(* present object are answered (SessionsApart, InFlightIsWaitedFor), and   *)
(* that the untagged A or N that resolves a future is therefore the answer *)
(* to its frame (ResolvedByItsAnswer); the number of executions is bounded *)
(* because a frame leaves inbox when it is carried out (OncePerAttempt).   *)
(***************************************************************************)
EXTENDS EugsterProtocol, TLAPS

-----------------------------------------------------------------------------
\* The values that stand for none are none of the others.
LEMMA Distinct ==
  /\ NoTask \notin Tasks /\ NoArg \notin Args /\ NoKey \notin Keys
  /\ NoProtocol \notin Protocols /\ Retries \in Nat /\ Retries > 0
  BY ProtocolAssumption DEF ProtocolAssumption

USE Distinct

\* No command is answered both with an A and with a frame.
LEMMA Apart == Status \in Reads /\ \A op \in Writes : op \notin Reads
  BY ProtocolAssumption DEF ProtocolAssumption

\* The poll loop is a task.
LEMMA PollerTask == Poller \in Tasks /\ Nothing \in Args
  BY ProtocolAssumption DEF ProtocolAssumption

\* What a task asks for is a call.
LEMMA CallsOfTasks ==
  ASSUME NEW t \in Tasks, NEW c \in CallsOf(t)
  PROVE  /\ c \in Calls /\ c.op \in Ops /\ c.arg \in Args /\ c # NoCall
         /\ c = [op |-> c.op, arg |-> c.arg]
         /\ c.op = Status <=> t = Poller
         /\ t = Poller => c.arg = Nothing
  BY ProtocolAssumption DEF ProtocolAssumption, CallsOf, Calls, Ops, NoCall

\* The initial state is of the right type.
LEMMA TypeInit == Init => TypeOK
  BY DEF Init, TypeOK, Calls, Ops

\* A call under way is one of its task's, in an object.
LEMMA UnderWay ==
  ASSUME TypeOK, LockHeld, NEW t \in Tasks, pc[t] # "idle"
  PROVE  /\ uses[t] \in Protocols /\ call[t] \in CallsOf(t) /\ call[t] \in Calls
         /\ keyPrefix[uses[t]] \in Keys \cup {NoKey}
         /\ answer[uses[t]] \in Args \cup {NoArg}
         /\ pc[t] \in {"write", "wait"} <=> lock[uses[t]] = t
<1>1. uses[t] \in Protocols
  <2>1. uses[t] # NoProtocol
    BY DEF LockHeld
  <2>2. uses[t] \in Protocols \cup {NoProtocol}
    BY DEF TypeOK
  <2> QED
    BY <2>1, <2>2
<1>2. call[t] \in CallsOf(t)
  BY DEF LockHeld
<1>3. call[t] \in Calls
  BY <1>2, CallsOfTasks
<1>4. pc[t] \in {"write", "wait"} <=> lock[uses[t]] = t
  BY <1>1 DEF LockHeld
<1>5. /\ keyPrefix[uses[t]] \in Keys \cup {NoKey}
      /\ answer[uses[t]] \in Args \cup {NoArg}
  BY <1>1 DEF TypeOK
<1> QED
  BY <1>1, <1>2, <1>3, <1>4, <1>5

\* What the end of a call does, task by task and object by object.
Left(t, r) ==
  /\ \A u \in Tasks :
       /\ pc'[u] = IF u = t THEN "idle" ELSE pc[u]
       /\ uses'[u] = IF u = t THEN NoProtocol ELSE uses[u]
       /\ call'[u] = IF u = t THEN NoCall ELSE call[u]
       /\ attempt'[u] = IF u = t THEN 1 ELSE attempt[u]
       /\ key'[u] = IF u = t THEN NoKey ELSE key[u]
       /\ done'[u] = IF u = t THEN 0 ELSE done[u]
       /\ result'[u] = IF u = t THEN r ELSE result[u]
  /\ \A p \in Protocols :
       /\ lock'[p] = IF lock[p] = t THEN NoTask ELSE lock[p]
       /\ frames'[p] = IF lock[p] = t THEN frames[p] \ {call[t].op} ELSE frames[p]
       /\ answer'[p] = IF lock[p] = t THEN NoArg ELSE answer[p]
  /\ UNCHANGED <<protocol, keyPrefix, phase, session, inbox, outbox>>

\* A call lets go of the one object it runs in.
LEMMA EndsFacts ==
  ASSUME TypeOK, LockHeld, NEW t \in Tasks, pc[t] # "idle", NEW r, Ends(t, r)
  PROVE  Left(t, r)
<1> USE DEF Left
<1>1. /\ uses[t] \in Protocols
      /\ \A p \in Protocols : lock[p] = t => p = uses[t]
  BY UnderWay DEF LockHeld
<1>2. CASE lock[uses[t]] = t
  <2>1. /\ lock' = [lock EXCEPT ![uses[t]] = NoTask]
        /\ frames' = [frames EXCEPT ![uses[t]] = @ \ {call[t].op}]
        /\ answer' = [answer EXCEPT ![uses[t]] = NoArg]
    BY <1>2 DEF Ends
  <2> QED
    BY <1>1, <1>2, <2>1 DEF TypeOK, Ends, Gone
<1>3. CASE lock[uses[t]] # t
  <2>1. UNCHANGED <<lock, frames, answer>>
    BY <1>3 DEF Ends
  <2> QED
    BY <1>1, <1>3, <2>1 DEF TypeOK, Ends, Gone
<1> QED
  BY <1>2, <1>3

\* The type of what a call that ends leaves behind.
LEMMA EndsType ==
  ASSUME TypeOK, LockHeld, NEW t \in Tasks, pc[t] # "idle",
         NEW r \in [is : {"none", "true", "value", "false", "raised", "cancelled"},
                    arg : Args \cup {NoArg}],
         Ends(t, r), ack' \in [Protocols -> {"none", "pending", "A", "N"}]
  PROVE  TypeOK'
<1>1. /\ pc' \in [Tasks -> {"idle", "queue", "write", "wait", "pause"}]
      /\ call' \in [Tasks -> Calls \cup {NoCall}]
      /\ attempt' \in [Tasks -> 1..Retries]
      /\ key' \in [Tasks -> Keys \cup {NoKey}]
      /\ uses' \in [Tasks -> Protocols \cup {NoProtocol}]
      /\ done' \in [Tasks -> Nat]
  BY DEF TypeOK, Ends, Gone
<1>2. result' \in [Tasks ->
           [is : {"none", "true", "value", "false", "raised", "cancelled"},
            arg : Args \cup {NoArg}]]
  BY DEF TypeOK, Ends
<1>3. \A u \in Tasks : pc'[u] = "pause" => attempt'[u] < Retries
  <2>1. Left(t, r)
    BY EndsFacts
  <2> QED
    BY <2>1 DEF Left, TypeOK
<1>4. CASE lock[uses[t]] = t
  <2>1. lock' = [lock EXCEPT ![uses[t]] = NoTask]
    BY <1>4 DEF Ends
  <2>2. frames' = [frames EXCEPT ![uses[t]] = @ \ {call[t].op}]
    BY <1>4 DEF Ends
  <2>3. answer' = [answer EXCEPT ![uses[t]] = NoArg]
    BY <1>4 DEF Ends
  <2>4. lock' \in [Protocols -> Tasks \cup {NoTask}]
    BY <2>1 DEF TypeOK
  <2>5. frames' \in [Protocols -> SUBSET Reads]
    BY <2>2 DEF TypeOK
  <2>6. answer' \in [Protocols -> Args \cup {NoArg}]
    BY <2>3 DEF TypeOK
  <2> QED
    BY <1>1, <1>2, <1>3, <2>4, <2>5, <2>6 DEF TypeOK, Ends
<1>5. CASE lock[uses[t]] # t
  <2>1. UNCHANGED <<lock, frames, answer>>
    BY <1>5 DEF Ends
  <2> QED
    BY <1>1, <1>2, <1>3, <2>1 DEF TypeOK, Ends
<1> QED
  BY <1>4, <1>5

\* The link and the attempts to connect keep the types.
LEMMA LinkType == ASSUME TypeOK, LinkStep PROVE TypeOK'
<1> USE DEF TypeOK, callers, futures, objects, machine
<1>1. CASE LinkLost
  BY <1>1 DEF LinkLost
<1>2. CASE Attempt
  <2>1. protocol' \in Protocols
    BY <1>2 DEF Attempt, Unused
  <2>2. lock' \in [Protocols -> Tasks \cup {NoTask}]
    BY <1>2 DEF Attempt
  <2>3. ack' \in [Protocols -> {"none", "pending", "A", "N"}]
    BY <1>2 DEF Attempt
  <2>4. frames' \in [Protocols -> SUBSET Reads]
    BY <1>2 DEF Attempt
  <2>5. answer' \in [Protocols -> Args \cup {NoArg}]
    BY <1>2 DEF Attempt
  <2>6. keyPrefix' \in [Protocols -> Keys \cup {NoKey}]
    BY <1>2 DEF Attempt
  <2> QED
    BY <1>2, <2>1, <2>2, <2>3, <2>4, <2>5, <2>6 DEF Attempt
<1>3. CASE HandshakeDone
  BY <1>3 DEF HandshakeDone
<1> QED
  BY <1>1, <1>2, <1>3 DEF LinkStep

\* Every step keeps the types.
LEMMA TypeNext == TypeOK /\ LockHeld /\ [Next]_vars => TypeOK'
<1> SUFFICES ASSUME TypeOK, LockHeld, [Next]_vars PROVE TypeOK'
  OBVIOUS
<1> USE DEF callers, futures, objects, machine
<1>1. ASSUME NEW t \in Tasks, Call(t) PROVE TypeOK'
  <2>1. CallsOf(t) \subseteq Calls
    BY CallsOfTasks
  <2> QED
    BY <1>1, <2>1 DEF TypeOK, Call
<1>2. ASSUME NEW t \in Tasks, Acquire(t) PROVE TypeOK'
  <2>1. /\ lock' \in [Protocols -> Tasks \cup {NoTask}]
        /\ pc' \in [Tasks -> {"idle", "queue", "write", "wait", "pause"}]
        /\ answer' \in [Protocols -> Args \cup {NoArg}]
        /\ \A u \in Tasks : pc'[u] = "pause" => attempt'[u] < Retries
    BY <1>2 DEF TypeOK, Acquire
  <2>2. keyPrefix[uses[t]] \in Keys \cup {NoKey} /\ call[t] \in Calls
    BY <1>2, UnderWay DEF Acquire
  <2>3. /\ ack' \in [Protocols -> {"none", "pending", "A", "N"}]
        /\ key' \in [Tasks -> Keys \cup {NoKey}]
    BY <1>2, <2>2 DEF TypeOK, Acquire
  <2>4. frames' \in [Protocols -> SUBSET Reads]
    BY <1>2, <2>2 DEF TypeOK, Acquire, Calls, Ops
  <2> QED
    BY <1>2, <2>1, <2>3, <2>4 DEF TypeOK, Acquire
<1>3. ASSUME NEW t \in Tasks, Written(t) PROVE TypeOK'
  <2>1. call[t] \in Calls
    BY <1>3, UnderWay DEF Written
  <2>2. FrameOf(t) \in Frame
    BY <2>1 DEF TypeOK, FrameOf, Frame, Calls
  <2> QED
    BY <1>3, <2>2 DEF TypeOK, Written
<1>4. ASSUME NEW t \in Tasks, WriteRaises(t) PROVE TypeOK'
  <2>1. ack' \in [Protocols -> {"none", "pending", "A", "N"}]
    BY <1>4 DEF TypeOK, WriteRaises
  <2> QED
    BY <1>4, <2>1, EndsType DEF WriteRaises
<1>5. ASSUME NEW t \in Tasks, Resume(t) PROVE TypeOK'
  <2>1. answer[uses[t]] \in Args \cup {NoArg}
    BY <1>5, UnderWay DEF Resume
  <2>2. CASE /\ ack' = [ack EXCEPT ![uses[t]] = "none"]
             /\ Ends(t, [is |-> IF ack[uses[t]] = "A" THEN "true" ELSE "false",
                         arg |-> NoArg])
    <3>1. ack' \in [Protocols -> {"none", "pending", "A", "N"}] /\ pc[t] # "idle"
      BY <1>5, <2>2 DEF TypeOK, Resume
    <3> QED
      BY <2>2, <3>1, EndsType
  <2>3. CASE ack' = ack /\ Ends(t, [is |-> "value", arg |-> answer[uses[t]]])
    <3>1. ack' \in [Protocols -> {"none", "pending", "A", "N"}] /\ pc[t] # "idle"
      BY <1>5, <2>3 DEF TypeOK, Resume
    <3> QED
      BY <2>1, <2>3, <3>1, EndsType
  <2> QED
    BY <1>5, <2>2, <2>3 DEF Resume
<1>6. ASSUME NEW t \in Tasks, Timeout(t) PROVE TypeOK'
  <2>1. ack' \in [Protocols -> {"none", "pending", "A", "N"}]
    BY <1>6 DEF Timeout, TypeOK
  <2>2. CASE Ends(t, [is |-> "false", arg |-> NoArg])
    BY <1>6, <2>1, <2>2, EndsType DEF Timeout
  <2>3. CASE /\ lock' = [lock EXCEPT ![uses[t]] = NoTask]
             /\ pc' = [pc EXCEPT ![t] = "pause"] /\ attempt[t] < Retries
             /\ UNCHANGED <<call, attempt, key, result, uses, protocol, frames, answer,
                            keyPrefix, phase, machine>>
    BY <2>1, <2>3 DEF TypeOK
  <2> QED
    BY <1>6, <2>2, <2>3 DEF Timeout
<1>7. ASSUME NEW t \in Tasks, PauseEnds(t) PROVE TypeOK'
  BY <1>7 DEF TypeOK, PauseEnds
<1>8. ASSUME PollCancelled PROVE TypeOK'
  <2>1. ack' \in [Protocols -> {"none", "pending", "A", "N"}]
    BY <1>8 DEF TypeOK, PollCancelled
  <2> QED
    BY <1>8, <2>1, EndsType, PollerTask DEF PollCancelled
<1>9. ASSUME NEW r \in outbox, Dispatch(r) PROVE TypeOK'
  <2>1. r \in Reply
    BY DEF TypeOK
  <2>2. ack' \in [Protocols -> {"none", "pending", "A", "N"}]
    BY <1>9, <2>1 DEF TypeOK, Dispatch, Reply
  <2>3. frames' \in [Protocols -> SUBSET Reads]
    BY <1>9 DEF TypeOK, Dispatch
  <2>4. r.to.arg \in Args
    BY <2>1 DEF Reply, Frame
  <2>5. answer' \in [Protocols -> Args \cup {NoArg}]
    BY <1>9, <2>4 DEF TypeOK, Dispatch
  <2> QED
    BY <1>9, <2>2, <2>3, <2>5 DEF TypeOK, Dispatch
<1>10. ASSUME NEW f \in inbox, MachineReads(f) PROVE TypeOK'
  <2>1. f \in Frame
    BY DEF TypeOK
  <2>2. [is |-> "A", to |-> f] \in Reply /\ [is |-> "N", to |-> f] \in Reply
        /\ [is |-> "data", to |-> f] \in Reply
    BY <2>1 DEF Reply
  <2>3. outbox' \subseteq Reply
    BY <1>10, <2>2 DEF MachineReads, Answers, TypeOK
  <2>4. done' \in [Tasks -> Nat]
    BY <1>10, <2>1 DEF MachineReads, TypeOK, Frame
  <2> QED
    BY <1>10, <2>3, <2>4 DEF TypeOK, MachineReads
<1>11. CASE LinkStep
  BY <1>11, LinkType
<1>12. CASE UNCHANGED vars
  BY <1>12 DEF vars, TypeOK
<1> QED
  BY <1>1, <1>2, <1>3, <1>4, <1>5, <1>6, <1>7, <1>8, <1>9, <1>10, <1>11, <1>12
  DEF Next, Step, MachineStep, Delivery

\* A call that ends gives up what it holds.
LEMMA EndsLock ==
  ASSUME TypeOK, LockHeld, NEW t \in Tasks, pc[t] # "idle", NEW r, Ends(t, r)
  PROVE  LockHeld'
<1>0. Left(t, r)
  BY EndsFacts
<1>1. ASSUME NEW p \in Protocols, NEW u \in Tasks
      PROVE  lock'[p] = u <=> uses'[u] = p /\ pc'[u] \in {"write", "wait"}
  <2>1. /\ pc'[u] = IF u = t THEN "idle" ELSE pc[u]
        /\ uses'[u] = IF u = t THEN NoProtocol ELSE uses[u]
        /\ lock'[p] = IF lock[p] = t THEN NoTask ELSE lock[p]
    BY <1>0 DEF Left
  <2>2. lock[p] = u <=> uses[u] = p /\ pc[u] \in {"write", "wait"}
    BY DEF LockHeld
  <2>3. t # NoTask /\ u # NoTask
    OBVIOUS
  <2>4. CASE u = t
    BY <2>1, <2>3, <2>4
  <2>5. CASE u # t
    BY <2>1, <2>2, <2>3, <2>5
  <2> QED
    BY <2>4, <2>5
<1>2. \A u \in Tasks :
        /\ pc'[u] = "idle" <=> uses'[u] = NoProtocol
        /\ pc'[u] = "idle" => call'[u] = NoCall
        /\ pc'[u] # "idle" => call'[u] \in CallsOf(u)
        /\ pc'[u] = "pause" => call'[u].op \in Writes
  BY <1>0 DEF Left, LockHeld
<1> QED
  BY <1>1, <1>2 DEF LockHeld, CallsOf

\* A _lock is taken when it is free and given up by its holder.
LEMMA LockNext == TypeOK /\ LockHeld /\ [Next]_vars => LockHeld'
<1> SUFFICES ASSUME TypeOK, LockHeld, [Next]_vars PROVE LockHeld'
  OBVIOUS
<1> USE DEF callers, futures, objects, machine
<1>1. ASSUME NEW t \in Tasks, Call(t) PROVE LockHeld'
  BY <1>1 DEF Call, TypeOK, LockHeld, CallsOf
<1>2. ASSUME NEW t \in Tasks, Acquire(t) PROVE LockHeld'
  BY <1>2 DEF Acquire, TypeOK, LockHeld, CallsOf
<1>3. ASSUME NEW t \in Tasks, Written(t) PROVE LockHeld'
  BY <1>3 DEF Written, TypeOK, LockHeld, CallsOf
<1>4. ASSUME NEW t \in Tasks, WriteRaises(t) PROVE LockHeld'
  BY <1>4, EndsLock DEF WriteRaises
<1>5. ASSUME NEW t \in Tasks, Resume(t) PROVE LockHeld'
  <2>1. pc[t] # "idle"
    BY <1>5 DEF Resume
  <2>2. PICK r : Ends(t, r)
    BY <1>5 DEF Resume
  <2> QED
    BY <2>1, <2>2, EndsLock
<1>6. ASSUME NEW t \in Tasks, Timeout(t) PROVE LockHeld'
  <2>1. pc[t] = "wait"
    BY <1>6 DEF Timeout
  <2>2. CASE Ends(t, [is |-> "false", arg |-> NoArg])
    BY <2>1, <2>2, EndsLock
  <2>3. CASE /\ call[t].op \in Writes
             /\ lock' = [lock EXCEPT ![uses[t]] = NoTask]
             /\ pc' = [pc EXCEPT ![t] = "pause"]
             /\ UNCHANGED <<call, uses>>
    BY <2>1, <2>3 DEF TypeOK, LockHeld, CallsOf
  <2> QED
    BY <1>6, <2>2, <2>3 DEF Timeout
<1>7. ASSUME NEW t \in Tasks, PauseEnds(t) PROVE LockHeld'
  BY <1>7 DEF PauseEnds, TypeOK, LockHeld, CallsOf
<1>8. CASE PollCancelled
  BY <1>8, EndsLock, PollerTask DEF PollCancelled
<1>9. CASE Attempt
  <2>1. \A p \in Protocols : lock'[p] = IF p \in Unused THEN NoTask ELSE lock[p]
    BY <1>9 DEF Attempt
  <2>2. \A p \in Protocols : p \in Unused => \A u \in Tasks : uses[u] # p
    BY DEF Unused
  <2>3. UNCHANGED <<pc, call, uses>>
    BY <1>9 DEF Attempt
  <2> QED
    BY <2>1, <2>2, <2>3 DEF TypeOK, LockHeld
<1>10. ASSUME \/ \E f \in inbox : MachineReads(f)
              \/ \E r \in outbox : Dispatch(r)
              \/ LinkLost \/ HandshakeDone \/ UNCHANGED vars
       PROVE  LockHeld'
  <2>1. UNCHANGED <<pc, call, uses, lock>>
    BY <1>10 DEF MachineReads, Dispatch, LinkLost, HandshakeDone, vars
  <2> QED
    BY <2>1 DEF LockHeld
<1> QED
  BY <1>1, <1>2, <1>3, <1>4, <1>5, <1>6, <1>7, <1>8, <1>9, <1>10
  DEF Next, Step, MachineStep, Delivery, LinkStep

\* The future of a read goes with the call.
LEMMA EndsFrames ==
  ASSUME TypeOK, LockHeld, FramesAttended, NEW t \in Tasks, pc[t] # "idle", NEW r,
         Ends(t, r)
  PROVE  FramesAttended'
<1> SUFFICES ASSUME NEW p \in Protocols
             PROVE  /\ frames'[p] # {} => lock'[p] # NoTask
                    /\ lock'[p] # NoTask =>
                         /\ frames'[p] \subseteq {call'[lock'[p]].op}
                         /\ call'[lock'[p]].op \in Reads =>
                              (call'[lock'[p]].op \in frames'[p] <=> answer'[p] = NoArg)
  BY DEF FramesAttended
<1>0. Left(t, r)
  BY EndsFacts
<1>1. /\ lock'[p] = IF lock[p] = t THEN NoTask ELSE lock[p]
      /\ frames'[p] = IF lock[p] = t THEN frames[p] \ {call[t].op} ELSE frames[p]
      /\ answer'[p] = IF lock[p] = t THEN NoArg ELSE answer[p]
  BY <1>0 DEF Left
<1>2. CASE lock[p] = t
  <2>1. frames[p] \subseteq {call[t].op}
    BY <1>2 DEF FramesAttended
  <2> QED
    BY <1>1, <1>2, <2>1
<1>3. CASE lock[p] # t
  <2>1. lock[p] # NoTask => call'[lock[p]] = call[lock[p]]
    BY <1>0, <1>3 DEF Left, TypeOK
  <2> QED
    BY <1>1, <1>3, <2>1 DEF FramesAttended
<1> QED
  BY <1>2, <1>3

\* The future of a read is registered under the lock and gone with it.
LEMMA FramesNext == TypeOK /\ LockHeld /\ FramesAttended /\ [Next]_vars => FramesAttended'
<1> SUFFICES ASSUME TypeOK, LockHeld, FramesAttended, [Next]_vars PROVE FramesAttended'
  OBVIOUS
<1> USE DEF callers, futures, objects, machine
<1>0. \A p \in Protocols, t \in Tasks : lock[p] = t =>
        uses[t] = p /\ pc[t] \in {"write", "wait"}
  BY DEF LockHeld
<1>1. ASSUME NEW t \in Tasks, Call(t) PROVE FramesAttended'
  <2>1. /\ UNCHANGED <<lock, frames, answer>>
        /\ \A u \in Tasks : u # t => call'[u] = call[u]
    BY <1>1 DEF Call, TypeOK
  <2>2. \A p \in Protocols : lock[p] # NoTask => lock[p] \in Tasks \ {t}
    BY <1>0, <1>1 DEF Call, TypeOK
  <2> QED
    BY <2>1, <2>2 DEF FramesAttended
<1>2. ASSUME NEW t \in Tasks, Acquire(t) PROVE FramesAttended'
  <2>1. uses[t] \in Protocols /\ lock[uses[t]] = NoTask /\ call[t].op \in Ops
    BY <1>2, UnderWay DEF Acquire, Calls
  <2>2. frames[uses[t]] = {}
    BY <2>1 DEF FramesAttended
  <2>3. /\ lock' = [lock EXCEPT ![uses[t]] = t]
        /\ answer' = [answer EXCEPT ![uses[t]] = NoArg]
    BY <1>2 DEF Acquire
  <2>7. /\ \A p \in Protocols : lock'[p] = IF p = uses[t] THEN t ELSE lock[p]
        /\ \A p \in Protocols : answer'[p] = IF p = uses[t] THEN NoArg ELSE answer[p]
    BY <2>3 DEF TypeOK
  <2>4. call' = call
    BY <1>2 DEF Acquire
  <2>5. CASE call[t].op \in Writes
    <3>1. frames' = frames /\ call[t].op \notin Reads
      BY <1>2, <2>5, Apart DEF Acquire
    <3> QED
      BY <2>1, <2>2, <2>4, <2>7, <3>1 DEF FramesAttended
  <2>6. CASE call[t].op \notin Writes
    <3>1. frames' = [frames EXCEPT ![uses[t]] = @ \cup {call[t].op}]
      BY <1>2, <2>6 DEF Acquire
    <3>2. \A p \in Protocols :
            frames'[p] = IF p = uses[t] THEN {call[t].op} ELSE frames[p]
      BY <2>1, <2>2, <3>1 DEF TypeOK
    <3> QED
      BY <2>1, <2>2, <2>4, <2>7, <3>2 DEF FramesAttended
  <2> QED
    BY <2>5, <2>6
<1>3. ASSUME UNCHANGED <<lock, frames, answer, call>> PROVE FramesAttended'
  BY <1>3 DEF FramesAttended
<1>4. ASSUME NEW t \in Tasks, WriteRaises(t) PROVE FramesAttended'
  BY <1>4, EndsFrames DEF WriteRaises
<1>5. ASSUME NEW t \in Tasks, Resume(t) PROVE FramesAttended'
  <2>1. pc[t] # "idle"
    BY <1>5 DEF Resume
  <2>2. PICK r : Ends(t, r)
    BY <1>5 DEF Resume
  <2> QED
    BY <2>1, <2>2, EndsFrames
<1>6. ASSUME NEW t \in Tasks, Timeout(t) PROVE FramesAttended'
  <2>1. pc[t] = "wait"
    BY <1>6 DEF Timeout
  <2>2. CASE Ends(t, [is |-> "false", arg |-> NoArg])
    BY <2>1, <2>2, EndsFrames
  <2>3. CASE /\ call[t].op \in Writes
             /\ lock' = [lock EXCEPT ![uses[t]] = NoTask]
             /\ UNCHANGED <<call, frames, answer>>
    <3>1. uses[t] \in Protocols /\ lock[uses[t]] = t
      BY <2>1, UnderWay
    <3>2. frames[uses[t]] \subseteq Reads /\ frames[uses[t]] \subseteq {call[t].op}
      BY <3>1 DEF TypeOK, FramesAttended
    <3>3. frames[uses[t]] = {}
      BY <2>3, <3>2, Apart
    <3>4. \A p \in Protocols : lock'[p] = IF p = uses[t] THEN NoTask ELSE lock[p]
      BY <2>3 DEF TypeOK
    <3> QED
      BY <2>3, <3>3, <3>4 DEF FramesAttended
  <2> QED
    BY <1>6, <2>2, <2>3 DEF Timeout
<1>8. CASE PollCancelled
  BY <1>8, EndsFrames, PollerTask DEF PollCancelled
<1>9. ASSUME NEW r \in outbox, Dispatch(r) PROVE FramesAttended'
  <2>1. UNCHANGED <<lock, call>>
    BY <1>9 DEF Dispatch
  <2>2. CASE r.is = "data" /\ r.to.op \in frames[protocol]
    <3>1. /\ lock[protocol] # NoTask /\ r.to.op = call[lock[protocol]].op
          /\ frames[protocol] = {r.to.op}
      BY <2>2 DEF FramesAttended, TypeOK
    <3>2. r.to.arg # NoArg
      BY DEF TypeOK, Reply, Frame
    <3>3. \A p \in Protocols :
            /\ frames'[p] = IF p = protocol THEN {} ELSE frames[p]
            /\ answer'[p] = IF p = protocol THEN r.to.arg ELSE answer[p]
      BY <1>9, <2>2, <3>1 DEF Dispatch, TypeOK
    <3> QED
      BY <2>1, <3>1, <3>2, <3>3 DEF FramesAttended
  <2>3. CASE ~(r.is = "data" /\ r.to.op \in frames[protocol])
    <3>1. UNCHANGED <<frames, answer>>
      BY <1>9, <2>3 DEF Dispatch
    <3> QED
      BY <1>3, <2>1, <3>1
  <2> QED
    BY <2>2, <2>3
<1>10. CASE Attempt
  <2>1. \A p \in Protocols :
          /\ lock'[p] = IF p \in Unused THEN NoTask ELSE lock[p]
          /\ frames'[p] = IF p \in Unused THEN {} ELSE frames[p]
          /\ answer'[p] = IF p \in Unused THEN NoArg ELSE answer[p]
    BY <1>10 DEF Attempt
  <2>2. call' = call
    BY <1>10 DEF Attempt
  <2> QED
    BY <2>1, <2>2 DEF FramesAttended
<1>11. ASSUME \/ \E t \in Tasks : Written(t) \/ PauseEnds(t)
              \/ \E f \in inbox : MachineReads(f)
              \/ LinkLost \/ HandshakeDone \/ UNCHANGED vars
       PROVE  FramesAttended'
  <2>1. UNCHANGED <<lock, frames, answer, call>>
    BY <1>11 DEF Written, PauseEnds, MachineReads, LinkLost, HandshakeDone, vars
  <2> QED
    BY <1>3, <2>1
<1> QED
  BY <1>1, <1>2, <1>4, <1>5, <1>6, <1>8, <1>9, <1>10, <1>11
  DEF Next, Step, MachineStep, Delivery, LinkStep

-----------------------------------------------------------------------------
\* The machine's answer to f, if it is known to be to a frame of the session.
LEMMA Answered ==
  ASSUME Separate, TypeOK, NEW f \in inbox, MachineReads(f)
  PROVE  /\ inbox' = inbox \ {f}
         /\ UNCHANGED <<callers, objects, phase, session>>
         /\ \/ done' = done /\ outbox' = outbox
            \/ /\ f.key = session /\ session # NoKey
               /\ \E r \in Reply :
                    /\ r.to = f
                    /\ r.is = "data" <=> f.op \in Reads
                    /\ outbox' = outbox \cup {r} \/ outbox' = outbox
                    /\ r.is # "A" => done' = done
                    /\ r.is = "A" => f.op \in Writes /\ done' =
                         [done EXCEPT ![f.task] = IF pc[f.task] = "idle" THEN @ ELSE @ + 1]
<1>1. f \in Frame /\ f.op \in Writes \cup Reads
  BY DEF TypeOK, Frame, Ops
<1>2. [is |-> "A", to |-> f] \in Reply /\ [is |-> "N", to |-> f] \in Reply
      /\ [is |-> "data", to |-> f] \in Reply
  BY <1>1 DEF Reply
<1> DEFINE Effect(r) ==
      /\ r.to = f
      /\ r.is = "data" <=> f.op \in Reads
      /\ outbox' = outbox \cup {r} \/ outbox' = outbox
      /\ r.is # "A" => done' = done
      /\ r.is = "A" => f.op \in Writes /\ done' =
           [done EXCEPT ![f.task] = IF pc[f.task] = "idle" THEN @ ELSE @ + 1]
<1>3. CASE /\ f.key = session /\ f.key # NoKey /\ f.op \in Writes
           /\ done' = [done EXCEPT ![f.task] = IF pc[f.task] = "idle" THEN @ ELSE @ + 1]
           /\ Answers([is |-> "A", to |-> f]) \/ UNCHANGED outbox
  <2>1. Effect([is |-> "A", to |-> f])
    BY <1>3, Apart DEF Answers
  <2> QED
    BY <1>2, <1>3, <2>1 DEF MachineReads
<1>4. CASE /\ f.key = session /\ f.key # NoKey /\ f.op \in Reads
           /\ Answers([is |-> "data", to |-> f]) /\ UNCHANGED done
  <2>1. Effect([is |-> "data", to |-> f])
    BY <1>4 DEF Answers
  <2> QED
    BY <1>2, <1>4, <2>1 DEF MachineReads
<1>5. CASE /\ f.key = session /\ f.key # NoKey /\ f.op \in Writes
           /\ Answers([is |-> "N", to |-> f]) /\ UNCHANGED done
  <2>1. Effect([is |-> "N", to |-> f])
    BY <1>5, Apart DEF Answers
  <2> QED
    BY <1>2, <1>5, <2>1 DEF MachineReads
<1>6. CASE UNCHANGED <<done, outbox>>
  BY <1>6 DEF MachineReads
<1> QED
  BY <1>3, <1>4, <1>5, <1>6 DEF MachineReads

\* No call that outlived its link gets the key of the present session.
LEMMA SessionsNext ==
  ASSUME Separate, TypeOK, LockHeld, SessionsApart, [Next]_vars
  PROVE  SessionsApart'
<1> USE DEF callers, futures, objects, machine
<1>1. ASSUME NEW t \in Tasks, Call(t) PROVE SessionsApart'
  <2>1. \A u \in Tasks : /\ uses'[u] = IF u = t THEN protocol ELSE uses[u]
                         /\ u # t => key'[u] = key[u]
    BY <1>1 DEF Call, TypeOK
  <2>2. UNCHANGED <<protocol, keyPrefix, phase, session, outbox>>
    BY <1>1 DEF Call
  <2> QED
    BY <2>1, <2>2 DEF SessionsApart
<1>2. ASSUME NEW t \in Tasks, Acquire(t) PROVE SessionsApart'
  <2>1. \A u \in Tasks : key'[u] \in {key[u], keyPrefix[uses[u]]}
    BY <1>2 DEF Acquire, TypeOK
  <2>2. UNCHANGED <<protocol, keyPrefix, uses, phase, session, outbox>>
    BY <1>2 DEF Acquire
  <2> QED
    BY <2>1, <2>2 DEF SessionsApart
<1>3. ASSUME NEW t \in Tasks, NEW r, pc[t] # "idle", Ends(t, r) PROVE SessionsApart'
  <2>1. Left(t, r)
    BY <1>3, EndsFacts
  <2> QED
    BY <2>1 DEF Left, SessionsApart
<1>4. ASSUME NEW t \in Tasks, WriteRaises(t) PROVE SessionsApart'
  BY <1>3, <1>4 DEF WriteRaises
<1>5. ASSUME NEW t \in Tasks, Resume(t) PROVE SessionsApart'
  <2>1. PICK r : Ends(t, r)
    BY <1>5 DEF Resume
  <2> QED
    BY <1>3, <1>5, <2>1 DEF Resume
<1>6. ASSUME NEW t \in Tasks, Timeout(t) PROVE SessionsApart'
  <2>1. CASE Ends(t, [is |-> "false", arg |-> NoArg])
    BY <1>3, <1>6, <2>1 DEF Timeout
  <2>2. CASE UNCHANGED <<protocol, keyPrefix, uses, key, phase, session, outbox>>
    BY <2>2 DEF SessionsApart
  <2> QED
    BY <1>6, <2>1, <2>2 DEF Timeout
<1>7. CASE PollCancelled
  BY <1>3, <1>7, PollerTask DEF PollCancelled
<1>8. ASSUME NEW f \in inbox, MachineReads(f) PROVE SessionsApart'
  <2>1. session = NoKey => outbox' = outbox
    BY <1>8, Answered
  <2>2. UNCHANGED <<protocol, keyPrefix, uses, key, phase, session>>
    BY <1>8 DEF MachineReads
  <2> QED
    BY <2>1, <2>2 DEF SessionsApart
<1>9. ASSUME NEW r \in outbox, Dispatch(r) PROVE SessionsApart'
  <2>1. /\ UNCHANGED <<protocol, keyPrefix, uses, key, phase, session>>
        /\ outbox' = outbox \ {r}
    BY <1>9 DEF Dispatch
  <2> QED
    BY <2>1 DEF SessionsApart
<1>10. CASE LinkLost
  BY <1>10 DEF LinkLost, SessionsApart
<1>11. CASE Attempt
  BY <1>11 DEF Attempt, SessionsApart
<1>12. CASE HandshakeDone
  <2>1. PICK k \in Keys :
          /\ \A t \in Tasks : uses[t] # NoProtocol => k # key[t] /\ k # keyPrefix[uses[t]]
          /\ session' = k /\ keyPrefix' = [keyPrefix EXCEPT ![protocol] = k]
    BY <1>12 DEF HandshakeDone
  <2>2. \A p : p # protocol /\ p \in Protocols => keyPrefix'[p] = keyPrefix[p]
    BY <2>1 DEF TypeOK
  <2>3. \A t \in Tasks : uses[t] # NoProtocol => uses[t] \in Protocols
    BY DEF TypeOK
  <2>4. phase' = "ready" /\ UNCHANGED <<uses, key, protocol>>
    BY <1>12 DEF HandshakeDone
  <2> QED
    BY <2>1, <2>2, <2>3, <2>4 DEF SessionsApart
<1>13. ASSUME (\E t \in Tasks : Written(t) \/ PauseEnds(t)) \/ UNCHANGED vars
       PROVE  SessionsApart'
  <2>1. UNCHANGED <<protocol, keyPrefix, uses, key, phase, session, outbox>>
    BY <1>13 DEF Written, PauseEnds, vars
  <2> QED
    BY <2>1 DEF SessionsApart
<1> QED
  BY <1>1, <1>2, <1>4, <1>5, <1>6, <1>7, <1>8, <1>9, <1>10, <1>11, <1>12, <1>13
  DEF Next, Step, MachineStep, Delivery, LinkStep

\* What is in flight names the call that waits for it; what is answered runs in
\* the present object.
LEMMA InFlightFacts ==
  ASSUME TypeOK, LockHeld, InFlightIsWaitedFor
  PROVE  /\ \A f \in inbox : f.op # Status =>
              /\ f.task \in Tasks \ {Poller} /\ pc[f.task] = "wait"
              /\ uses[f.task] \in Protocols /\ lock[uses[f.task]] = f.task
              /\ call[f.task].op = f.op /\ call[f.task].arg = f.arg
              /\ key[f.task] = f.key /\ f = FrameOf(f.task)
              /\ \A r \in outbox : r.to.task # f.task
         /\ \A r \in outbox : r.to.op # Status =>
              /\ r.to.task \in Tasks \ {Poller} /\ pc[r.to.task] = "wait"
              /\ uses[r.to.task] = protocol /\ lock[protocol] = r.to.task
              /\ call[r.to.task].op = r.to.op /\ call[r.to.task].arg = r.to.arg
              /\ \A q \in outbox : q.to.task = r.to.task => q = r
         /\ \A r \in outbox : r.is # "data" => r.to.op \in Writes
<1>1. \A t \in Tasks : /\ FrameOf(t).op = call[t].op /\ FrameOf(t).arg = call[t].arg
                       /\ FrameOf(t).key = key[t]
  BY DEF FrameOf
<1>2. \A t \in Tasks : pc[t] = "wait" /\ call[t].op # Status =>
        t # Poller /\ uses[t] \in Protocols /\ lock[uses[t]] = t
  <2> SUFFICES ASSUME NEW t \in Tasks, pc[t] = "wait", call[t].op # Status
               PROVE  t # Poller /\ uses[t] \in Protocols /\ lock[uses[t]] = t
    OBVIOUS
  <2>1. /\ uses[t] \in Protocols /\ call[t] \in CallsOf(t)
        /\ lock[uses[t]] = t
    BY UnderWay
  <2>2. t # Poller
    BY <2>1, CallsOfTasks
  <2> QED
    BY <2>1, <2>2
<1>3. ASSUME NEW f \in inbox, f.op # Status
      PROVE  /\ f.task \in Tasks /\ pc[f.task] = "wait" /\ f = FrameOf(f.task)
             /\ \A r \in outbox : r.to.task # f.task
  BY <1>3 DEF TypeOK, Frame, InFlightIsWaitedFor
<1>4. ASSUME NEW r \in outbox, r.to.op # Status
      PROVE  /\ r.to.task \in Tasks /\ pc[r.to.task] = "wait"
             /\ r.to = FrameOf(r.to.task) /\ uses[r.to.task] = protocol
             /\ \A q \in outbox : q.to.task = r.to.task => q = r
  BY <1>4 DEF TypeOK, Frame, Reply, InFlightIsWaitedFor
<1>5. \A r \in outbox : r.is # "data" => r.to.op \in Writes
  BY DEF TypeOK, Frame, Reply, Ops, InFlightIsWaitedFor
<1>6. ASSUME NEW f \in inbox, f.op # Status
      PROVE  /\ f.task \in Tasks \ {Poller} /\ pc[f.task] = "wait"
             /\ uses[f.task] \in Protocols /\ lock[uses[f.task]] = f.task
             /\ call[f.task].op = f.op /\ call[f.task].arg = f.arg
             /\ key[f.task] = f.key
  BY <1>1, <1>2, <1>3, <1>6
<1>7. ASSUME NEW r \in outbox, r.to.op # Status
      PROVE  /\ r.to.task \in Tasks \ {Poller} /\ lock[protocol] = r.to.task
             /\ call[r.to.task].op = r.to.op /\ call[r.to.task].arg = r.to.arg
  BY <1>1, <1>2, <1>4, <1>7
<1> QED
  BY <1>3, <1>4, <1>5, <1>6, <1>7

\* What is in flight is another task's business when t has nothing there.
LEMMA Undisturbed ==
  ASSUME TypeOK, LockHeld, InFlightIsWaitedFor, NEW t \in Tasks,
         t = Poller \/ ~InFlight(t),
         \A u \in Tasks : u # t => /\ pc'[u] = pc[u] /\ done'[u] = done[u]
                                 /\ call'[u] = call[u] /\ key'[u] = key[u]
                                 /\ attempt'[u] = attempt[u] /\ uses'[u] = uses[u],
         UNCHANGED <<inbox, outbox, protocol>>
  PROVE  InFlightIsWaitedFor'
<1>1. /\ \A f \in inbox : f.op # Status => f.task \in Tasks /\ f.task # t
      /\ \A r \in outbox : r.to.op # Status => r.to.task \in Tasks /\ r.to.task # t
  BY InFlightFacts DEF InFlight
<1>2. \A u \in Tasks : u # t => FrameOf(u)' = FrameOf(u)
  BY DEF FrameOf
<1>3. ASSUME NEW f \in inbox
      PROVE  IF f.op = Status THEN f.task = Poller /\ f.arg = Nothing
             ELSE /\ pc'[f.task] = "wait" /\ f = FrameOf(f.task)'
                  /\ \A r \in outbox : r.to.task # f.task
  <2>1. CASE f.op = Status
    BY <2>1 DEF InFlightIsWaitedFor
  <2>2. CASE f.op # Status
    <3>1. /\ pc[f.task] = "wait" /\ f = FrameOf(f.task)
          /\ \A r \in outbox : r.to.task # f.task
      BY <2>2 DEF InFlightIsWaitedFor
    <3>2. FrameOf(f.task)' = FrameOf(f.task) /\ pc'[f.task] = pc[f.task]
      BY <1>1, <1>2, <2>2
    <3> QED
      BY <2>2, <3>1, <3>2
  <2> QED
    BY <2>1, <2>2
<1>4. ASSUME NEW r \in outbox
      PROVE  /\ r.is = "data" <=> r.to.op \in Reads
             /\ r.is = "A" => done'[r.to.task] > 0
             /\ IF r.to.op = Status THEN r.to.task = Poller /\ r.to.arg = Nothing
                ELSE /\ pc'[r.to.task] = "wait" /\ r.to = FrameOf(r.to.task)'
                     /\ uses'[r.to.task] = protocol
                     /\ \A q \in outbox : q.to.task = r.to.task => q = r
  <2>1. r.is = "data" <=> r.to.op \in Reads
    BY DEF InFlightIsWaitedFor
  <2>2. CASE r.to.op = Status
    <3>1. r.to.task = Poller /\ r.to.arg = Nothing /\ r.is # "A"
      BY <2>1, <2>2, Apart DEF InFlightIsWaitedFor
    <3> QED
      BY <2>1, <2>2, <3>1
  <2>3. CASE r.to.op # Status
    <3>1. /\ pc[r.to.task] = "wait" /\ r.to = FrameOf(r.to.task)
          /\ uses[r.to.task] = protocol
          /\ r.is = "A" => done[r.to.task] > 0
          /\ \A q \in outbox : q.to.task = r.to.task => q = r
      BY <2>3 DEF InFlightIsWaitedFor
    <3>2. /\ FrameOf(r.to.task)' = FrameOf(r.to.task) /\ pc'[r.to.task] = pc[r.to.task]
          /\ uses'[r.to.task] = uses[r.to.task] /\ done'[r.to.task] = done[r.to.task]
      BY <1>1, <1>2, <2>3
    <3> QED
      BY <2>1, <2>3, <3>1, <3>2
  <2> QED
    BY <2>2, <2>3
<1> QED
  BY <1>3, <1>4 DEF InFlightIsWaitedFor

\* What a waiting read or an attempt that is over has got leaves nothing of it in
\* flight.
LEMMA NothingInFlight ==
  ASSUME TypeOK, LockHeld, InFlightIsWaitedFor, NEW t \in Tasks, pc[t] # "wait"
  PROVE  t = Poller \/ ~InFlight(t)
<1> SUFFICES ASSUME t # Poller, InFlight(t) PROVE FALSE
  OBVIOUS
<1>1. CASE \E f \in inbox : f.task = t
  <2>1. PICK f \in inbox : f.task = t
    BY <1>1
  <2>2. f.op # Status
    BY <2>1 DEF InFlightIsWaitedFor
  <2> QED
    BY <2>1, <2>2 DEF InFlightIsWaitedFor
<1>2. CASE \E r \in outbox : r.to.task = t
  <2>1. PICK r \in outbox : r.to.task = t
    BY <1>2
  <2>2. r.to.op # Status
    BY <2>1 DEF InFlightIsWaitedFor
  <2> QED
    BY <2>1, <2>2 DEF InFlightIsWaitedFor
<1> QED
  BY <1>1, <1>2 DEF InFlight

\* Only a call that waits has anything in flight that could resolve a future.
LEMMA InFlightNext ==
  ASSUME Timely, Separate, TypeOK, LockHeld, FramesAttended, SessionsApart,
         InFlightIsWaitedFor, ResolvedByItsAnswer, [Next]_vars
  PROVE  InFlightIsWaitedFor'
<1> USE DEF callers, futures, objects, machine
<1>1. ASSUME NEW t \in Tasks, Call(t) \/ Acquire(t) \/ PauseEnds(t)
      PROVE  InFlightIsWaitedFor'
  <2>1. /\ \A u \in Tasks : u # t => /\ pc'[u] = pc[u] /\ done'[u] = done[u]
                                   /\ call'[u] = call[u] /\ key'[u] = key[u]
                                   /\ attempt'[u] = attempt[u] /\ uses'[u] = uses[u]
        /\ pc[t] # "wait" /\ UNCHANGED <<inbox, outbox, protocol>>
    BY <1>1 DEF Call, Acquire, PauseEnds, TypeOK
  <2>2. t = Poller \/ ~InFlight(t)
    BY <2>1, NothingInFlight
  <2> QED
    BY <2>1, <2>2, Undisturbed
<1>2. ASSUME NEW t \in Tasks, Written(t) PROVE InFlightIsWaitedFor'
  <2>1. t = Poller \/ ~InFlight(t)
    BY <1>2, NothingInFlight DEF Written
  <2>2. /\ \A u \in Tasks : pc'[u] = IF u = t THEN "wait" ELSE pc[u]
        /\ inbox' \subseteq inbox \cup {FrameOf(t)}
        /\ UNCHANGED <<call, key, attempt, uses, protocol, outbox, done>>
    BY <1>2 DEF Written, TypeOK
  <2>3. \A u : FrameOf(u)' = FrameOf(u)
    BY <2>2 DEF FrameOf
  <2>4. /\ FrameOf(t).op = call[t].op /\ FrameOf(t).task = t
        /\ FrameOf(t).arg = call[t].arg
    BY DEF FrameOf
  <2>5. /\ call[t].op = Status <=> t = Poller
        /\ t = Poller => call[t].arg = Nothing
    <3>1. call[t] \in CallsOf(t)
      BY <1>2, UnderWay DEF Written
    <3> QED
      BY <3>1, CallsOfTasks
  <2>6. ASSUME NEW f \in inbox'
        PROVE  IF f.op = Status THEN f.task = Poller /\ f.arg = Nothing
               ELSE /\ pc'[f.task] = "wait" /\ f = FrameOf(f.task)'
                    /\ \A r \in outbox' : r.to.task # f.task
    <3>1. CASE f = FrameOf(t)
      <4>1. t # Poller => \A r \in outbox : r.to.task # t
        BY <2>1 DEF InFlight
      <4> QED
        BY <2>2, <2>3, <2>4, <2>5, <3>1, <4>1
    <3>2. CASE f # FrameOf(t)
      <4>1. f \in inbox
        BY <2>2, <3>2
      <4>2. f.op # Status => f.task \in Tasks
        BY <4>1, InFlightFacts
      <4> QED
        BY <2>2, <2>3, <4>1, <4>2 DEF InFlightIsWaitedFor
    <3> QED
      BY <3>1, <3>2
  <2>7. ASSUME NEW r \in outbox', r.to.op # Status
        PROVE  pc'[r.to.task] = "wait" /\ r.to = FrameOf(r.to.task)'
    <3>1. r.to.task \in Tasks /\ pc[r.to.task] = "wait" /\ r.to = FrameOf(r.to.task)
      BY <2>2, <2>7, InFlightFacts DEF InFlightIsWaitedFor
    <3> QED
      BY <2>2, <2>3, <3>1
  <2> QED
    BY <2>2, <2>6, <2>7 DEF InFlightIsWaitedFor
<1>3. ASSUME NEW t \in Tasks, NEW r, pc[t] # "idle", Ends(t, r),
             t = Poller \/ ~InFlight(t)
      PROVE  InFlightIsWaitedFor'
  <2>1. Left(t, r)
    BY <1>3, EndsFacts
  <2>2. /\ \A u \in Tasks : u # t => /\ pc'[u] = pc[u] /\ done'[u] = done[u]
                                   /\ call'[u] = call[u] /\ key'[u] = key[u]
                                   /\ attempt'[u] = attempt[u] /\ uses'[u] = uses[u]
        /\ UNCHANGED <<inbox, outbox, protocol>>
    BY <2>1 DEF Left
  <2> QED
    BY <1>3, <2>2, Undisturbed
<1>4. ASSUME NEW t \in Tasks, WriteRaises(t) PROVE InFlightIsWaitedFor'
  <2>1. pc[t] = "write" /\ Ends(t, [is |-> "raised", arg |-> NoArg])
    BY <1>4 DEF WriteRaises
  <2>2. t = Poller \/ ~InFlight(t)
    BY <2>1, NothingInFlight
  <2> QED
    BY <1>3, <2>1, <2>2
<1>5. ASSUME NEW t \in Tasks, Resume(t) PROVE InFlightIsWaitedFor'
  <2>1. pc[t] = "wait" /\ \E r : Ends(t, r)
    BY <1>5 DEF Resume
  <2>2. uses[t] \in Protocols /\ lock[uses[t]] = t /\ call[t] \in CallsOf(t)
    BY <2>1, UnderWay
  <2>3. \/ call[t].op \in Writes /\ ack[uses[t]] \in {"A", "N"}
        \/ call[t].op \in Reads /\ answer[uses[t]] # NoArg
    BY <1>5 DEF Resume
  <2>4. t # Poller => call[t].op # Status
    BY <2>2, CallsOfTasks
  <2>5. t = Poller \/ ~InFlight(t)
    BY <2>2, <2>3, <2>4 DEF ResolvedByItsAnswer
  <2> QED
    BY <1>3, <2>1, <2>5
<1>6. ASSUME NEW t \in Tasks, Timeout(t) PROVE InFlightIsWaitedFor'
  <2>1. pc[t] = "wait" /\ ~InFlight(t)
    BY <1>6 DEF Timeout
  <2>2. CASE Ends(t, [is |-> "false", arg |-> NoArg])
    BY <1>3, <2>1, <2>2
  <2>3. CASE /\ pc' = [pc EXCEPT ![t] = "pause"]
             /\ UNCHANGED <<call, attempt, key, uses, protocol, inbox, outbox, done>>
    <3>1. \A u \in Tasks : u # t => pc'[u] = pc[u]
      BY <2>3 DEF TypeOK
    <3> QED
      BY <2>1, <2>3, <3>1, Undisturbed
  <2> QED
    BY <1>6, <2>2, <2>3 DEF Timeout
<1>7. CASE PollCancelled
  BY <1>3, <1>7, PollerTask DEF PollCancelled
<1>8. ASSUME NEW r \in outbox, Dispatch(r) PROVE InFlightIsWaitedFor'
  <2>1. /\ outbox' = outbox \ {r}
        /\ UNCHANGED <<pc, call, attempt, key, uses, protocol, inbox, done>>
    BY <1>8 DEF Dispatch
  <2>2. \A u : FrameOf(u)' = FrameOf(u)
    BY <2>1 DEF FrameOf
  <2> QED
    BY <2>1, <2>2 DEF InFlightIsWaitedFor
<1>9. ASSUME NEW f \in inbox, MachineReads(f) PROVE InFlightIsWaitedFor'
  <2>1. f \in Frame /\ f.task \in Tasks
    BY DEF TypeOK, Frame
  <2>2. inbox' = inbox \ {f} /\ UNCHANGED <<pc, call, attempt, key, uses, protocol>>
    BY <1>9, Answered
  <2>3. \A u : FrameOf(u)' = FrameOf(u)
    BY <2>2 DEF FrameOf
  <2>4. CASE done' = done /\ outbox' = outbox
    BY <2>2, <2>3, <2>4 DEF InFlightIsWaitedFor
  <2>5. CASE /\ f.key = session /\ session # NoKey
             /\ \E r \in Reply :
                  /\ r.to = f
                  /\ r.is = "data" <=> f.op \in Reads
                  /\ outbox' = outbox \cup {r} \/ outbox' = outbox
                  /\ r.is # "A" => done' = done
                  /\ r.is = "A" => f.op \in Writes /\ done' =
                       [done EXCEPT ![f.task] = IF pc[f.task] = "idle" THEN @ ELSE @ + 1]
    <3>1. PICK r \in Reply :
            /\ r.to = f
            /\ r.is = "data" <=> f.op \in Reads
            /\ outbox' = outbox \cup {r} \/ outbox' = outbox
            /\ r.is # "A" => done' = done
            /\ r.is = "A" => f.op \in Writes /\ done' =
                 [done EXCEPT ![f.task] = IF pc[f.task] = "idle" THEN @ ELSE @ + 1]
      BY <2>5
    <3>2. f.op # Status =>
            /\ f.task # Poller /\ pc[f.task] = "wait" /\ f = FrameOf(f.task)
            /\ uses[f.task] = protocol /\ \A q \in outbox : q.to.task # f.task
      BY <2>5, InFlightFacts DEF SessionsApart
    <3>3. /\ \A u \in Tasks : done'[u] >= done[u]
          /\ r.is = "A" => f.op # Status /\ done'[f.task] > 0
      BY <2>1, <3>1, <3>2, Apart DEF TypeOK
    <3>4. ASSUME NEW g \in inbox'
          PROVE  IF g.op = Status THEN g.task = Poller /\ g.arg = Nothing
                 ELSE /\ pc'[g.task] = "wait" /\ g = FrameOf(g.task)'
                      /\ \A q \in outbox' : q.to.task # g.task
      <4>1. g \in inbox /\ g # f
        BY <2>2
      <4>2. CASE g.op = Status
        BY <4>1, <4>2 DEF InFlightIsWaitedFor
      <4>3. CASE g.op # Status
        <5>1. /\ pc[g.task] = "wait" /\ g = FrameOf(g.task) /\ g.task # Poller
              /\ \A q \in outbox : q.to.task # g.task
          BY <4>1, <4>3, InFlightFacts
        <5>2. f.task # g.task
          BY <3>2, <4>1, <5>1 DEF InFlightIsWaitedFor
        <5> QED
          BY <2>2, <2>3, <3>1, <4>3, <5>1, <5>2
      <4> QED
        BY <4>2, <4>3
    <3>5. ASSUME NEW q \in outbox'
          PROVE  /\ q.is = "data" <=> q.to.op \in Reads
                 /\ q.is = "A" => done'[q.to.task] > 0
                 /\ IF q.to.op = Status THEN q.to.task = Poller /\ q.to.arg = Nothing
                    ELSE /\ pc'[q.to.task] = "wait" /\ q.to = FrameOf(q.to.task)'
                         /\ uses'[q.to.task] = protocol'
                         /\ \A z \in outbox' : z.to.task = q.to.task => z = q
      <4>1. CASE q = r
        <5>1. f.op = Status => f.task = Poller /\ f.arg = Nothing
          BY DEF InFlightIsWaitedFor
        <5> QED
          BY <2>2, <2>3, <3>1, <3>2, <3>3, <4>1, <5>1
      <4>2. CASE q # r
        <5>1. q \in outbox
          BY <3>1, <4>2
        <5>2. q.to.task \in Tasks /\ done[q.to.task] \in Nat /\ done'[q.to.task] \in Nat
          BY <2>1, <3>1, <5>1 DEF TypeOK, Reply, Frame
        <5>3. q.is = "A" => done'[q.to.task] > 0
          BY <3>3, <5>1, <5>2 DEF InFlightIsWaitedFor
        <5>4. q.to.op # Status => /\ q.to.task # f.task
                                  /\ \A z \in outbox : z.to.task = q.to.task => z = q
          <6> SUFFICES ASSUME q.to.op # Status
                       PROVE  /\ q.to.task # f.task
                              /\ \A z \in outbox : z.to.task = q.to.task => z = q
            OBVIOUS
          <6>1. /\ q.to.task # Poller
                /\ \A z \in outbox : z.to.task = q.to.task => z = q
            BY <5>1, InFlightFacts
          <6>2. f.op = Status => f.task = Poller
            BY DEF InFlightIsWaitedFor
          <6> QED
            BY <3>2, <5>1, <6>1, <6>2
        <5> QED
          BY <2>2, <2>3, <3>1, <5>1, <5>3, <5>4 DEF InFlightIsWaitedFor
      <4> QED
        BY <4>1, <4>2
    <3> QED
      BY <3>4, <3>5 DEF InFlightIsWaitedFor
  <2> QED
    BY <1>9, <2>4, <2>5, Answered
<1>10. CASE LinkLost
  BY <1>10 DEF LinkLost, InFlightIsWaitedFor
<1>11. CASE Attempt \/ HandshakeDone
  <2>1. outbox = {}
    BY <1>11 DEF Attempt, HandshakeDone, SessionsApart
  <2>2. UNCHANGED <<pc, call, attempt, key, uses, inbox, outbox>>
    BY <1>11 DEF Attempt, HandshakeDone
  <2>3. \A u : FrameOf(u)' = FrameOf(u)
    BY <2>2 DEF FrameOf
  <2> QED
    BY <2>1, <2>2, <2>3 DEF InFlightIsWaitedFor
<1>12. CASE UNCHANGED vars
  <2>1. UNCHANGED <<pc, call, attempt, key, uses, protocol, inbox, outbox, done>>
    BY <1>12 DEF vars
  <2>2. \A u : FrameOf(u)' = FrameOf(u)
    BY <2>1 DEF FrameOf
  <2> QED
    BY <2>1, <2>2 DEF InFlightIsWaitedFor
<1> QED
  BY <1>1, <1>2, <1>4, <1>5, <1>6, <1>7, <1>8, <1>9, <1>10, <1>11, <1>12
  DEF Next, Step, MachineStep, Delivery, LinkStep

\* A future that has been resolved is one its holder waits for, whatever a task t
\* that does not hold the _lock of its object, or ends, does.
LEMMA ResolvedKept ==
  ASSUME TypeOK, LockHeld, ResolvedByItsAnswer, NEW t \in Tasks,
         \A u \in Tasks : u # t => /\ pc'[u] = pc[u] /\ done'[u] = done[u]
                                 /\ call'[u] = call[u],
         \A u \in Tasks : u # t => (InFlight(u)' => InFlight(u)),
         \A p \in Protocols :
           IF lock[p] = t \/ lock'[p] = t
           THEN /\ ack'[p] \notin {"A", "N"}
                /\ lock'[p] # NoTask => lock'[p] = t /\ answer'[p] = NoArg
           ELSE UNCHANGED <<lock[p], ack[p], answer[p]>>
  PROVE  ResolvedByItsAnswer'
<1> SUFFICES ASSUME NEW p \in Protocols
             PROVE  /\ ack'[p] \in {"A", "N"} =>
                         /\ lock'[p] # NoTask /\ pc'[lock'[p]] = "wait"
                         /\ call'[lock'[p]].op \in Writes /\ ~InFlight(lock[p])'
                         /\ ack'[p] = "A" => done'[lock'[p]] > 0
                    /\ \A u \in Tasks :
                         lock'[p] = u /\ call'[u].op \in Reads /\ answer'[p] # NoArg =>
                           /\ answer'[p] = call'[u].arg
                           /\ call'[u].op # Status => pc'[u] = "wait" /\ ~InFlight(u)'
  BY DEF ResolvedByItsAnswer
<1>1. CASE lock[p] = t \/ lock'[p] = t
  BY <1>1
<1>2. CASE lock[p] # t /\ lock'[p] # t
  <2>1. lock'[p] = lock[p] /\ ack'[p] = ack[p] /\ answer'[p] = answer[p]
    BY <1>2
  <2>2. CASE lock[p] = NoTask
    BY <2>1, <2>2 DEF ResolvedByItsAnswer
  <2>3. ASSUME NEW h \in Tasks, lock[p] = h
        PROVE  /\ ack'[p] \in {"A", "N"} =>
                    /\ pc'[h] = "wait" /\ call'[h].op \in Writes /\ ~InFlight(h)'
                    /\ ack'[p] = "A" => done'[h] > 0
               /\ call'[h].op \in Reads /\ answer'[p] # NoArg =>
                    /\ answer'[p] = call'[h].arg
                    /\ call'[h].op # Status => pc'[h] = "wait" /\ ~InFlight(h)'
    <3>1. /\ pc'[h] = pc[h] /\ done'[h] = done[h] /\ call'[h] = call[h]
          /\ InFlight(h)' => InFlight(h)
      BY <1>2, <2>3
    <3>2. /\ ack[p] \in {"A", "N"} =>
               /\ pc[h] = "wait" /\ call[h].op \in Writes /\ ~InFlight(h)
               /\ ack[p] = "A" => done[h] > 0
          /\ call[h].op \in Reads /\ answer[p] # NoArg =>
               /\ answer[p] = call[h].arg
               /\ call[h].op # Status => pc[h] = "wait" /\ ~InFlight(h)
      BY <2>3 DEF ResolvedByItsAnswer
    <3> QED
      BY <2>1, <3>1, <3>2
  <2>4. PICK h \in Tasks \cup {NoTask} : lock[p] = h
    BY DEF TypeOK
  <2>5. lock'[p] = h /\ (InFlight(lock[p])' <=> InFlight(h)')
    BY <2>1, <2>4 DEF InFlight
  <2> QED
    BY <2>2, <2>3, <2>4, <2>5
<1> QED
  BY <1>1, <1>2

\* The answer that resolves a future is the waiting call's.
LEMMA ResolvedNext ==
  ASSUME Timely, Separate, TypeOK, LockHeld, FramesAttended, SessionsApart,
         InFlightIsWaitedFor, ResolvedByItsAnswer, [Next]_vars
  PROVE  ResolvedByItsAnswer'
<1> USE DEF callers, futures, objects, machine
<1>0. \A p \in Protocols, t \in Tasks : lock[p] = t =>
        uses[t] = p /\ pc[t] \in {"write", "wait"}
  BY DEF LockHeld
<1>a. ASSUME UNCHANGED <<inbox, outbox>> PROVE \A u : InFlight(u)' <=> InFlight(u)
  BY <1>a DEF InFlight
<1>b. ASSUME UNCHANGED <<pc, call, lock, ack, answer, done>>,
             \A u \in Tasks : InFlight(u)' => InFlight(u)
      PROVE  ResolvedByItsAnswer'
  <2>1. \A p \in Protocols : lock[p] # NoTask => lock[p] \in Tasks
    BY DEF TypeOK
  <2>2. \A p \in Protocols : lock[p] # NoTask => (InFlight(lock[p])' => InFlight(lock[p]))
    BY <1>b, <2>1 DEF InFlight
  <2> QED
    BY <1>b, <2>2 DEF ResolvedByItsAnswer
<1>1. ASSUME NEW t \in Tasks, Call(t) \/ PauseEnds(t) PROVE ResolvedByItsAnswer'
  <2>1. /\ \A u \in Tasks : u # t => /\ pc'[u] = pc[u] /\ done'[u] = done[u]
                                   /\ call'[u] = call[u]
        /\ UNCHANGED <<inbox, outbox, lock, ack, answer>>
    BY <1>1 DEF Call, PauseEnds, TypeOK
  <2>2. \A p \in Protocols : lock[p] # t
    BY <1>0, <1>1 DEF Call, PauseEnds
  <2> QED
    BY <1>a, <2>1, <2>2, ResolvedKept
<1>2. ASSUME NEW t \in Tasks, Acquire(t) PROVE ResolvedByItsAnswer'
  <2>1. uses[t] \in Protocols /\ lock[uses[t]] = NoTask
    BY <1>2, UnderWay DEF Acquire
  <2>2. \A p \in Protocols : lock[p] # t
    BY <1>0, <1>2 DEF Acquire
  <2>3. /\ lock' = [lock EXCEPT ![uses[t]] = t]
        /\ answer' = [answer EXCEPT ![uses[t]] = NoArg]
        /\ ack' = ack \/ ack' = [ack EXCEPT ![uses[t]] = "pending"]
    BY <1>2 DEF Acquire
  <2>4. /\ \A p \in Protocols : lock'[p] = IF p = uses[t] THEN t ELSE lock[p]
        /\ \A p \in Protocols : answer'[p] = IF p = uses[t] THEN NoArg ELSE answer[p]
        /\ \A p \in Protocols : p # uses[t] => ack'[p] = ack[p]
        /\ ack'[uses[t]] \in {ack[uses[t]], "pending"}
    BY <2>1, <2>3 DEF TypeOK
  <2>5. ack'[uses[t]] \notin {"A", "N"}
    BY <2>1, <2>4 DEF ResolvedByItsAnswer
  <2>6. /\ \A u \in Tasks : u # t => /\ pc'[u] = pc[u] /\ done'[u] = done[u]
                                   /\ call'[u] = call[u]
        /\ UNCHANGED <<inbox, outbox>>
    BY <1>2 DEF Acquire, TypeOK
  <2>7. \A p \in Protocols :
          IF lock[p] = t \/ lock'[p] = t
          THEN /\ ack'[p] \notin {"A", "N"}
               /\ lock'[p] # NoTask => lock'[p] = t /\ answer'[p] = NoArg
          ELSE UNCHANGED <<lock[p], ack[p], answer[p]>>
    BY <2>2, <2>4, <2>5
  <2> QED
    BY <1>a, <2>6, <2>7, ResolvedKept
<1>3. ASSUME NEW t \in Tasks, Written(t) PROVE ResolvedByItsAnswer'
  <2>1. /\ \A u \in Tasks : pc'[u] = IF u = t THEN "wait" ELSE pc[u]
        /\ inbox' \subseteq inbox \cup {FrameOf(t)}
        /\ UNCHANGED <<call, lock, ack, answer, outbox, done>>
    BY <1>3 DEF Written, TypeOK
  <2>2. FrameOf(t).task = t /\ pc[t] = "write"
    BY <1>3 DEF FrameOf, Written
  <2>3. \A u \in Tasks : u # t => (InFlight(u)' => InFlight(u))
    BY <2>1, <2>2 DEF InFlight
  <2>4. ASSUME NEW p \in Protocols, ack[p] \in {"A", "N"}
        PROVE  lock[p] \in Tasks /\ lock[p] # t
    BY <2>2, <2>4 DEF ResolvedByItsAnswer, TypeOK
  <2>5. ASSUME NEW p \in Protocols, NEW u \in Tasks,
               lock[p] = u, call[u].op \in Reads, answer[p] # NoArg, call[u].op # Status
        PROVE  u # t
    BY <2>2, <2>5 DEF ResolvedByItsAnswer
  <2>6. ASSUME NEW p \in Protocols, ack'[p] \in {"A", "N"}
        PROVE  /\ lock'[p] # NoTask /\ pc'[lock'[p]] = "wait"
               /\ call'[lock'[p]].op \in Writes /\ ~InFlight(lock[p])'
               /\ ack'[p] = "A" => done'[lock'[p]] > 0
    <3>1. PICK h \in Tasks : lock[p] = h /\ h # t
      BY <2>1, <2>4, <2>6
    <3>2. /\ pc[h] = "wait" /\ call[h].op \in Writes /\ ~InFlight(h)
          /\ ack[p] = "A" => done[h] > 0
      BY <2>1, <2>6, <3>1 DEF ResolvedByItsAnswer
    <3>3. InFlight(lock[p])' <=> InFlight(h)'
      BY <2>1, <3>1 DEF InFlight
    <3> QED
      BY <2>1, <2>3, <3>1, <3>2, <3>3
  <2>7. ASSUME NEW p \in Protocols, NEW u \in Tasks,
               lock'[p] = u, call'[u].op \in Reads, answer'[p] # NoArg
        PROVE  /\ answer'[p] = call'[u].arg
               /\ call'[u].op # Status => pc'[u] = "wait" /\ ~InFlight(u)'
    BY <2>1, <2>3, <2>5, <2>7 DEF ResolvedByItsAnswer
  <2> QED
    BY <2>6, <2>7 DEF ResolvedByItsAnswer
<1>4. ASSUME NEW t \in Tasks, NEW r, pc[t] # "idle", Ends(t, r),
             \A p \in Protocols : p # uses[t] => ack'[p] = ack[p],
             lock[uses[t]] = t => ack'[uses[t]] \notin {"A", "N"},
             lock[uses[t]] # t => ack'[uses[t]] = ack[uses[t]]
      PROVE  ResolvedByItsAnswer'
  <2>1. Left(t, r)
    BY <1>4, EndsFacts
  <2>2. /\ \A u \in Tasks : u # t => /\ pc'[u] = pc[u] /\ done'[u] = done[u]
                                   /\ call'[u] = call[u]
        /\ UNCHANGED <<inbox, outbox>>
    BY <2>1 DEF Left
  <2>3. \A p \in Protocols :
          IF lock[p] = t \/ lock'[p] = t
          THEN /\ ack'[p] \notin {"A", "N"}
               /\ lock'[p] # NoTask => lock'[p] = t /\ answer'[p] = NoArg
          ELSE UNCHANGED <<lock[p], ack[p], answer[p]>>
    <3> SUFFICES ASSUME NEW p \in Protocols
                 PROVE  IF lock[p] = t \/ lock'[p] = t
                        THEN /\ ack'[p] \notin {"A", "N"}
                             /\ lock'[p] # NoTask => lock'[p] = t /\ answer'[p] = NoArg
                        ELSE UNCHANGED <<lock[p], ack[p], answer[p]>>
      OBVIOUS
    <3>1. /\ lock'[p] = IF lock[p] = t THEN NoTask ELSE lock[p]
          /\ answer'[p] = IF lock[p] = t THEN NoArg ELSE answer[p]
      BY <2>1 DEF Left
    <3>2. CASE lock[p] = t
      <4>1. p = uses[t]
        BY <1>0, <3>2
      <4> QED
        BY <1>4, <3>1, <3>2, <4>1
    <3>3. CASE lock[p] # t
      <4>1. lock'[p] = lock[p] /\ answer'[p] = answer[p]
        BY <3>1, <3>3
      <4>2. ack'[p] = ack[p]
        BY <1>4, <3>3
      <4> QED
        BY <3>3, <4>1, <4>2
    <3> QED
      BY <3>2, <3>3
  <2> QED
    BY <1>a, <2>2, <2>3, ResolvedKept
<1>5. ASSUME NEW t \in Tasks, WriteRaises(t) PROVE ResolvedByItsAnswer'
  <2>1. /\ pc[t] = "write" /\ Ends(t, [is |-> "raised", arg |-> NoArg]) /\ ack' = ack
        /\ uses[t] \in Protocols
    BY <1>5, UnderWay DEF WriteRaises
  <2>2. lock[uses[t]] = t => ack'[uses[t]] \notin {"A", "N"}
    BY <2>1 DEF ResolvedByItsAnswer
  <2> QED
    BY <1>4, <2>1, <2>2
<1>6. ASSUME NEW t \in Tasks, Resume(t) PROVE ResolvedByItsAnswer'
  <2>1. /\ pc[t] = "wait" /\ uses[t] \in Protocols /\ lock[uses[t]] = t
        /\ \E r : Ends(t, r)
    BY <1>6, UnderWay DEF Resume
  <2>2. \/ ack' = [ack EXCEPT ![uses[t]] = "none"]
        \/ ack' = ack /\ call[t].op \in Reads
    BY <1>6 DEF Resume
  <2>3. ack'[uses[t]] \notin {"A", "N"}
    BY <2>1, <2>2, Apart DEF TypeOK, ResolvedByItsAnswer
  <2>4. \A p \in Protocols : p # uses[t] => ack'[p] = ack[p]
    BY <2>2 DEF TypeOK
  <2> QED
    BY <1>4, <2>1, <2>3, <2>4
<1>7. ASSUME NEW t \in Tasks, Timeout(t) PROVE ResolvedByItsAnswer'
  <2>1. pc[t] = "wait" /\ uses[t] \in Protocols /\ lock[uses[t]] = t
    BY <1>7, UnderWay DEF Timeout
  <2>2. \/ ack' = [ack EXCEPT ![uses[t]] = "none"]
        \/ ack' = ack /\ call[t].op \in Reads
    BY <1>7 DEF Timeout
  <2>3. ack'[uses[t]] \notin {"A", "N"}
    BY <2>1, <2>2, Apart DEF TypeOK, ResolvedByItsAnswer
  <2>4. \A p \in Protocols : p # uses[t] => ack'[p] = ack[p]
    BY <2>2 DEF TypeOK
  <2>5. CASE Ends(t, [is |-> "false", arg |-> NoArg])
    BY <1>4, <2>1, <2>3, <2>4, <2>5
  <2>6. CASE /\ lock' = [lock EXCEPT ![uses[t]] = NoTask]
             /\ pc' = [pc EXCEPT ![t] = "pause"]
             /\ UNCHANGED <<call, answer, inbox, outbox, done>>
    <3>1. /\ \A p \in Protocols : lock'[p] = IF p = uses[t] THEN NoTask ELSE lock[p]
          /\ \A u \in Tasks : u # t => pc'[u] = pc[u]
      BY <2>6 DEF TypeOK
    <3>2. \A p \in Protocols :
            IF lock[p] = t \/ lock'[p] = t
            THEN /\ ack'[p] \notin {"A", "N"}
                 /\ lock'[p] # NoTask => lock'[p] = t /\ answer'[p] = NoArg
            ELSE UNCHANGED <<lock[p], ack[p], answer[p]>>
      BY <1>0, <2>1, <2>3, <2>4, <2>6, <3>1
    <3> QED
      BY <1>a, <2>6, <3>1, <3>2, ResolvedKept
  <2> QED
    BY <1>7, <2>5, <2>6 DEF Timeout
<1>8. CASE PollCancelled
  <2>1. /\ pc[Poller] # "idle" /\ Ends(Poller, [is |-> "cancelled", arg |-> NoArg])
        /\ ack' = ack /\ Poller \in Tasks
    BY <1>8, PollerTask DEF PollCancelled
  <2>2. uses[Poller] \in Protocols /\ call[Poller].op \in Reads
    BY <2>1, UnderWay, CallsOfTasks, Apart
  <2>3. lock[uses[Poller]] = Poller => ack'[uses[Poller]] \notin {"A", "N"}
    BY <2>1, <2>2, Apart DEF ResolvedByItsAnswer
  <2> QED
    BY <1>4, <2>1, <2>2, <2>3
<1>9. ASSUME NEW r \in outbox, Dispatch(r) PROVE ResolvedByItsAnswer'
  <2>1. /\ outbox' = outbox \ {r}
        /\ UNCHANGED <<pc, call, lock, inbox, done>>
    BY <1>9 DEF Dispatch
  <2>2. \A u \in Tasks : InFlight(u)' => InFlight(u)
    BY <2>1 DEF InFlight
  <2>3. r \in Reply /\ protocol \in Protocols /\ lock[protocol] \in Tasks \cup {NoTask}
    BY DEF TypeOK
  <2>4. r.to.op # Status =>
          /\ lock[protocol] = r.to.task /\ r.to.task \in Tasks
          /\ pc[r.to.task] = "wait" /\ call[r.to.task].op = r.to.op
          /\ call[r.to.task].arg = r.to.arg /\ ~InFlight(r.to.task)'
    <3> SUFFICES ASSUME r.to.op # Status
                 PROVE  /\ lock[protocol] = r.to.task /\ r.to.task \in Tasks
                        /\ pc[r.to.task] = "wait" /\ call[r.to.task].op = r.to.op
                        /\ call[r.to.task].arg = r.to.arg /\ ~InFlight(r.to.task)'
      OBVIOUS
    <3>1. /\ lock[protocol] = r.to.task /\ r.to.task \in Tasks \ {Poller}
          /\ pc[r.to.task] = "wait" /\ call[r.to.task].op = r.to.op
          /\ call[r.to.task].arg = r.to.arg
          /\ \A q \in outbox : q.to.task = r.to.task => q = r
      BY InFlightFacts
    <3>2. ASSUME NEW f \in inbox, f.task = r.to.task PROVE FALSE
      <4>1. f.op # Status
        BY <3>1, <3>2 DEF InFlightIsWaitedFor
      <4> QED
        BY <3>2, <4>1, InFlightFacts
    <3> QED
      BY <2>1, <3>1, <3>2 DEF InFlight
  <2>5. ASSUME NEW p \in Protocols, p # protocol
        PROVE  /\ ack'[p] = ack[p] /\ answer'[p] = answer[p]
    BY <1>9, <2>5 DEF Dispatch, TypeOK
  <2>6. CASE r.is = "data" /\ r.to.op \in frames[protocol]
    <3>1. ack' = ack /\ answer'[protocol] = r.to.arg
      BY <1>9, <2>3, <2>6 DEF Dispatch, TypeOK
    <3>2. /\ lock[protocol] \in Tasks /\ call[lock[protocol]].op = r.to.op
          /\ r.to.op \in Reads
      BY <2>3, <2>6 DEF FramesAttended, TypeOK
    <3>3. ack[protocol] \notin {"A", "N"}
      BY <2>3, <3>2, Apart DEF ResolvedByItsAnswer
    <3>4. r.to.arg = call[lock[protocol]].arg
      <4>1. CASE r.to.op = Status
        <5>1. r.to.arg = Nothing
          BY <4>1 DEF InFlightIsWaitedFor
        <5>2. pc[lock[protocol]] # "idle"
          BY <1>0, <2>3, <3>2
        <5>3. call[lock[protocol]] \in CallsOf(lock[protocol])
          BY <3>2, <5>2, UnderWay
        <5> QED
          BY <3>2, <4>1, <5>1, <5>3, CallsOfTasks
      <4>2. CASE r.to.op # Status
        BY <2>4, <4>2
      <4> QED
        BY <4>1, <4>2
    <3>5. ASSUME NEW p \in Protocols, ack'[p] \in {"A", "N"}
          PROVE  /\ lock'[p] # NoTask /\ pc'[lock'[p]] = "wait"
                 /\ call'[lock'[p]].op \in Writes /\ ~InFlight(lock[p])'
                 /\ ack'[p] = "A" => done'[lock'[p]] > 0
      <4>1. PICK h \in Tasks : lock[p] = h
        BY <3>1, <3>5 DEF ResolvedByItsAnswer, TypeOK
      <4>2. /\ pc[h] = "wait" /\ call[h].op \in Writes /\ ~InFlight(h)
            /\ ack[p] = "A" => done[h] > 0
        BY <3>1, <3>5, <4>1 DEF ResolvedByItsAnswer
      <4>3. InFlight(lock[p])' <=> InFlight(h)'
        BY <2>1, <4>1 DEF InFlight
      <4> QED
        BY <2>1, <2>2, <3>1, <4>1, <4>2, <4>3
    <3>6. ASSUME NEW p \in Protocols, NEW u \in Tasks,
                 lock'[p] = u, call'[u].op \in Reads, answer'[p] # NoArg
          PROVE  /\ answer'[p] = call'[u].arg
                 /\ call'[u].op # Status => pc'[u] = "wait" /\ ~InFlight(u)'
      <4>1. CASE p = protocol
        BY <2>1, <2>4, <3>1, <3>2, <3>4, <3>6, <4>1
      <4>2. CASE p # protocol
        BY <2>1, <2>2, <2>5, <3>6, <4>2 DEF ResolvedByItsAnswer
      <4> QED
        BY <4>1, <4>2
    <3> QED
      BY <3>5, <3>6 DEF ResolvedByItsAnswer
  <2>7. CASE r.is = "data" /\ r.to.op \notin frames[protocol]
    <3>1. UNCHANGED <<ack, answer>>
      BY <1>9, <2>7 DEF Dispatch
    <3> QED
      BY <1>b, <2>1, <2>2, <3>1
  <2>8. CASE r.is # "data"
    <3>1. /\ answer' = answer
          /\ ack'[protocol] = IF ack[protocol] = "pending" THEN r.is ELSE ack[protocol]
      BY <1>9, <2>3, <2>8 DEF Dispatch, TypeOK
    <3>2. r.to.op \in Writes /\ r.to.op # Status
      BY <2>8, InFlightFacts, Apart
    <3>3. r.is = "A" => done[r.to.task] > 0
      BY DEF InFlightIsWaitedFor
    <3>5. ASSUME NEW p \in Protocols, ack'[p] \in {"A", "N"}
          PROVE  /\ lock'[p] # NoTask /\ pc'[lock'[p]] = "wait"
                 /\ call'[lock'[p]].op \in Writes /\ ~InFlight(lock[p])'
                 /\ ack'[p] = "A" => done'[lock'[p]] > 0
      <4>1. CASE ack[p] \in {"A", "N"}
        <5>0. ack'[p] = ack[p]
          BY <2>5, <3>1, <4>1
        <5>1. PICK h \in Tasks : lock[p] = h
          BY <4>1 DEF ResolvedByItsAnswer, TypeOK
        <5>2. /\ pc[h] = "wait" /\ call[h].op \in Writes /\ ~InFlight(h)
              /\ ack[p] = "A" => done[h] > 0
          BY <4>1, <5>1 DEF ResolvedByItsAnswer
        <5>3. InFlight(lock[p])' <=> InFlight(h)'
          BY <2>1, <5>1 DEF InFlight
        <5> QED
          BY <2>1, <2>2, <5>0, <5>1, <5>2, <5>3
      <4>2. CASE ack[p] \notin {"A", "N"}
        <5>1. p = protocol /\ ack'[p] = r.is
          BY <2>5, <3>1, <3>5, <4>2
        <5>2. InFlight(lock[p])' <=> InFlight(r.to.task)'
          BY <2>1, <2>4, <3>2, <5>1 DEF InFlight
        <5> QED
          BY <2>1, <2>4, <3>2, <3>3, <5>1, <5>2
      <4> QED
        BY <4>1, <4>2
    <3>6. ASSUME NEW p \in Protocols, NEW u \in Tasks,
                 lock'[p] = u, call'[u].op \in Reads, answer'[p] # NoArg
          PROVE  /\ answer'[p] = call'[u].arg
                 /\ call'[u].op # Status => pc'[u] = "wait" /\ ~InFlight(u)'
      BY <2>1, <2>2, <3>1, <3>6 DEF ResolvedByItsAnswer
    <3> QED
      BY <3>5, <3>6 DEF ResolvedByItsAnswer
  <2> QED
    BY <2>6, <2>7, <2>8
<1>10. ASSUME NEW f \in inbox, MachineReads(f) PROVE ResolvedByItsAnswer'
  <2>1. f.task \in Tasks /\ inbox' = inbox \ {f} /\ UNCHANGED <<pc, call, lock, ack, answer>>
    BY <1>10, Answered DEF TypeOK, Frame
  <2>2. /\ \A u \in Tasks : u # f.task => done'[u] = done[u]
        /\ \A q \in outbox' : q \in outbox \/ q.to = f
    BY <1>10, Answered DEF TypeOK
  <2>3. \A u \in Tasks : InFlight(u)' => InFlight(u)
    BY <2>1, <2>2 DEF InFlight
  <2>4. InFlight(f.task)
    BY DEF InFlight
  <2>5. ASSUME NEW p \in Protocols, ack'[p] \in {"A", "N"}
        PROVE  /\ lock'[p] # NoTask /\ pc'[lock'[p]] = "wait"
               /\ call'[lock'[p]].op \in Writes /\ ~InFlight(lock[p])'
               /\ ack'[p] = "A" => done'[lock'[p]] > 0
    <3>1. PICK h \in Tasks : lock[p] = h
      BY <2>1, <2>5 DEF ResolvedByItsAnswer, TypeOK
    <3>2. /\ pc[h] = "wait" /\ call[h].op \in Writes /\ ~InFlight(h)
          /\ ack[p] = "A" => done[h] > 0
      BY <2>1, <2>5, <3>1 DEF ResolvedByItsAnswer
    <3>3. InFlight(lock[p])' <=> InFlight(h)'
      BY <2>1, <3>1 DEF InFlight
    <3> QED
      BY <2>1, <2>2, <2>3, <2>4, <3>1, <3>2, <3>3
  <2>6. ASSUME NEW p \in Protocols, NEW u \in Tasks,
               lock'[p] = u, call'[u].op \in Reads, answer'[p] # NoArg
        PROVE  /\ answer'[p] = call'[u].arg
               /\ call'[u].op # Status => pc'[u] = "wait" /\ ~InFlight(u)'
    BY <2>1, <2>3, <2>6 DEF ResolvedByItsAnswer
  <2> QED
    BY <2>5, <2>6 DEF ResolvedByItsAnswer
<1>11. CASE LinkLost
  <2>1. UNCHANGED <<pc, call, lock, ack, answer, done>> /\ \A u : ~InFlight(u)'
    BY <1>11 DEF LinkLost, InFlight
  <2> QED
    BY <1>b, <2>1
<1>12. CASE Attempt
  <2>1. \A p \in Protocols :
          IF p \in Unused THEN lock'[p] = NoTask /\ ack'[p] = "none"
          ELSE lock'[p] = lock[p] /\ ack'[p] = ack[p] /\ answer'[p] = answer[p]
    BY <1>12 DEF Attempt
  <2>2. UNCHANGED <<pc, call, done, inbox, outbox>>
    BY <1>12 DEF Attempt
  <2>3. \A p \in Protocols : p \notin Unused =>
          (InFlight(lock[p])' <=> InFlight(lock[p]))
    BY <2>1, <2>2 DEF InFlight
  <2>4. \A u : InFlight(u)' <=> InFlight(u)
    BY <1>a, <2>2
  <2> QED
    BY <2>1, <2>2, <2>3, <2>4 DEF ResolvedByItsAnswer
<1>13. CASE HandshakeDone
  <2>1. UNCHANGED <<pc, call, lock, ack, answer, done, inbox, outbox>>
    BY <1>13 DEF HandshakeDone
  <2> QED
    BY <1>a, <1>b, <2>1
<1>14. CASE UNCHANGED vars
  <2>1. UNCHANGED <<pc, call, lock, ack, answer, done, inbox, outbox>>
    BY <1>14 DEF vars
  <2> QED
    BY <1>a, <1>b, <2>1
<1> QED
  BY <1>1, <1>2, <1>3, <1>5, <1>6, <1>7, <1>8, <1>9, <1>10, <1>11, <1>12, <1>13, <1>14
  DEF Next, Step, MachineStep, Delivery, LinkStep

\* An attempt is carried out at most once.
LEMMA OnceNext ==
  ASSUME Separate, TypeOK, LockHeld, InFlightIsWaitedFor, OncePerAttempt, [Next]_vars
  PROVE  OncePerAttempt'
<1> USE DEF callers, futures, objects, machine
<1>0. \A u \in Tasks : done[u] \in Nat /\ attempt[u] \in 1..Retries /\ attempt[u] \in Nat
  BY DEF TypeOK
<1>1. ASSUME UNCHANGED <<pc, done, attempt>>, inbox' \subseteq inbox PROVE OncePerAttempt'
  BY <1>1 DEF OncePerAttempt
<1>2. ASSUME NEW t \in Tasks, inbox' = inbox, done'[t] < attempt'[t],
             pc'[t] = "idle" => done'[t] = 0, done'[t] \in Nat, attempt'[t] \in Nat,
             \A u \in Tasks : u # t => /\ pc'[u] = pc[u] /\ done'[u] = done[u]
                                     /\ attempt'[u] = attempt[u]
      PROVE  OncePerAttempt'
  BY <1>2 DEF OncePerAttempt
<1>3. ASSUME NEW t \in Tasks, Call(t) PROVE OncePerAttempt'
  <2>1. /\ pc'[t] = "queue" /\ done'[t] = 0 /\ attempt'[t] = 1 /\ inbox' = inbox
        /\ \A u \in Tasks : u # t => /\ pc'[u] = pc[u] /\ done'[u] = done[u]
                                    /\ attempt'[u] = attempt[u]
    BY <1>3 DEF Call, TypeOK
  <2> QED
    BY <1>2, <2>1
<1>4. ASSUME NEW t \in Tasks, Acquire(t) PROVE OncePerAttempt'
  <2>1. /\ pc[t] = "queue" /\ pc'[t] = "write" /\ UNCHANGED <<done, attempt, inbox>>
        /\ \A u \in Tasks : u # t => pc'[u] = pc[u]
    BY <1>4 DEF Acquire, TypeOK
  <2> QED
    BY <2>1 DEF OncePerAttempt
<1>5. ASSUME NEW t \in Tasks, Written(t) PROVE OncePerAttempt'
  <2>1. /\ pc[t] = "write" /\ pc'[t] = "wait" /\ UNCHANGED <<done, attempt>>
        /\ \A u \in Tasks : u # t => pc'[u] = pc[u]
        /\ inbox' \subseteq inbox \cup {FrameOf(t)} /\ FrameOf(t).task = t
    BY <1>5 DEF Written, TypeOK, FrameOf
  <2> QED
    BY <2>1 DEF OncePerAttempt
<1>6. ASSUME NEW t \in Tasks, NEW r, pc[t] # "idle", Ends(t, r) PROVE OncePerAttempt'
  <2>1. Left(t, r)
    BY <1>6, EndsFacts
  <2>2. /\ pc'[t] = "idle" /\ done'[t] = 0 /\ attempt'[t] = 1 /\ inbox' = inbox
        /\ \A u \in Tasks : u # t => /\ pc'[u] = pc[u] /\ done'[u] = done[u]
                                    /\ attempt'[u] = attempt[u]
    BY <2>1 DEF Left
  <2> QED
    BY <1>2, <2>2
<1>7. ASSUME NEW t \in Tasks, WriteRaises(t) PROVE OncePerAttempt'
  BY <1>6, <1>7 DEF WriteRaises
<1>8. ASSUME NEW t \in Tasks, Resume(t) PROVE OncePerAttempt'
  <2>1. pc[t] = "wait" /\ \E r : Ends(t, r)
    BY <1>8 DEF Resume
  <2> QED
    BY <1>6, <2>1
<1>9. ASSUME NEW t \in Tasks, Timeout(t) PROVE OncePerAttempt'
  <2>1. pc[t] = "wait"
    BY <1>9 DEF Timeout
  <2>2. CASE Ends(t, [is |-> "false", arg |-> NoArg])
    BY <1>6, <2>1, <2>2
  <2>3. CASE pc' = [pc EXCEPT ![t] = "pause"] /\ UNCHANGED <<attempt, inbox, done>>
    <3>1. \A u \in Tasks : pc'[u] = IF u = t THEN "pause" ELSE pc[u]
      BY <2>3 DEF TypeOK
    <3> QED
      BY <2>3, <3>1 DEF OncePerAttempt
  <2> QED
    BY <1>9, <2>2, <2>3 DEF Timeout
<1>10. ASSUME NEW t \in Tasks, PauseEnds(t) PROVE OncePerAttempt'
  <2>1. /\ pc'[t] = "queue" /\ attempt'[t] = attempt[t] + 1 /\ UNCHANGED <<inbox, done>>
        /\ \A u \in Tasks : u # t => pc'[u] = pc[u] /\ attempt'[u] = attempt[u]
    BY <1>10 DEF PauseEnds, TypeOK
  <2>2. done[t] <= attempt[t]
    BY DEF OncePerAttempt
  <2>3. done'[t] < attempt'[t]
    BY <1>0, <2>1, <2>2
  <2> QED
    BY <1>0, <1>2, <2>1, <2>3
<1>11. CASE PollCancelled
  BY <1>6, <1>11, PollerTask DEF PollCancelled
<1>12. ASSUME NEW f \in inbox, MachineReads(f) PROVE OncePerAttempt'
  <2>1. /\ f.task \in Tasks /\ inbox' = inbox \ {f} /\ UNCHANGED <<pc, call, attempt>>
    BY <1>12, Answered DEF TypeOK, Frame
  <2>2. CASE done' = done
    BY <1>1, <2>1, <2>2
  <2>3. CASE /\ f.op \in Writes
             /\ done' = [done EXCEPT ![f.task] = IF pc[f.task] = "idle" THEN @ ELSE @ + 1]
    <3>1. f.op # Status /\ pc[f.task] = "wait"
      BY <2>3, InFlightFacts, Apart
    <3>2. \A g \in inbox' : g.op # Status => g.task # f.task
      BY <2>1, <3>1, InFlightFacts
    <3>3. done[f.task] < attempt[f.task]
      BY <2>1, <3>1 DEF OncePerAttempt
    <3>4. \A u \in Tasks : done'[u] = IF u = f.task THEN done[u] + 1 ELSE done[u]
      BY <2>1, <2>3, <3>1 DEF TypeOK
    <3> QED
      BY <1>0, <2>1, <3>1, <3>2, <3>3, <3>4 DEF OncePerAttempt
  <2> QED
    BY <1>12, <2>2, <2>3, Answered
<1>13. ASSUME (\E r \in outbox : Dispatch(r)) \/ LinkStep \/ UNCHANGED vars
       PROVE  OncePerAttempt'
  <2>1. UNCHANGED <<pc, done, attempt>> /\ inbox' \subseteq inbox
    BY <1>13 DEF Dispatch, LinkStep, LinkLost, Attempt, HandshakeDone, vars
  <2> QED
    BY <1>1, <2>1
<1> QED
  BY <1>3, <1>4, <1>5, <1>7, <1>8, <1>9, <1>10, <1>11, <1>12, <1>13
  DEF Next, Step, MachineStep, Delivery

\* Together the parts are inductive.
LEMMA InductiveInit == Init => IInv
<1> SUFFICES ASSUME Init PROVE IInv
  OBVIOUS
<1>1. TypeOK
  BY TypeInit
<1>2. LockHeld
  BY DEF Init, LockHeld
<1>3. FramesAttended
  BY DEF Init, FramesAttended
<1>4. SessionsApart /\ InFlightIsWaitedFor /\ ResolvedByItsAnswer /\ OncePerAttempt
  BY DEF Init, SessionsApart, InFlightIsWaitedFor, ResolvedByItsAnswer, OncePerAttempt
<1> QED
  BY <1>1, <1>2, <1>3, <1>4 DEF IInv

\* Every step keeps it.
LEMMA InductiveNext == IInv /\ [Next]_vars => IInv'
<1> SUFFICES ASSUME IInv, [Next]_vars PROVE IInv'
  OBVIOUS
<1>1. TypeOK' /\ LockHeld' /\ FramesAttended'
  BY TypeNext, LockNext, FramesNext DEF IInv
<1>2. ASSUME Timely, Separate
      PROVE  (SessionsApart /\ InFlightIsWaitedFor /\ ResolvedByItsAnswer /\ OncePerAttempt)'
  BY <1>2, SessionsNext, InFlightNext, ResolvedNext, OnceNext DEF IInv
<1> QED
  BY <1>1, <1>2 DEF IInv

-----------------------------------------------------------------------------
\* Every variable of the request layer keeps its type, for any callers,
\* commands, protocol objects and number of attempts.
THEOREM TypeCorrect == Spec => []TypeOK
<1>1. Init => TypeOK /\ LockHeld
  BY InductiveInit DEF IInv
<1>2. TypeOK /\ LockHeld /\ [Next]_vars => (TypeOK /\ LockHeld)'
  BY TypeNext, LockNext
<1> QED
  BY <1>1, <1>2, PTL DEF Spec

\* The inductive invariant of send_and_wait_ack and send_and_wait_response, over
\* links and the protocol objects made for them.
THEOREM Invariance == Spec => []IInv
  BY InductiveInit, InductiveNext, PTL DEF Spec

\* What a call that resumes returns is the answer to it.
LEMMA OwnAnswer ==
  ASSUME Timely, Separate, IInv, NEW t \in Tasks, Resume(t)
  PROVE  \/ /\ call[t].op \in Writes /\ done[t] \in 1..attempt[t]
            /\ Ends(t, [is |-> "true", arg |-> NoArg])
         \/ Ends(t, [is |-> "false", arg |-> NoArg])
         \/ /\ call[t].op \in Reads /\ call[t].arg \in Args
            /\ Ends(t, [is |-> "value", arg |-> call[t].arg])
<1>1. TypeOK /\ LockHeld /\ ResolvedByItsAnswer /\ OncePerAttempt
  BY DEF IInv
<1>2. /\ uses[t] \in Protocols /\ lock[uses[t]] = t /\ call[t] \in CallsOf(t)
  BY <1>1, UnderWay DEF Resume
<1>3. call[t].arg \in Args
  BY <1>2, CallsOfTasks
<1>4. CASE /\ call[t].op \in Writes /\ ack[uses[t]] \in {"A", "N"}
           /\ Ends(t, [is |-> IF ack[uses[t]] = "A" THEN "true" ELSE "false",
                       arg |-> NoArg])
  <2>1. CASE ack[uses[t]] = "A"
    <3>1. done[t] > 0 /\ done[t] <= attempt[t]
      BY <1>1, <1>2, <2>1 DEF ResolvedByItsAnswer, OncePerAttempt
    <3>2. done[t] \in 1..attempt[t]
      BY <1>1, <3>1 DEF TypeOK
    <3> QED
      BY <1>4, <2>1, <3>2
  <2>2. CASE ack[uses[t]] # "A"
    BY <1>4, <2>2
  <2> QED
    BY <2>1, <2>2
<1>5. CASE /\ call[t].op \in Reads /\ answer[uses[t]] # NoArg
           /\ Ends(t, [is |-> "value", arg |-> answer[uses[t]]])
  <2>1. answer[uses[t]] = call[t].arg
    BY <1>1, <1>2, <1>5 DEF ResolvedByItsAnswer
  <2> QED
    BY <1>3, <1>5, <2>1
<1> QED
  BY <1>4, <1>5 DEF Resume

\* Only a call that begins or ends has its result changed, and no other way than
\* by resuming ends in True or a value.
LEMMA AnswersStep ==
  ASSUME Timely, Separate, IInv, [Next]_vars, NEW u \in Tasks, result'[u] # result[u]
  PROVE  /\ result'[u].is = "true" => call[u].op \in Writes /\ done[u] \in 1..attempt[u]
         /\ result'[u].is = "value" => call[u].op \in Reads /\ result'[u].arg = call[u].arg
<1> USE DEF callers, futures, objects, machine
<1>1. TypeOK /\ LockHeld
  BY DEF IInv
<1>2. ASSUME NEW t \in Tasks, NEW r, Ends(t, r) PROVE result'[u] = r /\ u = t
  BY <1>1, <1>2 DEF Ends, TypeOK
<1>3. ASSUME NEW t \in Tasks, Call(t) PROVE result'[u].is = "none"
  BY <1>1, <1>3 DEF Call, TypeOK
<1>4. ASSUME NEW t \in Tasks, WriteRaises(t) PROVE result'[u].is = "raised"
  <2>1. result'[u] = [is |-> "raised", arg |-> NoArg]
    BY <1>2, <1>4 DEF WriteRaises
  <2> QED
    BY <2>1
<1>5. ASSUME NEW t \in Tasks, Timeout(t) PROVE result'[u].is = "false"
  <2>1. CASE Ends(t, [is |-> "false", arg |-> NoArg])
    <3>1. result'[u] = [is |-> "false", arg |-> NoArg]
      BY <1>2, <2>1
    <3> QED
      BY <3>1
  <2> QED
    BY <1>5, <2>1 DEF Timeout
<1>6. ASSUME PollCancelled PROVE result'[u].is = "cancelled"
  <2>1. result'[u] = [is |-> "cancelled", arg |-> NoArg]
    BY <1>2, <1>6, PollerTask DEF PollCancelled
  <2> QED
    BY <2>1
<1>7. ASSUME NEW t \in Tasks, Resume(t)
      PROVE  /\ result'[u].is = "true" =>
                  call[u].op \in Writes /\ done[u] \in 1..attempt[u]
             /\ result'[u].is = "value" =>
                  call[u].op \in Reads /\ result'[u].arg = call[u].arg
  <2>1. CASE /\ call[t].op \in Writes /\ done[t] \in 1..attempt[t]
             /\ Ends(t, [is |-> "true", arg |-> NoArg])
    <3>1. u = t /\ result'[u] = [is |-> "true", arg |-> NoArg]
      BY <1>2, <2>1
    <3> QED
      BY <2>1, <3>1
  <2>2. CASE Ends(t, [is |-> "false", arg |-> NoArg])
    <3>1. result'[u] = [is |-> "false", arg |-> NoArg]
      BY <1>2, <2>2
    <3> QED
      BY <3>1
  <2>3. CASE /\ call[t].op \in Reads
             /\ Ends(t, [is |-> "value", arg |-> call[t].arg])
    <3>1. u = t /\ result'[u] = [is |-> "value", arg |-> call[t].arg]
      BY <1>2, <2>3
    <3> QED
      BY <2>3, <3>1
  <2> QED
    BY <1>7, <2>1, <2>2, <2>3, OwnAnswer
<1>8. ASSUME \/ \E t \in Tasks : Acquire(t) \/ Written(t) \/ PauseEnds(t)
             \/ \E f \in inbox : MachineReads(f)
             \/ \E r \in outbox : Dispatch(r)
             \/ LinkStep \/ UNCHANGED vars
      PROVE  result' = result
  BY <1>8 DEF Acquire, Written, PauseEnds, MachineReads, Dispatch, LinkStep,
              LinkLost, Attempt, HandshakeDone, vars
<1> QED
  BY <1>3, <1>4, <1>5, <1>6, <1>7, <1>8 DEF Next, Step, MachineStep, Delivery

\* With a machine that is timely and keeps its sessions apart, a call returns the
\* answer to itself, over any number of reconnects, although an A names no command.
THEOREM AnswersAreTheirs == Spec => AnswersItsCall
<1>1. IInv /\ [Next]_vars =>
        [Timely /\ Separate => \A t \in Tasks : result'[t] # result[t] =>
           /\ result'[t].is = "true" =>
                call[t].op \in Writes /\ done[t] \in 1..attempt[t]
           /\ result'[t].is = "value" =>
                call[t].op \in Reads /\ result'[t].arg = call[t].arg]_vars
  BY AnswersStep
<1> QED
  BY <1>1, Invariance, PTL DEF Spec, AnswersItsCall

-----------------------------------------------------------------------------
\* A call that ends does so as MachineCalls has it.
LEMMA EndsKept ==
  ASSUME TypeOK, LockHeld, NEW t \in Tasks, pc[t] # "idle",
         NEW o \in {"true", "value", "false", "raised", "cancelled"},
         Ends(t, [is |-> o, arg |-> IF o = "value" THEN call[t].arg ELSE NoArg]),
         o = "true" => call[t].op \in Writes /\ done[t] > 0,
         o = "value" => call[t].op \in Reads
  PROVE  Promised!Next
<1>1. call[t] # Promised!NoCall
  <2>1. call[t] \in CallsOf(t)
    BY UnderWay
  <2> QED
    BY <2>1, CallsOfTasks DEF NoCall, Promised!NoCall
<1>2. /\ call' = [call EXCEPT ![t] = Promised!NoCall]
      /\ done' = [done EXCEPT ![t] = 0]
      /\ result' = [result EXCEPT ![t] =
           [is |-> o, arg |-> IF o = "value" THEN call[t].arg ELSE NoArg]]
  BY DEF Ends, Gone, NoCall, Promised!NoCall
<1>3. Promised!End(t, o)
  BY <1>1, <1>2 DEF Promised!End
<1> QED
  BY <1>3 DEF Promised!Next, Promised!Outcomes

\* Every step of the request layer is one of MachineCalls, or none.
LEMMA StepKept ==
  ASSUME Timely, Separate, IInv, [Next]_vars
  PROVE  [Promised!Next]_<<call, done, result>>
<1> USE DEF callers, futures, objects, machine
<1>1. TypeOK /\ LockHeld /\ InFlightIsWaitedFor /\ OncePerAttempt
  BY DEF IInv
<1>2. ASSUME NEW t \in Tasks, Call(t) PROVE Promised!Next
  <2>1. PICK c \in CallsOf(t) : call' = [call EXCEPT ![t] = c]
    BY <1>2 DEF Call
  <2>2. c.op \in Writes \cup Reads /\ c.arg \in Args /\ c = [op |-> c.op, arg |-> c.arg]
    BY CallsOfTasks DEF Ops
  <2>3. /\ pc[t] = "idle" /\ done' = [done EXCEPT ![t] = 0]
        /\ result' = [result EXCEPT ![t] = Promised!NoResult]
    BY <1>2 DEF Call, Promised!NoResult
  <2>4. call[t] = Promised!NoCall /\ done[t] = 0
    BY <1>1, <2>3 DEF LockHeld, OncePerAttempt, NoCall, Promised!NoCall
  <2>5. done' = done
    BY <1>1, <2>3, <2>4 DEF TypeOK
  <2>6. Promised!Begin(t, c.op, c.arg)
    BY <2>1, <2>2, <2>3, <2>4, <2>5 DEF Promised!Begin
  <2> QED
    BY <2>2, <2>6 DEF Promised!Next
<1>3. ASSUME NEW t \in Tasks, WriteRaises(t) PROVE Promised!Next
  BY <1>1, <1>3, EndsKept DEF WriteRaises
<1>4. ASSUME NEW t \in Tasks, Resume(t) PROVE Promised!Next
  <2>1. pc[t] # "idle"
    BY <1>4 DEF Resume
  <2>2. CASE /\ call[t].op \in Writes /\ done[t] \in 1..attempt[t]
             /\ Ends(t, [is |-> "true", arg |-> NoArg])
    <3>1. done[t] > 0
      BY <1>1, <2>2 DEF TypeOK
    <3> QED
      BY <1>1, <2>1, <2>2, <3>1, EndsKept
  <2>3. CASE Ends(t, [is |-> "false", arg |-> NoArg])
    BY <1>1, <2>1, <2>3, EndsKept
  <2>4. CASE /\ call[t].op \in Reads
             /\ Ends(t, [is |-> "value", arg |-> call[t].arg])
    BY <1>1, <2>1, <2>4, EndsKept
  <2> QED
    BY <1>4, <2>2, <2>3, <2>4, OwnAnswer
<1>5. ASSUME NEW t \in Tasks, Timeout(t)
      PROVE  Promised!Next \/ UNCHANGED <<call, done, result>>
  <2>1. pc[t] # "idle"
    BY <1>5 DEF Timeout
  <2>2. CASE Ends(t, [is |-> "false", arg |-> NoArg])
    BY <1>1, <2>1, <2>2, EndsKept
  <2>3. CASE UNCHANGED <<call, done, result>>
    BY <2>3
  <2> QED
    BY <1>5, <2>2, <2>3 DEF Timeout
<1>6. ASSUME PollCancelled PROVE Promised!Next
  BY <1>1, <1>6, EndsKept, PollerTask DEF PollCancelled
<1>7. ASSUME NEW f \in inbox, MachineReads(f)
      PROVE  Promised!Next \/ UNCHANGED <<call, done, result>>
  <2>1. f.task \in Tasks /\ UNCHANGED <<pc, call, result>>
    BY <1>1, <1>7, Answered DEF TypeOK, Frame
  <2>2. CASE done' = done
    BY <2>1, <2>2
  <2>3. CASE /\ f.op \in Writes
             /\ done' = [done EXCEPT ![f.task] = IF pc[f.task] = "idle" THEN @ ELSE @ + 1]
    <3>1. /\ f.op # Status /\ pc[f.task] = "wait" /\ call[f.task].op = f.op
      BY <1>1, <2>3, InFlightFacts, Apart
    <3>2. done[f.task] < attempt[f.task] /\ attempt[f.task] \in 1..Retries
      BY <1>1, <2>1, <3>1 DEF OncePerAttempt, TypeOK
    <3>3. done[f.task] < Retries
      BY <1>1, <2>1, <3>2 DEF TypeOK
    <3>4. call[f.task] # Promised!NoCall
      <4>1. call[f.task] \in CallsOf(f.task)
        BY <1>1, <2>1, <3>1, UnderWay
      <4> QED
        BY <2>1, <4>1, CallsOfTasks DEF NoCall, Promised!NoCall
    <3>5. done' = [done EXCEPT ![f.task] = @ + 1]
      BY <2>3, <3>1
    <3>6. Promised!CarryOut(f.task)
      BY <2>1, <2>3, <3>1, <3>3, <3>4, <3>5 DEF Promised!CarryOut
    <3> QED
      BY <2>1, <3>6 DEF Promised!Next
  <2> QED
    BY <1>1, <1>7, <2>2, <2>3, Answered
<1>8. ASSUME \/ \E t \in Tasks : Acquire(t) \/ Written(t) \/ PauseEnds(t)
             \/ \E r \in outbox : Dispatch(r)
             \/ LinkStep \/ UNCHANGED vars
      PROVE  UNCHANGED <<call, done, result>>
  BY <1>8 DEF Acquire, Written, PauseEnds, Dispatch, LinkStep, LinkLost, Attempt,
              HandshakeDone, vars
<1> QED
  BY <1>2, <1>3, <1>4, <1>5, <1>6, <1>7, <1>8 DEF Next, Step, MachineStep, Delivery

\* With a machine that is timely and keeps its sessions apart the request layer
\* implements MachineCalls, over any number of reconnects.
THEOREM PromiseKept == Timely /\ Separate => (Spec => KeepsPromise)
<1> SUFFICES ASSUME Timely, Separate PROVE Spec => KeepsPromise
  OBVIOUS
<1>1. Init => Promised!Init
  BY DEF Init, NoCall, Promised!Init, Promised!NoCall, Promised!NoResult
<1>2. IInv /\ [Next]_vars => [Promised!Next]_<<call, done, result>>
  BY StepKept
<1> QED
  BY <1>1, <1>2, Invariance, PTL DEF Spec, KeepsPromise, Promised!Spec
=============================================================================
