--------------------------- MODULE EugsterProtocol --------------------------
(***************************************************************************)
(* The request layer of protocol.py: send_and_wait_ack and                 *)
(* send_and_wait_response on one link at a time, the dispatch of what the  *)
(* machine answers, and the session key the frames carry.                  *)
(*                                                                         *)
(* Every attempt to connect makes a new protocol object, with a lock,      *)
(* futures and a key of its own.  A call that outlives its link goes on    *)
(* with the old object, but what it writes goes out on the new link, and   *)
(* what comes back is dispatched by the new object.                        *)
(*                                                                         *)
(* A frame is written in BLE sized chunks, one await each; "write" stands  *)
(* for all of them, and a frame that is only partly written never counts.  *)
(* A value is identified with the id it was asked for by.                  *)
(***************************************************************************)
EXTENDS Naturals, FiniteSets

CONSTANTS
  Tasks,     \* callers: the poll loop, entities, services, brew commands
  Poller,    \* the poll loop; it alone is cancelled while the link stays up
  NoTask,
  Writes,    \* commands the machine answers with A or N
  Reads,     \* commands it answers with a frame of the same name
  Status,    \* HX, the read of the poll loop
  Args,      \* value ids, recipe ids, processes
  Nothing,   \* what a call carries that takes none
  Commands,  \* what all but the poll loop ask for
  NoArg,     \* None
  Keys,      \* session keys the machine may choose
  NoKey,
  Protocols, \* protocol objects; one that nobody refers to is as good as new
  NoProtocol,
  Retries,   \* attempts of send_and_wait_ack
  MaxFrames, \* bound: frames under way in either direction, more are lost
  Timely,    \* does the machine answer before frame_timeout or not at all?
  Separate   \* does it keep its sessions apart: a key that no call under way
             \* has, and no answer to a frame with another one?

ASSUME ProtocolAssumption ==
  /\ Poller \in Tasks /\ NoTask \notin Tasks
  /\ Writes \cap Reads = {} /\ Status \in Reads
  /\ Commands \subseteq [op : (Writes \cup Reads) \ {Status}, arg : Args]
  /\ Nothing \in Args /\ NoArg \notin Args
  /\ NoKey \notin Keys /\ NoProtocol \notin Protocols
  /\ Retries \in Nat \ {0} /\ MaxFrames \in Nat
  /\ Timely \in BOOLEAN /\ Separate \in BOOLEAN

VARIABLES
  pc,         \* where each call is: "queue" waits for _lock, "write" and
              \* "wait" hold it, "pause" is the sleep between two attempts
  call,       \* the call under way
  attempt,    \* its attempt
  key,        \* the key in the frame it has built
  result,     \* what the last one returned
  uses,       \* the protocol object its call runs in
  protocol,   \* _protocol, the object of the last attempt to connect
  lock,       \* of each object, the holder of _lock
  ack,        \* its _ack_future: "none", "pending", or resolved to "A" or "N"
  frames,     \* the keys of its _frame_futures
  answer,     \* what the future its holder waits for has been resolved to
  keyPrefix,  \* its _key_prefix
  phase,      \* the link: "down", "handshake", "ready"
  session,    \* the key the machine has
  inbox,      \* frames on their way to the machine
  outbox,     \* answers on their way back
  done        \* how often the machine has carried out the call under way

callers == <<pc, call, attempt, key, result, uses>>
futures == <<lock, ack, frames, answer>>
objects == <<protocol, futures, keyPrefix>>
machine == <<session, inbox, outbox, done>>
vars    == <<callers, objects, phase, machine>>

Ops   == Writes \cup Reads
Calls == [op : Ops, arg : Args]
NoCall == [op |-> "none", arg |-> NoArg]
Frame == [task : Tasks, op : Ops, arg : Args, key : Keys \cup {NoKey},
          try : 1..Retries]
Reply == [is : {"A", "N", "data"}, to : Frame]

TypeOK ==
  /\ pc \in [Tasks -> {"idle", "queue", "write", "wait", "pause"}]
  /\ call \in [Tasks -> Calls \cup {NoCall}]
  /\ attempt \in [Tasks -> 1..Retries]
  /\ \A t \in Tasks : pc[t] = "pause" => attempt[t] < Retries
  /\ key \in [Tasks -> Keys \cup {NoKey}]
  /\ result \in [Tasks ->
       [is : {"none", "true", "value", "false", "raised", "cancelled"},
        arg : Args \cup {NoArg}]]
  /\ uses \in [Tasks -> Protocols \cup {NoProtocol}]
  /\ protocol \in Protocols
  /\ lock \in [Protocols -> Tasks \cup {NoTask}]
  /\ ack \in [Protocols -> {"none", "pending", "A", "N"}]
  /\ frames \in [Protocols -> SUBSET Reads]
  /\ answer \in [Protocols -> Args \cup {NoArg}]
  /\ keyPrefix \in [Protocols -> Keys \cup {NoKey}]
  /\ phase \in {"down", "handshake", "ready"}
  /\ session \in Keys \cup {NoKey}
  /\ inbox \subseteq Frame /\ outbox \subseteq Reply
  /\ done \in [Tasks -> Nat]

\* What each task asks for.
CallsOf(t) == IF t = Poller THEN [op : {Status}, arg : {Nothing}]
              ELSE Commands

Init ==
  /\ pc = [t \in Tasks |-> "idle"]
  /\ call = [t \in Tasks |-> NoCall]
  /\ attempt = [t \in Tasks |-> 1]
  /\ key = [t \in Tasks |-> NoKey]
  /\ result = [t \in Tasks |-> [is |-> "none", arg |-> NoArg]]
  /\ uses = [t \in Tasks |-> NoProtocol]
  /\ protocol \in Protocols
  /\ lock = [p \in Protocols |-> NoTask]
  /\ ack = [p \in Protocols |-> "none"]
  /\ frames = [p \in Protocols |-> {}]
  /\ answer = [p \in Protocols |-> NoArg]
  /\ keyPrefix = [p \in Protocols |-> NoKey]
  /\ phase = "down" /\ session = NoKey /\ inbox = {} /\ outbox = {}
  /\ done = [t \in Tasks |-> 0]

-----------------------------------------------------------------------------
(* The callers *)

FrameOf(t) == [task |-> t, op |-> call[t].op, arg |-> call[t].arg,
               key |-> key[t], try |-> attempt[t]]

\* A command calls the protocol there is.  It has tested `connected`, but the
\* second write of a brew long before: a call may begin in any phase.  A write
\* builds its frame here, once for all its attempts; a read does so under the
\* lock.
Call(t) ==
  /\ pc[t] = "idle"
  /\ \E c \in CallsOf(t) : call' = [call EXCEPT ![t] = c]
  /\ pc' = [pc EXCEPT ![t] = "queue"]
  /\ attempt' = [attempt EXCEPT ![t] = 1]
  /\ uses' = [uses EXCEPT ![t] = protocol]
  /\ key' = [key EXCEPT ![t] = keyPrefix[protocol]]
  /\ result' = [result EXCEPT ![t] = [is |-> "none", arg |-> NoArg]]
  /\ done' = [done EXCEPT ![t] = 0]
  /\ UNCHANGED <<objects, phase, session, inbox, outbox>>

\* Mutant: the futures are made without waiting for _lock.
AcquireUnlocked(t) ==
  /\ pc[t] = "queue"
  /\ lock' = [lock EXCEPT ![uses[t]] = t]
  /\ pc' = [pc EXCEPT ![t] = "write"]
  /\ answer' = [answer EXCEPT ![uses[t]] = NoArg]
  /\ IF call[t].op \in Writes
     THEN ack' = [ack EXCEPT ![uses[t]] = "pending"] /\ UNCHANGED <<frames, key>>
     ELSE /\ frames' = [frames EXCEPT ![uses[t]] = @ \cup {call[t].op}]
          /\ key' = [key EXCEPT ![t] = keyPrefix[uses[t]]]
          /\ UNCHANGED ack
  /\ UNCHANGED <<call, attempt, result, uses, protocol, keyPrefix, phase, machine>>

\* The lock of its object is free: a new future takes the place of the last one.
Acquire(t) ==
  /\ pc[t] = "queue" /\ lock[uses[t]] = NoTask
  /\ lock' = [lock EXCEPT ![uses[t]] = t]
  /\ pc' = [pc EXCEPT ![t] = "write"]
  /\ answer' = [answer EXCEPT ![uses[t]] = NoArg]
  /\ IF call[t].op \in Writes
     THEN ack' = [ack EXCEPT ![uses[t]] = "pending"] /\ UNCHANGED <<frames, key>>
     ELSE /\ frames' = [frames EXCEPT ![uses[t]] = @ \cup {call[t].op}]
          /\ key' = [key EXCEPT ![t] = keyPrefix[uses[t]]]
          /\ UNCHANGED ack
  /\ UNCHANGED <<call, attempt, result, uses, protocol, keyPrefix, phase, machine>>

\* The last chunk is written, on the link there is.
Written(t) ==
  /\ pc[t] = "write" /\ phase # "down"
  /\ pc' = [pc EXCEPT ![t] = "wait"]
  /\ inbox' = IF Cardinality(inbox) < MaxFrames THEN inbox \cup {FrameOf(t)} ELSE inbox
  /\ UNCHANGED <<call, attempt, key, result, uses, objects, phase, session,
                 outbox, done>>

\* The coroutine of t is gone.
Gone(t) ==
  /\ pc' = [pc EXCEPT ![t] = "idle"]
  /\ call' = [call EXCEPT ![t] = NoCall]
  /\ attempt' = [attempt EXCEPT ![t] = 1]
  /\ key' = [key EXCEPT ![t] = NoKey]
  /\ uses' = [uses EXCEPT ![t] = NoProtocol]
  /\ done' = [done EXCEPT ![t] = 0]

\* Mutant: the future of a read stays registered.
EndsRegistered(t, r) ==
  /\ Gone(t)
  /\ result' = [result EXCEPT ![t] = r]
  /\ IF lock[uses[t]] = t
     THEN /\ lock' = [lock EXCEPT ![uses[t]] = NoTask]
          /\ answer' = [answer EXCEPT ![uses[t]] = NoArg]
     ELSE UNCHANGED <<lock, answer>>
  /\ UNCHANGED <<protocol, frames, keyPrefix, phase, session, inbox, outbox>>

\* t's call ends with r and lets go of the lock, if it has it.
Ends(t, r) ==
  /\ Gone(t)
  /\ result' = [result EXCEPT ![t] = r]
  /\ IF lock[uses[t]] = t
     THEN /\ lock' = [lock EXCEPT ![uses[t]] = NoTask]
          /\ frames' = [frames EXCEPT ![uses[t]] = @ \ {call[t].op}]
          /\ answer' = [answer EXCEPT ![uses[t]] = NoArg]
     ELSE UNCHANGED <<lock, frames, answer>>
  /\ UNCHANGED <<protocol, keyPrefix, phase, session, inbox, outbox>>

\* _write_ble raises.  The write of a command is outside the try whose finally
\* clears _ack_future.
WriteRaises(t) ==
  /\ pc[t] = "write"
  /\ Ends(t, [is |-> "raised", arg |-> NoArg])
  /\ UNCHANGED ack

\* Mutant: an N is taken for a success.
ResumeOnAny(t) ==
  /\ pc[t] = "wait"
  /\ \/ /\ call[t].op \in Writes /\ ack[uses[t]] \in {"A", "N"}
        /\ ack' = [ack EXCEPT ![uses[t]] = "none"]
        /\ Ends(t, [is |-> "true", arg |-> NoArg])
     \/ /\ call[t].op \in Reads /\ answer[uses[t]] # NoArg
        /\ Ends(t, [is |-> "value", arg |-> answer[uses[t]]])
        /\ UNCHANGED ack

\* The future is resolved and the caller resumes.
Resume(t) ==
  /\ pc[t] = "wait"
  /\ \/ /\ call[t].op \in Writes /\ ack[uses[t]] \in {"A", "N"}
        /\ ack' = [ack EXCEPT ![uses[t]] = "none"]
        /\ Ends(t, [is |-> IF ack[uses[t]] = "A" THEN "true" ELSE "false",
                    arg |-> NoArg])
     \/ /\ call[t].op \in Reads /\ answer[uses[t]] # NoArg
        /\ Ends(t, [is |-> "value", arg |-> answer[uses[t]]])
        /\ UNCHANGED ack

InFlight(t) == \/ \E f \in inbox : f.task = t
               \/ \E r \in outbox : r.to.task = t

\* Mutant: one attempt too many.
TimeoutOnceMore(t) ==
  /\ pc[t] = "wait"
  /\ Timely => ~InFlight(t)
  /\ \/ /\ call[t].op \in Writes /\ ack[uses[t]] = "pending"
        /\ attempt[t] <= Retries
        /\ ack' = [ack EXCEPT ![uses[t]] = "none"]
        /\ lock' = [lock EXCEPT ![uses[t]] = NoTask]
        /\ pc' = [pc EXCEPT ![t] = "pause"]
        /\ UNCHANGED <<call, attempt, key, result, uses, protocol, frames, answer,
                       keyPrefix, phase, machine>>
     \/ /\ call[t].op \in Reads /\ answer[uses[t]] = NoArg
        /\ Ends(t, [is |-> "false", arg |-> NoArg])
        /\ UNCHANGED ack

\* Nothing came before frame_timeout: a read is None, a write sleeps and tries
\* again, and is False when it has no attempt left.
Timeout(t) ==
  /\ pc[t] = "wait"
  /\ Timely => ~InFlight(t)
  /\ \/ /\ call[t].op \in Writes /\ ack[uses[t]] = "pending"
        /\ attempt[t] < Retries
        /\ ack' = [ack EXCEPT ![uses[t]] = "none"]
        /\ lock' = [lock EXCEPT ![uses[t]] = NoTask]
        /\ pc' = [pc EXCEPT ![t] = "pause"]
        /\ UNCHANGED <<call, attempt, key, result, uses, protocol, frames, answer,
                       keyPrefix, phase, machine>>
     \/ /\ call[t].op \in Writes /\ ack[uses[t]] = "pending"
        /\ attempt[t] = Retries
        /\ ack' = [ack EXCEPT ![uses[t]] = "none"]
        /\ Ends(t, [is |-> "false", arg |-> NoArg])
     \/ /\ call[t].op \in Reads /\ answer[uses[t]] = NoArg
        /\ Ends(t, [is |-> "false", arg |-> NoArg])
        /\ UNCHANGED ack

\* Mutant: the attempts are not counted.
PauseEndsUncounted(t) ==
  /\ pc[t] = "pause"
  /\ pc' = [pc EXCEPT ![t] = "queue"]
  /\ UNCHANGED <<call, attempt, key, result, uses, objects, phase, machine>>

PauseEnds(t) ==
  /\ pc[t] = "pause"
  /\ pc' = [pc EXCEPT ![t] = "queue"]
  /\ attempt' = [attempt EXCEPT ![t] = @ + 1]
  /\ UNCHANGED <<call, key, result, uses, objects, phase, machine>>

\* _stop_polling cancels the poll loop in the middle of its read.
PollCancelled ==
  /\ pc[Poller] # "idle"
  /\ Ends(Poller, [is |-> "cancelled", arg |-> NoArg])
  /\ UNCHANGED ack

-----------------------------------------------------------------------------
(* _dispatch_frame *)

\* The object of the last attempt dispatches.  An A or N resolves whatever
\* _ack_future it has; a data frame the future registered under its command.
Dispatch(r) ==
  /\ outbox' = outbox \ {r}
  /\ IF r.is = "data"
     THEN IF r.to.op \in frames[protocol]
          THEN /\ frames' = [frames EXCEPT ![protocol] = @ \ {r.to.op}]
               /\ answer' = [answer EXCEPT ![protocol] = r.to.arg]
               /\ UNCHANGED ack
          ELSE UNCHANGED <<frames, answer, ack>>
     ELSE /\ ack' = [ack EXCEPT ![protocol] = IF @ = "pending" THEN r.is ELSE @]
          /\ UNCHANGED <<frames, answer>>
  /\ UNCHANGED <<callers, protocol, lock, keyPrefix, phase, session, inbox, done>>

-----------------------------------------------------------------------------
(* The machine and the link *)

Answers(r) ==
  outbox' = IF Cardinality(outbox) < MaxFrames THEN outbox \cup {r} ELSE outbox

\* A frame with the key of the session is obeyed, refused or lost, and so may
\* be the answer; one with another key is lost, or refused if the machine does
\* not keep its sessions apart.  Only writes are refused with an N.
MachineReads(f) ==
  /\ inbox' = inbox \ {f}
  /\ \/ /\ f.key = session /\ f.key # NoKey /\ f.op \in Writes
        /\ done' = [done EXCEPT ![f.task] = IF pc[f.task] = "idle" THEN @ ELSE @ + 1]
        /\ Answers([is |-> "A", to |-> f]) \/ UNCHANGED outbox
     \/ /\ f.key = session /\ f.key # NoKey /\ f.op \in Reads
        /\ Answers([is |-> "data", to |-> f])
        /\ UNCHANGED done
     \/ /\ f.op \in Writes
        /\ Separate => f.key = session /\ f.key # NoKey
        /\ Answers([is |-> "N", to |-> f])
        /\ UNCHANGED done
     \/ UNCHANGED <<done, outbox>>
  /\ UNCHANGED <<callers, objects, phase, session>>

\* The link is lost with everything on it, the machine's session included, or
\* the attempt fails.
LinkLost ==
  /\ phase # "down"
  /\ phase' = "down" /\ session' = NoKey /\ inbox' = {} /\ outbox' = {}
  /\ UNCHANGED <<callers, objects, done>>

\* The objects that no call runs in.
Unused == {p \in Protocols : \A t \in Tasks : uses[t] # p}

\* _try_connect_and_handshake makes a new object, while calls may go on in older
\* ones, gets a client and writes the challenge of perform_handshake.
Attempt ==
  /\ phase = "down" /\ phase' = "handshake"
  /\ protocol' \in Unused /\ (protocol \in Unused => protocol' = protocol)
  /\ lock' = [p \in Protocols |-> IF p \in Unused THEN NoTask ELSE lock[p]]
  /\ ack' = [p \in Protocols |-> IF p \in Unused THEN "none" ELSE ack[p]]
  /\ frames' = [p \in Protocols |-> IF p \in Unused THEN {} ELSE frames[p]]
  /\ answer' = [p \in Protocols |-> IF p \in Unused THEN NoArg ELSE answer[p]]
  /\ keyPrefix' = [p \in Protocols |-> IF p \in Unused THEN NoKey ELSE keyPrefix[p]]
  /\ UNCHANGED <<callers, machine>>

\* The machine chooses a key and its response verifies.
HandshakeDone ==
  /\ phase = "handshake" /\ phase' = "ready"
  /\ \E k \in Keys :
       /\ Separate => \A t \in Tasks :
            uses[t] # NoProtocol => k # key[t] /\ k # keyPrefix[uses[t]]
       /\ session' = k
       /\ keyPrefix' = [keyPrefix EXCEPT ![protocol] = k]
  /\ UNCHANGED <<callers, protocol, futures, inbox, outbox, done>>

-----------------------------------------------------------------------------
Step(t) ==
  Acquire(t) \/ Written(t) \/ WriteRaises(t) \/ Resume(t) \/ Timeout(t)
  \/ PauseEnds(t)

MachineStep == \E f \in inbox : MachineReads(f)
Delivery    == \E r \in outbox : Dispatch(r)
LinkStep    == LinkLost \/ Attempt \/ HandshakeDone

Next ==
  \/ \E t \in Tasks : Call(t) \/ Step(t)
  \/ PollCancelled
  \/ MachineStep \/ Delivery \/ LinkStep

Spec == Init /\ [][Next]_vars

\* Timers fire, writes return or raise, and a _lock is first come first served.
\* Neither the machine nor the link owes anything.
Fairness == \A t \in Tasks : WF_vars(Step(t)) /\ SF_vars(Acquire(t))

FairSpec == Spec /\ Fairness

-----------------------------------------------------------------------------
(* Safety *)

\* The answer a call returns is the answer to that call: True only if the
\* machine carried the command out, at most once per attempt, and a value only
\* if it is the value asked for.  Nothing in an A names its command, and a call
\* of an earlier session shares neither _lock nor futures with those of the
\* present one: that this holds rests on _lock, on when the futures are made and
\* dropped, and on a machine that is Timely and keeps its sessions Separate.
AnswersItsCall ==
  [][Timely /\ Separate => \A t \in Tasks : result'[t] # result[t] =>
       /\ result'[t].is = "true" =>
            call[t].op \in Writes /\ done[t] \in 1..attempt[t]
       /\ result'[t].is = "value" =>
            call[t].op \in Reads /\ result'[t].arg = call[t].arg]_vars

-----------------------------------------------------------------------------
(* Why: at any time only the holder of the current object's _lock can be     *)
(* answered                                                                  *)

\* The _lock of an object is held exactly by the call that writes or waits in it.
LockHeld ==
  /\ \A p \in Protocols, t \in Tasks :
       lock[p] = t <=> uses[t] = p /\ pc[t] \in {"write", "wait"}
  /\ \A t \in Tasks :
       /\ pc[t] = "idle" <=> uses[t] = NoProtocol
       /\ pc[t] = "idle" => call[t] = NoCall
       /\ pc[t] # "idle" => call[t] \in CallsOf(t)
       /\ pc[t] = "pause" => call[t].op \in Writes

\* The _frame_futures of an object hold at most the future its holder waits for.
FramesAttended ==
  \A p \in Protocols :
    /\ frames[p] # {} => lock[p] # NoTask
    /\ lock[p] # NoTask =>
         /\ frames[p] \subseteq {call[lock[p]].op}
         /\ call[lock[p]].op \in Reads =>
              (call[lock[p]].op \in frames[p] <=> answer[p] = NoArg)

\* There is a session only when the handshake is done, and no call that outlived
\* its link can write a frame of it.
SessionsApart ==
  /\ phase # "ready" => session = NoKey /\ outbox = {}
  /\ session # NoKey => \A t \in Tasks :
       uses[t] \notin {NoProtocol, protocol} =>
         session # key[t] /\ session # keyPrefix[uses[t]]

\* Everything in flight, but for the poll loop's cancelled reads, is the current
\* frame of a call that waits, or the one answer to one that waits in the
\* present object.
InFlightIsWaitedFor ==
  /\ \A f \in inbox :
       IF f.op = Status THEN f.task = Poller /\ f.arg = Nothing
       ELSE /\ pc[f.task] = "wait" /\ f = FrameOf(f.task)
            /\ \A r \in outbox : r.to.task # f.task
  /\ \A r \in outbox :
       /\ r.is = "data" <=> r.to.op \in Reads
       /\ r.is = "A" => done[r.to.task] > 0
       /\ IF r.to.op = Status THEN r.to.task = Poller /\ r.to.arg = Nothing
          ELSE /\ pc[r.to.task] = "wait" /\ r.to = FrameOf(r.to.task)
               /\ uses[r.to.task] = protocol
               /\ \A q \in outbox : q.to.task = r.to.task => q = r

\* A future is resolved by the answer to the call that waits for it, which is
\* then in flight no more.
ResolvedByItsAnswer ==
  \A p \in Protocols :
    /\ ack[p] \in {"A", "N"} =>
         /\ lock[p] # NoTask /\ pc[lock[p]] = "wait" /\ call[lock[p]].op \in Writes
         /\ ~InFlight(lock[p])
         /\ ack[p] = "A" => done[lock[p]] > 0
    /\ \A t \in Tasks :
         lock[p] = t /\ call[t].op \in Reads /\ answer[p] # NoArg =>
           /\ answer[p] = call[t].arg
           /\ call[t].op # Status => pc[t] = "wait" /\ ~InFlight(t)

\* The machine carries a frame out once.
OncePerAttempt ==
  \A t \in Tasks :
    /\ done[t] <= attempt[t]
    /\ pc[t] \in {"queue", "write"} \/ (\E f \in inbox : f.task = t /\ f.op # Status)
         => done[t] < attempt[t]
    /\ pc[t] = "idle" => done[t] = 0

IInv ==
  /\ TypeOK /\ LockHeld /\ FramesAttended
  /\ Timely /\ Separate =>
       SessionsApart /\ InFlightIsWaitedFor /\ ResolvedByItsAnswer /\ OncePerAttempt

-----------------------------------------------------------------------------
(* The promise to the callers *)

\* Of a call MachineCalls sees what it is, how often it has been carried out and
\* what it returns.
Promised == INSTANCE MachineCalls

\* With a machine that is timely and keeps its sessions apart the request layer
\* keeps the promise of MachineCalls, over any number of reconnects.
KeepsPromise == Promised!Spec

\* Every call ends, whatever the machine, the link and the other callers do.
CallEnds == \A t \in Tasks : pc[t] # "idle" ~> pc[t] = "idle"

-----------------------------------------------------------------------------
(* What the documentation says and the code does not do *)

\* PROTOCOL.md:471: a write is answered, "A = success, N = failure".  True means
\* that the machine carried this command out.
AckMeansSuccess ==
  [][\A t \in Tasks : result'[t] # result[t] /\ result'[t].is = "true" => done[t] > 0]_vars
=============================================================================
