----------------------- MODULE BleConnection_proofs -----------------------
(***************************************************************************)
(* Proofs about BleConnection: its type invariant, and the inductive       *)
(* invariant IInv from which its four safety properties follow.            *)
(*                                                                         *)
(* The steps of Next are taken in the groups NextCases names, the actions  *)
(* that share their helpers together.                                      *)
(***************************************************************************)
EXTENDS BleConnection, TLAPS

USE ConstantsAssumption
    DEF ConstantsAssumption, Initial, Reconnect, Tasks, Unload, Repair,
        Closers, NoTask, Stages

-----------------------------------------------------------------------------
\* Scheduling a reconnect task leaves a legal state of the loops.
LEMMA ScheduledType ==
  ASSUME NEW p \in [Tasks -> {"start", "wait", "queue", "connect", "done"}]
  PROVE  Scheduled(p) \in [Tasks -> {"start", "wait", "queue", "connect", "done"}]
  BY DEF Scheduled

\* The steps of the specification, in the groups the lemmas below take.
LEMMA NextCases ==
  ASSUME [Next]_vars
  PROVE  \/ InitialStep
         \/ ReconnectStarts
         \/ ReconnectWakes
         \/ (\E t \in Tasks : Acquire(t))
         \/ EstablishSucceeds \/ UnpairConnects
         \/ EstablishFails \/ NotifyFails \/ HandshakeFails
         \/ DropDone \/ UnpairDone
         \/ SendChallenge \/ HandshakeReply \/ HandshakeSucceeds \/ ReadType
         \/ WriteRaises \/ AbortDone
         \/ Announce
         \/ PollStep \/ PollRaises
         \/ UnloadStarts
         \/ RepairStarts
         \/ (\E c \in Closers : EndDisconnect(c))
         \/ UnloadEnds \/ RepairRequested \/ RepairRearms
         \/ LinkDrops
         \/ PowerOff \/ PowerOn \/ Advertise \/ PresenceExpires \/ CalmBegins
         \/ UNCHANGED vars
  BY DEF Next, ReconnectStep, ImplStep, PollStep, UnloadStep, RepairStep, Users,
         Environment

-----------------------------------------------------------------------------
\* The initial state is of the right type.
LEMMA TypeInit == Init => TypeOK
<1> SUFFICES ASSUME Init PROVE TypeOK
  OBVIOUS
<1> USE DEF Init
<1>1. FlagsOK /\ ImplOK
  BY DEF FlagsOK, ImplOK
<1>2. LoopsOK /\ WokenOK /\ ClosersOK
  BY DEF LoopsOK, WokenOK, ClosersOK
<1>3. CountsOK /\ PollingOK
  BY DEF CountsOK, PollingOK
<1>4. EnvOK
  BY DEF EnvOK
<1> QED
  BY <1>1, <1>2, <1>3, <1>4 DEF TypeOK


\* The flags of the client keep their types.
LEMMA FlagsNext == TypeOK /\ [Next]_vars =>
  FlagsOK'
<1> SUFFICES ASSUME TypeOK, [Next]_vars
             PROVE  FlagsOK'
  OBVIOUS
<1> USE ScheduledType
        DEF TypeOK, FlagsOK, CountsOK, ImplOK, LoopsOK, WokenOK, PollingOK,
            ClosersOK, EnvOK, flags, impl, loops, polling, closers, env
<1>1. CASE InitialStep
  BY <1>1
  DEF InitialStep, InitialStarts, InitialWakes
<1>2. CASE ReconnectStarts
  BY <1>2
  DEF ReconnectStarts, Conn
<1>3. CASE ReconnectWakes
  BY <1>3
  DEF ReconnectWakes, Conn
<1>4. CASE \E t \in Tasks : Acquire(t)
  BY <1>4
  DEF Acquire, ConnectReturnsTrue, StartPolling, Freed, Conn
<1>5. CASE EstablishSucceeds \/ UnpairConnects
  BY <1>5
  DEF EstablishSucceeds, UnpairConnects, FreeLinks, Referenced
<1>6. CASE EstablishFails \/ NotifyFails \/ HandshakeFails
  BY <1>6
  DEF EstablishFails, NotifyFails, HandshakeFails,
      DropClient, AttemptFailed, ConnectReturnsFalse
<1>7. CASE DropDone \/ UnpairDone
  BY <1>7
  DEF DropDone, UnpairDone, AttemptFailed,
      ConnectReturnsFalse, Freed
<1>8. CASE SendChallenge \/ HandshakeReply \/ HandshakeSucceeds \/ ReadType
  BY <1>8
  DEF SendChallenge, HandshakeReply, HandshakeSucceeds, ReadType
<1>9. CASE WriteRaises \/ AbortDone
  BY <1>9
  DEF WriteRaises, AbortDone, Abort, ConnectReturnsFalse, Freed
<1>10. CASE Announce
  BY <1>10
  DEF Announce, ConnectReturnsTrue, StartPolling, Freed
<1>11. CASE PollStep \/ PollRaises
  BY <1>11
  DEF PollStep, PollExits, PollReturns, PollCloses, PollRaises,
      Freed, Conn
<1>12. CASE UnloadStarts
  BY <1>12
  DEF UnloadStarts, BeginDisconnect, AfterDisconnect, Freed, Waiters
<1>13. CASE RepairStarts
  BY <1>13
  DEF RepairStarts, BeginDisconnect, AfterDisconnect, Freed, Waiters
<1>14. CASE \E c \in Closers : EndDisconnect(c)
  BY <1>14
  DEF EndDisconnect, Freed, Waiters
<1>15. CASE UnloadEnds \/ RepairRequested \/ RepairRearms
  BY <1>15
  DEF UnloadEnds, RepairRequested, RepairRearms, Freed, Waiters
<1>16. CASE LinkDrops
  BY <1>16
  DEF LinkDrops, OnDisconnect
<1>17. CASE PowerOff \/ PowerOn \/ Advertise \/ PresenceExpires \/ CalmBegins
  BY <1>17
  DEF PowerOff, PowerOn, Advertise, PresenceExpires, CalmBegins,
      Waiters
<1>18. CASE UNCHANGED vars
  BY <1>18 DEF vars
<1> QED
  BY NextCases, <1>1, <1>2, <1>3, <1>4, <1>5, <1>6, <1>7, <1>8, <1>9, <1>10, <1>11, <1>12, <1>13, <1>14, <1>15, <1>16, <1>17, <1>18

\* The wedge counter is reset at its threshold; there are three attempts.
LEMMA CountsNext == TypeOK /\ [Next]_vars =>
  CountsOK'
<1> SUFFICES ASSUME TypeOK, [Next]_vars
             PROVE  CountsOK'
  OBVIOUS
<1> USE ScheduledType
        DEF TypeOK, FlagsOK, CountsOK, ImplOK, LoopsOK, WokenOK, PollingOK,
            ClosersOK, EnvOK, flags, impl, loops, polling, closers, env
<1>1. CASE InitialStep
  BY <1>1
  DEF InitialStep, InitialStarts, InitialWakes
<1>2. CASE ReconnectStarts
  BY <1>2
  DEF ReconnectStarts, Conn
<1>3. CASE ReconnectWakes
  BY <1>3
  DEF ReconnectWakes, Conn
<1>4. CASE \E t \in Tasks : Acquire(t)
  BY <1>4
  DEF Acquire, ConnectReturnsTrue, StartPolling, Freed, Conn
<1>5. CASE EstablishSucceeds \/ UnpairConnects
  BY <1>5
  DEF EstablishSucceeds, UnpairConnects, FreeLinks, Referenced
<1>6. CASE EstablishFails \/ NotifyFails \/ HandshakeFails
  BY <1>6
  DEF EstablishFails, NotifyFails, HandshakeFails,
      DropClient, AttemptFailed, ConnectReturnsFalse
<1>7. CASE DropDone \/ UnpairDone
  BY <1>7
  DEF DropDone, UnpairDone, AttemptFailed,
      ConnectReturnsFalse, Freed
<1>8. CASE SendChallenge \/ HandshakeReply \/ HandshakeSucceeds \/ ReadType
  BY <1>8
  DEF SendChallenge, HandshakeReply, HandshakeSucceeds, ReadType
<1>9. CASE WriteRaises \/ AbortDone
  BY <1>9
  DEF WriteRaises, AbortDone, Abort, ConnectReturnsFalse, Freed
<1>10. CASE Announce
  BY <1>10
  DEF Announce, ConnectReturnsTrue, StartPolling, Freed
<1>11. CASE PollStep \/ PollRaises
  BY <1>11
  DEF PollStep, PollExits, PollReturns, PollCloses, PollRaises,
      Freed, Conn
<1>12. CASE UnloadStarts
  BY <1>12
  DEF UnloadStarts, BeginDisconnect, AfterDisconnect, Freed, Waiters
<1>13. CASE RepairStarts
  BY <1>13
  DEF RepairStarts, BeginDisconnect, AfterDisconnect, Freed, Waiters
<1>14. CASE \E c \in Closers : EndDisconnect(c)
  BY <1>14
  DEF EndDisconnect, Freed, Waiters
<1>15. CASE UnloadEnds \/ RepairRequested \/ RepairRearms
  BY <1>15
  DEF UnloadEnds, RepairRequested, RepairRearms, Freed, Waiters
<1>16. CASE LinkDrops
  BY <1>16
  DEF LinkDrops, OnDisconnect
<1>17. CASE PowerOff \/ PowerOn \/ Advertise \/ PresenceExpires \/ CalmBegins
  BY <1>17
  DEF PowerOff, PowerOn, Advertise, PresenceExpires, CalmBegins,
      Waiters
<1>18. CASE UNCHANGED vars
  BY <1>18 DEF vars
<1> QED
  BY NextCases, <1>1, <1>2, <1>3, <1>4, <1>5, <1>6, <1>7, <1>8, <1>9, <1>10, <1>11, <1>12, <1>13, <1>14, <1>15, <1>16, <1>17, <1>18

\* So do the variables of the attempt in progress.
LEMMA ImplNext == TypeOK /\ [Next]_vars =>
  ImplOK'
<1> SUFFICES ASSUME TypeOK, [Next]_vars
             PROVE  ImplOK'
  OBVIOUS
<1> USE ScheduledType
        DEF TypeOK, FlagsOK, CountsOK, ImplOK, LoopsOK, WokenOK, PollingOK,
            ClosersOK, EnvOK, flags, impl, loops, polling, closers, env
<1>1. CASE InitialStep
  BY <1>1
  DEF InitialStep, InitialStarts, InitialWakes
<1>2. CASE ReconnectStarts
  BY <1>2
  DEF ReconnectStarts, Conn
<1>3. CASE ReconnectWakes
  BY <1>3
  DEF ReconnectWakes, Conn
<1>4. CASE \E t \in Tasks : Acquire(t)
  BY <1>4
  DEF Acquire, ConnectReturnsTrue, StartPolling, Freed, Conn
<1>5. CASE EstablishSucceeds \/ UnpairConnects
  BY <1>5
  DEF EstablishSucceeds, UnpairConnects, FreeLinks, Referenced
<1>6. CASE EstablishFails \/ NotifyFails \/ HandshakeFails
  BY <1>6
  DEF EstablishFails, NotifyFails, HandshakeFails,
      DropClient, AttemptFailed, ConnectReturnsFalse
<1>7. CASE DropDone \/ UnpairDone
  BY <1>7
  DEF DropDone, UnpairDone, AttemptFailed,
      ConnectReturnsFalse, Freed
<1>8. CASE SendChallenge \/ HandshakeReply \/ HandshakeSucceeds \/ ReadType
  BY <1>8
  DEF SendChallenge, HandshakeReply, HandshakeSucceeds, ReadType
<1>9. CASE WriteRaises \/ AbortDone
  BY <1>9
  DEF WriteRaises, AbortDone, Abort, ConnectReturnsFalse, Freed
<1>10. CASE Announce
  BY <1>10
  DEF Announce, ConnectReturnsTrue, StartPolling, Freed
<1>11. CASE PollStep \/ PollRaises
  BY <1>11
  DEF PollStep, PollExits, PollReturns, PollCloses, PollRaises,
      Freed, Conn
<1>12. CASE UnloadStarts
  BY <1>12
  DEF UnloadStarts, BeginDisconnect, AfterDisconnect, Freed, Waiters
<1>13. CASE RepairStarts
  BY <1>13
  DEF RepairStarts, BeginDisconnect, AfterDisconnect, Freed, Waiters
<1>14. CASE \E c \in Closers : EndDisconnect(c)
  BY <1>14
  DEF EndDisconnect, Freed, Waiters
<1>15. CASE UnloadEnds \/ RepairRequested \/ RepairRearms
  BY <1>15
  DEF UnloadEnds, RepairRequested, RepairRearms, Freed, Waiters
<1>16. CASE LinkDrops
  BY <1>16
  DEF LinkDrops, OnDisconnect
<1>17. CASE PowerOff \/ PowerOn \/ Advertise \/ PresenceExpires \/ CalmBegins
  BY <1>17
  DEF PowerOff, PowerOn, Advertise, PresenceExpires, CalmBegins,
      Waiters
<1>18. CASE UNCHANGED vars
  BY <1>18 DEF vars
<1> QED
  BY NextCases, <1>1, <1>2, <1>3, <1>4, <1>5, <1>6, <1>7, <1>8, <1>9, <1>10, <1>11, <1>12, <1>13, <1>14, <1>15, <1>16, <1>17, <1>18

\* So do the states of the two loops.
LEMMA LoopsNext == TypeOK /\ [Next]_vars =>
  LoopsOK'
<1> SUFFICES ASSUME TypeOK, [Next]_vars
             PROVE  LoopsOK'
  OBVIOUS
<1> USE ScheduledType
        DEF TypeOK, FlagsOK, CountsOK, ImplOK, LoopsOK, WokenOK, PollingOK,
            ClosersOK, EnvOK, flags, impl, loops, polling, closers, env
<1>1. CASE InitialStep
  BY <1>1
  DEF InitialStep, InitialStarts, InitialWakes
<1>2. CASE ReconnectStarts
  BY <1>2
  DEF ReconnectStarts, Conn
<1>3. CASE ReconnectWakes
  BY <1>3
  DEF ReconnectWakes, Conn
<1>4. CASE \E t \in Tasks : Acquire(t)
  BY <1>4
  DEF Acquire, ConnectReturnsTrue, StartPolling, Freed, Conn
<1>5. CASE EstablishSucceeds \/ UnpairConnects
  BY <1>5
  DEF EstablishSucceeds, UnpairConnects, FreeLinks, Referenced
<1>6. CASE EstablishFails \/ NotifyFails \/ HandshakeFails
  BY <1>6
  DEF EstablishFails, NotifyFails, HandshakeFails,
      DropClient, AttemptFailed, ConnectReturnsFalse
<1>7. CASE DropDone \/ UnpairDone
  BY <1>7
  DEF DropDone, UnpairDone, AttemptFailed,
      ConnectReturnsFalse, Freed
<1>8. CASE SendChallenge \/ HandshakeReply \/ HandshakeSucceeds \/ ReadType
  BY <1>8
  DEF SendChallenge, HandshakeReply, HandshakeSucceeds, ReadType
<1>9. CASE WriteRaises \/ AbortDone
  BY <1>9
  DEF WriteRaises, AbortDone, Abort, ConnectReturnsFalse, Freed
<1>10. CASE Announce
  BY <1>10
  DEF Announce, ConnectReturnsTrue, StartPolling, Freed
<1>11. CASE PollStep \/ PollRaises
  BY <1>11
  DEF PollStep, PollExits, PollReturns, PollCloses, PollRaises,
      Freed, Conn
<1>12. CASE UnloadStarts
  BY <1>12
  DEF UnloadStarts, BeginDisconnect, AfterDisconnect, Freed, Waiters
<1>13. CASE RepairStarts
  BY <1>13
  DEF RepairStarts, BeginDisconnect, AfterDisconnect, Freed, Waiters
<1>14. CASE \E c \in Closers : EndDisconnect(c)
  BY <1>14
  DEF EndDisconnect, Freed, Waiters
<1>15. CASE UnloadEnds \/ RepairRequested \/ RepairRearms
  BY <1>15
  DEF UnloadEnds, RepairRequested, RepairRearms, Freed, Waiters
<1>16. CASE LinkDrops
  BY <1>16
  DEF LinkDrops, OnDisconnect
<1>17. CASE PowerOff \/ PowerOn \/ Advertise \/ PresenceExpires \/ CalmBegins
  BY <1>17
  DEF PowerOff, PowerOn, Advertise, PresenceExpires, CalmBegins,
      Waiters
<1>18. CASE UNCHANGED vars
  BY <1>18 DEF vars
<1> QED
  BY NextCases, <1>1, <1>2, <1>3, <1>4, <1>5, <1>6, <1>7, <1>8, <1>9, <1>10, <1>11, <1>12, <1>13, <1>14, <1>15, <1>16, <1>17, <1>18

\* Only tasks are woken.
LEMMA WokenNext == TypeOK /\ [Next]_vars =>
  WokenOK'
<1> SUFFICES ASSUME TypeOK, [Next]_vars
             PROVE  WokenOK'
  OBVIOUS
<1> USE ScheduledType
        DEF TypeOK, FlagsOK, CountsOK, ImplOK, LoopsOK, WokenOK, PollingOK,
            ClosersOK, EnvOK, flags, impl, loops, polling, closers, env
<1>1. CASE InitialStep
  BY <1>1
  DEF InitialStep, InitialStarts, InitialWakes
<1>2. CASE ReconnectStarts
  BY <1>2
  DEF ReconnectStarts, Conn
<1>3. CASE ReconnectWakes
  BY <1>3
  DEF ReconnectWakes, Conn
<1>4. CASE \E t \in Tasks : Acquire(t)
  BY <1>4
  DEF Acquire, ConnectReturnsTrue, StartPolling, Freed, Conn
<1>5. CASE EstablishSucceeds \/ UnpairConnects
  BY <1>5
  DEF EstablishSucceeds, UnpairConnects, FreeLinks, Referenced
<1>6. CASE EstablishFails \/ NotifyFails \/ HandshakeFails
  BY <1>6
  DEF EstablishFails, NotifyFails, HandshakeFails,
      DropClient, AttemptFailed, ConnectReturnsFalse
<1>7. CASE DropDone \/ UnpairDone
  BY <1>7
  DEF DropDone, UnpairDone, AttemptFailed,
      ConnectReturnsFalse, Freed
<1>8. CASE SendChallenge \/ HandshakeReply \/ HandshakeSucceeds \/ ReadType
  BY <1>8
  DEF SendChallenge, HandshakeReply, HandshakeSucceeds, ReadType
<1>9. CASE WriteRaises \/ AbortDone
  BY <1>9
  DEF WriteRaises, AbortDone, Abort, ConnectReturnsFalse, Freed
<1>10. CASE Announce
  BY <1>10
  DEF Announce, ConnectReturnsTrue, StartPolling, Freed
<1>11. CASE PollStep \/ PollRaises
  BY <1>11
  DEF PollStep, PollExits, PollReturns, PollCloses, PollRaises,
      Freed, Conn
<1>12. CASE UnloadStarts
  BY <1>12
  DEF UnloadStarts, BeginDisconnect, AfterDisconnect, Freed, Waiters
<1>13. CASE RepairStarts
  BY <1>13
  DEF RepairStarts, BeginDisconnect, AfterDisconnect, Freed, Waiters
<1>14. CASE \E c \in Closers : EndDisconnect(c)
  BY <1>14
  DEF EndDisconnect, Freed, Waiters
<1>15. CASE UnloadEnds \/ RepairRequested \/ RepairRearms
  BY <1>15
  DEF UnloadEnds, RepairRequested, RepairRearms, Freed, Waiters
<1>16. CASE LinkDrops
  BY <1>16
  DEF LinkDrops, OnDisconnect
<1>17. CASE PowerOff \/ PowerOn \/ Advertise \/ PresenceExpires \/ CalmBegins
  BY <1>17
  DEF PowerOff, PowerOn, Advertise, PresenceExpires, CalmBegins,
      Waiters
<1>18. CASE UNCHANGED vars
  BY <1>18 DEF vars
<1> QED
  BY NextCases, <1>1, <1>2, <1>3, <1>4, <1>5, <1>6, <1>7, <1>8, <1>9, <1>10, <1>11, <1>12, <1>13, <1>14, <1>15, <1>16, <1>17, <1>18

\* The poll loop stays below its error limit while it runs; the callers of
\* disconnect() and the machine keep their types.
LEMMA OthersNext == TypeOK /\ [Next]_vars =>
  PollingOK' /\ ClosersOK' /\ EnvOK'
<1> SUFFICES ASSUME TypeOK, [Next]_vars
             PROVE  PollingOK' /\ ClosersOK' /\ EnvOK'
  OBVIOUS
<1> USE ScheduledType
        DEF TypeOK, FlagsOK, CountsOK, ImplOK, LoopsOK, WokenOK, PollingOK,
            ClosersOK, EnvOK, flags, impl, loops, polling, closers, env
<1>1. CASE InitialStep
  BY <1>1
  DEF InitialStep, InitialStarts, InitialWakes
<1>2. CASE ReconnectStarts
  BY <1>2
  DEF ReconnectStarts, Conn
<1>3. CASE ReconnectWakes
  BY <1>3
  DEF ReconnectWakes, Conn
<1>4. CASE \E t \in Tasks : Acquire(t)
  BY <1>4
  DEF Acquire, ConnectReturnsTrue, StartPolling, Freed, Conn
<1>5. CASE EstablishSucceeds \/ UnpairConnects
  BY <1>5
  DEF EstablishSucceeds, UnpairConnects, FreeLinks, Referenced
<1>6. CASE EstablishFails \/ NotifyFails \/ HandshakeFails
  BY <1>6
  DEF EstablishFails, NotifyFails, HandshakeFails,
      DropClient, AttemptFailed, ConnectReturnsFalse
<1>7. CASE DropDone \/ UnpairDone
  BY <1>7
  DEF DropDone, UnpairDone, AttemptFailed,
      ConnectReturnsFalse, Freed
<1>8. CASE SendChallenge \/ HandshakeReply \/ HandshakeSucceeds \/ ReadType
  BY <1>8
  DEF SendChallenge, HandshakeReply, HandshakeSucceeds, ReadType
<1>9. CASE WriteRaises \/ AbortDone
  BY <1>9
  DEF WriteRaises, AbortDone, Abort, ConnectReturnsFalse, Freed
<1>10. CASE Announce
  BY <1>10
  DEF Announce, ConnectReturnsTrue, StartPolling, Freed
<1>11. CASE PollStep \/ PollRaises
  BY <1>11
  DEF PollStep, PollExits, PollReturns, PollCloses, PollRaises,
      Freed, Conn
<1>12. CASE UnloadStarts
  BY <1>12
  DEF UnloadStarts, BeginDisconnect, AfterDisconnect, Freed, Waiters
<1>13. CASE RepairStarts
  BY <1>13
  DEF RepairStarts, BeginDisconnect, AfterDisconnect, Freed, Waiters
<1>14. CASE \E c \in Closers : EndDisconnect(c)
  BY <1>14
  DEF EndDisconnect, Freed, Waiters
<1>15. CASE UnloadEnds \/ RepairRequested \/ RepairRearms
  BY <1>15
  DEF UnloadEnds, RepairRequested, RepairRearms, Freed, Waiters
<1>16. CASE LinkDrops
  BY <1>16
  DEF LinkDrops, OnDisconnect
<1>17. CASE PowerOff \/ PowerOn \/ Advertise \/ PresenceExpires \/ CalmBegins
  BY <1>17
  DEF PowerOff, PowerOn, Advertise, PresenceExpires, CalmBegins,
      Waiters
<1>18. CASE UNCHANGED vars
  BY <1>18 DEF vars
<1> QED
  BY NextCases, <1>1, <1>2, <1>3, <1>4, <1>5, <1>6, <1>7, <1>8, <1>9, <1>10, <1>11, <1>12, <1>13, <1>14, <1>15, <1>16, <1>17, <1>18

\* The type invariant is inductive.
LEMMA TypeNext == TypeOK /\ [Next]_vars => TypeOK'
  BY FlagsNext, CountsNext, ImplNext, LoopsNext, WokenNext, OthersNext
  DEF TypeOK

\* Every variable keeps its type: in particular, the poll loop never counts
\* past max_consecutive_errors and the wedge counter never past
\* repair_after_failures, whatever interleaves.
THEOREM TypeCorrect == Spec => []TypeOK
<1>1. Init => TypeOK
  BY TypeInit
<1>2. TypeOK /\ [Next]_vars => TypeOK'
  BY TypeNext
<1> QED
  BY <1>1, <1>2, PTL DEF Spec

-----------------------------------------------------------------------------
\* The initial state satisfies the inductive invariant.
LEMMA InductiveInit == Init => IInv
<1> SUFFICES ASSUME Init PROVE IInv
  OBVIOUS
<1>1. TypeOK
  BY TypeInit
<1>2. LockHeld /\ ClientForgotten /\ NothingToOverwrite /\ OneOwner
      /\ ReadsConnected /\ TmpInUse
  BY DEF Init, LockHeld, ClientForgotten, NothingToOverwrite, OneOwner,
         ReadsConnected, TmpInUse, IsConnected
<1>3. LinkOwned /\ SessionPolled /\ SessionAnnounced /\ OutageArmed
  BY DEF Init, LinkOwned, SessionPolled, SessionAnnounced, OutageArmed,
         IsConnected, Conn
<1> QED
  BY <1>1, <1>2, <1>3 DEF IInv

\* The lock, and what its holder leaves behind at each await.
LEMMA LockNext == IInv /\ [Next]_vars =>
  LockHeld' /\ ClientForgotten' /\ ReadsConnected' /\ TmpInUse'
<1> SUFFICES ASSUME IInv, [Next]_vars
             PROVE  LockHeld' /\ ClientForgotten' /\ ReadsConnected' /\ TmpInUse'
  OBVIOUS
<1> USE DEF IInv, LockHeld, ClientForgotten, NothingToOverwrite, OneOwner,
            ReadsConnected, TmpInUse, LinkOwned, SessionPolled,
            SessionAnnounced, OutageArmed, TypeOK, FlagsOK, ImplOK, LoopsOK,
            WokenOK, PollingOK, ClosersOK, EnvOK, Conn, Loaded, IsConnected,
            flags, impl, loops, polling, closers, env
<1>1. CASE InitialStep
  BY <1>1
  DEF InitialStep, InitialStarts, InitialWakes
<1>2. CASE ReconnectStarts
  BY <1>2
  DEF ReconnectStarts, Conn
<1>3. CASE ReconnectWakes
  BY <1>3
  DEF ReconnectWakes, Conn
<1>4. CASE \E t \in Tasks : Acquire(t)
  BY <1>4
  DEF Acquire, ConnectReturnsTrue, StartPolling, Freed, Conn
<1>5. CASE EstablishSucceeds \/ UnpairConnects
  BY <1>5
  DEF EstablishSucceeds, UnpairConnects, FreeLinks, Referenced
<1>6. CASE EstablishFails \/ NotifyFails \/ HandshakeFails
  BY <1>6
  DEF EstablishFails, NotifyFails, HandshakeFails,
      DropClient, AttemptFailed, ConnectReturnsFalse
<1>7. CASE DropDone \/ UnpairDone
  BY <1>7
  DEF DropDone, UnpairDone, AttemptFailed,
      ConnectReturnsFalse, Freed
<1>8. CASE SendChallenge \/ HandshakeReply \/ HandshakeSucceeds \/ ReadType
  BY <1>8
  DEF SendChallenge, HandshakeReply, HandshakeSucceeds, ReadType
<1>9. CASE WriteRaises \/ AbortDone
  BY <1>9
  DEF WriteRaises, AbortDone, Abort, ConnectReturnsFalse, Freed
<1>10. CASE Announce
  BY <1>10
  DEF Announce, ConnectReturnsTrue, StartPolling, Freed
<1>11. CASE PollStep \/ PollRaises
  BY <1>11
  DEF PollStep, PollExits, PollReturns, PollCloses, PollRaises,
      Freed, Conn, Scheduled
<1>12. CASE UnloadStarts
  BY <1>12
  DEF UnloadStarts, BeginDisconnect, AfterDisconnect, Freed, Waiters
<1>13. CASE RepairStarts
  BY <1>13
  DEF RepairStarts, BeginDisconnect, AfterDisconnect, Freed, Waiters
<1>14. CASE \E c \in Closers : EndDisconnect(c)
  BY <1>14
  DEF EndDisconnect, Freed, Waiters, Scheduled
<1>15. CASE UnloadEnds \/ RepairRequested \/ RepairRearms
  BY <1>15
  DEF UnloadEnds, RepairRequested, RepairRearms, Freed, Waiters, Scheduled
<1>16. CASE LinkDrops
  BY <1>16
  DEF LinkDrops, OnDisconnect, Scheduled
<1>17. CASE PowerOff \/ PowerOn \/ Advertise \/ PresenceExpires \/ CalmBegins
  BY <1>17
  DEF PowerOff, PowerOn, Advertise, PresenceExpires, CalmBegins,
      Waiters, Scheduled
<1>18. CASE UNCHANGED vars
  BY <1>18 DEF vars
<1> QED
  BY NextCases, <1>1, <1>2, <1>3, <1>4, <1>5, <1>6, <1>7, <1>8, <1>9, <1>10, <1>11, <1>12, <1>13, <1>14, <1>15, <1>16, <1>17, <1>18

\* No step forgets a link: it passes from one owner to the next.
LEMMA OwnerNext == IInv /\ [Next]_vars =>
  NothingToOverwrite' /\ OneOwner' /\ LinkOwned'
<1> SUFFICES ASSUME IInv, [Next]_vars
             PROVE  NothingToOverwrite' /\ OneOwner' /\ LinkOwned'
  OBVIOUS
<1> USE DEF IInv, LockHeld, ClientForgotten, NothingToOverwrite, OneOwner,
            ReadsConnected, TmpInUse, LinkOwned, SessionPolled,
            SessionAnnounced, OutageArmed, TypeOK, FlagsOK, ImplOK, LoopsOK,
            WokenOK, PollingOK, ClosersOK, EnvOK, Conn, Loaded, IsConnected,
            flags, impl, loops, polling, closers, env
<1>1. CASE InitialStep
  BY <1>1
  DEF InitialStep, InitialStarts, InitialWakes
<1>2. CASE ReconnectStarts
  BY <1>2
  DEF ReconnectStarts, Conn
<1>3. CASE ReconnectWakes
  BY <1>3
  DEF ReconnectWakes, Conn
<1>4. CASE \E t \in Tasks : Acquire(t)
  BY <1>4
  DEF Acquire, ConnectReturnsTrue, StartPolling, Freed, Conn
<1>5. CASE EstablishSucceeds \/ UnpairConnects
  BY <1>5
  DEF EstablishSucceeds, UnpairConnects, FreeLinks, Referenced
<1>6. CASE EstablishFails \/ NotifyFails \/ HandshakeFails
  BY <1>6
  DEF EstablishFails, NotifyFails, HandshakeFails,
      DropClient, AttemptFailed, ConnectReturnsFalse
<1>7. CASE DropDone \/ UnpairDone
  BY <1>7
  DEF DropDone, UnpairDone, AttemptFailed,
      ConnectReturnsFalse, Freed
<1>8. CASE SendChallenge \/ HandshakeReply \/ HandshakeSucceeds \/ ReadType
  BY <1>8
  DEF SendChallenge, HandshakeReply, HandshakeSucceeds, ReadType
<1>9. CASE WriteRaises \/ AbortDone
  BY <1>9
  DEF WriteRaises, AbortDone, Abort, ConnectReturnsFalse, Freed
<1>10. CASE Announce
  BY <1>10
  DEF Announce, ConnectReturnsTrue, StartPolling, Freed
<1>11. CASE PollStep \/ PollRaises
  BY <1>11
  DEF PollStep, PollExits, PollReturns, PollCloses, PollRaises,
      Freed, Conn, Scheduled
<1>12. CASE UnloadStarts
  BY <1>12
  DEF UnloadStarts, BeginDisconnect, AfterDisconnect, Freed, Waiters
<1>13. CASE RepairStarts
  BY <1>13
  DEF RepairStarts, BeginDisconnect, AfterDisconnect, Freed, Waiters
<1>14. CASE \E c \in Closers : EndDisconnect(c)
  BY <1>14
  DEF EndDisconnect, Freed, Waiters, Scheduled
<1>15. CASE UnloadEnds \/ RepairRequested \/ RepairRearms
  BY <1>15
  DEF UnloadEnds, RepairRequested, RepairRearms, Freed, Waiters, Scheduled
<1>16. CASE LinkDrops
  BY <1>16
  DEF LinkDrops, OnDisconnect, Scheduled
<1>17. CASE PowerOff \/ PowerOn \/ Advertise \/ PresenceExpires \/ CalmBegins
  BY <1>17
  DEF PowerOff, PowerOn, Advertise, PresenceExpires, CalmBegins,
      Waiters, Scheduled
<1>18. CASE UNCHANGED vars
  BY <1>18 DEF vars
<1> QED
  BY NextCases, <1>1, <1>2, <1>3, <1>4, <1>5, <1>6, <1>7, <1>8, <1>9, <1>10, <1>11, <1>12, <1>13, <1>14, <1>15, <1>16, <1>17, <1>18

\* A session is polled and announced, an outage has a loop.
LEMMA SessionNext == IInv /\ [Next]_vars =>
  SessionPolled' /\ SessionAnnounced' /\ OutageArmed'
<1> SUFFICES ASSUME IInv, [Next]_vars
             PROVE  SessionPolled' /\ SessionAnnounced' /\ OutageArmed'
  OBVIOUS
<1> USE DEF IInv, LockHeld, ClientForgotten, NothingToOverwrite, OneOwner,
            ReadsConnected, TmpInUse, LinkOwned, SessionPolled,
            SessionAnnounced, OutageArmed, TypeOK, FlagsOK, ImplOK, LoopsOK,
            WokenOK, PollingOK, ClosersOK, EnvOK, Conn, Loaded, IsConnected,
            flags, impl, loops, polling, closers, env
<1>1. CASE InitialStep
  BY <1>1
  DEF InitialStep, InitialStarts, InitialWakes
<1>2. CASE ReconnectStarts
  BY <1>2
  DEF ReconnectStarts, Conn
<1>3. CASE ReconnectWakes
  BY <1>3
  DEF ReconnectWakes, Conn
<1>4. CASE \E t \in Tasks : Acquire(t)
  BY <1>4
  DEF Acquire, ConnectReturnsTrue, StartPolling, Freed, Conn
<1>5. CASE EstablishSucceeds \/ UnpairConnects
  BY <1>5
  DEF EstablishSucceeds, UnpairConnects, FreeLinks, Referenced
<1>6. CASE EstablishFails \/ NotifyFails \/ HandshakeFails
  BY <1>6
  DEF EstablishFails, NotifyFails, HandshakeFails,
      DropClient, AttemptFailed, ConnectReturnsFalse
<1>7. CASE DropDone \/ UnpairDone
  BY <1>7
  DEF DropDone, UnpairDone, AttemptFailed,
      ConnectReturnsFalse, Freed
<1>8. CASE SendChallenge \/ HandshakeReply \/ HandshakeSucceeds \/ ReadType
  BY <1>8
  DEF SendChallenge, HandshakeReply, HandshakeSucceeds, ReadType
<1>9. CASE WriteRaises \/ AbortDone
  BY <1>9
  DEF WriteRaises, AbortDone, Abort, ConnectReturnsFalse, Freed
<1>10. CASE Announce
  BY <1>10
  DEF Announce, ConnectReturnsTrue, StartPolling, Freed
<1>11. CASE PollStep \/ PollRaises
  BY <1>11
  DEF PollStep, PollExits, PollReturns, PollCloses, PollRaises,
      Freed, Conn, Scheduled
<1>12. CASE UnloadStarts
  BY <1>12
  DEF UnloadStarts, BeginDisconnect, AfterDisconnect, Freed, Waiters
<1>13. CASE RepairStarts
  BY <1>13
  DEF RepairStarts, BeginDisconnect, AfterDisconnect, Freed, Waiters
<1>14. CASE \E c \in Closers : EndDisconnect(c)
  BY <1>14
  DEF EndDisconnect, Freed, Waiters, Scheduled
<1>15. CASE UnloadEnds \/ RepairRequested \/ RepairRearms
  BY <1>15
  DEF UnloadEnds, RepairRequested, RepairRearms, Freed, Waiters, Scheduled
<1>16. CASE LinkDrops
  BY <1>16
  DEF LinkDrops, OnDisconnect, Scheduled
<1>17. CASE PowerOff \/ PowerOn \/ Advertise \/ PresenceExpires \/ CalmBegins
  BY <1>17
  DEF PowerOff, PowerOn, Advertise, PresenceExpires, CalmBegins,
      Waiters, Scheduled
<1>18. CASE UNCHANGED vars
  BY <1>18 DEF vars
<1> QED
  BY NextCases, <1>1, <1>2, <1>3, <1>4, <1>5, <1>6, <1>7, <1>8, <1>9, <1>10, <1>11, <1>12, <1>13, <1>14, <1>15, <1>16, <1>17, <1>18

\* IInv is inductive.
LEMMA InductiveNext == IInv /\ [Next]_vars => IInv'
<1>1. IInv /\ [Next]_vars => TypeOK'
  BY TypeNext DEF IInv
<1> QED
  BY <1>1, LockNext, OwnerNext, SessionNext DEF IInv

\* The inductive invariant holds in every reachable state.
THEOREM Invariance == Spec => []IInv
<1>1. Init => IInv
  BY InductiveInit
<1>2. IInv /\ [Next]_vars => IInv'
  BY InductiveNext
<1> QED
  BY <1>1, <1>2, PTL DEF Spec

\* No link leaks: for any number of links and any thresholds, while the entry
\* is loaded, a link that is up belongs to a task that uses or closes it.
THEOREM LinksAreOwned == Spec => []LinkOwned
<1>1. IInv => LinkOwned
  BY DEF IInv
<1> QED
  BY <1>1, Invariance, PTL

\* Every session that outlives its connection attempt is polled.
THEOREM SessionsArePolled == Spec => []SessionPolled
<1>1. IInv => SessionPolled
  BY DEF IInv
<1> QED
  BY <1>1, Invariance, PTL

\* ... and the entities have been told that the machine is connected.
THEOREM SessionsAreAnnounced == Spec => []SessionAnnounced
<1>1. IInv => SessionAnnounced
  BY DEF IInv
<1> QED
  BY <1>1, Invariance, PTL

\* An outage the entities know of always has a loop working on it.
THEOREM OutagesAreArmed == Spec => []OutageArmed
<1>1. IInv => OutageArmed
  BY DEF IInv
<1> QED
  BY <1>1, Invariance, PTL
=============================================================================
