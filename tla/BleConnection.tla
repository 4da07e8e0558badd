--------------------------- MODULE BleConnection ---------------------------
(***************************************************************************)
(* The connection manager of the integration: MelittaBleClient's connect,  *)
(* reconnect, poll and disconnect paths (ble_client.py) together with the  *)
(* tasks of __init__.py that drive them, the initial connect task, the     *)
(* unload of the config entry and the pairing repair.                      *)
(*                                                                         *)
(* Everything runs on one asyncio event loop, so a task is interrupted     *)
(* only where it awaits: one action is the code between two awaits.        *)
(*                                                                         *)
(* A "link" is one BleakClient.  "up" is a link both ends have, "silent"   *)
(* one the machine has lost but whose is_connected is still true here,     *)
(* "free" one that is not connected.                                       *)
(***************************************************************************)
EXTENDS Naturals, FiniteSets

CONSTANTS
  Links,        \* BleakClient identities; reused once nothing refers to them
  NoLink,       \* None
  MaxErrors,    \* max_consecutive_errors of the poll loop
  RepairAfter,  \* repair_after_failures of the reconnect loop; 0 disables it
  HasProxy      \* does an ESPHome proxy own the scanner (TRUE) or BlueZ (FALSE)?

ASSUME ConstantsAssumption ==
  /\ NoLink \notin Links
  /\ MaxErrors \in Nat \ {0}
  /\ RepairAfter \in Nat
  /\ HasProxy \in BOOLEAN

Initial   == "initial"     \* _async_connect_and_poll
Reconnect == "reconnect"   \* _reconnect_loop, _reconnect_task
Tasks     == {Initial, Reconnect}
Unload    == "unload"      \* async_unload_entry
Repair    == "repair"      \* _async_force_repair, local _async_repair_pairing
Closers   == {Unload, Repair}
NoTask    == "none"

VARIABLES
  connected,      \* _connected
  client,         \* _client
  auto,           \* _auto_reconnect
  disconnecting,  \* _disconnecting
  lastCb,         \* the last value the connection callbacks were given
  failures,       \* _consecutive_connect_failures
  lock,           \* the task holding _connect_lock
  stage,          \* where that task is inside _connect_impl
  attempt,        \* which of the three connection attempts it is making
  tmp,            \* the link it is closing, or unpairing
  reply,          \* the HU response has been dispatched, its waiter not resumed
  pc,             \* where each loop is, outside _connect_impl
  woken,          \* the loops whose wait on _reconnect_event has been satisfied
  poll,           \* the poll task: "off", "on", or "closing" a failed link
  errors,         \* consecutive_errors of the poll loop
  pollLink,       \* the link the poll task is closing
  closer,         \* where each caller of disconnect() is
  closing,        \* the link each of them is closing
  link,           \* state of every link
  on,             \* the machine is powered and in range
  present,        \* bluetooth.async_address_present
  calm            \* from now on the radio and the machine behave

flags   == <<connected, client, auto, disconnecting, lastCb>>
impl    == <<lock, stage, attempt, tmp, reply>>
loops   == <<pc, woken>>
polling == <<poll, errors, pollLink>>
closers == <<closer, closing>>
env     == <<on, present, calm>>
vars    == <<flags, failures, impl, loops, polling, closers, link, env>>

Stages == {"idle", "establish", "notify", "handshake", "drop", "unpair",
           "unpairing", "reads", "lastRead", "abort"}

FlagsOK ==
  /\ connected \in BOOLEAN /\ auto \in BOOLEAN
  /\ disconnecting \in BOOLEAN /\ lastCb \in BOOLEAN
  /\ client \in Links \cup {NoLink}

CountsOK == failures \in 0..RepairAfter /\ attempt \in 1..3

ImplOK ==
  /\ lock \in Tasks \cup {NoTask}
  /\ stage \in Stages
  /\ tmp \in Links \cup {NoLink}
  /\ reply \in BOOLEAN

LoopsOK == pc \in [Tasks -> {"start", "wait", "queue", "connect", "done"}]

WokenOK == woken \subseteq Tasks

PollingOK ==
  /\ poll \in {"off", "on", "closing"}
  /\ errors \in 0..MaxErrors /\ (poll = "on" => errors < MaxErrors)
  /\ pollLink \in Links \cup {NoLink}

ClosersOK ==
  /\ closer \in [Closers -> {"idle", "start", "disc", "after", "gone"}]
  /\ closing \in [Closers -> Links \cup {NoLink}]

EnvOK ==
  /\ link \in [Links -> {"free", "up", "silent"}]
  /\ on \in BOOLEAN /\ present \in BOOLEAN /\ calm \in BOOLEAN

TypeOK ==
  /\ FlagsOK /\ CountsOK /\ ImplOK /\ LoopsOK /\ WokenOK
  /\ PollingOK /\ ClosersOK /\ EnvOK

Init ==
  /\ connected = FALSE /\ client = NoLink /\ auto = TRUE
  /\ disconnecting = FALSE /\ lastCb = FALSE /\ failures = 0
  /\ lock = NoTask /\ stage = "idle" /\ attempt = 1 /\ tmp = NoLink
  /\ reply = FALSE
  /\ pc = [t \in Tasks |-> IF t = Initial THEN "start" ELSE "done"]
  /\ woken = {}
  /\ poll = "off" /\ errors = 0 /\ pollLink = NoLink
  /\ closer = [c \in Closers |-> "idle"]
  /\ closing = [c \in Closers |-> NoLink]
  /\ link = [l \in Links |-> "free"]
  /\ on \in BOOLEAN /\ present \in {FALSE, on} /\ calm = FALSE

-----------------------------------------------------------------------------
(* What the code reads *)

IsConnected(l) == l # NoLink /\ link[l] # "free"
Alive(l)       == l # NoLink /\ link[l] = "up"

\* The `connected` property.
Conn == connected /\ IsConnected(client)

\* The bluetooth callback and the repair and presence callbacks are installed.
Loaded == closer[Unload] # "gone"

\* The machine accepts one BLE connection at a time.
Accepting == on /\ \A l \in Links : link[l] # "up"

\* An identity nothing is about to disconnect stands for a new BleakClient;
\* _client itself is overwritten where one is made.
Referenced == {tmp, pollLink} \cup {closing[c] : c \in Closers}
FreeLinks  == {l \in Links : link[l] = "free"} \ Referenced

-----------------------------------------------------------------------------
(* Pieces several handlers share *)

\* _schedule_reconnect, as an update of pc.
Scheduled(p) ==
  IF p[Reconnect] = "done" THEN [p EXCEPT ![Reconnect] = "start"] ELSE p

\* _reconnect_event.set().  Both loops clear the event right before they wait,
\* so its value never matters, only which waits it ends.
Waiters(p) == {t \in Tasks : p[t] = "wait"}

Freed(ls) == [l \in Links |-> IF l \in ls THEN "free" ELSE link[l]]

\* Mutant: a poll task that is not done is left to run.
StartPollingOnce ==
  IF poll = "off"
  THEN poll' = "on" /\ errors' = 0 /\ UNCHANGED <<pollLink, link>>
  ELSE UNCHANGED <<polling, link>>

\* start_polling: cancels the poll task, which may be closing a link.
StartPolling ==
  /\ poll' = "on" /\ errors' = 0 /\ pollLink' = NoLink
  /\ link' = Freed({pollLink})

\* connect() returns True to the loop t, which starts polling and ends.
ConnectReturnsTrue(t) ==
  /\ pc' = [pc EXCEPT ![t] = "done"]
  /\ StartPolling

\* Mutant: a failed connect() ends the loop that called it.
ConnectFailureEndsLoop ==
  /\ lock' = NoTask /\ stage' = "idle" /\ attempt' = 1
  /\ woken' = woken \ {lock} /\ pc' = [pc EXCEPT ![lock] = "done"]
  /\ UNCHANGED <<failures, closer>>

\* connect() returns False to the lock's holder, which counts the failure,
\* maybe calls _repair_callback, and goes back to its timed wait.
ConnectReturnsFalse ==
  /\ lock' = NoTask /\ stage' = "idle" /\ attempt' = 1
  /\ woken' = woken \ {lock}
  /\ \/ /\ lock = Initial
        /\ pc' = [pc EXCEPT ![Initial] = "wait"]
        /\ UNCHANGED <<failures, closer>>
     \/ /\ lock = Reconnect
        /\ pc' = [pc EXCEPT ![Reconnect] = IF auto THEN "wait" ELSE "done"]
        /\ LET wedged == RepairAfter > 0 /\ failures + 1 >= RepairAfter /\ Loaded
           IN  /\ failures' = IF wedged THEN 0
                              ELSE IF failures < RepairAfter THEN failures + 1
                              ELSE failures
               /\ closer' = IF wedged /\ ~HasProxy /\ closer[Repair] = "idle"
                            THEN [closer EXCEPT ![Repair] = "start"]
                            ELSE closer

\* An attempt failed: pair=False, then pair=True, then unpair and pair=True.
AttemptFailed ==
  \/ /\ attempt = 1
     /\ attempt' = 2 /\ stage' = "establish"
     /\ UNCHANGED <<lock, pc, woken, failures, closer>>
  \/ /\ attempt = 2
     /\ stage' = "unpair"
     /\ UNCHANGED <<lock, attempt, pc, woken, failures, closer>>
  \/ /\ attempt = 3
     /\ ConnectReturnsFalse

\* Mutant: the callback of a stale client is taken for the current one's.
OnAnyDisconnect(l) ==
  IF disconnecting
  THEN UNCHANGED <<connected, client, lastCb, pc>>
  ELSE /\ connected' = FALSE /\ client' = NoLink /\ lastCb' = FALSE
       /\ pc' = IF auto THEN Scheduled(pc) ELSE pc

\* _on_disconnect(l)
OnDisconnect(l) ==
  IF disconnecting \/ l # client
  THEN UNCHANGED <<connected, client, lastCb, pc>>
  ELSE /\ connected' = FALSE /\ client' = NoLink /\ lastCb' = FALSE
       /\ pc' = IF auto THEN Scheduled(pc) ELSE pc

-----------------------------------------------------------------------------
(* The two loops that call connect() *)

\* _async_connect_and_poll after its initial delay; it tests nothing first.
InitialStarts ==
  /\ pc[Initial] = "start"
  /\ pc' = [pc EXCEPT ![Initial] = "queue"]
  /\ UNCHANGED <<flags, failures, impl, woken, polling, closers, link, env>>

\* The first step of _reconnect_loop: the loop test, then clear() and wait.
ReconnectStarts ==
  /\ pc[Reconnect] = "start"
  /\ pc' = [pc EXCEPT ![Reconnect] = IF auto /\ ~Conn THEN "wait" ELSE "done"]
  /\ woken' = woken \ {Reconnect}
  /\ UNCHANGED <<flags, failures, impl, polling, closers, link, env>>

\* The backoff of _async_connect_and_poll ends, by time or by the event.
InitialWakes ==
  /\ pc[Initial] = "wait"
  /\ pc' = [pc EXCEPT ![Initial] = "queue"]
  /\ woken' = woken \ {Initial}
  /\ UNCHANGED <<flags, failures, impl, polling, closers, link, env>>

\* The backoff of _reconnect_loop ends; the presence gate decides.
ReconnectWakes ==
  /\ pc[Reconnect] = "wait"
  /\ woken' = woken \ {Reconnect}
  /\ \/ /\ ~auto
        /\ pc' = [pc EXCEPT ![Reconnect] = "done"]
        /\ UNCHANGED failures
     \/ /\ auto /\ Loaded /\ ~present
        /\ failures' = 0
        /\ pc' = [pc EXCEPT ![Reconnect] = IF Conn THEN "done" ELSE "wait"]
     \/ /\ auto /\ (Loaded => present)
        /\ pc' = [pc EXCEPT ![Reconnect] = "queue"]
        /\ UNCHANGED failures
  /\ UNCHANGED <<flags, impl, polling, closers, link, env>>

\* connect() gets _connect_lock: already connected, or the first attempt,
\* after cancelling a pending reconnect task that is not the caller.
Acquire(t) ==
  /\ pc[t] = "queue" /\ lock = NoTask
  /\ \/ /\ Conn
        /\ ConnectReturnsTrue(t)
        /\ UNCHANGED <<impl, woken>>
     \/ /\ ~Conn
        /\ lock' = t /\ stage' = "establish" /\ attempt' = 1
        /\ pc' = [u \in Tasks |-> IF u = t THEN "connect"
                                  ELSE IF u = Reconnect THEN "done" ELSE pc[u]]
        /\ woken' = IF t = Reconnect THEN woken ELSE woken \ {Reconnect}
        /\ UNCHANGED <<tmp, reply, polling, link>>
  /\ UNCHANGED <<flags, failures, closers, env>>

-----------------------------------------------------------------------------
(* _connect_impl, run by the holder of the lock *)

\* Mutant: the client is forgotten and never disconnected.
DropClientOnly == client' = NoLink /\ AttemptFailed /\ UNCHANGED tmp

\* _safe_disconnect in a failed attempt: the client is forgotten first.
DropClient ==
  IF client = NoLink
  THEN AttemptFailed /\ UNCHANGED <<client, tmp>>
  ELSE /\ tmp' = client /\ client' = NoLink /\ stage' = "drop"
       /\ UNCHANGED <<lock, attempt, pc, woken, failures, closer>>

\* The except clause of _connect_impl: a write raised BleakError.
Abort ==
  /\ connected' = FALSE
  /\ IF client = NoLink
     THEN ConnectReturnsFalse /\ UNCHANGED <<client, tmp>>
     ELSE /\ tmp' = client /\ client' = NoLink /\ stage' = "abort"
          /\ UNCHANGED <<lock, attempt, pc, woken, failures, closer>>

EstablishFails ==
  /\ stage = "establish" /\ (calm => ~Accepting)
  /\ client' = NoLink
  /\ AttemptFailed
  /\ UNCHANGED <<connected, auto, disconnecting, lastCb, tmp, reply, polling,
                 closing, link, env>>

EstablishSucceeds ==
  /\ stage = "establish" /\ Accepting
  /\ \E l \in FreeLinks :
       client' = l /\ link' = [link EXCEPT ![l] = "up"]
  /\ stage' = "notify"
  /\ UNCHANGED <<connected, auto, disconnecting, lastCb, failures, lock,
                 attempt, tmp, reply, loops, polling, closers, env>>

NotifyFails ==
  /\ stage = "notify" /\ (calm => ~Alive(client))
  /\ DropClient
  /\ UNCHANGED <<connected, auto, disconnecting, lastCb, reply, polling,
                 closing, link, env>>

\* perform_handshake writes the HU challenge.
SendChallenge ==
  /\ stage = "notify" /\ IsConnected(client)
  /\ stage' = "handshake" /\ reply' = FALSE
  /\ UNCHANGED <<flags, failures, lock, attempt, tmp, loops, polling, closers,
                 link, env>>

\* _handle_handshake_response stores the key and sets _handshake_done.
HandshakeReply ==
  /\ stage = "handshake" /\ Alive(client) /\ ~reply
  /\ reply' = TRUE
  /\ UNCHANGED <<flags, failures, lock, stage, attempt, tmp, loops, polling,
                 closers, link, env>>

\* perform_handshake resumes and returns True.
HandshakeSucceeds ==
  /\ stage = "handshake" /\ reply
  /\ connected' = TRUE /\ failures' = 0 /\ stage' = "reads" /\ reply' = FALSE
  /\ UNCHANGED <<client, auto, disconnecting, lastCb, lock, attempt, tmp, loops,
                 polling, closers, link, env>>

\* It times out, or the response does not verify.
HandshakeFails ==
  /\ stage = "handshake" /\ (calm => ~reply /\ ~Alive(client))
  /\ reply' = FALSE
  /\ DropClient
  /\ UNCHANGED <<connected, auto, disconnecting, lastCb, polling, closing,
                 link, env>>

\* The disconnect of _safe_disconnect returns; the next attempt starts.
DropDone ==
  /\ stage = "drop"
  /\ link' = Freed({tmp}) /\ tmp' = NoLink
  /\ AttemptFailed
  /\ UNCHANGED <<flags, reply, polling, closing, env>>

\* _try_unpair, on a link that never becomes _client.
UnpairConnects ==
  /\ stage = "unpair" /\ Accepting
  /\ \E l \in FreeLinks :
       tmp' = l /\ link' = [link EXCEPT ![l] = "up"]
  /\ stage' = "unpairing"
  /\ UNCHANGED <<flags, failures, lock, attempt, reply, loops, polling, closers,
                 env>>

UnpairDone ==
  /\ \/ stage = "unpair"
     \/ stage = "unpairing"
  /\ link' = Freed({tmp}) /\ tmp' = NoLink
  /\ stage' = "establish" /\ attempt' = 3
  /\ UNCHANGED <<flags, failures, lock, reply, loops, polling, closers, env>>

\* A write of the handshake or of a later read raises BleakError.
WriteRaises ==
  /\ stage \in {"notify", "reads"} /\ (calm => ~IsConnected(client))
  /\ Abort
  /\ UNCHANGED <<auto, disconnecting, lastCb, reply, polling, closing, link, env>>

AbortDone ==
  /\ stage = "abort"
  /\ link' = Freed({tmp}) /\ tmp' = NoLink
  /\ ConnectReturnsFalse
  /\ UNCHANGED <<flags, reply, polling, closing, env>>

\* Version, serial, DIS and features are read; the HR of the type is written.
\* A missing answer to any of them is None, not an error.
ReadType ==
  /\ stage = "reads" /\ IsConnected(client)
  /\ stage' = "lastRead"
  /\ UNCHANGED <<flags, failures, lock, attempt, tmp, reply, loops, polling,
                 closers, link, env>>

\* The type arrives or times out: the callbacks hear True, connect() returns.
Announce ==
  /\ stage = "lastRead"
  /\ lastCb' = TRUE
  /\ lock' = NoTask /\ stage' = "idle" /\ attempt' = 1
  /\ ConnectReturnsTrue(lock)
  /\ UNCHANGED <<connected, client, auto, disconnecting, failures, tmp, reply,
                 woken, closers, env>>

-----------------------------------------------------------------------------
(* _poll_loop *)

PollExits ==
  /\ poll = "on" /\ ~Conn
  /\ poll' = "off"
  /\ UNCHANGED <<flags, failures, impl, loops, errors, pollLink, closers, link,
                 env>>

\* poll_status returns, with a status or, after a timeout, with None.
PollReturns ==
  /\ poll = "on" /\ Conn /\ errors # 0
  /\ errors' = 0
  /\ UNCHANGED <<flags, failures, impl, loops, poll, pollLink, closers, link,
                 env>>

\* Mutant: one error too many is tolerated.
PollRaisesLate ==
  /\ poll = "on" /\ Conn /\ ~calm
  /\ errors' = errors + 1
  /\ IF errors < MaxErrors
     THEN UNCHANGED <<connected, client, poll, pollLink>>
     ELSE /\ connected' = FALSE /\ client' = NoLink
          /\ poll' = "closing" /\ pollLink' = client
  /\ UNCHANGED <<auto, disconnecting, lastCb, failures, impl, loops, closers,
                 link, env>>

\* The write of a poll raises BleakError; the last one forces a disconnect.
PollRaises ==
  /\ poll = "on" /\ Conn /\ ~calm
  /\ errors' = errors + 1
  /\ IF errors + 1 < MaxErrors
     THEN UNCHANGED <<connected, client, poll, pollLink>>
     ELSE /\ connected' = FALSE /\ client' = NoLink
          /\ poll' = "closing" /\ pollLink' = client
  /\ UNCHANGED <<auto, disconnecting, lastCb, failures, impl, loops, closers,
                 link, env>>

\* Mutant: a forced disconnect schedules no reconnect.
PollClosesForGood ==
  /\ poll = "closing"
  /\ link' = Freed({pollLink}) /\ pollLink' = NoLink /\ poll' = "off"
  /\ lastCb' = FALSE
  /\ UNCHANGED <<connected, client, auto, disconnecting, failures, impl, loops,
                 errors, closers, env>>

\* The rest of a forced disconnect.
PollCloses ==
  /\ poll = "closing"
  /\ link' = Freed({pollLink}) /\ pollLink' = NoLink /\ poll' = "off"
  /\ lastCb' = FALSE
  /\ pc' = IF auto THEN Scheduled(pc) ELSE pc
  /\ UNCHANGED <<connected, client, auto, disconnecting, failures, impl, woken,
                 errors, closers, env>>

-----------------------------------------------------------------------------
(* disconnect() and its two callers *)

\* What the caller does when disconnect() has returned: the rest of the unload,
\* or the proxy's services, or at once the re-arming of the reconnect loop.
AfterDisconnect(c) ==
  \/ /\ c = Repair
     /\ auto' = TRUE /\ woken' = Waiters(pc) \ {Reconnect}
     /\ pc' = [pc EXCEPT ![Reconnect] = "start"]
     /\ closer' = [closer EXCEPT ![c] = "idle"]
  \/ /\ c = Unload \/ HasProxy
     /\ auto' = FALSE /\ woken' = woken \ {Reconnect}
     /\ pc' = [pc EXCEPT ![Reconnect] = "done"]
     /\ closer' = [closer EXCEPT ![c] = "after"]

\* disconnect() up to its await, and beyond it when there is no client.  The
\* reconnect task dies where it is, with whatever it was closing or unpairing.
BeginDisconnect(c) ==
  /\ connected' = FALSE /\ client' = NoLink
  /\ poll' = "off" /\ pollLink' = NoLink
  /\ IF lock = Reconnect
     THEN /\ lock' = NoTask /\ stage' = "idle" /\ attempt' = 1
          /\ tmp' = NoLink /\ reply' = FALSE
          /\ link' = Freed({tmp, pollLink})
     ELSE UNCHANGED impl /\ link' = Freed({pollLink})
  /\ IF client = NoLink
     THEN /\ disconnecting' = FALSE
          /\ AfterDisconnect(c)
          /\ UNCHANGED closing
     ELSE /\ disconnecting' = TRUE /\ auto' = FALSE
          /\ closing' = [closing EXCEPT ![c] = client]
          /\ closer' = [closer EXCEPT ![c] = "disc"]
          /\ pc' = [pc EXCEPT ![Reconnect] = "done"]
          /\ woken' = woken \ {Reconnect}
  /\ UNCHANGED <<lastCb, failures, errors, env>>

\* Mutant: a repair leaves reconnecting switched off.
EndDisconnectUnarmed(c) ==
  /\ closer[c] = "disc"
  /\ link' = Freed({closing[c]}) /\ closing' = [closing EXCEPT ![c] = NoLink]
  /\ disconnecting' = FALSE
  /\ closer' = [closer EXCEPT ![c] = IF c = Repair THEN "idle" ELSE "after"]
  /\ UNCHANGED <<connected, client, auto, lastCb, failures, impl, loops, polling,
                 env>>

\* client.disconnect() returns or raises; either way the link is gone.
EndDisconnect(c) ==
  /\ closer[c] = "disc"
  /\ link' = Freed({closing[c]}) /\ closing' = [closing EXCEPT ![c] = NoLink]
  /\ disconnecting' = FALSE
  /\ \/ /\ c = Repair
        /\ auto' = TRUE /\ woken' = Waiters(pc) /\ pc' = Scheduled(pc)
        /\ closer' = [closer EXCEPT ![c] = "idle"]
     \/ /\ c = Unload \/ HasProxy
        /\ closer' = [closer EXCEPT ![c] = "after"]
        /\ UNCHANGED <<auto, loops>>
  /\ UNCHANGED <<connected, client, lastCb, failures, impl, polling, env>>

UnloadStarts == closer[Unload] = "idle" /\ BeginDisconnect(Unload)

\* A user's repair_connection: runtime_data is still there while loaded.
RepairRequested ==
  /\ closer[Repair] = "idle" /\ Loaded /\ ~calm
  /\ closer' = [closer EXCEPT ![Repair] = "start"]
  /\ UNCHANGED <<flags, failures, impl, loops, polling, closing, link, env>>

\* The repair task runs; once the entry is unloaded it finds no runtime_data.
RepairStarts ==
  /\ closer[Repair] = "start"
  /\ \/ Loaded /\ BeginDisconnect(Repair)
     \/ /\ ~Loaded
        /\ closer' = [closer EXCEPT ![Repair] = "idle"]
        /\ UNCHANGED <<flags, failures, impl, loops, polling, closing, link, env>>

\* The proxy's services have been called: re-arm the reconnect loop.
RepairRearms ==
  /\ closer[Repair] = "after"
  /\ auto' = TRUE /\ woken' = Waiters(pc) /\ pc' = Scheduled(pc)
  /\ closer' = [closer EXCEPT ![Repair] = "idle"]
  /\ UNCHANGED <<connected, client, disconnecting, lastCb, failures, impl,
                 polling, closing, link, env>>

\* The entry's on_unload callbacks: no more advertisements, no more presence
\* or repair callback, and the initial task is cancelled wherever it is.
UnloadEnds ==
  /\ closer[Unload] = "after"
  /\ closer' = [closer EXCEPT ![Unload] = "gone"]
  /\ pc' = [pc EXCEPT ![Initial] = "done"]
  /\ woken' = woken \ {Initial}
  /\ IF lock = Initial
     THEN /\ lock' = NoTask /\ stage' = "idle" /\ attempt' = 1
          /\ tmp' = NoLink /\ reply' = FALSE /\ link' = Freed({tmp})
     ELSE UNCHANGED <<impl, link>>
  /\ UNCHANGED <<flags, failures, polling, closing, env>>

-----------------------------------------------------------------------------
(* The machine and the radio *)

\* A link ends and bleak calls its disconnected_callback.
LinkDrops ==
  /\ \E l \in Links :
       /\ link[l] \in IF calm THEN {"silent"} ELSE {"up", "silent"}
       /\ link' = [link EXCEPT ![l] = "free"]
       /\ OnDisconnect(l)
  /\ UNCHANGED <<auto, disconnecting, failures, impl, woken, polling, closers,
                 env>>

\* The machine goes away; nothing here notices yet.
PowerOff ==
  /\ on /\ ~calm
  /\ on' = FALSE
  /\ link' = [l \in Links |-> IF link[l] = "up" THEN "silent" ELSE link[l]]
  /\ UNCHANGED <<flags, failures, impl, loops, polling, closers, present, calm>>

PowerOn ==
  /\ ~on
  /\ on' = TRUE
  /\ UNCHANGED <<flags, failures, impl, loops, polling, closers, link, present,
                 calm>>

\* Home Assistant sees an advertisement: set_ble_device.
Advertise ==
  /\ Accepting /\ Loaded
  /\ present' = TRUE
  /\ IF ~connected /\ auto
     THEN woken' = Waiters(pc) /\ pc' = Scheduled(pc)
     ELSE UNCHANGED loops
  /\ UNCHANGED <<flags, failures, impl, polling, closers, link, on, calm>>

\* Home Assistant has not seen the device for a while.
PresenceExpires ==
  /\ present /\ ~Accepting /\ ~calm
  /\ present' = FALSE
  /\ UNCHANGED <<flags, failures, impl, loops, polling, closers, link, on, calm>>

CalmBegins ==
  /\ ~calm /\ on /\ present
  /\ calm' = TRUE
  /\ UNCHANGED <<flags, failures, impl, loops, polling, closers, link, on,
                 present>>

-----------------------------------------------------------------------------
InitialStep   == InitialStarts \/ InitialWakes
ReconnectStep == ReconnectStarts \/ ReconnectWakes

ImplStep ==
  \/ EstablishFails \/ EstablishSucceeds
  \/ NotifyFails \/ SendChallenge
  \/ HandshakeSucceeds \/ HandshakeFails \/ DropDone
  \/ UnpairConnects \/ UnpairDone
  \/ WriteRaises \/ AbortDone
  \/ ReadType \/ Announce

\* What the poll task does whatever the writes do.
PollStep == PollExits \/ PollReturns \/ PollCloses

UnloadStep == EndDisconnect(Unload) \/ UnloadEnds
RepairStep == RepairStarts \/ EndDisconnect(Repair) \/ RepairRearms

Users == UnloadStarts \/ RepairRequested

Environment ==
  \/ LinkDrops \/ PowerOff \/ PowerOn \/ Advertise \/ PresenceExpires
  \/ CalmBegins

Next ==
  \/ InitialStep \/ ReconnectStep
  \/ \E t \in Tasks : Acquire(t)
  \/ ImplStep \/ HandshakeReply
  \/ PollStep \/ PollRaises
  \/ UnloadStep \/ RepairStep
  \/ Users
  \/ Environment

Spec == Init /\ [][Next]_vars

\* Every timer fires and every await the code makes ends, by an answer or by
\* its timeout; asyncio.Lock is first come first served; in a calm
\* environment the machine answers.  Users and the radio owe nothing.
Fairness ==
  /\ WF_vars(InitialStep) /\ WF_vars(ReconnectStep)
  /\ \A t \in Tasks : SF_vars(Acquire(t))
  /\ WF_vars(ImplStep) /\ WF_vars(HandshakeReply)
  /\ WF_vars(PollStep)
  /\ WF_vars(UnloadStep) /\ WF_vars(RepairStep)

FairSpec == Spec /\ Fairness

-----------------------------------------------------------------------------
(* Safety.  Unloading cancels tasks wherever they are; these are about the    *)
(* entry while it is loaded, however repairs and lost links interleave.       *)

\* No link leaks: while the entry is loaded, every link that is still up here
\* belongs to someone who will use it or close it.  The machine accepts one
\* connection at a time, so a forgotten BleakClient would lock everybody out.
LinkOwned ==
  Loaded => \A l \in Links : IsConnected(l) =>
    \/ l = client /\ (connected \/ lock # NoTask)
    \/ l = tmp /\ lock # NoTask
    \/ l = pollLink /\ poll = "closing"
    \/ \E c \in Closers : l = closing[c] /\ closer[c] = "disc"

\* A connected session nobody is connecting any more is polled, whichever loop
\* made it and whatever poll loop was still closing the link before it.
SessionPolled == Loaded /\ Conn /\ lock = NoTask => poll = "on"

\* The entities were told of it: the last thing the connection callbacks heard
\* is True.  A late False of the link before would leave them unavailable.
SessionAnnounced == Loaded /\ Conn /\ lock = NoTask => lastCb

\* An outage the entities were told of is somebody's work: one of the loops
\* that call connect() is alive as long as reconnecting is enabled.
OutageArmed ==
  Loaded /\ auto /\ ~lastCb => \E t \in Tasks : pc[t] # "done"

-----------------------------------------------------------------------------
(* The inductive invariant: why the four hold together *)

\* _connect_lock is held exactly while its holder is inside _connect_impl.
LockHeld ==
  /\ stage = "idle" <=> lock = NoTask
  /\ \A t \in Tasks : pc[t] = "connect" <=> lock = t

\* _safe_disconnect and the unpairing leave no client behind them.
ClientForgotten ==
  stage \in {"drop", "unpair", "unpairing", "abort"} => client = NoLink

\* No attempt starts over a link that is still connected here.
NothingToOverwrite == Loaded /\ stage = "establish" => ~IsConnected(client)

\* Whoever closes a link, or unpairs it, it is not _client.
OneOwner ==
  client # NoLink =>
    client \notin {tmp, pollLink} \cup {closing[c] : c \in Closers}

\* While the post-handshake reads go on, _connected is lost only with _client.
ReadsConnected == stage \in {"reads", "lastRead"} => connected \/ client = NoLink

\* A link is being closed or unpaired only at the awaits that do so.
TmpInUse == tmp # NoLink => stage \in {"drop", "unpairing", "abort"}

IInv ==
  /\ TypeOK
  /\ LockHeld /\ ClientForgotten /\ NothingToOverwrite /\ OneOwner
  /\ ReadsConnected /\ TmpInUse
  /\ LinkOwned /\ SessionPolled /\ SessionAnnounced /\ OutageArmed

-----------------------------------------------------------------------------
(* Liveness *)

\* Such an outage is retried: a connection attempt starts, unless reconnecting
\* is switched off, the machine is not there, a repair is in progress or the
\* entry goes away.
OutageRetried ==
  (Loaded /\ auto /\ ~lastCb)
    ~> \/ lock # NoTask \/ lastCb
       \/ ~auto \/ ~present \/ closer[Repair] # "idle" \/ ~Loaded

\* Once the machine stays on and the radio loses nothing more, an outage ends
\* in a connection, whatever state lost links and repairs have left behind.
CalmRecovers ==
  (calm /\ ~lastCb /\ lock = NoTask /\ closer[Unload] = "idle")
    ~> (Conn \/ closer[Unload] # "idle")

-----------------------------------------------------------------------------
(* What the documentation says and the code does not do *)

\* BLE_ARCHITECTURE.md:188: Disconnected --> ReconnectLoop.
DisconnectedIsArmed ==
  Loaded /\ auto /\ ~connected =>
    poll = "closing" \/ \E t \in Tasks : pc[t] # "done"

\* BLE_ARCHITECTURE.md:196: after the shutdown _auto_reconnect is False.
ShutdownIsFinal == ~Loaded => ~auto

\* CHANGELOG.md:2115-2119, README.md:149: unloading stops the connect task and
\* leaves the machine's only connection to others.
UnloadReleasesMachine ==
  ~Loaded /\ ~auto /\ closer[Repair] = "idle" => \A l \in Links : link[l] # "up"

\* CHANGELOG.md:2121: a link that is dead without a disconnect callback is
\* detected by the poll loop and ends.
ZombieEnds ==
  (Loaded /\ Conn /\ link[client] = "silent" /\ lock = NoTask)
    ~> ~(Conn /\ link[client] = "silent")
=============================================================================
