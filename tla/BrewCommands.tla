---------------------------- MODULE BrewCommands ----------------------------
(***************************************************************************)
(* The commands that hold _brew_lock (_ble_commands.py, _ble_settings.py): *)
(* a brew with overrides, which fills the machine's one temporary recipe   *)
(* register by register and then starts it; a brew of a saved recipe; and  *)
(* write_alpha, which only borrows the lock and the pause in polling.      *)
(*                                                                         *)
(* Their calls go through the request layer, of which MachineCalls is all  *)
(* that is assumed.  A register is identified with the brew that wrote it: *)
(* what a brew that has ended, or the factory, left there is Old.          *)
(***************************************************************************)
EXTENDS Naturals

CONSTANTS
  Tasks,         \* button presses and service calls
  NoTask,
  TypeRegister,  \* temp_recipe_type_register
  Fields,        \* the registers of the override fields of the family
  Text,          \* a value id of write_alpha
  Retries        \* attempts of send_and_wait_ack

Temp  == "temp"   \* mode byte of HE: 1, use the temporary recipe
Saved == "saved"  \* 0, use the recipe the machine has saved
NoArg == "noArg"
Old   == "old"

Registers == {TypeRegister} \cup Fields

ASSUME BrewAssumption ==
  /\ NoTask \notin Tasks /\ Old \notin Tasks
  /\ TypeRegister \notin Fields
  /\ Registers \cap {Text, Temp, Saved, NoArg} = {} /\ Text \notin {Temp, Saved}
  /\ Retries \in Nat \ {0}

VARIABLES
  link,       \* "down", "connecting" (_connected, connect() has not returned)
              \* or "up" (its caller has started polling)
  ready,      \* _is_brew_ready(): the last HX status allows a brew
  polling,    \* _poll_task is running
  brewLock,   \* the holder of _brew_lock
  pc,         \* where each task is
  mode,       \* whether its brew uses the temporary recipe
  overrides,  \* the fields it overrides
  todo,       \* of these, the ones still to write
  failed,     \* the registers whose write has failed: a warning
  unbroken,   \* no link has been lost since it began
  wasPolling, \* was_polling of write_alpha
  slot,       \* who wrote each register of the temporary recipe
  call, done, result  \* see MachineCalls

Request == INSTANCE MachineCalls WITH
  Writes <- {"HW", "HE", "HB"}, Reads <- {},
  Args <- Registers \cup {Temp, Saved, Text}

client  == <<link, ready, polling>>
brew    == <<mode, overrides, todo, failed, unbroken, wasPolling>>
request == <<call, done, result>>
vars    == <<client, brewLock, pc, brew, slot, request>>

Calls == [op : {"none", "HW", "HE", "HB"},
          arg : Registers \cup {Temp, Saved, Text, NoArg}]

\* "sleep" is the pause after each write of a brew.
TypeOK ==
  /\ link \in {"down", "connecting", "up"}
  /\ ready \in BOOLEAN /\ polling \in BOOLEAN
  /\ brewLock \in Tasks \cup {NoTask}
  /\ pc \in [Tasks -> {"idle", "write", "sleep", "start", "edit"}]
  /\ mode \in [Tasks -> {Temp, Saved}]
  /\ overrides \in [Tasks -> SUBSET Fields] /\ todo \in [Tasks -> SUBSET Fields]
  /\ failed \in [Tasks -> SUBSET Registers]
  /\ unbroken \in [Tasks -> BOOLEAN] /\ wasPolling \in [Tasks -> BOOLEAN]
  /\ slot \in [Registers -> Tasks \cup {Old}]
  /\ call \in [Tasks -> Calls] /\ done \in [Tasks -> Nat]
  /\ \A t \in Tasks :
       pc[t] \in {"write", "start", "edit"} <=> call[t] # Request!NoCall

Init ==
  /\ link = "down" /\ ready = TRUE /\ polling = FALSE
  /\ brewLock = NoTask
  /\ pc = [t \in Tasks |-> "idle"]
  /\ mode = [t \in Tasks |-> Saved]
  /\ overrides = [t \in Tasks |-> {}] /\ todo = [t \in Tasks |-> {}]
  /\ failed = [t \in Tasks |-> {}]
  /\ unbroken = [t \in Tasks |-> TRUE]
  /\ wasPolling = [t \in Tasks |-> FALSE]
  /\ slot = [r \in Registers |-> Old]
  /\ Request!Init

-----------------------------------------------------------------------------
(* The commands *)

Connected == link # "down"

\* A task goes to p and calls the request layer there.
CallAt(t, p, op, arg) ==
  /\ pc' = [pc EXCEPT ![t] = p]
  /\ Request!Begin(t, op, arg)

\* Mutant: nobody tests locked().
EnterUnlocked(t) ==
  /\ pc[t] = "idle" /\ Connected
  /\ brewLock' = t /\ polling' = FALSE

\* The gate of every brew: locked(), connected and _is_brew_ready are tested
\* and the lock is taken without an await in between.
Enter(t) ==
  /\ pc[t] = "idle" /\ brewLock = NoTask /\ Connected
  /\ brewLock' = t /\ polling' = FALSE

\* brew_nivona with overrides, some of which may have no value or no register
\* with this family: announce the recipe type first.
BrewTemp(t) ==
  /\ Enter(t) /\ ready
  /\ mode' = [mode EXCEPT ![t] = Temp]
  /\ \E fields \in SUBSET Fields :
       /\ overrides' = [overrides EXCEPT ![t] = fields]
       /\ todo' = [todo EXCEPT ![t] = fields]
  /\ CallAt(t, "write", "HW", TypeRegister)
  /\ UNCHANGED <<link, ready, failed, unbroken, wasPolling, slot>>

\* brew_nivona without overrides, brew_mycoffee_slot.
BrewSaved(t) ==
  /\ Enter(t) /\ ready
  /\ CallAt(t, "start", "HE", Saved)
  /\ UNCHANGED <<link, ready, brew, slot>>

\* Mutant: was_polling is read after polling has been stopped.
WriteAlphaReadLate(t) ==
  /\ Enter(t)
  /\ wasPolling' = [wasPolling EXCEPT ![t] = FALSE]
  /\ CallAt(t, "edit", "HB", Text)
  /\ UNCHANGED <<link, ready, mode, overrides, todo, failed, unbroken, slot>>

WriteAlpha(t) ==
  /\ Enter(t)
  /\ wasPolling' = [wasPolling EXCEPT ![t] = polling]
  /\ CallAt(t, "edit", "HB", Text)
  /\ UNCHANGED <<link, ready, mode, overrides, todo, failed, unbroken, slot>>

\* Mutant: a write that fails goes unnoticed.
WrittenSilently(t) ==
  /\ pc[t] = "write"
  /\ pc' = [pc EXCEPT ![t] = "sleep"]
  /\ \E o \in {"true", "false"} : Request!End(t, o)
  /\ UNCHANGED <<client, brewLock, brew, slot>>

\* One register written, or its write given up: a failure is only logged.
Written(t) ==
  /\ pc[t] = "write"
  /\ pc' = [pc EXCEPT ![t] = "sleep"]
  /\ \/ Request!End(t, "true") /\ UNCHANGED failed
     \/ /\ Request!End(t, "false")
        /\ failed' = [failed EXCEPT ![t] = @ \cup {call[t].arg}]
  /\ UNCHANGED <<client, brewLock, mode, overrides, todo, unbroken, wasPolling,
                 slot>>

\* Mutant: a register is written again and again.
WriteNextAgain(t) ==
  /\ pc[t] = "sleep"
  /\ \E r \in todo[t] : CallAt(t, "write", "HW", r)
  /\ UNCHANGED <<client, brewLock, brew, slot>>

WriteNext(t) ==
  /\ pc[t] = "sleep"
  /\ \E r \in todo[t] :
       /\ todo' = [todo EXCEPT ![t] = @ \ {r}]
       /\ CallAt(t, "write", "HW", r)
  /\ UNCHANGED <<client, brewLock, mode, overrides, failed, unbroken, wasPolling,
                 slot>>

StartProcess(t) ==
  /\ pc[t] = "sleep" /\ todo[t] = {}
  /\ CallAt(t, "start", "HE", Temp)
  /\ UNCHANGED <<client, brewLock, brew, slot>>

\* The finally clauses: a brew resumes polling whenever it is connected,
\* write_alpha only what it has stopped.  What is left of a brew is Old, and
\* its locals are gone.
Leave(t) ==
  /\ pc' = [pc EXCEPT ![t] = "idle"]
  /\ brewLock' = NoTask
  /\ polling' = (polling \/ (Connected /\ (pc[t] = "edit" => wasPolling[t])))
  /\ slot' = [r \in Registers |-> IF slot[r] = t THEN Old ELSE slot[r]]
  /\ mode' = [mode EXCEPT ![t] = Saved]
  /\ overrides' = [overrides EXCEPT ![t] = {}]
  /\ todo' = [todo EXCEPT ![t] = {}]
  /\ failed' = [failed EXCEPT ![t] = {}]
  /\ unbroken' = [unbroken EXCEPT ![t] = TRUE]
  /\ wasPolling' = [wasPolling EXCEPT ![t] = FALSE]
  /\ UNCHANGED <<link, ready>>

\* HE or HB has returned, or a write has raised (or been cancelled).
Finish(t) ==
  /\ pc[t] \in {"write", "start", "edit"}
  /\ \E o \in {"true", "false", "raised", "cancelled"} :
       /\ pc[t] = "write" => o \in {"raised", "cancelled"}
       /\ Request!End(t, o)
  /\ Leave(t)

\* Mutant: a task that leaves does not wait for its call.
CancelledAnywhere(t) ==
  /\ pc[t] # "idle" /\ Leave(t)
  /\ UNCHANGED request

\* The task is cancelled while it sleeps.
Cancelled(t) ==
  /\ pc[t] = "sleep" /\ Leave(t)
  /\ UNCHANGED request

-----------------------------------------------------------------------------
(* The machine, the link, and the loops of the connection manager *)

CarryOut(t) ==
  /\ Request!CarryOut(t)
  /\ slot' = IF call[t].op = "HW" THEN [slot EXCEPT ![call[t].arg] = t] ELSE slot
  /\ UNCHANGED <<client, brewLock, pc, brew>>

LinkMade ==
  /\ link = "down" /\ link' = "connecting"
  /\ UNCHANGED <<ready, polling, brewLock, pc, brew, slot, request>>

\* connect() has returned True and its caller starts polling.
ConnectReturns ==
  /\ link = "connecting" /\ link' = "up" /\ polling' = TRUE
  /\ UNCHANGED <<ready, brewLock, pc, brew, slot, request>>

\* The machine may have lost its power with the link, and its registers.
LinkLost ==
  /\ Connected /\ link' = "down"
  /\ unbroken' = [t \in Tasks |-> unbroken[t] /\ brewLock # t]
  /\ slot' \in {slot, [r \in Registers |-> Old]}
  /\ UNCHANGED <<ready, polling, brewLock, pc, mode, overrides, todo, failed,
                 wasPolling, request>>

\* The poll loop finds that _connected is False.
PollExits ==
  /\ polling /\ ~Connected /\ polling' = FALSE
  /\ UNCHANGED <<link, ready, brewLock, pc, brew, slot, request>>

\* An HX frame, polled for or late: _on_status replaces _status.
StatusArrives ==
  /\ Connected /\ ready' \in BOOLEAN
  /\ UNCHANGED <<link, polling, brewLock, pc, brew, slot, request>>

-----------------------------------------------------------------------------

Begins(t) == BrewTemp(t) \/ BrewSaved(t) \/ WriteAlpha(t)
Steps(t)  == Written(t) \/ WriteNext(t) \/ StartProcess(t) \/ Finish(t)

Next ==
  \/ \E t \in Tasks : Begins(t) \/ Steps(t) \/ Cancelled(t) \/ CarryOut(t)
  \/ LinkMade \/ ConnectReturns \/ LinkLost \/ PollExits \/ StatusArrives

Spec == Init /\ [][Next]_vars

\* Every call ends (CallEnds of EugsterProtocol) and every sleep does.
FairSpec == Spec /\ \A t \in Tasks : WF_vars(Steps(t))

-----------------------------------------------------------------------------
(* Properties *)

\* Once a brew asks the machine to start from the temporary recipe, every
\* register of it holds what this brew wrote.  Where it has no override, a
\* write failed, or the link was lost on the way, it may be what an earlier
\* brew left, but never what another brew under way has put there.
OwnRecipe ==
  \A t \in Tasks : pc[t] = "start" /\ mode[t] = Temp =>
    \A r \in Registers :
      \/ slot[r] = t
      \/ slot[r] = Old
         /\ (r \in failed[t] \/ r \in Fields \ overrides[t] \/ ~unbroken[t])

\* Whatever order reconnects and commands stop and start polling in, a session
\* nobody is brewing on is polled.
PollingResumes == link = "up" /\ brewLock = NoTask => polling

\* A brew or an edit does not hold _brew_lock for ever: all others are refused
\* while it does.
BrewEnds == \A t \in Tasks : brewLock = t ~> brewLock # t

-----------------------------------------------------------------------------
(* The inductive invariant *)

\* Only the holder of _brew_lock is in a command.
LockHeld == \A t \in Tasks : brewLock = t <=> pc[t] # "idle"

\* What each task waits for is what it has asked for.
CallsFit ==
  \A t \in Tasks :
    /\ pc[t] = "write" => call[t].op = "HW" /\ call[t].arg \in Registers
    /\ pc[t] = "start" => call[t].op = "HE" /\ todo[t] = {}
    /\ pc[t] = "edit" => call[t].op = "HB"
    /\ pc[t] \in {"write", "sleep"} => mode[t] = Temp
    /\ pc[t] = "idle" => mode[t] = Saved /\ todo[t] = {}
    /\ call[t] = Request!NoCall => done[t] = 0

\* Nobody but the brew under way has written to the temporary recipe, unless
\* it is over.
SlotInUse == \A r \in Registers : slot[r] \in {Old, brewLock}

\* A register the machine has been told to write holds what it was told.
CarriedOut ==
  \A t \in Tasks : pc[t] = "write" /\ done[t] > 0 /\ unbroken[t] =>
    slot[call[t].arg] = t

\* Every override is in its register, being written, still to be written, or
\* excused.
Accounted ==
  \A t \in Tasks : pc[t] # "idle" /\ mode[t] = Temp /\ unbroken[t] =>
    \A r \in Registers :
      \/ slot[r] = t
      \/ r \in todo[t] \/ r \in failed[t] \/ r \in Fields \ overrides[t]
      \/ pc[t] = "write" /\ call[t].arg = r

\* An edit that has stopped the polling of a session remembers it.
PollingDue ==
  link = "up" =>
    /\ brewLock = NoTask => polling
    /\ \A t \in Tasks : pc[t] = "edit" => polling \/ wasPolling[t]

IInv ==
  /\ TypeOK /\ LockHeld /\ CallsFit /\ SlotInUse /\ CarriedOut /\ Accounted
  /\ PollingDue

-----------------------------------------------------------------------------
(* What the documentation says and the code does not do *)

\* brew_nivona (_ble_commands.py:109-111): "each override is written via HW to
\* the per-family temporary-recipe register BEFORE the HE start_process".
OverridesFirst ==
  \A t \in Tasks : pc[t] = "start" /\ mode[t] = Temp /\ unbroken[t] =>
    \A r \in overrides[t] : slot[r] = t
=============================================================================
