---------------------------- MODULE LinkServices ----------------------------
(* What runs on a session of its own accord: auto-confirm, which answers the *)
(* machine's soft prompts, and the clock coordinator, which sets its clock   *)
(* on reconnects and once a day.  Both work from reports and readings that   *)
(* may be out of date when they act on them, in tasks that outlive the link. *)
EXTENDS Naturals, Sequences

CONSTANTS
  Soft, Hard,   \* prompts (Manipulation) that are confirmed, and that are not
  NoPrompt,     \* Manipulation.NONE
  Daily,        \* the daily clock synchronisation
  Reconnects,   \* bound: synchronisations after a reconnect that may run at once
  MaxConfirms   \* bound: confirmations under way

ASSUME PromptsAssumption == NoPrompt \notin Soft \cup Hard /\ Soft \cap Hard = {}
ASSUME SyncsAssumption == Daily \notin Reconnects

Syncs == Reconnects \cup {Daily}

Prompts == Soft \cup Hard \cup {NoPrompt}

VARIABLES
  connected,  \* the session is up
  shown,      \* the prompt the machine shows
  report,     \* prompts in status frames under way, at most one
  status,     \* _status.manipulation
  last,       \* _last_auto_confirmed
  confirms,   \* auto-confirm tasks in the order they wait for the protocol
  asked,      \* ghost: confirmations begun since status last changed
  begun,      \* ghost: tasks in confirms begun since shown last changed
  tried,      \* ghost: one of them, begun for the prompt shown, has ended
  clock,      \* the machine's clock: "right", or "off" by the threshold
  lastSync,   \* _last_sync: "never", "recent" (within the throttle) or "old"
  sync        \* per synchronisation: the await it is at, or "idle"

promptVars == <<shown, report, status, last, confirms, asked, begun, tried>>
clockVars == <<clock, lastSync, sync>>
vars == <<connected, promptVars, clockVars>>

Init ==
  /\ connected = FALSE
  /\ shown \in Prompts /\ report = <<>> /\ status = NoPrompt /\ last = NoPrompt
  /\ confirms = <<>> /\ asked = 0 /\ begun = 0 /\ tried = FALSE
  /\ clock \in {"right", "off"} /\ lastSync = "never"
  /\ sync = [s \in Syncs |-> "idle"]

-----------------------------------------------------------------------------
(* The machine raises, changes or withdraws a prompt; a poll has it report.  *)
MachineShows(p) ==
  /\ p # shown
  /\ shown' = p
  /\ begun' = 0 /\ tried' = FALSE
  /\ UNCHANGED <<connected, report, status, last, confirms, asked, clockVars>>

MachineReports ==
  /\ connected /\ report = <<>>
  /\ report' = <<shown>>
  /\ UNCHANGED <<connected, shown, status, last, confirms, asked, begun, tried,
                 clockVars>>

(* Mutants: a confirmed prompt is not remembered; one that clears is.        *)
DebounceNever(p) == IF p \in Soft THEN last ELSE NoPrompt
DebounceKept(p) == IF p \in Soft THEN p ELSE last

Debounce(p) == IF p \in Soft THEN p ELSE NoPrompt

Confirms(p) == p \in Soft /\ p # last

(* _on_status and _maybe_auto_confirm.                                       *)
StatusArrives ==
  /\ report # <<>>
  /\ LET p == Head(report) IN
       /\ Confirms(p) => Len(confirms) < MaxConfirms
       /\ status' = p
       /\ last' = Debounce(p)
       /\ confirms' = IF Confirms(p) THEN Append(confirms, p) ELSE confirms
       /\ begun' = IF Confirms(p) THEN begun + 1 ELSE begun
       /\ asked' = (IF p = status THEN asked ELSE 0) + (IF Confirms(p) THEN 1 ELSE 0)
  /\ report' = <<>>
  /\ UNCHANGED <<connected, shown, tried, clockVars>>

(* The first task ends, the prompt shown stays, and it will not be retried.  *)
ConfirmEnds ==
  /\ confirms' = Tail(confirms)
  /\ IF begun = Len(confirms)
       THEN begun' = begun - 1 /\ tried' = (tried \/ Head(confirms) = shown)
       ELSE UNCHANGED <<begun, tried>>
  /\ UNCHANGED shown

(* confirm_prompt: HY confirms what the machine shows when it arrives.  The  *)
(* A that answers it does not say that the prompt has gone.                  *)
ConfirmLands ==
  /\ confirms # <<>> /\ connected
  /\ \/ /\ confirms' = Tail(confirms)
        /\ shown' = NoPrompt /\ begun' = 0 /\ tried' = FALSE
     \/ ConfirmEnds
  /\ UNCHANGED <<connected, report, status, last, asked, clockVars>>

(* Not connected, refused, unanswered, or the write raised: only a log line. *)
ConfirmFails ==
  /\ confirms # <<>>
  /\ ConfirmEnds
  /\ UNCHANGED <<connected, report, status, last, asked, clockVars>>

-----------------------------------------------------------------------------
Goes(s, where) == sync' = [sync EXCEPT ![s] = where]

DailyTick ==
  /\ sync[Daily] = "idle"
  /\ Goes(Daily, "scheduled")
  /\ UNCHANGED <<connected, promptVars, clock, lastSync>>

(* Mutant: the throttle holds for every source.                              *)
ThrottledAll(s) == s \in Syncs /\ lastSync = "recent"

Throttled(s) == s \in Reconnects /\ lastSync = "recent"

(* _trigger_sync, from one await to the next.                                *)
SyncBegins(s) ==
  /\ sync[s] = "scheduled"
  /\ IF connected /\ ~Throttled(s) THEN Goes(s, "reading") ELSE Goes(s, "idle")
  /\ UNCHANGED <<connected, promptVars, clock, lastSync>>

ReadAnswers(s) ==
  /\ sync[s] = "reading" /\ connected
  /\ IF clock = "right" /\ s # Daily
       THEN Goes(s, "idle") /\ lastSync' = "recent"
       ELSE Goes(s, "writing") /\ UNCHANGED lastSync
  /\ UNCHANGED <<connected, promptVars, clock>>

ReadFails(s) ==
  /\ sync[s] = "reading"
  /\ Goes(s, "idle")
  /\ UNCHANGED <<connected, promptVars, clock, lastSync>>

WriteLands(s) ==
  /\ sync[s] = "writing" /\ connected
  /\ clock' = "right" /\ lastSync' = "recent"
  /\ Goes(s, "idle")
  /\ UNCHANGED <<connected, promptVars>>

(* A rejected write counts as a sync; one that raises does not.              *)
WriteFails(s) ==
  /\ sync[s] = "writing"
  /\ lastSync' \in {"recent", lastSync}
  /\ Goes(s, "idle")
  /\ UNCHANGED <<connected, promptVars, clock>>

(* The sync_clock service writes without a reading, and leaves no trace.     *)
ServiceSyncs ==
  /\ connected
  /\ clock' \in {"right", clock}
  /\ UNCHANGED <<connected, promptVars, lastSync, sync>>

HoursPass ==
  /\ lastSync = "recent" \/ clock = "right"
  /\ lastSync' = IF lastSync = "recent" THEN "old" ELSE lastSync
  /\ clock' \in {clock, "off"}
  /\ UNCHANGED <<connected, promptVars, sync>>

-----------------------------------------------------------------------------
Connects ==
  /\ ~connected
  /\ connected' = TRUE
  /\ \E s \in Reconnects : sync[s] = "idle" /\ Goes(s, "scheduled")
  /\ UNCHANGED <<promptVars, clock, lastSync>>

(* The debounce, the tasks and the throttle outlive the session.             *)
Drops ==
  /\ connected
  /\ connected' = FALSE
  /\ report' = <<>>
  /\ UNCHANGED <<shown, status, last, confirms, asked, begun, tried, clockVars>>

SyncSteps(s) ==
  SyncBegins(s) \/ ReadAnswers(s) \/ ReadFails(s) \/ WriteLands(s) \/ WriteFails(s)

Next ==
  \/ \E p \in Prompts : MachineShows(p)
  \/ MachineReports \/ StatusArrives \/ ConfirmLands \/ ConfirmFails
  \/ \E s \in Syncs : SyncSteps(s)
  \/ DailyTick \/ ServiceSyncs \/ HoursPass
  \/ Connects \/ Drops

Spec == Init /\ [][Next]_vars

(* Tasks run; polls go on while the session is up; a machine that comes back *)
(* again and again is within reach at some daily tick and then answers.      *)
FairSpec ==
  /\ Spec
  /\ WF_vars(MachineReports) /\ WF_vars(StatusArrives)
  /\ WF_vars(ConfirmLands \/ ConfirmFails)
  /\ WF_vars(Connects)
  /\ \A s \in Syncs : WF_vars(SyncSteps(s))
  /\ SF_vars(DailyTick /\ connected)
  /\ SF_vars(SyncBegins(Daily) /\ connected)
  /\ SF_vars(ReadAnswers(Daily)) /\ SF_vars(WriteLands(Daily))

-----------------------------------------------------------------------------
(* CHANGELOG: each prompt is auto-confirmed only once per "appearance": as   *)
(* long as the reports name one prompt at most one confirmation is begun,    *)
(* over failures, reconnects and however long the first one waits.           *)
OncePerAppearance == asked <= 1

(* A soft prompt the last report did not name is answered: it goes away, the *)
(* session drops, or an HY begun for this appearance of it has been accepted *)
(* or has failed and left it shown; _maybe_auto_confirm does not try again.  *)
PromptAnswered ==
  \A p \in Soft :
    (connected /\ shown = p /\ status # p) ~> (shown # p \/ ~connected \/ tried)

(* A clock that is off is set right, whatever the throttle has counted as a  *)
(* sync: the daily tick passes it by (_on_daily_tick).                       *)
ClockCorrected == (clock = "off") ~> (clock = "right")
=============================================================================
