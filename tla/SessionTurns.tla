---------------------------- MODULE SessionTurns ----------------------------
(***************************************************************************)
(* Turns of one live session of EphemeralSessionService: callers that      *)
(* claim the turn slot and hand a StartTurn command to the session task,   *)
(* the task that runs one command at a time, requests that interrupt or    *)
(* suspend the turn, and an archive (or discard) that shuts the session    *)
(* down.  They share the slot of TurnAdmission, each taking its mutex for  *)
(* one step, the table of live sessions, the command channel, and the two  *)
(* notifications the task waits for.                                       *)
(*                                                                         *)
(* Each caller makes one call, and is the name of the turn and of the run  *)
(* it starts.  The agent may start its run, publish events of it, make its *)
(* final save, end it, or run for ever.  The runtime above the service may *)
(* prepare a run before its turn is started, and records its end.          *)
(***************************************************************************)
EXTENDS TurnAdmission, Sequences, SequencesExt, FiniteSets

CONSTANTS Callers, None

ASSUME CallersAssumption == None \notin Callers

VARIABLES
  slot,      \* the turn-admission slot
  live,      \* the session's handle is in the table of live sessions
  closed,    \* the tool-application custody is closed: no new claim
  handle,    \* somebody still owns the handle, and with it a command sender
  queue,     \* the StartTurn commands in the channel
  open,      \* the channel's receiver accepts commands
  wakeup,    \* a permit of interrupt_notify
  shutdown,  \* a permit of shutdown_notify
  pc,        \* where the session task is
  turn,      \* the command the task is executing
  outcome,   \* the result the task holds for it
  run,       \* the agent's run: none, open, started (RunStarted), saved, done
  active,    \* active_run_id of the turn state
  staged,    \* the create-time prompt is staged for the next content turn
  took,      \* the task holds the staged prompt it consumed
  landed,    \* a run that carried the prompt has started
  caller,    \* where each call is
  answer,    \* what each call returned
  hard,      \* turns for which a hard interrupt was accepted
  soft,      \* turns for which a suspension was accepted
  cleared    \* turns whose suspension mark a claim answered Busy cleared

asked == <<hard, soft, cleared>>
task == <<pc, turn, outcome, run, active, staged, took, landed>>
calls == <<caller, answer>>
vars == <<slot, live, closed, handle, queue, open, wakeup, shutdown, task,
          calls, asked>>

Answers == {"Ok", "Err", "Cancelled", "Suspended", "NotFound", "Busy", "Exited"}

ASSUME AnswersAssumption == None \notin Answers

TypeOK ==
  /\ slot \in Slots
  /\ {live, closed, handle, open, wakeup, shutdown, staged, took, landed} \subseteq BOOLEAN
  /\ queue \in Seq(Callers) /\ Len(queue) <= 1
  /\ pc \in {"Select", "Dispatch", "Disposition", "KeepAlive", "Begin", "Refused",
             "Check", "Run", "Publish", "Dropped", "CleanUp", "Resolve",
             "Finalize", "Drain", "Authorize", "Exited", "Parked"}
  /\ turn \in {None} \cup Callers
  /\ outcome \in {None} \cup Answers
  /\ run \in {"none", "open", "started", "saved", "done"}
  /\ active \in {None} \cup Callers
  /\ caller \in [Callers -> {"New", "Observed", "Claimed", "Sending", "Waiting",
                             "Done", "Gone"}]
  /\ answer \in [Callers -> {None} \cup Answers]
  /\ hard \in SUBSET Callers /\ soft \in SUBSET Callers /\ cleared \in SUBSET Callers
  /\ run # "none" <=> pc \in {"Check", "Run", "Publish", "Dropped", "CleanUp",
                             "Resolve", "Finalize"}
  /\ turn = None <=> pc \in {"Select", "Drain", "Authorize", "Exited", "Parked"}

Init ==
  /\ slot = NewSlot
  /\ live = TRUE /\ handle = TRUE /\ open = TRUE /\ closed = FALSE
  /\ queue = <<>>
  /\ wakeup = FALSE /\ shutdown = FALSE
  /\ pc = "Select" /\ turn = None /\ outcome = None
  /\ run = "none" /\ active = None
  /\ staged \in BOOLEAN /\ took = FALSE /\ landed = FALSE
  /\ caller = [c \in Callers |-> "New"]
  /\ answer = [c \in Callers |-> None]
  /\ hard = {} /\ soft = {} /\ cleared = {}

-----------------------------------------------------------------------------
(* Callers.                                                                *)

(* The turns that hold the admitted slot: claimed, in the channel, or in   *)
(* the task.                                                               *)
Owners == {c \in Callers : caller[c] \in {"Claimed", "Sending"}}
            \cup ToSet(queue) \cup ({turn} \ {None})

(* A call returns; a call whose future is gone hears nothing.              *)
Return(c, a) ==
  /\ caller' = [caller EXCEPT ![c] = IF @ = "Gone" THEN @ ELSE "Done"]
  /\ answer' = [answer EXCEPT ![c] = IF caller[c] = "Gone" THEN @ ELSE a]

Move(c, to) == caller' = [caller EXCEPT ![c] = to] /\ UNCHANGED answer

StartTurn(c) ==
  /\ caller[c] = "New"
  /\ IF live THEN Move(c, "Observed") ELSE Return(c, "NotFound")
  /\ UNCHANGED <<slot, live, closed, handle, queue, open, wakeup, shutdown,
                 task, asked>>

(* The claim, under the table's lock and the custody's.  A public turn     *)
(* then waits for the turn-finalization boundary with its claim; a runtime *)
(* turn goes on with its command.  A claim that is answered Busy clears    *)
(* the suspension mark of the turn under way.                              *)
ClaimTurn(c) ==
  /\ caller[c] = "Observed"
  /\ IF ~live \/ closed
     THEN Return(c, "NotFound") /\ UNCHANGED <<slot, cleared>>
     ELSE /\ slot' = Claim(slot)
          /\ cleared' = IF ClaimAnswer(slot) = "Busy"
                        THEN cleared \cup (soft \cap Owners) ELSE cleared
          /\ CASE ClaimAnswer(slot) = "Admitted" ->
                    \/ Move(c, "Claimed")
                    \/ Move(c, "Sending")
               [] ClaimAnswer(slot) = "Archived" -> Return(c, "NotFound")
               [] OTHER -> Return(c, "Busy")
  /\ UNCHANGED <<live, closed, handle, queue, open, wakeup, shutdown, task,
                 hard, soft>>

(* A claim that is dropped before its command is delivered is given back.  *)
DropClaim(c) == slot' = AbortClaim(slot)

(* The command is built against the handle the claim was taken from; the   *)
(* session may be gone, or out of capacity.                                *)
BuildCommand(c) ==
  /\ caller[c] = "Claimed"
  /\ \/ live /\ Move(c, "Sending") /\ UNCHANGED slot
     \/ live /\ Return(c, "Err") /\ DropClaim(c)
     \/ ~live /\ Return(c, "NotFound") /\ DropClaim(c)
  /\ UNCHANGED <<live, closed, handle, queue, open, wakeup, shutdown, task,
                 asked>>

SendCommand(c) ==
  /\ caller[c] = "Sending"
  /\ IF open
     THEN queue' = Append(queue, c) /\ Move(c, "Waiting") /\ UNCHANGED slot
     ELSE Return(c, "Exited") /\ DropClaim(c) /\ UNCHANGED queue
  /\ UNCHANGED <<live, closed, handle, open, wakeup, shutdown, task, asked>>

\* Mutant: delivering the command does not disarm the claim's guard.
CancelCallArmed(c) ==
  /\ caller[c] \in {"Observed", "Claimed", "Sending", "Waiting"}
  /\ Move(c, "Gone")
  /\ IF caller[c] # "Observed" THEN DropClaim(c) ELSE UNCHANGED slot
  /\ UNCHANGED <<live, closed, handle, queue, open, wakeup, shutdown, task,
                 asked>>

(* The future of a call is dropped at an await.                            *)
CancelCall(c) ==
  /\ caller[c] \in {"Observed", "Claimed", "Sending", "Waiting"}
  /\ Move(c, "Gone")
  /\ IF caller[c] \in {"Claimed", "Sending"} THEN DropClaim(c) ELSE UNCHANGED slot
  /\ UNCHANGED <<live, closed, handle, queue, open, wakeup, shutdown, task,
                 asked>>

-----------------------------------------------------------------------------
(* Interrupts.                                                             *)

Wake == wakeup' = (wakeup \/ Wakes(slot))

(* interrupt, interrupt_run_if_current (only for the active run) and       *)
(* suspend_run_if_current find the handle in the table; the suspension     *)
(* handle of the checkpointer does without.  All of them mark the slot,    *)
(* and so the turn that holds it.                                          *)
Interrupt ==
  /\ live /\ Interruptible(slot)
  /\ slot' = RequestInterrupt(slot) /\ Wake
  /\ hard' = hard \cup Owners
  /\ UNCHANGED <<live, closed, handle, queue, open, shutdown, task, calls, soft, cleared>>

InterruptRun(c) ==
  /\ live /\ active = c /\ Interruptible(slot)
  /\ slot' = RequestInterrupt(slot) /\ Wake
  /\ hard' = hard \cup Owners
  /\ UNCHANGED <<live, closed, handle, queue, open, shutdown, task, calls, soft, cleared>>

SuspendRun(c) ==
  /\ active = c /\ Interruptible(slot)
  /\ slot' = RequestSuspend(slot) /\ Wake
  /\ soft' = soft \cup Owners
  /\ UNCHANGED <<live, closed, handle, queue, open, shutdown, task, calls, hard, cleared>>

(* drain_tool_applications_for_shutdown: no new claims, and the turn that  *)
(* is under way is interrupted.                                            *)
StopService ==
  /\ live /\ ~closed /\ closed' = TRUE
  /\ IF Interruptible(slot)
     THEN slot' = RequestInterrupt(slot) /\ Wake /\ hard' = hard \cup Owners
     ELSE UNCHANGED <<slot, wakeup, hard>>
  /\ UNCHANGED <<live, handle, queue, open, shutdown, task, calls, soft, cleared>>

-----------------------------------------------------------------------------
(* The end of the session.                                                 *)

(* Archive or discard: in one hold of the table the slot is asked to shut  *)
(* down, the actor revoked and the handle removed.                         *)
Archive ==
  /\ live
  /\ slot' = RequestShutdown(slot)
  /\ live' = FALSE /\ closed' = TRUE
  /\ UNCHANGED <<handle, queue, open, wakeup, shutdown, task, calls, asked>>

(* Then the task is notified and the handle dropped.                       *)
DropArchivedHandle ==
  /\ ~live /\ handle
  /\ shutdown' = TRUE /\ handle' = FALSE
  /\ UNCHANGED <<slot, live, closed, queue, open, wakeup, task, calls, asked>>

(* The service itself is dropped once no call is in flight: the handle     *)
(* goes without a shutdown request.                                        *)
DropService ==
  /\ live /\ \A c \in Callers : caller[c] \in {"Done", "Gone"}
  /\ live' = FALSE /\ handle' = FALSE
  /\ UNCHANGED <<slot, closed, queue, open, wakeup, shutdown, task, calls,
                 asked>>

-----------------------------------------------------------------------------
(* The session task.                                                       *)

env == <<live, closed, handle, open, wakeup, shutdown, asked>>

Senders == handle \/ \E c \in Callers : caller[c] = "Sending"

(* The biased select: the shutdown wake first, then the next command, then *)
(* a closed channel.                                                       *)
SelectShutdown ==
  /\ pc = "Select" /\ shutdown
  /\ shutdown' = FALSE /\ pc' = "Drain"
  /\ UNCHANGED <<slot, live, closed, handle, queue, open, wakeup, turn, outcome,
                 run, active, staged, took, landed, calls, asked>>

SelectCommand ==
  /\ pc = "Select" /\ ~shutdown /\ queue # <<>>
  /\ turn' = Head(queue) /\ queue' = Tail(queue) /\ pc' = "Dispatch"
  /\ UNCHANGED <<slot, env, outcome, run, active, staged, took, landed, calls>>

SelectClosed ==
  /\ pc = "Select" /\ ~shutdown /\ queue = <<>> /\ ~Senders
  /\ slot' = RequestShutdown(slot) /\ pc' = "Drain"
  /\ UNCHANGED <<env, queue, turn, outcome, run, active, staged, took, landed,
                 calls>>

(* The turn is answered a before its run began; a prompt it consumed is    *)
(* restored.                                                               *)
EndBeforeRun(a) ==
  /\ Return(turn, a)
  /\ pc' = "Select" /\ turn' = None
  /\ staged' = (staged \/ took) /\ took' = FALSE
  /\ UNCHANGED <<env, queue, outcome, run, active, landed>>

Proceed(to) == pc' = to /\ UNCHANGED <<slot, env, queue, turn, outcome, run,
                                       active, landed, calls>>

(* The archived session cancels the turn, a refused check fails it.        *)
Archived == slot.phase = "ShuttingDown" /\ EndBeforeRun("Cancelled") /\ UNCHANGED slot
Refuse == EndBeforeRun("Err") /\ slot' = AbortClaim(slot)

(* authorize_start_turn_dispatch; then the staged inputs are consumed.     *)
Dispatch ==
  /\ pc = "Dispatch"
  /\ \/ Archived
     \/ /\ slot.phase = "Admitted" /\ Proceed("Disposition")
        /\ took' = staged /\ staged' = FALSE

(* The prompt may not be lowered into the turn, there may be no pending    *)
(* boundary; a pending continuation and a resumed run give the prompt back *)
(* and run without it.                                                     *)
Disposition ==
  /\ pc = "Disposition"
  /\ \/ Archived
     \/ slot.phase = "Admitted" /\ Refuse
     \/ slot.phase = "Admitted" /\ Proceed("KeepAlive") /\ UNCHANGED <<staged, took>>
     \/ /\ slot.phase = "Admitted" /\ Proceed("KeepAlive")
        /\ staged' = (staged \/ took) /\ took' = FALSE

(* resolve_runtime_keep_alive, then the overlay, the request reasoning and *)
(* the pending tool results are applied, which may fail.                   *)
KeepAlive ==
  /\ pc = "KeepAlive"
  /\ \/ Archived
     \/ slot.phase = "Admitted" /\ Proceed("Begin") /\ UNCHANGED <<staged, took>>
     \/ slot.phase = "Admitted" /\ Refuse

Begin ==
  /\ pc = "Begin"
  /\ \/ Archived
     \/ /\ slot.phase = "Admitted" /\ slot' = BeginTurn(slot)
        /\ \/ pc' = "Check" /\ run' = "open"
           \/ pc' = "Refused" /\ UNCHANGED run
        /\ UNCHANGED <<env, queue, turn, outcome, active, staged, took, landed, calls>>

(* The task answers its turn and goes on, or drains when the slot shut     *)
(* down.                                                                   *)
Answer(a) ==
  /\ Return(turn, a) /\ turn' = None
  /\ pc' = IF slot'.phase = "ShuttingDown" THEN "Drain" ELSE "Select"

(* The operator instructions or the system messages of the run start were  *)
(* refused: the run never starts.                                          *)
RefusedRun ==
  /\ pc = "Refused"
  /\ slot' = FinalizeTurn(ResolveTurn(slot))
  /\ Answer("Err")
  /\ took' = FALSE
  /\ UNCHANGED <<env, queue, outcome, run, active, staged, landed>>

(* The agent, polled while the task waits in its select.  A run starts     *)
(* under its id unless the turn state holds another, and ends by itself or *)
(* never.  A run that takes no round commits has nothing to resume, like   *)
(* one past its final save.                                                *)
RunStarts ==
  /\ pc = "Run" /\ run = "open" /\ active \in {None, turn}
  /\ run' \in {"started", "saved"} /\ active' = turn
  /\ landed' = (landed \/ took)
  /\ UNCHANGED <<slot, env, queue, pc, turn, outcome, staged, took, calls>>

FinalSave ==
  /\ pc = "Run" /\ run = "started" /\ run' = "saved"
  /\ UNCHANGED <<slot, env, queue, pc, turn, outcome, active, staged, took,
                 landed, calls>>

RunEnds(a) ==
  /\ pc = "Run" /\ run \in {"open", "started", "saved"}
  /\ a = "Ok" => run # "open"
  /\ run' = "done"
  /\ active' \in (IF run = "open" THEN {active, None} ELSE {None})
  /\ outcome' = a
  /\ UNCHANGED <<slot, env, queue, pc, turn, staged, took, landed, calls>>

(* The runtime: Prepare writes the run's id into the turn state before the *)
(* turn is started; the end of a run the agent did not end there (refused, *)
(* suspended) is recorded some time after its turn was answered.           *)
Prepare(c) ==
  /\ active = None /\ caller[c] = "New"
  /\ active' = c
  /\ UNCHANGED <<slot, env, queue, pc, turn, outcome, run, staged, took, landed,
                 calls>>

RuntimeRecordsEnd(c) ==
  /\ active = c /\ caller[c] \in {"Done", "Gone"} /\ c \notin Owners
  /\ active' = None
  /\ UNCHANGED <<slot, env, queue, pc, turn, outcome, run, staged, took, landed,
                 calls>>

(* The run loop: an interrupt that is pending before the wait ends it.     *)
CheckInterrupt ==
  /\ pc = "Check"
  /\ pc' = IF slot.interrupt THEN "Dropped" ELSE "Run"
  /\ UNCHANGED <<slot, env, queue, turn, outcome, run, active, staged, took,
                 landed, calls>>

\* Mutant: the result is taken without a look at the interrupt.
TakeResultUnchecked ==
  /\ pc = "Run" /\ run = "done"
  /\ pc' = "CleanUp" /\ slot' = ResolveTurn(slot)
  /\ UNCHANGED <<env, queue, turn, outcome, run, active, staged, took, landed, calls>>

(* The result and the slot are read in one hold of the mutex.              *)
TakeResult ==
  /\ pc = "Run" /\ run = "done"
  /\ IF slot.interrupt THEN pc' = "Dropped" /\ UNCHANGED slot
                       ELSE pc' = "CleanUp" /\ slot' = ResolveTurn(slot)
  /\ UNCHANGED <<env, queue, turn, outcome, run, active, staged, took, landed, calls>>

\* Mutant: every wake is taken for a boundary wake, and the wait resumed.
WakeRunLoopBlindly ==
  /\ pc = "Run" /\ wakeup
  /\ wakeup' = FALSE
  /\ UNCHANGED <<slot, live, closed, handle, open, shutdown, asked, queue,
                 task, calls>>

WakeRunLoop ==
  /\ pc = "Run" /\ wakeup
  /\ wakeup' = FALSE
  /\ pc' = IF slot.interrupt THEN "Dropped" ELSE "Check"
  /\ UNCHANGED <<slot, live, closed, handle, open, shutdown, asked, queue,
                 turn, outcome, run, active, staged, took, landed, calls>>

(* The third arm: an event of the run is published, and sent to the        *)
(* caller's bounded channel without a look at the interrupt.  The send     *)
(* ends when the receiver reads or is dropped.                             *)
PublishEvent ==
  /\ pc = "Run" /\ pc' = "Publish"
  /\ UNCHANGED <<slot, env, queue, turn, outcome, run, active, staged, took,
                 landed, calls>>

EventSent ==
  /\ pc = "Publish" /\ pc' = "Check"
  /\ UNCHANGED <<slot, env, queue, turn, outcome, run, active, staged, took,
                 landed, calls>>

(* The dropped run ends suspended or cancelled; only a started run that    *)
(* takes round commits and has not made its final save can be suspended.   *)
(* A suspension leaves the turn state alone.                               *)
DropRun ==
  /\ pc = "Dropped" /\ pc' = "CleanUp"
  /\ IF SuspendRequested(slot) /\ run = "started"
     THEN outcome' = "Suspended" /\ UNCHANGED active
     ELSE outcome' = "Cancelled" /\ active' = None
  /\ UNCHANGED <<slot, env, queue, turn, run, staged, took, landed, calls>>

(* The run's remaining events are sent and its fallback and compaction     *)
(* settled, which may fail; the interrupt is not looked at.                *)
CleanUp ==
  /\ pc = "CleanUp" /\ pc' = "Resolve"
  /\ outcome' \in {outcome, "Err"}
  /\ UNCHANGED <<slot, env, queue, turn, run, active, staged, took, landed, calls>>

\* Mutant: a turn that fails restores its prompt, its run started or not.
ResolveRunRestoring ==
  /\ pc = "Resolve"
  /\ slot' = ResolveTurn(slot)
  /\ staged' = (staged \/ (took /\ outcome # "Ok"))
  /\ took' = FALSE
  /\ pc' = "Finalize"
  /\ UNCHANGED <<env, queue, turn, outcome, run, active, landed, calls>>

(* After the cleanup the slot is resolved, unless the result resolved it.  *)
(* A prompt that no run carried is restored.                               *)
ResolveRun ==
  /\ pc = "Resolve"
  /\ slot' = ResolveTurn(slot)
  /\ staged' = (staged \/ (took /\ outcome # "Ok" /\ ~landed))
  /\ took' = FALSE
  /\ pc' = "Finalize"
  /\ UNCHANGED <<env, queue, turn, outcome, run, active, landed, calls>>

FinalizeRun ==
  /\ pc = "Finalize"
  /\ slot' = FinalizeTurn(slot)
  /\ Answer(outcome)
  /\ outcome' = None /\ run' = "none"
  /\ UNCHANGED <<env, queue, active, staged, took, landed>>

(* The channel is closed and every command in it answered.                 *)
DrainCommands ==
  /\ pc = "Drain"
  /\ open' = FALSE /\ queue' = <<>> /\ pc' = "Authorize"
  /\ caller' = [c \in Callers |->
       IF c \in ToSet(queue) /\ caller[c] = "Waiting" THEN "Done" ELSE caller[c]]
  /\ answer' = [c \in Callers |->
       IF c \in ToSet(queue) /\ caller[c] = "Waiting" THEN "Cancelled" ELSE answer[c]]
  /\ UNCHANGED <<slot, live, closed, handle, wakeup, shutdown, asked, turn,
                 outcome, run, active, staged, took, landed>>

(* The task exits with the generated authorization, or is parked for ever. *)
AuthorizeTeardown ==
  /\ pc = "Authorize"
  /\ IF MayTearDown(slot) THEN pc' = "Exited" /\ slot' = TearDown(slot)
                          ELSE pc' = "Parked" /\ UNCHANGED slot
  /\ UNCHANGED <<env, queue, turn, outcome, run, active, staged, took, landed, calls>>

-----------------------------------------------------------------------------
CallerStep(c) ==
  \/ StartTurn(c) \/ ClaimTurn(c) \/ BuildCommand(c) \/ SendCommand(c)

TaskStep ==
  \/ SelectShutdown \/ SelectCommand \/ SelectClosed
  \/ Dispatch \/ Disposition \/ KeepAlive \/ Begin \/ RefusedRun
  \/ CheckInterrupt \/ TakeResult \/ WakeRunLoop \/ DropRun
  \/ ResolveRun \/ FinalizeRun \/ DrainCommands \/ AuthorizeTeardown

Next ==
  \/ \E c \in Callers : CallerStep(c) \/ CancelCall(c)
  \/ Interrupt \/ (\E c \in Callers : InterruptRun(c) \/ SuspendRun(c))
  \/ StopService \/ Archive \/ DropArchivedHandle \/ DropService
  \/ TaskStep
  \/ PublishEvent \/ EventSent \/ CleanUp
  \/ RunStarts \/ FinalSave \/ (\E a \in {"Ok", "Err"} : RunEnds(a))
  \/ \E c \in Callers : Prepare(c) \/ RuntimeRecordsEnd(c)

(* Tokio polls a task that is woken, so its steps and those of a call are  *)
(* taken eventually; the archiving call drops the handle after it removed  *)
(* it.  Nothing makes the agent's run end, and nothing makes the receiver  *)
(* of a turn's events read them, or the cleanup's stores answer.           *)
Fairness ==
  /\ WF_vars(TaskStep)
  /\ \A c \in Callers : WF_vars(CallerStep(c))
  /\ WF_vars(DropArchivedHandle)

Spec == Init /\ [][Next]_vars /\ Fairness

-----------------------------------------------------------------------------
(* While the slot is admitted exactly one turn holds it: the claim guard,  *)
(* the transfer to the command and the task's roll-backs never release a   *)
(* slot another caller claimed, and never leave it claimed by nobody       *)
(* (StartTurnAdmissionClaim, abort_admitted_turn).                         *)
AdmittedHasOneOwner == slot.phase = "Admitted" => Cardinality(Owners) = 1

(* A turn for which an interrupt or a suspension was accepted never        *)
(* answers with a result: acceptance and the end of the run are decided    *)
(* under the same mutex (request_interrupt, the run loop of session_task). *)
InterruptedNeverSucceeds == \A c \in hard \cup soft : answer[c] # "Ok"

(* An accepted interrupt ends its turn, however long the run would take:   *)
(* the wake is not lost between the task's checks and its wait             *)
(* (wake_interrupt_notify and the run loop); unless a send of an event or  *)
(* the cleanup, which do not look at the interrupt, blocks for ever.       *)
InterruptEndsTurn ==
  []<>(pc \notin {"Publish", "CleanUp"}) =>
    \A c \in Callers : (c \in hard \cup soft /\ caller[c] = "Waiting")
                          ~> caller[c] \in {"Done", "Gone"}

(* Once the shutdown of a session took effect its task exits, with the     *)
(* authorization its drain owes and not parked, and no call is left        *)
(* waiting, whatever the archive raced (finalize_turn,                     *)
(* drain_session_task_commands, shutdown_removed_live_session_handle).     *)
ArchivedTaskExits ==
  (slot.phase = "ShuttingDown")
     ~> (pc = "Exited" /\ slot.teardown /\ \A c \in Callers : caller[c] # "Waiting")

(* The staged create-time prompt is not lost: it is staged, held by the    *)
(* turn that consumed it, or was carried by a run that started.  This is   *)
(* what the comment of session_task says ("every refusal restores it").    *)
StagedPromptNeverLost == [][staged \/ took => staged' \/ took' \/ landed']_vars

(* A prompt that a run carried is not staged again, however that run ended *)
(* or was dropped (restore_deferred_turn_inputs, run_started_observed).    *)
PromptLandsOnce == ~(landed /\ staged)

(* How a dropped run that could be resumed ends is what was asked of it: a *)
(* hard interrupt beats a suspension, before or after it, and a suspended  *)
(* run ends suspended, unless a claim that was answered Busy between the   *)
(* two cleared the mark (request_interrupt, request_suspend_run, claim,    *)
(* suspend_dropped_run).                                                   *)
SuspensionKept ==
  [][ (pc = "Dropped" /\ pc' = "CleanUp" /\ run = "started")
        => /\ turn \in hard => outcome' # "Suspended"
           /\ turn \in soft \ (hard \cup cleared) => outcome' = "Suspended" ]_vars
=============================================================================
