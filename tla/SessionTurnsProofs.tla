------------------------- MODULE SessionTurnsProofs -------------------------
(***************************************************************************)
(* What the turn slot guarantees for any number of callers: one owner of   *)
(* an admitted slot, no result for an interrupted turn, a staged prompt    *)
(* that lands once and that only a refused run start loses, and a          *)
(* suspension that is kept.                                                *)
(*                                                                         *)
(* None of these is inductive: the slot is one word, and what it means is  *)
(* spread over the callers, the channel and the task.  TurnsInv says where *)
(* the one turn under way is (PlaceInv), how the slot's phase and the      *)
(* task's place agree (PhaseInv, RunInv), that a shutdown notice follows   *)
(* its effect (ShutInv), what the slot's marks say of the turn under way   *)
(* (MarkInv) and where the prompt is (PromptInv).                          *)
(***************************************************************************)
EXTENDS SessionTurns, FiniteSetTheorems, TLAPS

\* The call has a claim it has not delivered.
Holds(c) == caller[c] \in {"Claimed", "Sending"}

\* The turn of c is under way: claimed, in the channel, or in the task.
OwnerIs(c) == Holds(c) \/ queue = <<c>> \/ turn = c

\* At most one turn is under way, in one place.
PlaceInv ==
  /\ queue = <<>> \/ \E c \in Callers : queue = <<c>>
  /\ queue # <<>> => turn = None
  /\ \A c \in Callers : Holds(c) => queue = <<>> /\ turn = None
  /\ \A c, d \in Callers : Holds(c) /\ Holds(d) => c = d
  /\ \A c \in Callers : queue = <<c>> \/ turn = c => caller[c] \in {"Waiting", "Gone"}

\* Only a call that is done has an answer.
AnswerInv == \A c \in Callers : answer[c] # None => caller[c] = "Done"

Preparing == {"Dispatch", "Disposition", "KeepAlive", "Begin"}
Executing == {"Check", "Run", "Publish", "Dropped", "CleanUp", "Resolve", "Finalize", "Refused"}
Leaving == {"Drain", "Authorize", "Exited", "Parked"}

\* The slot's phase and where the task is.
PhaseInv ==
  /\ slot.phase = "Idle" => \A c \in Callers : ~OwnerIs(c)
  /\ slot.phase = "Admitted" => \E c \in Callers : OwnerIs(c)
  /\ slot.phase \in {"Running", "Completing"} <=> pc \in Executing
  /\ slot.phase = "Completing" => pc \in {"CleanUp", "Resolve", "Finalize"}
  /\ pc = "Finalize" => slot.phase = "Completing"
  /\ pc \in Preparing => slot.phase \in {"Admitted", "ShuttingDown"}
  /\ pc \in Leaving => slot.phase = "ShuttingDown"
  /\ turn = None <=> pc \in {"Select"} \cup Leaving

\* A shutdown that was asked for has taken effect, or waits for the run's end.
ShutInv ==
  (~live /\ handle) \/ shutdown =>
    \/ slot.phase = "ShuttingDown"
    \/ slot.shutdown /\ slot.phase \in {"Running", "Completing"}

\* The agent's run and its result.
RunInv ==
  /\ run # "none" <=> pc \in Executing \ {"Refused"}
  /\ outcome # None => pc \in Executing \ {"Refused"}
  /\ outcome = "Ok" /\ pc \in {"CleanUp", "Resolve", "Finalize"} => slot.phase = "Completing"

\* While a turn can be interrupted, the slot says what was asked of it.
MarkInv ==
  /\ \A c \in Callers :
       /\ c \in hard \cup soft => caller[c] \notin {"New", "Observed"} /\ answer[c] # "Ok"
       /\ OwnerIs(c) /\ Interruptible(slot) =>
            /\ slot.interrupt <=> c \in hard \cup soft
            /\ c \in hard => ~slot.suspend
            /\ c \in soft \ hard => slot.suspend \/ c \in cleared
  /\ outcome = "Ok" /\ slot.phase = "Completing" => turn \notin hard \cup soft

\* The create-time prompt is in one place.
PromptInv ==
  /\ ~(staged /\ took) /\ ~(staged /\ landed)
  /\ took => pc \in (Preparing \ {"Dispatch"}) \cup (Executing \ {"Finalize"})
  /\ took /\ landed => run # "none"
  /\ took /\ (run \in {"started", "saved"} \/ outcome = "Ok") => landed

\* The types, of the Boolean variables and of the others.
PCs == {"Select", "Dispatch", "Disposition", "KeepAlive", "Begin", "Refused", "Check", "Run",
        "Publish", "Dropped", "CleanUp", "Resolve", "Finalize",
        "Drain", "Authorize", "Exited", "Parked"}

CallerStates == {"New", "Observed", "Claimed", "Sending", "Waiting", "Done", "Gone"}

Flags ==
  /\ live \in BOOLEAN /\ closed \in BOOLEAN /\ handle \in BOOLEAN /\ open \in BOOLEAN
  /\ wakeup \in BOOLEAN /\ shutdown \in BOOLEAN
  /\ staged \in BOOLEAN /\ took \in BOOLEAN /\ landed \in BOOLEAN

Typed ==
  /\ slot \in Slots
  /\ pc \in PCs
  /\ turn \in {None} \cup Callers
  /\ outcome \in {None} \cup Answers
  /\ run \in {"none", "open", "started", "saved", "done"}
  /\ active \in {None} \cup Callers
  /\ caller \in [Callers -> CallerStates]
  /\ answer \in [Callers -> {None} \cup Answers]
  /\ hard \in SUBSET Callers /\ soft \in SUBSET Callers /\ cleared \in SUBSET Callers

TurnsInv ==
  /\ Flags
  /\ Typed
  /\ PlaceInv
  /\ AnswerInv
  /\ PhaseInv
  /\ ShutInv
  /\ RunInv
  /\ MarkInv
  /\ PromptInv

-----------------------------------------------------------------------------

\* A claim is admitted in Idle with nothing asked of it; a refused one clears the
\* suspension mark and nothing else.
LEMMA ClaimSlot ==
  ASSUME NEW s \in Slots
  PROVE  /\ Claim(s) \in Slots
         /\ ~Claim(s).suspend
         /\ s.phase = "Idle" => Claim(s).phase = "Admitted" /\ ~Claim(s).interrupt
         /\ s.phase # "Idle" => /\ Claim(s).phase = s.phase
                                /\ Claim(s).interrupt = s.interrupt
                                /\ Claim(s).shutdown = s.shutdown
BY DEF Claim, Slots, Phases

\* Only an admitted slot is given back.
LEMMA AbortSlot ==
  ASSUME NEW s \in Slots
  PROVE  /\ AbortClaim(s) \in Slots
         /\ s.phase = "Admitted" => AbortClaim(s).phase = "Idle"
         /\ s.phase # "Admitted" => AbortClaim(s) = s
BY DEF AbortClaim, Slots, Phases

\* What was asked of an admitted turn is asked of its run.
LEMMA BeginSlot ==
  ASSUME NEW s \in Slots, s.phase = "Admitted"
  PROVE  /\ BeginTurn(s) \in Slots
         /\ BeginTurn(s).phase = "Running"
         /\ BeginTurn(s).interrupt = s.interrupt
         /\ BeginTurn(s).suspend = s.suspend
         /\ BeginTurn(s).shutdown = s.shutdown
BY DEF BeginTurn, Slots, Phases

\* Only a running turn is resolved.
LEMMA ResolveSlot ==
  ASSUME NEW s \in Slots
  PROVE  /\ ResolveTurn(s) \in Slots
         /\ s.phase = "Running" => ResolveTurn(s).phase = "Completing"
         /\ s.phase # "Running" => ResolveTurn(s) = s
         /\ ResolveTurn(s).shutdown = s.shutdown
BY DEF ResolveTurn, Slots, Phases

\* The end of a turn is where a deferred shutdown takes effect.
LEMMA FinalizeSlot ==
  ASSUME NEW s \in Slots, s.phase = "Completing"
  PROVE  /\ FinalizeTurn(s) \in Slots
         /\ FinalizeTurn(s).phase = (IF s.shutdown THEN "ShuttingDown" ELSE "Idle")
<1>1. CASE s.shutdown
  BY <1>1 DEF FinalizeTurn, Slots, Phases
<1>2. CASE ~s.shutdown
  BY <1>2 DEF FinalizeTurn, Slots, Phases
<1> QED
  BY <1>1, <1>2

\* A hard interrupt clears the suspension mark.
LEMMA InterruptSlot ==
  ASSUME NEW s \in Slots
  PROVE  /\ RequestInterrupt(s) \in Slots
         /\ RequestInterrupt(s).phase = s.phase
         /\ RequestInterrupt(s).shutdown = s.shutdown
         /\ RequestInterrupt(s).interrupt
         /\ ~RequestInterrupt(s).suspend
BY DEF RequestInterrupt, Slots

\* A suspension marks the slot unless a hard interrupt is pending.
LEMMA SuspendSlot ==
  ASSUME NEW s \in Slots
  PROVE  /\ RequestSuspend(s) \in Slots
         /\ RequestSuspend(s).phase = s.phase
         /\ RequestSuspend(s).shutdown = s.shutdown
         /\ RequestSuspend(s).interrupt
         /\ RequestSuspend(s).suspend <=> s.suspend \/ ~s.interrupt
BY DEF RequestSuspend, Slots

\* A shutdown takes effect outside a run, and is deferred within one.
LEMMA ShutdownSlot ==
  ASSUME NEW s \in Slots
  PROVE  /\ RequestShutdown(s) \in Slots
         /\ s.phase \in {"Idle", "Admitted", "ShuttingDown"}
               => RequestShutdown(s).phase = "ShuttingDown"
         /\ s.phase \in {"Running", "Completing"} =>
              /\ RequestShutdown(s).phase = s.phase
              /\ RequestShutdown(s).shutdown
              /\ RequestShutdown(s).interrupt = s.interrupt
              /\ RequestShutdown(s).suspend = s.suspend
<1>1. CASE s.phase \in {"Idle", "Admitted"}
  BY <1>1 DEF RequestShutdown, Slots, Phases
<1>2. CASE s.phase \in {"Running", "Completing"}
  BY <1>2 DEF RequestShutdown, Slots, Phases
<1>3. CASE s.phase = "ShuttingDown"
  BY <1>3 DEF RequestShutdown, Slots, Phases
<1> QED
  BY <1>1, <1>2, <1>3 DEF Slots, Phases

\* The teardown keeps the phase.
LEMMA TearDownSlot ==
  ASSUME NEW s \in Slots
  PROVE  TearDown(s) \in Slots /\ TearDown(s).phase = s.phase
BY DEF TearDown, Slots

\* The channel with no command and with one.
LEMMA QueueFacts ==
  ASSUME NEW c
  PROVE  /\ Append(<<>>, c) = <<c>> /\ Head(<<c>>) = c /\ Tail(<<c>>) = <<>>
         /\ <<c>> # <<>> /\ ToSet(<<c>>) = {c} /\ ToSet(<<>>) = {}
         /\ \A d : <<c>> = <<d>> => c = d
BY DEF ToSet

\* The owners of the slot are the turns under way: at most one.
LEMMA OwnersAre ==
  ASSUME TurnsInv
  PROVE  /\ \A c : c \in Owners <=> c \in Callers /\ OwnerIs(c)
         /\ \A c, d \in Callers : OwnerIs(c) /\ OwnerIs(d) => c = d
<1>1. \A c : c \in Owners <=> c \in Callers /\ OwnerIs(c)
  <2>1. CASE queue = <<>>
    BY <2>1, QueueFacts, CallersAssumption DEF Owners, OwnerIs, Holds, TurnsInv, Typed
  <2>2. ASSUME NEW d \in Callers, queue = <<d>>
        PROVE  \A c : c \in Owners <=> c \in Callers /\ OwnerIs(c)
    BY <2>2, QueueFacts, CallersAssumption DEF Owners, OwnerIs, Holds, TurnsInv, Typed
  <2> QED
    BY <2>1, <2>2 DEF TurnsInv, PlaceInv
<1>2. \A c, d \in Callers : OwnerIs(c) /\ OwnerIs(d) => c = d
  BY QueueFacts, CallersAssumption DEF TurnsInv, PlaceInv, OwnerIs, Typed
<1> QED
  BY <1>1, <1>2

\* A call finds the session in the table, or not.
LEMMA StartTurnKeeps ==
  ASSUME TurnsInv, NEW c \in Callers, StartTurn(c)
  PROVE  TurnsInv'
<1> USE CallersAssumption, AnswersAssumption
      DEF TurnsInv, asked, StartTurn, Move, Return, task
<1>1. Flags' /\ ShutInv' /\ RunInv' /\ PromptInv'
  BY DEF Flags, ShutInv, RunInv, PromptInv
<1>2. Typed'
  BY DEF Typed, PCs, CallerStates, Answers
<1>3. PlaceInv'
  BY DEF Typed, PlaceInv, PhaseInv, OwnerIs, Holds, CallerStates, Preparing, Executing,
     Leaving
<1>4. AnswerInv'
  BY DEF Typed, AnswerInv, PlaceInv, CallerStates, PhaseInv, OwnerIs, Holds
<1>5. PhaseInv'
  BY DEF Typed, PhaseInv, PlaceInv, OwnerIs, Holds, ShutInv, PCs, Preparing, Executing,
     Leaving, CallerStates
<1>6. MarkInv'
  BY DEF Typed, MarkInv, AnswerInv, PlaceInv, PhaseInv, RunInv, OwnerIs, Holds,
     Interruptible, Executing, Preparing, Leaving, Answers, CallerStates
<1> QED
  BY <1>1, <1>2, <1>3, <1>4, <1>5, <1>6

\* A claim is admitted in Idle, when no turn is under way; a call that is answered
\* Busy clears the suspension mark of the turn under way.
LEMMA ClaimTurnKeeps ==
  ASSUME TurnsInv, NEW c \in Callers, ClaimTurn(c)
  PROVE  TurnsInv'
<1> USE CallersAssumption, AnswersAssumption, ClaimSlot, OwnersAre
      DEF TurnsInv, asked, ClaimTurn, ClaimAnswer,
        Move, Return, task
<1>1. Flags' /\ PromptInv'
  BY DEF Flags, PromptInv
<1>2. Typed'
  BY DEF Typed, PCs, CallerStates, Answers
<1>3. PlaceInv'
  BY DEF Typed, PlaceInv, PhaseInv, OwnerIs, Holds, CallerStates, Preparing, Executing,
     Leaving
<1>4. AnswerInv'
  BY DEF Typed, AnswerInv, PlaceInv, CallerStates, PhaseInv, OwnerIs, Holds
<1>5. PhaseInv'
  BY DEF Typed, PhaseInv, PlaceInv, OwnerIs, Holds, ShutInv, PCs, Preparing, Executing,
     Leaving, CallerStates
<1>6. ShutInv'
  BY DEF Typed, ShutInv, PhaseInv, Executing
<1>7. RunInv'
  BY DEF Typed, RunInv, PhaseInv, Executing, Preparing, Leaving, Answers
<1>8. MarkInv'
  BY DEF Typed, MarkInv, AnswerInv, PlaceInv, PhaseInv, RunInv, OwnerIs, Holds,
     Interruptible, Executing, Preparing, Leaving, Answers, CallerStates
<1> QED
  BY <1>1, <1>2, <1>3, <1>4, <1>5, <1>6, <1>7, <1>8

\* A claim whose command cannot be built is given back by its owner.
LEMMA BuildCommandKeeps ==
  ASSUME TurnsInv, NEW c \in Callers, BuildCommand(c)
  PROVE  TurnsInv'
<1> USE CallersAssumption, AnswersAssumption, AbortSlot
      DEF TurnsInv, asked, BuildCommand, DropClaim,
        Move, Return, task
<1>1. Flags' /\ PromptInv'
  BY DEF Flags, PromptInv
<1>2. Typed'
  BY DEF Typed, PCs, CallerStates, Answers
<1>3. PlaceInv'
  BY DEF Typed, PlaceInv, PhaseInv, OwnerIs, Holds, CallerStates, Preparing, Executing,
     Leaving
<1>4. AnswerInv'
  BY DEF Typed, AnswerInv, PlaceInv, CallerStates, PhaseInv, OwnerIs, Holds
<1>5. PhaseInv'
  <2>1. CASE UNCHANGED slot /\ caller' = [caller EXCEPT ![c] = "Sending"]
    BY <2>1 DEF Typed, PhaseInv, PlaceInv, OwnerIs, Holds, ShutInv, PCs, Preparing, Executing,
       Leaving, CallerStates
  <2>2. CASE slot' = AbortClaim(slot) /\ caller' = [caller EXCEPT ![c] = "Done"]
    BY <2>2 DEF Typed, PhaseInv, PlaceInv, OwnerIs, Holds, ShutInv, PCs, Preparing, Executing,
       Leaving, CallerStates
  <2> QED
    BY <2>1, <2>2
<1>6. ShutInv'
  BY DEF Typed, ShutInv, PhaseInv, Executing
<1>7. RunInv'
  BY DEF Typed, RunInv, PhaseInv, Executing, Preparing, Leaving, Answers
<1>8. MarkInv'
  BY DEF Typed, MarkInv, AnswerInv, PlaceInv, PhaseInv, RunInv, OwnerIs, Holds,
     Interruptible, Executing, Preparing, Leaving, Answers, CallerStates
<1> QED
  BY <1>1, <1>2, <1>3, <1>4, <1>5, <1>6, <1>7, <1>8

\* The claim goes over to the command in the channel, or is given back.
LEMMA SendCommandKeeps ==
  ASSUME TurnsInv, NEW c \in Callers, SendCommand(c)
  PROVE  TurnsInv'
<1> USE CallersAssumption, AnswersAssumption, AbortSlot, QueueFacts
      DEF TurnsInv, asked, SendCommand,
        DropClaim, Move, Return, task
<1>0. queue = <<>> /\ turn = None /\ \A d \in Callers : Holds(d) <=> d = c
  BY DEF PlaceInv, Holds
<1>1. Flags' /\ PromptInv'
  BY DEF Flags, PromptInv
<1>2. Typed'
  BY DEF Typed, PCs, CallerStates, Answers
<1>3. PlaceInv'
  <2>1. CASE open
    BY <1>0, <2>1 DEF Typed, PlaceInv, Holds
  <2>2. CASE ~open
    BY <1>0, <2>2 DEF Typed, PlaceInv, Holds
  <2> QED
    BY <2>1, <2>2
<1>4. AnswerInv'
  BY DEF Typed, AnswerInv, PlaceInv, CallerStates, PhaseInv, OwnerIs, Holds
<1>5. PhaseInv'
  <2>1. CASE open
    <3>1. OwnerIs(c) /\ OwnerIs(c)'
      BY <1>0, <2>1 DEF OwnerIs, Holds
    <3> QED
      BY <2>1, <3>1 DEF PhaseInv
  <2>2. CASE ~open
    <3>1. \A d \in Callers : ~OwnerIs(d)'
      BY <1>0, <2>2 DEF Typed, OwnerIs, Holds
    <3>2. slot.phase \in {"Admitted", "ShuttingDown"} /\ OwnerIs(c)
      BY <1>0 DEF PhaseInv, OwnerIs, Holds, Typed, Slots, Phases, Executing, Leaving
    <3> QED
      BY <1>0, <2>2, <3>1, <3>2 DEF PhaseInv, Typed, Executing, Leaving, Preparing
  <2> QED
    BY <2>1, <2>2
<1>6. ShutInv'
  BY DEF Typed, ShutInv, PhaseInv, Executing
<1>7. RunInv'
  BY DEF Typed, RunInv, PhaseInv, Executing, Preparing, Leaving, Answers
<1>8. MarkInv'
  BY DEF Typed, MarkInv, AnswerInv, PlaceInv, PhaseInv, RunInv, OwnerIs, Holds,
     Interruptible, Executing, Preparing, Leaving, Answers, CallerStates
<1> QED
  BY <1>1, <1>2, <1>3, <1>4, <1>5, <1>6, <1>7, <1>8

\* A dropped future gives back the claim it holds, and no other.
LEMMA CancelCallKeeps ==
  ASSUME TurnsInv, NEW c \in Callers, CancelCall(c)
  PROVE  TurnsInv'
<1> USE CallersAssumption, AnswersAssumption, AbortSlot
      DEF TurnsInv, asked, CancelCall, DropClaim,
        Move, Return, task
<1>1. Flags' /\ PromptInv'
  BY DEF Flags, PromptInv
<1>2. Typed'
  BY DEF Typed, PCs, CallerStates, Answers
<1>3. PlaceInv'
  BY DEF Typed, PlaceInv, PhaseInv, OwnerIs, Holds, CallerStates, Preparing, Executing,
     Leaving
<1>4. AnswerInv'
  BY DEF Typed, AnswerInv, PlaceInv, CallerStates, PhaseInv, OwnerIs, Holds
<1>5. PhaseInv'
  BY DEF Typed, PhaseInv, PlaceInv, OwnerIs, Holds, ShutInv, PCs, Preparing, Executing,
     Leaving, CallerStates
<1>6. ShutInv'
  BY DEF Typed, ShutInv, PhaseInv, Executing
<1>7. RunInv'
  BY DEF Typed, RunInv, PhaseInv, Executing, Preparing, Leaving, Answers
<1>8. MarkInv'
  BY DEF Typed, MarkInv, AnswerInv, PlaceInv, PhaseInv, RunInv, OwnerIs, Holds,
     Interruptible, Executing, Preparing, Leaving, Answers, CallerStates
<1> QED
  BY <1>1, <1>2, <1>3, <1>4, <1>5, <1>6, <1>7, <1>8

\* An interrupt marks the turn under way.
LEMMA InterruptKeeps ==
  ASSUME TurnsInv, Interrupt
  PROVE  TurnsInv'
<1> USE CallersAssumption, AnswersAssumption, InterruptSlot, OwnersAre
      DEF TurnsInv, asked, Interrupt, Wake, Wakes, task, calls
<1>1. PlaceInv' /\ AnswerInv' /\ PromptInv'
  BY DEF PlaceInv, Holds, AnswerInv, PromptInv
<1>2. Flags'
  BY DEF Flags
<1>3. Typed'
  BY DEF Typed, PCs, CallerStates, Answers
<1>4. PhaseInv'
  BY DEF Typed, PhaseInv, PlaceInv, OwnerIs, Holds, ShutInv, PCs, Preparing, Executing,
     Leaving, CallerStates
<1>5. ShutInv'
  BY DEF Typed, ShutInv, PhaseInv, Executing
<1>6. RunInv'
  BY DEF Typed, RunInv, PhaseInv, Executing, Preparing, Leaving, Answers
<1>7. MarkInv'
  BY DEF Typed, MarkInv, AnswerInv, PlaceInv, PhaseInv, RunInv, OwnerIs, Holds,
     Interruptible, Executing, Preparing, Leaving, Answers, CallerStates
<1> QED
  BY <1>1, <1>2, <1>3, <1>4, <1>5, <1>6, <1>7

\* An interrupt compared with the active run marks the turn under way.
LEMMA InterruptRunKeeps ==
  ASSUME TurnsInv, NEW c \in Callers, InterruptRun(c)
  PROVE  TurnsInv'
<1> USE CallersAssumption, AnswersAssumption, InterruptSlot, OwnersAre
      DEF TurnsInv, asked, InterruptRun, Wake, Wakes, task, calls
<1>1. PlaceInv' /\ AnswerInv' /\ PromptInv'
  BY DEF PlaceInv, Holds, AnswerInv, PromptInv
<1>2. Flags'
  BY DEF Flags
<1>3. Typed'
  BY DEF Typed, PCs, CallerStates, Answers
<1>4. PhaseInv'
  BY DEF Typed, PhaseInv, PlaceInv, OwnerIs, Holds, ShutInv, PCs, Preparing, Executing,
     Leaving, CallerStates
<1>5. ShutInv'
  BY DEF Typed, ShutInv, PhaseInv, Executing
<1>6. RunInv'
  BY DEF Typed, RunInv, PhaseInv, Executing, Preparing, Leaving, Answers
<1>7. MarkInv'
  BY DEF Typed, MarkInv, AnswerInv, PlaceInv, PhaseInv, RunInv, OwnerIs, Holds,
     Interruptible, Executing, Preparing, Leaving, Answers, CallerStates
<1> QED
  BY <1>1, <1>2, <1>3, <1>4, <1>5, <1>6, <1>7

\* A suspension marks the turn under way, unless a hard interrupt did.
LEMMA SuspendRunKeeps ==
  ASSUME TurnsInv, NEW c \in Callers, SuspendRun(c)
  PROVE  TurnsInv'
<1> USE CallersAssumption, AnswersAssumption, SuspendSlot, OwnersAre
      DEF TurnsInv, asked, SuspendRun,
        Wake, Wakes, task, calls
<1>1. PlaceInv' /\ AnswerInv' /\ PromptInv'
  BY DEF PlaceInv, Holds, AnswerInv, PromptInv
<1>2. Flags'
  BY DEF Flags
<1>3. Typed'
  BY DEF Typed, PCs, CallerStates, Answers
<1>4. PhaseInv'
  BY DEF Typed, PhaseInv, PlaceInv, OwnerIs, Holds, ShutInv, PCs, Preparing, Executing,
     Leaving, CallerStates
<1>5. ShutInv'
  BY DEF Typed, ShutInv, PhaseInv, Executing
<1>6. RunInv'
  BY DEF Typed, RunInv, PhaseInv, Executing, Preparing, Leaving, Answers
<1>7. MarkInv'
  BY DEF Typed, MarkInv, AnswerInv, PlaceInv, PhaseInv, RunInv, OwnerIs, Holds,
     Interruptible, Executing, Preparing, Leaving, Answers, CallerStates
<1> QED
  BY <1>1, <1>2, <1>3, <1>4, <1>5, <1>6, <1>7

\* A stopping service interrupts the turn under way.
LEMMA StopServiceKeeps ==
  ASSUME TurnsInv, StopService
  PROVE  TurnsInv'
<1> USE CallersAssumption, AnswersAssumption, InterruptSlot, OwnersAre
      DEF TurnsInv, asked, StopService, Wake, Wakes, task, calls
<1>1. PlaceInv' /\ AnswerInv' /\ PromptInv'
  BY DEF PlaceInv, Holds, AnswerInv, PromptInv
<1>2. Flags'
  BY DEF Flags
<1>3. Typed'
  BY DEF Typed, PCs, CallerStates, Answers
<1>4. PhaseInv'
  BY DEF Typed, PhaseInv, PlaceInv, OwnerIs, Holds, ShutInv, PCs, Preparing, Executing,
     Leaving, CallerStates
<1>5. ShutInv'
  BY DEF Typed, ShutInv, PhaseInv, Executing
<1>6. RunInv'
  BY DEF Typed, RunInv, PhaseInv, Executing, Preparing, Leaving, Answers
<1>7. MarkInv'
  BY DEF Typed, MarkInv, AnswerInv, PlaceInv, PhaseInv, RunInv, OwnerIs, Holds,
     Interruptible, Executing, Preparing, Leaving, Answers, CallerStates
<1> QED
  BY <1>1, <1>2, <1>3, <1>4, <1>5, <1>6, <1>7

\* An archive takes effect before a run, or waits for its end.
LEMMA ArchiveKeeps ==
  ASSUME TurnsInv, Archive
  PROVE  TurnsInv'
<1> USE CallersAssumption, AnswersAssumption, ShutdownSlot
      DEF TurnsInv, asked, Archive, task, calls
<1>0. slot.phase \in {"Idle", "Admitted", "Running", "Completing", "ShuttingDown"}
  BY DEF Typed, Slots, Phases
<1>1. PlaceInv' /\ AnswerInv' /\ PromptInv'
  BY DEF PlaceInv, Holds, AnswerInv, PromptInv
<1>2. Flags'
  BY <1>0 DEF Flags
<1>3. Typed'
  BY <1>0 DEF Typed, PCs, CallerStates, Answers
<1>4. PhaseInv'
  BY <1>0 DEF Typed, PhaseInv, PlaceInv, OwnerIs, Holds, ShutInv, PCs, Preparing, Executing,
     Leaving, CallerStates
<1>5. ShutInv'
  BY <1>0 DEF Typed, ShutInv, PhaseInv, Executing
<1>6. RunInv'
  BY <1>0 DEF Typed, RunInv, PhaseInv, Executing, Preparing, Leaving, Answers
<1>7. MarkInv'
  BY <1>0 DEF Typed, MarkInv, AnswerInv, PlaceInv, PhaseInv, RunInv, OwnerIs, Holds,
     Interruptible, Executing, Preparing, Leaving, Answers, CallerStates
<1> QED
  BY <1>1, <1>2, <1>3, <1>4, <1>5, <1>6, <1>7

\* The task is notified of an archive.
LEMMA DropArchivedHandleKeeps ==
  ASSUME TurnsInv, DropArchivedHandle
  PROVE  TurnsInv'
<1> USE CallersAssumption, AnswersAssumption
      DEF TurnsInv, asked, DropArchivedHandle, task, calls
<1>1. Typed' /\ PlaceInv' /\ AnswerInv' /\ PhaseInv' /\ RunInv' /\ MarkInv' /\ PromptInv'
  BY DEF Typed, PlaceInv, Holds, AnswerInv, PhaseInv, OwnerIs, RunInv, MarkInv,
     Interruptible, PromptInv
<1>2. Flags'
  BY DEF Flags
<1>3. ShutInv'
  BY DEF Typed, ShutInv, PhaseInv, Executing
<1> QED
  BY <1>1, <1>2, <1>3

\* A dropped service leaves the task its channel's end.
LEMMA DropServiceKeeps ==
  ASSUME TurnsInv, DropService
  PROVE  TurnsInv'
<1> USE CallersAssumption, AnswersAssumption DEF TurnsInv, asked, DropService, task, calls
<1>1. Typed' /\ PlaceInv' /\ AnswerInv' /\ PhaseInv' /\ RunInv' /\ MarkInv' /\ PromptInv'
  BY DEF Typed, PlaceInv, Holds, AnswerInv, PhaseInv, OwnerIs, RunInv, MarkInv,
     Interruptible, PromptInv
<1>2. Flags'
  BY DEF Flags
<1>3. ShutInv'
  BY DEF Typed, ShutInv, PhaseInv, Executing
<1> QED
  BY <1>1, <1>2, <1>3

\* The task hears of a shutdown between turns, when it has taken effect.
LEMMA SelectShutdownKeeps ==
  ASSUME TurnsInv, SelectShutdown
  PROVE  TurnsInv'
<1> USE CallersAssumption, AnswersAssumption DEF TurnsInv, asked, SelectShutdown, calls
<1>1. PlaceInv' /\ AnswerInv' /\ MarkInv'
  BY DEF PlaceInv, Holds, AnswerInv, MarkInv, OwnerIs, Interruptible
<1>2. Flags'
  BY DEF Flags
<1>3. Typed'
  BY DEF Typed, PCs, CallerStates, Answers
<1>4. PhaseInv'
  BY DEF Typed, PhaseInv, PlaceInv, OwnerIs, Holds, ShutInv, PCs, Preparing, Executing,
     Leaving, CallerStates
<1>5. ShutInv'
  BY DEF Typed, ShutInv, PhaseInv, Executing
<1>6. RunInv'
  BY DEF Typed, RunInv, PhaseInv, Executing, Preparing, Leaving, Answers
<1>7. PromptInv'
  BY DEF Flags, Typed, PromptInv, RunInv, PhaseInv, Executing, Preparing, Leaving, Answers
<1> QED
  BY <1>1, <1>2, <1>3, <1>4, <1>5, <1>6, <1>7

\* The task takes the turn from the channel.
LEMMA SelectCommandKeeps ==
  ASSUME TurnsInv, SelectCommand
  PROVE  TurnsInv'
<1> USE CallersAssumption, AnswersAssumption, QueueFacts
      DEF TurnsInv, asked, SelectCommand, calls,
        env
<1>0. PICK c \in Callers : queue = <<c>> /\ turn' = c /\ queue' = <<>>
  BY DEF PlaceInv
<1>1. Flags' /\ AnswerInv' /\ ShutInv'
  BY DEF Flags, AnswerInv, ShutInv
<1>2. Typed'
  BY <1>0 DEF Typed, PCs, CallerStates, Answers
<1>3. PlaceInv'
  BY <1>0 DEF Typed, PlaceInv, PhaseInv, OwnerIs, Holds, CallerStates, Preparing, Executing,
     Leaving
<1>4. PhaseInv'
  <2>1. OwnerIs(c) /\ OwnerIs(c)'
    BY <1>0 DEF OwnerIs
  <2>2. slot.phase \in {"Admitted", "ShuttingDown"} /\ c # None
    BY <2>1 DEF PhaseInv, Typed, Slots, Phases, Executing
  <2> QED
    BY <1>0, <2>1, <2>2 DEF PhaseInv, Executing, Leaving, Preparing
<1>5. RunInv'
  BY <1>0 DEF Typed, RunInv, PhaseInv, Executing, Preparing, Leaving, Answers
<1>6. MarkInv'
  BY <1>0 DEF Typed, MarkInv, AnswerInv, PlaceInv, PhaseInv, RunInv, OwnerIs, Holds,
     Interruptible, Executing, Preparing, Leaving, Answers, CallerStates
<1>7. PromptInv'
  BY <1>0 DEF Flags, Typed, PromptInv, RunInv, PhaseInv, Executing, Preparing, Leaving,
     Answers
<1> QED
  BY <1>1, <1>2, <1>3, <1>4, <1>5, <1>6, <1>7

\* A closed channel is a shutdown between turns.
LEMMA SelectClosedKeeps ==
  ASSUME TurnsInv, SelectClosed
  PROVE  TurnsInv'
<1> USE CallersAssumption, AnswersAssumption, ShutdownSlot
      DEF TurnsInv, asked, SelectClosed, calls,
        env
<1>0. slot.phase \in {"Idle", "Admitted", "Running", "Completing", "ShuttingDown"}
  BY DEF Typed, Slots, Phases
<1>1. Flags' /\ PlaceInv' /\ AnswerInv'
  BY DEF Flags, PlaceInv, Holds, AnswerInv
<1>2. Typed'
  BY <1>0 DEF Typed, PCs, CallerStates, Answers
<1>3. PhaseInv'
  BY <1>0 DEF Typed, PhaseInv, PlaceInv, OwnerIs, Holds, ShutInv, PCs, Preparing, Executing,
     Leaving, CallerStates
<1>4. ShutInv'
  BY <1>0 DEF Typed, ShutInv, PhaseInv, Executing
<1>5. RunInv'
  BY <1>0 DEF Typed, RunInv, PhaseInv, Executing, Preparing, Leaving, Answers
<1>6. MarkInv'
  BY <1>0 DEF Typed, MarkInv, AnswerInv, PlaceInv, PhaseInv, RunInv, OwnerIs, Holds,
     Interruptible, Executing, Preparing, Leaving, Answers, CallerStates
<1>7. PromptInv'
  BY <1>0 DEF Flags, Typed, PromptInv, RunInv, PhaseInv, Executing, Preparing, Leaving,
     Answers
<1> QED
  BY <1>1, <1>2, <1>3, <1>4, <1>5, <1>6, <1>7

\* The turn takes the staged prompt, or is cancelled.
LEMMA DispatchKeeps ==
  ASSUME TurnsInv, Dispatch
  PROVE  TurnsInv'
<1> USE CallersAssumption, AnswersAssumption
      DEF TurnsInv, asked, Dispatch, Archived, EndBeforeRun,
        Proceed, Return, calls, env
<1>1. ShutInv'
  BY DEF ShutInv
<1>2. Flags'
  BY DEF Flags
<1>3. Typed'
  BY DEF Typed, PCs, CallerStates, Answers, PhaseInv, Preparing, Leaving
<1>4. PlaceInv'
  BY DEF Typed, PlaceInv, PhaseInv, OwnerIs, Holds, CallerStates, Preparing, Executing,
     Leaving
<1>5. AnswerInv'
  BY DEF Typed, AnswerInv, PlaceInv, CallerStates, PhaseInv, OwnerIs, Holds
<1>6. PhaseInv'
  BY DEF Typed, PhaseInv, PlaceInv, OwnerIs, Holds, ShutInv, PCs, Preparing, Executing,
     Leaving, CallerStates
<1>7. RunInv'
  BY DEF Typed, RunInv, PhaseInv, Executing, Preparing, Leaving, Answers
<1>8. MarkInv'
  BY DEF Typed, MarkInv, AnswerInv, PlaceInv, PhaseInv, RunInv, OwnerIs, Holds,
     Interruptible, Executing, Preparing, Leaving, Answers, CallerStates
<1>9. PromptInv'
  BY DEF Flags, Typed, PromptInv, RunInv, PhaseInv, Executing, Preparing, Leaving, Answers
<1> QED
  BY <1>1, <1>2, <1>3, <1>4, <1>5, <1>6, <1>7, <1>8, <1>9

\* A turn refused before its run gives back the slot and the prompt.
LEMMA DispositionKeeps ==
  ASSUME TurnsInv, Disposition
  PROVE  TurnsInv'
<1> USE CallersAssumption, AnswersAssumption, AbortSlot
      DEF TurnsInv, asked, Disposition, Archived,
        Refuse, EndBeforeRun, Proceed, Return, calls, env
<1>1. Flags'
  BY DEF Flags
<1>2. Typed'
  BY DEF Typed, PCs, CallerStates, Answers, PhaseInv, Preparing, Leaving
<1>3. PlaceInv'
  <2>1. queue = <<>> /\ turn \in Callers /\ \A c \in Callers : ~Holds(c)
    BY DEF Typed, PlaceInv, PhaseInv, Leaving
  <2>2. CASE turn' = turn /\ caller' = caller
    BY <2>2 DEF PlaceInv, Holds
  <2>3. CASE turn' = None /\ \E x : Return(turn, x)
    BY <2>1, <2>3 DEF Typed, PlaceInv, Holds
  <2> QED
    BY <2>2, <2>3
<1>4. AnswerInv'
  BY DEF Typed, AnswerInv, PlaceInv, CallerStates, PhaseInv, OwnerIs, Holds
<1>5. PhaseInv'
  BY DEF Typed, PhaseInv, PlaceInv, OwnerIs, Holds, ShutInv, PCs, Preparing, Executing,
     Leaving, CallerStates
<1>6. ShutInv'
  BY DEF Typed, ShutInv, PhaseInv, Executing
<1>7. RunInv'
  BY DEF Typed, RunInv, PhaseInv, Executing, Preparing, Leaving, Answers
<1>8. MarkInv'
  BY DEF Typed, MarkInv, AnswerInv, PlaceInv, PhaseInv, RunInv, OwnerIs, Holds,
     Interruptible, Executing, Preparing, Leaving, Answers, CallerStates
<1>9. PromptInv'
  BY DEF Flags, Typed, PromptInv, RunInv, PhaseInv, Executing, Preparing, Leaving, Answers
<1> QED
  BY <1>1, <1>2, <1>3, <1>4, <1>5, <1>6, <1>7, <1>8, <1>9

\* The last checks before the run.
LEMMA KeepAliveKeeps ==
  ASSUME TurnsInv, KeepAlive
  PROVE  TurnsInv'
<1> USE CallersAssumption, AnswersAssumption, AbortSlot
      DEF TurnsInv, asked, KeepAlive, Archived,
        Refuse, EndBeforeRun, Proceed, Return, calls, env
<1>1. Flags'
  BY DEF Flags
<1>2. Typed'
  BY DEF Typed, PCs, CallerStates, Answers, PhaseInv, Preparing, Leaving
<1>3. PlaceInv'
  BY DEF Typed, PlaceInv, PhaseInv, OwnerIs, Holds, CallerStates, Preparing, Executing,
     Leaving
<1>4. AnswerInv'
  BY DEF Typed, AnswerInv, PlaceInv, CallerStates, PhaseInv, OwnerIs, Holds
<1>5. PhaseInv'
  BY DEF Typed, PhaseInv, PlaceInv, OwnerIs, Holds, ShutInv, PCs, Preparing, Executing,
     Leaving, CallerStates
<1>6. ShutInv'
  BY DEF Typed, ShutInv, PhaseInv, Executing
<1>7. RunInv'
  BY DEF Typed, RunInv, PhaseInv, Executing, Preparing, Leaving, Answers
<1>8. MarkInv'
  BY DEF Typed, MarkInv, AnswerInv, PlaceInv, PhaseInv, RunInv, OwnerIs, Holds,
     Interruptible, Executing, Preparing, Leaving, Answers, CallerStates
<1>9. PromptInv'
  BY DEF Flags, Typed, PromptInv, RunInv, PhaseInv, Executing, Preparing, Leaving, Answers
<1> QED
  BY <1>1, <1>2, <1>3, <1>4, <1>5, <1>6, <1>7, <1>8, <1>9

\* The admitted turn runs.
LEMMA BeginKeeps ==
  ASSUME TurnsInv, Begin
  PROVE  TurnsInv'
<1> USE CallersAssumption, AnswersAssumption, BeginSlot
      DEF TurnsInv, asked, Begin, Archived,
        EndBeforeRun, Return, calls, env
<1>1. Flags'
  BY DEF Flags
<1>2. Typed'
  BY DEF Typed, PCs, CallerStates, Answers, PhaseInv, Preparing, Leaving
<1>3. PlaceInv'
  BY DEF Typed, PlaceInv, PhaseInv, OwnerIs, Holds, CallerStates, Preparing, Executing,
     Leaving
<1>4. AnswerInv'
  BY DEF Typed, AnswerInv, PlaceInv, CallerStates, PhaseInv, OwnerIs, Holds
<1>5. PhaseInv'
  BY DEF Typed, PhaseInv, PlaceInv, OwnerIs, Holds, ShutInv, PCs, Preparing, Executing,
     Leaving, CallerStates
<1>6. ShutInv'
  BY DEF Typed, ShutInv, PhaseInv, Executing
<1>7. RunInv'
  BY DEF Typed, RunInv, PhaseInv, Executing, Preparing, Leaving, Answers
<1>8. MarkInv'
  BY DEF Typed, MarkInv, AnswerInv, PlaceInv, PhaseInv, RunInv, OwnerIs, Holds,
     Interruptible, Executing, Preparing, Leaving, Answers, CallerStates
<1>9. PromptInv'
  BY DEF Flags, Typed, PromptInv, RunInv, PhaseInv, Executing, Preparing, Leaving, Answers
<1> QED
  BY <1>1, <1>2, <1>3, <1>4, <1>5, <1>6, <1>7, <1>8, <1>9

\* A refused run start ends the turn without a run.
LEMMA RefusedRunKeeps ==
  ASSUME TurnsInv, RefusedRun
  PROVE  TurnsInv'
<1> USE CallersAssumption, AnswersAssumption, ResolveSlot, FinalizeSlot
      DEF TurnsInv, asked, RefusedRun, Answer, Return, env
<1>1. Flags'
  BY DEF Flags
<1>2. Typed'
  BY DEF Typed, PCs, CallerStates, Answers, PhaseInv, Executing, Leaving
<1>3. PlaceInv'
  BY DEF Typed, PlaceInv, PhaseInv, OwnerIs, Holds, CallerStates, Preparing, Executing,
     Leaving
<1>4. AnswerInv'
  BY DEF Typed, AnswerInv, PlaceInv, CallerStates, PhaseInv, OwnerIs, Holds
<1>5. PhaseInv'
  BY DEF Typed, PhaseInv, PlaceInv, OwnerIs, Holds, ShutInv, PCs, Preparing, Executing,
     Leaving, CallerStates
<1>6. ShutInv'
  BY DEF Typed, ShutInv, PhaseInv, Executing
<1>7. RunInv'
  BY DEF Typed, RunInv, PhaseInv, Executing, Preparing, Leaving, Answers
<1>8. MarkInv'
  BY DEF Typed, MarkInv, AnswerInv, PlaceInv, PhaseInv, RunInv, OwnerIs, Holds,
     Interruptible, Executing, Preparing, Leaving, Answers, CallerStates
<1>9. PromptInv'
  BY DEF Flags, Typed, PromptInv, RunInv, PhaseInv, Executing, Preparing, Leaving, Answers
<1> QED
  BY <1>1, <1>2, <1>3, <1>4, <1>5, <1>6, <1>7, <1>8, <1>9

\* The task looks at the interrupt before it waits.
LEMMA CheckInterruptKeeps ==
  ASSUME TurnsInv, CheckInterrupt
  PROVE  TurnsInv'
<1> USE CallersAssumption, AnswersAssumption DEF TurnsInv, asked, CheckInterrupt, calls, env
<1>1. Flags' /\ PlaceInv' /\ AnswerInv' /\ ShutInv' /\ MarkInv'
  BY DEF Flags, PlaceInv, Holds, AnswerInv, ShutInv, MarkInv, OwnerIs, Interruptible
<1>2. Typed'
  BY DEF Typed, PCs, CallerStates, Answers
<1>3. PhaseInv'
  BY DEF Typed, PhaseInv, PlaceInv, OwnerIs, Holds, ShutInv, PCs, Preparing, Executing,
     Leaving, CallerStates
<1>4. RunInv'
  BY DEF Typed, RunInv, PhaseInv, Executing, Preparing, Leaving, Answers
<1>5. PromptInv'
  BY DEF Flags, Typed, PromptInv, RunInv, PhaseInv, Executing, Preparing, Leaving, Answers
<1> QED
  BY <1>1, <1>2, <1>3, <1>4, <1>5

\* The result is taken only when no interrupt was accepted, in one hold of the
\* mutex: from then on none is.
LEMMA TakeResultKeeps ==
  ASSUME TurnsInv, TakeResult
  PROVE  TurnsInv'
<1> USE CallersAssumption, AnswersAssumption, ResolveSlot
      DEF TurnsInv, asked, TakeResult, calls, env
<1>1. Flags' /\ PlaceInv' /\ AnswerInv'
  BY DEF Flags, PlaceInv, Holds, AnswerInv
<1>2. Typed'
  BY DEF Typed, PCs, CallerStates, Answers
<1>3. PhaseInv'
  BY DEF Typed, PhaseInv, PlaceInv, OwnerIs, Holds, ShutInv, PCs, Preparing, Executing,
     Leaving, CallerStates
<1>4. ShutInv'
  BY DEF Typed, ShutInv, PhaseInv, Executing
<1>5. RunInv'
  BY DEF Typed, RunInv, PhaseInv, Executing, Preparing, Leaving, Answers
<1>6. MarkInv'
  BY DEF Typed, MarkInv, AnswerInv, PlaceInv, PhaseInv, RunInv, OwnerIs, Holds,
     Interruptible, Executing, Preparing, Leaving, Answers, CallerStates
<1>7. PromptInv'
  BY DEF Flags, Typed, PromptInv, RunInv, PhaseInv, Executing, Preparing, Leaving, Answers
<1> QED
  BY <1>1, <1>2, <1>3, <1>4, <1>5, <1>6, <1>7

\* A wake is an interrupt or a boundary.
LEMMA WakeRunLoopKeeps ==
  ASSUME TurnsInv, WakeRunLoop
  PROVE  TurnsInv'
<1> USE CallersAssumption, AnswersAssumption DEF TurnsInv, asked, WakeRunLoop, calls
<1>1. PlaceInv' /\ AnswerInv' /\ ShutInv' /\ MarkInv'
  BY DEF PlaceInv, Holds, AnswerInv, ShutInv, MarkInv, OwnerIs, Interruptible
<1>2. Flags'
  BY DEF Flags
<1>3. Typed'
  BY DEF Typed, PCs, CallerStates, Answers
<1>4. PhaseInv'
  BY DEF Typed, PhaseInv, PlaceInv, OwnerIs, Holds, ShutInv, PCs, Preparing, Executing,
     Leaving, CallerStates
<1>5. RunInv'
  BY DEF Typed, RunInv, PhaseInv, Executing, Preparing, Leaving, Answers
<1>6. PromptInv'
  BY DEF Flags, Typed, PromptInv, RunInv, PhaseInv, Executing, Preparing, Leaving, Answers
<1> QED
  BY <1>1, <1>2, <1>3, <1>4, <1>5, <1>6

\* A dropped run has no result.
LEMMA DropRunKeeps ==
  ASSUME TurnsInv, DropRun
  PROVE  TurnsInv'
<1> USE CallersAssumption, AnswersAssumption
      DEF TurnsInv, asked, DropRun, SuspendRequested, calls,
        env
<1>1. Flags' /\ PlaceInv' /\ AnswerInv' /\ ShutInv'
  BY DEF Flags, PlaceInv, Holds, AnswerInv, ShutInv
<1>2. Typed'
  BY DEF Typed, PCs, CallerStates, Answers
<1>3. PhaseInv'
  BY DEF Typed, PhaseInv, PlaceInv, OwnerIs, Holds, ShutInv, PCs, Preparing, Executing,
     Leaving, CallerStates
<1>4. RunInv'
  BY DEF Typed, RunInv, PhaseInv, Executing, Preparing, Leaving, Answers
<1>5. MarkInv'
  BY DEF Typed, MarkInv, AnswerInv, PlaceInv, PhaseInv, RunInv, OwnerIs, Holds,
     Interruptible, Executing, Preparing, Leaving, Answers, CallerStates
<1>6. PromptInv'
  BY DEF Flags, Typed, PromptInv, RunInv, PhaseInv, Executing, Preparing, Leaving, Answers
<1> QED
  BY <1>1, <1>2, <1>3, <1>4, <1>5, <1>6

\* The slot is resolved and a prompt that no run carried restored.
LEMMA ResolveRunKeeps ==
  ASSUME TurnsInv, ResolveRun
  PROVE  TurnsInv'
<1> USE CallersAssumption, AnswersAssumption, ResolveSlot
      DEF TurnsInv, asked, ResolveRun, calls, env
<1>1. PlaceInv' /\ AnswerInv'
  BY DEF PlaceInv, Holds, AnswerInv
<1>2. Flags'
  BY DEF Flags
<1>3. Typed'
  BY DEF Typed, PCs, CallerStates, Answers
<1>4. PhaseInv'
  BY DEF Typed, PhaseInv, PlaceInv, OwnerIs, Holds, ShutInv, PCs, Preparing, Executing,
     Leaving, CallerStates
<1>5. ShutInv'
  BY DEF Typed, ShutInv, PhaseInv, Executing
<1>6. RunInv'
  BY DEF Typed, RunInv, PhaseInv, Executing, Preparing, Leaving, Answers
<1>7. MarkInv'
  BY DEF Typed, MarkInv, AnswerInv, PlaceInv, PhaseInv, RunInv, OwnerIs, Holds,
     Interruptible, Executing, Preparing, Leaving, Answers, CallerStates
<1>8. PromptInv'
  BY DEF Flags, Typed, PromptInv, RunInv, PhaseInv, Executing, Preparing, Leaving, Answers
<1> QED
  BY <1>1, <1>2, <1>3, <1>4, <1>5, <1>6, <1>7, <1>8

\* The turn is answered and the slot is idle, or shuts down.
LEMMA FinalizeRunKeeps ==
  ASSUME TurnsInv, FinalizeRun
  PROVE  TurnsInv'
<1> USE CallersAssumption, AnswersAssumption, FinalizeSlot
      DEF TurnsInv, asked, FinalizeRun, Answer,
        Return, env
<1>1. Flags'
  BY DEF Flags
<1>2. Typed'
  BY DEF Typed, PCs, CallerStates, Answers, PhaseInv, Executing, Leaving
<1>3. PlaceInv'
  BY DEF Typed, PlaceInv, PhaseInv, OwnerIs, Holds, CallerStates, Preparing, Executing,
     Leaving
<1>4. AnswerInv'
  BY DEF Typed, AnswerInv, PlaceInv, CallerStates, PhaseInv, OwnerIs, Holds
<1>5. PhaseInv'
  BY DEF Typed, PhaseInv, PlaceInv, OwnerIs, Holds, ShutInv, PCs, Preparing, Executing,
     Leaving, CallerStates
<1>6. ShutInv'
  BY DEF Typed, ShutInv, PhaseInv, Executing
<1>7. RunInv'
  BY DEF Typed, RunInv, PhaseInv, Executing, Preparing, Leaving, Answers
<1>8. MarkInv'
  BY DEF Typed, MarkInv, AnswerInv, PlaceInv, PhaseInv, RunInv, OwnerIs, Holds,
     Interruptible, Executing, Preparing, Leaving, Answers, CallerStates
<1>9. PromptInv'
  BY DEF Flags, Typed, PromptInv, RunInv, PhaseInv, Executing, Preparing, Leaving, Answers
<1> QED
  BY <1>1, <1>2, <1>3, <1>4, <1>5, <1>6, <1>7, <1>8, <1>9

\* The commands in the channel are answered.
LEMMA DrainCommandsKeeps ==
  ASSUME TurnsInv, DrainCommands
  PROVE  TurnsInv'
<1> USE CallersAssumption, AnswersAssumption, QueueFacts
      DEF TurnsInv, asked, DrainCommands, calls
<1>1. ShutInv'
  BY DEF ShutInv
<1>2. Flags'
  BY DEF Flags
<1>3. Typed'
  BY DEF Typed, PCs, CallerStates, Answers
<1>4. PlaceInv'
  BY DEF Typed, PlaceInv, PhaseInv, OwnerIs, Holds, CallerStates, Preparing, Executing,
     Leaving
<1>5. AnswerInv'
  BY DEF Typed, AnswerInv, PlaceInv, CallerStates, PhaseInv, OwnerIs, Holds
<1>6. PhaseInv'
  BY DEF Typed, PhaseInv, PlaceInv, OwnerIs, Holds, ShutInv, PCs, Preparing, Executing,
     Leaving, CallerStates
<1>7. RunInv'
  BY DEF Typed, RunInv, PhaseInv, Executing, Preparing, Leaving, Answers
<1>8. MarkInv'
  BY DEF Typed, MarkInv, AnswerInv, PlaceInv, PhaseInv, RunInv, OwnerIs, Holds,
     Interruptible, Executing, Preparing, Leaving, Answers, CallerStates
<1>9. PromptInv'
  BY DEF Flags, Typed, PromptInv, RunInv, PhaseInv, Executing, Preparing, Leaving, Answers
<1> QED
  BY <1>1, <1>2, <1>3, <1>4, <1>5, <1>6, <1>7, <1>8, <1>9

\* The task exits or parks.
LEMMA AuthorizeTeardownKeeps ==
  ASSUME TurnsInv, AuthorizeTeardown
  PROVE  TurnsInv'
<1> USE CallersAssumption, AnswersAssumption, TearDownSlot
      DEF TurnsInv, asked, AuthorizeTeardown,
        MayTearDown, calls, env
<1>1. Flags' /\ PlaceInv' /\ AnswerInv'
  BY DEF Flags, PlaceInv, Holds, AnswerInv
<1>2. Typed'
  BY DEF Typed, PCs, CallerStates, Answers
<1>3. PhaseInv'
  BY DEF Typed, PhaseInv, PlaceInv, OwnerIs, Holds, ShutInv, PCs, Preparing, Executing,
     Leaving, CallerStates
<1>4. ShutInv'
  BY DEF Typed, ShutInv, PhaseInv, Executing
<1>5. RunInv'
  BY DEF Typed, RunInv, PhaseInv, Executing, Preparing, Leaving, Answers
<1>6. MarkInv'
  BY DEF Typed, MarkInv, AnswerInv, PlaceInv, PhaseInv, RunInv, OwnerIs, Holds,
     Interruptible, Executing, Preparing, Leaving, Answers, CallerStates
<1>7. PromptInv'
  BY DEF Flags, Typed, PromptInv, RunInv, PhaseInv, Executing, Preparing, Leaving, Answers
<1> QED
  BY <1>1, <1>2, <1>3, <1>4, <1>5, <1>6, <1>7

\* The run starts under the turn's id, with the prompt it carries.
LEMMA RunStartsKeeps ==
  ASSUME TurnsInv, RunStarts
  PROVE  TurnsInv'
<1> USE CallersAssumption, AnswersAssumption DEF TurnsInv, asked, RunStarts, calls, env
<1>1. PlaceInv' /\ AnswerInv' /\ PhaseInv' /\ ShutInv' /\ MarkInv'
  BY DEF PlaceInv, Holds, AnswerInv, PhaseInv, OwnerIs, ShutInv, MarkInv, Interruptible
<1>2. Flags'
  BY DEF Flags
<1>3. Typed'
  BY DEF Typed, PCs, CallerStates, Answers
<1>4. RunInv'
  BY DEF Typed, RunInv, PhaseInv, Executing, Preparing, Leaving, Answers
<1>5. PromptInv'
  BY DEF Flags, Typed, PromptInv, RunInv, PhaseInv, Executing, Preparing, Leaving, Answers
<1> QED
  BY <1>1, <1>2, <1>3, <1>4, <1>5

\* The run ends by itself.
LEMMA RunEndsKeeps ==
  ASSUME TurnsInv, NEW a \in {"Ok", "Err"}, RunEnds(a)
  PROVE  TurnsInv'
<1> USE CallersAssumption, AnswersAssumption DEF TurnsInv, asked, RunEnds, calls, env
<1>1. Flags' /\ PlaceInv' /\ AnswerInv' /\ PhaseInv' /\ ShutInv'
  BY DEF Flags, PlaceInv, Holds, AnswerInv, PhaseInv, OwnerIs, ShutInv
<1>2. Typed'
  BY DEF Typed, PCs, CallerStates, Answers
<1>3. RunInv'
  BY DEF Typed, RunInv, PhaseInv, Executing, Preparing, Leaving, Answers
<1>4. MarkInv'
  BY DEF Typed, MarkInv, AnswerInv, PlaceInv, PhaseInv, RunInv, OwnerIs, Holds,
     Interruptible, Executing, Preparing, Leaving, Answers, CallerStates
<1>5. PromptInv'
  BY DEF Flags, Typed, PromptInv, RunInv, PhaseInv, Executing, Preparing, Leaving, Answers
<1> QED
  BY <1>1, <1>2, <1>3, <1>4, <1>5

\* An event of the run is published.
LEMMA PublishEventKeeps ==
  ASSUME TurnsInv, PublishEvent
  PROVE  TurnsInv'
<1> USE CallersAssumption, AnswersAssumption DEF TurnsInv, asked, PublishEvent, calls, env
<1>1. Flags' /\ PlaceInv' /\ AnswerInv' /\ ShutInv'
  BY DEF Flags, PlaceInv, Holds, AnswerInv, ShutInv
<1>2. Typed'
  BY DEF Typed, PCs, CallerStates, Answers
<1>3. PhaseInv'
  BY DEF Typed, PhaseInv, PlaceInv, OwnerIs, Holds, PCs, Preparing, Executing, Leaving
<1>4. RunInv'
  BY DEF Typed, RunInv, PhaseInv, Executing, Preparing, Leaving, Answers
<1>5. MarkInv'
  BY DEF Typed, MarkInv, RunInv, PhaseInv, OwnerIs, Holds, Interruptible, Answers
<1>6. PromptInv'
  BY DEF Flags, Typed, PromptInv, RunInv, PhaseInv, Executing, Preparing, Leaving, Answers
<1> QED
  BY <1>1, <1>2, <1>3, <1>4, <1>5, <1>6

\* The receiver took the event or is gone.
LEMMA EventSentKeeps ==
  ASSUME TurnsInv, EventSent
  PROVE  TurnsInv'
<1> USE CallersAssumption, AnswersAssumption DEF TurnsInv, asked, EventSent, calls, env
<1>1. Flags' /\ PlaceInv' /\ AnswerInv' /\ ShutInv'
  BY DEF Flags, PlaceInv, Holds, AnswerInv, ShutInv
<1>2. Typed'
  BY DEF Typed, PCs, CallerStates, Answers
<1>3. PhaseInv'
  BY DEF Typed, PhaseInv, PlaceInv, OwnerIs, Holds, PCs, Preparing, Executing, Leaving
<1>4. RunInv'
  BY DEF Typed, RunInv, PhaseInv, Executing, Preparing, Leaving, Answers
<1>5. MarkInv'
  BY DEF Typed, MarkInv, RunInv, PhaseInv, OwnerIs, Holds, Interruptible, Answers
<1>6. PromptInv'
  BY DEF Flags, Typed, PromptInv, RunInv, PhaseInv, Executing, Preparing, Leaving, Answers
<1> QED
  BY <1>1, <1>2, <1>3, <1>4, <1>5, <1>6

\* The cleanup may fail a turn.
LEMMA CleanUpKeeps ==
  ASSUME TurnsInv, CleanUp
  PROVE  TurnsInv'
<1> USE CallersAssumption, AnswersAssumption DEF TurnsInv, asked, CleanUp, calls, env
<1>1. Flags' /\ PlaceInv' /\ AnswerInv' /\ ShutInv'
  BY DEF Flags, PlaceInv, Holds, AnswerInv, ShutInv
<1>2. Typed'
  BY DEF Typed, PCs, CallerStates, Answers
<1>3. PhaseInv'
  BY DEF Typed, PhaseInv, PlaceInv, OwnerIs, Holds, PCs, Preparing, Executing, Leaving
<1>4. RunInv'
  BY DEF Typed, RunInv, PhaseInv, Executing, Preparing, Leaving, Answers
<1>5. MarkInv'
  BY DEF Typed, MarkInv, RunInv, PhaseInv, OwnerIs, Holds, Interruptible, Answers
<1>6. PromptInv'
  BY DEF Flags, Typed, PromptInv, RunInv, PhaseInv, Executing, Preparing, Leaving, Answers
<1> QED
  BY <1>1, <1>2, <1>3, <1>4, <1>5, <1>6

\* The final save of the run.
LEMMA FinalSaveKeeps ==
  ASSUME TurnsInv, FinalSave
  PROVE  TurnsInv'
<1> USE CallersAssumption, AnswersAssumption DEF TurnsInv, asked, FinalSave, calls, env
<1>1. Flags' /\ PlaceInv' /\ AnswerInv' /\ ShutInv'
  BY DEF Flags, PlaceInv, Holds, AnswerInv, ShutInv
<1>2. Typed'
  BY DEF Typed, PCs, CallerStates, Answers
<1>3. PhaseInv'
  BY DEF Typed, PhaseInv, PlaceInv, OwnerIs, Holds, PCs, Preparing, Executing, Leaving
<1>4. RunInv'
  BY DEF Typed, RunInv, PhaseInv, Executing, Preparing, Leaving, Answers
<1>5. MarkInv'
  BY DEF Typed, MarkInv, RunInv, PhaseInv, OwnerIs, Holds, Interruptible, Answers
<1>6. PromptInv'
  BY DEF Flags, Typed, PromptInv, RunInv, PhaseInv, Executing, Preparing, Leaving, Answers
<1> QED
  BY <1>1, <1>2, <1>3, <1>4, <1>5, <1>6

\* The runtime prepares a run.
LEMMA PrepareKeeps ==
  ASSUME TurnsInv, NEW c \in Callers, Prepare(c)
  PROVE  TurnsInv'
<1> USE CallersAssumption, AnswersAssumption DEF TurnsInv, asked, Prepare, calls, env
<1>1. Flags' /\ PlaceInv' /\ AnswerInv' /\ ShutInv'
  BY DEF Flags, PlaceInv, Holds, AnswerInv, ShutInv
<1>2. Typed'
  BY DEF Typed, PCs, CallerStates, Answers
<1>3. PhaseInv'
  BY DEF Typed, PhaseInv, PlaceInv, OwnerIs, Holds, PCs, Preparing, Executing, Leaving
<1>4. RunInv'
  BY DEF Typed, RunInv, PhaseInv, Executing, Preparing, Leaving, Answers
<1>5. MarkInv'
  BY DEF Typed, MarkInv, RunInv, PhaseInv, OwnerIs, Holds, Interruptible, Answers
<1>6. PromptInv'
  BY DEF Flags, Typed, PromptInv, RunInv, PhaseInv, Executing, Preparing, Leaving, Answers
<1> QED
  BY <1>1, <1>2, <1>3, <1>4, <1>5, <1>6

\* The runtime records the end of a run.
LEMMA RuntimeRecordsEndKeeps ==
  ASSUME TurnsInv, NEW c \in Callers, RuntimeRecordsEnd(c)
  PROVE  TurnsInv'
<1> USE CallersAssumption, AnswersAssumption
      DEF TurnsInv, asked, RuntimeRecordsEnd, calls, env
<1>1. Flags' /\ PlaceInv' /\ AnswerInv' /\ ShutInv'
  BY DEF Flags, PlaceInv, Holds, AnswerInv, ShutInv
<1>2. Typed'
  BY DEF Typed, PCs, CallerStates, Answers
<1>3. PhaseInv'
  BY DEF Typed, PhaseInv, PlaceInv, OwnerIs, Holds, PCs, Preparing, Executing, Leaving
<1>4. RunInv'
  BY DEF Typed, RunInv, PhaseInv, Executing, Preparing, Leaving, Answers
<1>5. MarkInv'
  BY DEF Typed, MarkInv, RunInv, PhaseInv, OwnerIs, Holds, Interruptible, Answers
<1>6. PromptInv'
  BY DEF Flags, Typed, PromptInv, RunInv, PhaseInv, Executing, Preparing, Leaving, Answers
<1> QED
  BY <1>1, <1>2, <1>3, <1>4, <1>5, <1>6

-----------------------------------------------------------------------------

\* The invariant holds of a new session.
LEMMA TurnsInit == Init => TurnsInv
<1> SUFFICES ASSUME Init PROVE TurnsInv
  OBVIOUS
<1> USE CallersAssumption, AnswersAssumption DEF Init
<1>1. slot \in Slots /\ slot.phase = "Idle" /\ ~slot.interrupt /\ ~slot.suspend
  BY DEF NewSlot, Slots, Phases
<1>2. Flags
  BY DEF Flags
<1>3. Typed
  BY <1>1 DEF Typed, PCs, CallerStates
<1>4. PlaceInv /\ AnswerInv
  BY DEF PlaceInv, AnswerInv, Holds
<1>5. PhaseInv /\ ShutInv /\ RunInv
  BY <1>1, QueueFacts
      DEF PhaseInv, OwnerIs, Holds, ShutInv, RunInv, Executing, Preparing, Leaving
<1>6. MarkInv
  BY <1>1, QueueFacts DEF MarkInv, OwnerIs, Holds, Answers
<1>7. PromptInv
  BY DEF PromptInv, Executing, Preparing, Answers
<1> QED
  BY <1>2, <1>3, <1>4, <1>5, <1>6, <1>7 DEF TurnsInv

\* Every step keeps the invariant.
LEMMA TurnsNext == TurnsInv /\ [Next]_vars => TurnsInv'
<1> SUFFICES ASSUME TurnsInv, [Next]_vars
             PROVE  TurnsInv'
  OBVIOUS
<1>1. CASE UNCHANGED vars
  BY <1>1
      DEF vars, task, calls, asked, TurnsInv, Flags, Typed, PlaceInv, AnswerInv, PhaseInv, ShutInv,
     RunInv, MarkInv, PromptInv, OwnerIs, Holds, Interruptible
<1>2. CASE TaskStep
  BY <1>2, SelectShutdownKeeps, SelectCommandKeeps, SelectClosedKeeps, DispatchKeeps,
     DispositionKeeps, KeepAliveKeeps, BeginKeeps, RefusedRunKeeps, CheckInterruptKeeps,
     TakeResultKeeps, WakeRunLoopKeeps, DropRunKeeps, ResolveRunKeeps, FinalizeRunKeeps,
     DrainCommandsKeeps, AuthorizeTeardownKeeps
     DEF TaskStep
<1>3. ASSUME NEW c \in Callers, CallerStep(c) \/ CancelCall(c) PROVE TurnsInv'
  BY <1>3, StartTurnKeeps, ClaimTurnKeeps, BuildCommandKeeps, SendCommandKeeps, CancelCallKeeps
     DEF CallerStep
<1>4. ASSUME NEW c \in Callers, InterruptRun(c) \/ SuspendRun(c) PROVE TurnsInv'
  BY <1>4, InterruptRunKeeps, SuspendRunKeeps
<1>5. CASE Interrupt \/ StopService \/ Archive \/ DropArchivedHandle \/ DropService
  BY <1>5, InterruptKeeps, StopServiceKeeps, ArchiveKeeps, DropArchivedHandleKeeps, DropServiceKeeps
<1>6. CASE RunStarts \/ \E a \in {"Ok", "Err"} : RunEnds(a)
  BY <1>6, RunStartsKeeps, RunEndsKeeps
<1>7. CASE PublishEvent \/ EventSent \/ CleanUp \/ FinalSave
  BY <1>7, PublishEventKeeps, EventSentKeeps, CleanUpKeeps, FinalSaveKeeps
<1>8. ASSUME NEW c \in Callers, Prepare(c) \/ RuntimeRecordsEnd(c) PROVE TurnsInv'
  BY <1>8, PrepareKeeps, RuntimeRecordsEndKeeps
<1> QED
  BY <1>1, <1>2, <1>3, <1>4, <1>5, <1>6, <1>7, <1>8 DEF Next

\* The invariant holds in every reachable state.
LEMMA TurnsSafe == Spec => []TurnsInv
BY TurnsInit, TurnsNext, PTL DEF Spec

\* The session's variables keep their types, and the channel never holds more
\* than one command, whatever its capacity and however many calls are made.
THEOREM TurnTypes == Spec => []TypeOK
<1>1. TurnsInv => TypeOK
  <2> SUFFICES ASSUME TurnsInv PROVE TypeOK
    OBVIOUS
  <2>1. {live, closed, handle, open, wakeup, shutdown, staged, took, landed} \subseteq BOOLEAN
    BY DEF TurnsInv, Flags
  <2>2. queue \in Seq(Callers) /\ Len(queue) <= 1
    <3>1. CASE queue = <<>>
      BY <3>1
    <3>2. ASSUME NEW c \in Callers, queue = <<c>> PROVE queue \in Seq(Callers) /\ Len(queue) <= 1
      BY <3>2
    <3> QED
      BY <3>1, <3>2 DEF TurnsInv, PlaceInv
  <2>3. /\ run # "none" <=> pc \in {"Check", "Run", "Publish", "Dropped", "CleanUp",
                                   "Resolve", "Finalize"}
        /\ turn = None <=> pc \in {"Select", "Drain", "Authorize", "Exited", "Parked"}
    BY DEF TurnsInv, RunInv, PhaseInv, Executing, Leaving
  <2> QED
    BY <2>1, <2>2, <2>3 DEF TypeOK, TurnsInv, Typed, PCs, CallerStates
<1> QED
  BY <1>1, TurnsSafe, PTL

\* While the slot is admitted exactly one turn holds it, for any number of
\* callers (StartTurnAdmissionClaim, abort_admitted_turn).
THEOREM OneOwnerWhileAdmitted == Spec => []AdmittedHasOneOwner
<1>1. TurnsInv => AdmittedHasOneOwner
  <2> SUFFICES ASSUME TurnsInv, slot.phase = "Admitted"
               PROVE  Cardinality(Owners) = 1
    BY DEF AdmittedHasOneOwner
  <2>1. PICK c \in Callers : OwnerIs(c)
    BY DEF TurnsInv, PhaseInv
  <2>2. Owners = {c}
    BY <2>1, OwnersAre
  <2> QED
    BY <2>2, FS_Singleton
<1> QED
  BY <1>1, TurnsSafe, PTL

\* A turn for which an interrupt or a suspension was accepted never answers
\* with a result (request_interrupt and the run loop of session_task).
THEOREM InterruptIsFinal == Spec => []InterruptedNeverSucceeds
<1>1. TurnsInv => InterruptedNeverSucceeds
  BY DEF TurnsInv, Typed, MarkInv, InterruptedNeverSucceeds
<1> QED
  BY <1>1, TurnsSafe, PTL

\* A prompt that a run carried is not staged again (run_started_observed).
THEOREM PromptIsStagedOnce == Spec => []PromptLandsOnce
<1>1. TurnsInv => PromptLandsOnce
  BY DEF TurnsInv, PromptInv, PromptLandsOnce
<1> QED
  BY <1>1, TurnsSafe, PTL

-----------------------------------------------------------------------------

\* What a step does to the prompt: it keeps it staged or held, a run carries
\* it, or a refused run start drops it.
LEMMA PromptStep ==
  ASSUME TurnsInv, Next, staged \/ took
  PROVE  staged' \/ took' \/ landed' \/ pc = "Refused"
<1> USE AnswersAssumption DEF TurnsInv, asked, Flags, calls, env, task
<1>1. CASE TaskStep
  <2>1. CASE SelectShutdown \/ SelectCommand \/ SelectClosed \/ CheckInterrupt \/ TakeResult
             \/ WakeRunLoop \/ DropRun \/ FinalizeRun \/ DrainCommands \/ AuthorizeTeardown
    BY <2>1 DEF SelectShutdown, SelectCommand, SelectClosed, CheckInterrupt, TakeResult,
       WakeRunLoop, DropRun, FinalizeRun, DrainCommands, AuthorizeTeardown
  <2>2. CASE Disposition \/ KeepAlive \/ Begin
    BY <2>2 DEF Disposition, KeepAlive, Begin, Archived, Refuse, EndBeforeRun, Proceed
  <2>3. CASE Dispatch
    BY <2>3 DEF Dispatch, Archived, EndBeforeRun, Proceed, PromptInv, Preparing, Executing
  <2>4. CASE RefusedRun
    BY <2>4 DEF RefusedRun
  <2>5. CASE ResolveRun
    BY <2>5 DEF ResolveRun, PromptInv
  <2> QED
    BY <1>1, <2>1, <2>2, <2>3, <2>4, <2>5 DEF TaskStep
<1>2. CASE \/ RunStarts \/ FinalSave \/ (\E a \in {"Ok", "Err"} : RunEnds(a))
           \/ PublishEvent \/ EventSent \/ CleanUp
           \/ \E c \in Callers : Prepare(c) \/ RuntimeRecordsEnd(c)
  BY <1>2 DEF RunStarts, FinalSave, RunEnds, PublishEvent, EventSent, CleanUp, Prepare,
     RuntimeRecordsEnd
<1>3. CASE \E c \in Callers : CallerStep(c) \/ CancelCall(c) \/ InterruptRun(c) \/ SuspendRun(c)
  BY <1>3 DEF CallerStep, StartTurn, ClaimTurn, BuildCommand, SendCommand, CancelCall,
     InterruptRun, SuspendRun
<1>4. CASE Interrupt \/ StopService \/ Archive \/ DropArchivedHandle \/ DropService
  BY <1>4 DEF Interrupt, StopService, Archive, DropArchivedHandle, DropService
<1> QED
  BY <1>1, <1>2, <1>3, <1>4 DEF Next

\* The staged create-time prompt stays staged or held until a run carries it,
\* whichever check before the run fails or is overtaken by an archive; only a run
\* start that is refused loses it (restore_deferred_turn_inputs, session_task).
THEOREM OnlyRefusalLosesPrompt ==
  Spec => [][staged \/ took => staged' \/ took' \/ landed' \/ pc = "Refused"]_vars
<1>1. TurnsInv /\ [Next]_vars =>
        [staged \/ took => staged' \/ took' \/ landed' \/ pc = "Refused"]_vars
  BY PromptStep
<1> QED
  BY <1>1, TurnsSafe, PTL DEF Spec

\* The task leaves the dropped run by DropRun only.
LEMMA DroppedStep ==
  ASSUME Next, pc = "Dropped", pc' = "CleanUp"
  PROVE  DropRun
BY DEF Next, TaskStep, CallerStep, SelectShutdown, SelectCommand, SelectClosed, Dispatch,
   Disposition, KeepAlive, Begin, RefusedRun, CheckInterrupt, TakeResult, WakeRunLoop,
   ResolveRun, FinalizeRun, DrainCommands, AuthorizeTeardown, RunStarts, RunEnds, StartTurn,
   ClaimTurn, BuildCommand, SendCommand, CancelCall, InterruptRun, SuspendRun, Interrupt,
   StopService, Archive, DropArchivedHandle, DropService, PublishEvent, EventSent, CleanUp,
   FinalSave, Prepare, RuntimeRecordsEnd, task

\* A hard interrupt beats a suspension, and a suspended run that can be resumed
\* ends suspended unless a claim answered Busy cleared its mark
\* (request_suspend_run, claim, suspend_dropped_run).
THEOREM SuspensionIsKept == Spec => SuspensionKept
<1>1. TurnsInv /\ [Next]_vars =>
        [ (pc = "Dropped" /\ pc' = "CleanUp" /\ run = "started")
            => /\ turn \in hard => outcome' # "Suspended"
               /\ turn \in soft \ (hard \cup cleared) => outcome' = "Suspended" ]_vars
  <2> SUFFICES ASSUME TurnsInv, Next, pc = "Dropped", pc' = "CleanUp", run = "started"
               PROVE  /\ turn \in hard => outcome' # "Suspended"
                      /\ turn \in soft \ (hard \cup cleared) => outcome' = "Suspended"
    OBVIOUS
  <2>1. DropRun
    BY DroppedStep
  <2>2. turn \in Callers /\ OwnerIs(turn) /\ Interruptible(slot)
    BY DEF TurnsInv, Typed, PhaseInv, Executing, Leaving, OwnerIs, Interruptible
  <2>3. /\ slot.interrupt <=> turn \in hard \cup soft
        /\ turn \in hard => ~slot.suspend
        /\ turn \in soft \ hard => slot.suspend \/ turn \in cleared
    BY <2>2 DEF TurnsInv, MarkInv
  <2> QED
    BY <2>1, <2>3 DEF DropRun, SuspendRequested
<1> QED
  BY <1>1, TurnsSafe, PTL DEF Spec, SuspensionKept
=============================================================================
