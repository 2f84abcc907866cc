--------------------------- MODULE TurnLifecycle ---------------------------
(***************************************************************************)
(* Turn admission in internal/control/controller.go together with the      *)
(* steer and follow-up queues of internal/agent/agent.go.                  *)
(*                                                                         *)
(* Frontends (CLI, desktop, HTTP, bot, ACP) call the controller from any   *)
(* goroutine: Submit/Send, FollowUp, Steer, RunTurn, Cancel, WaitTurn.  At *)
(* most one turn may run; `running` and `cancel`, guarded by c.mu, say     *)
(* which.  Every mutex region is one action; what a caller does after it   *)
(* unlocked (the enqueue, the spawn, the cancel()) is an action of its     *)
(* own, because another goroutine can run in between.                      *)
(*                                                                         *)
(* A prompt is one user input, submitted once.  Its `call` value is where  *)
(* the call that carries it stands, or what became of it.                  *)
(***************************************************************************)
EXTENDS Naturals, Sequences, FiniteSets

CONSTANTS Prompts,   \* user inputs
          Commands,  \* those that submit() handles without starting a turn (/compact, /goal, #note ...)
          Turns,     \* turns that may be started (a bound on the run, not on the code)
          None       \* no prompt, no turn

ASSUME NoneAssumption == None \notin Prompts \cup Turns
ASSUME CommandsAssumption == Commands \subseteq Prompts

VARIABLES
    running,     \* c.running
    cancel,      \* c.cancel: the turn whose context it cancels, or None
    pc,          \* turn -> where its goroutine stands
    prompt,      \* turn -> the prompt it runs
    sync,        \* turns run by RunTurn on the caller's goroutine
    failed,      \* turns whose body panicked
    cancelled,   \* turns whose context is done
    firing,      \* turns whose cancel function a Cancel call holds, not yet called
    turnWG,      \* turns counted by c.turnWG
    followUps,   \* agent.followUpQueue
    steers,      \* agent.steerQueue
    handed,      \* turn -> the follow-up it popped and submits
    call,        \* prompt -> state of the call that carries it
    aim,         \* prompt -> the turn that was running when Steer looked (history)
    waiter,      \* state of one WaitTurn call
    waitFor      \* turns in turnWG when that call began (history)

turnVars == <<running, cancel, pc, prompt, sync, failed, cancelled, firing, turnWG, handed>>
queueVars == <<followUps, steers>>
waitVars == <<waiter, waitFor>>
vars == <<turnVars, queueVars, call, aim, waitVars>>

PCs == {"unused", "admitted", "round", "streaming", "queued", "unwind", "runDone", "planQueued",
        "planned", "wedged", "returned", "cleared", "announced", "handing", "exited"}

Calls == {"fresh", "submit", "admitted", "started", "rejected", "handled",
          "enqueue", "queued", "steer", "steered", "consumed", "discarded"}

\* Turns between the two mutex regions that set and clear c.running.
Holding == {"admitted", "round", "streaming", "queued", "unwind", "runDone", "planQueued",
            "planned", "wedged", "returned"}
Active(t) == pc[t] \in Holding

\* Turn t stands at promptMu.Lock, behind another prompt.
Queued(t) == pc[t] \in {"queued", "planQueued"}

\* A turn locked c.mu and went on without unlocking it: nobody gets it again.
LockLost == \E t \in Turns : pc[t] = "wedged"

Live(t) == pc[t] \notin {"unused", "exited"}

SeqElems(s) == {s[i] : i \in DOMAIN s}

TypeOK ==
    /\ running \in BOOLEAN
    /\ cancel \in Turns \cup {None}
    /\ pc \in [Turns -> PCs]
    /\ prompt \in [Turns -> Prompts \cup {None}]
    /\ sync \subseteq Turns
    /\ failed \subseteq Turns
    /\ cancelled \subseteq Turns
    /\ firing \subseteq Turns
    /\ turnWG \subseteq Turns
    /\ followUps \in Seq(Prompts)
    /\ steers \in Seq(Prompts)
    /\ handed \in [Turns -> Prompts \cup {None}]
    /\ call \in [Prompts -> Calls]
    /\ aim \in [Prompts -> Turns \cup {None}]
    /\ waiter \in {"idle", "waiting", "drained", "timeout"}
    /\ waitFor \subseteq Turns

Init ==
    /\ running = FALSE
    /\ cancel = None
    /\ pc = [t \in Turns |-> "unused"]
    /\ prompt = [t \in Turns |-> None]
    /\ sync = {}
    /\ failed = {}
    /\ cancelled = {}
    /\ firing = {}
    /\ turnWG = {}
    /\ followUps = <<>>
    /\ steers = <<>>
    /\ handed = [t \in Turns |-> None]
    /\ call = [p \in Prompts |-> "fresh"]
    /\ aim = [p \in Prompts |-> None]
    /\ waiter = "idle"
    /\ waitFor = {}

-----------------------------------------------------------------------------
(* Calls of the frontends.                                                 *)

\* Submit / SubmitDisplay / Send: the caller enters submit.
Send(p) ==
    /\ call[p] = "fresh"
    /\ call' = [call EXCEPT ![p] = "submit"]
    /\ UNCHANGED <<turnVars, queueVars, aim, waitVars>>

\* FollowUp reads c.running under c.mu and releases it before acting on it.
FollowUp(p) ==
    /\ call[p] = "fresh" /\ ~LockLost
    /\ call' = [call EXCEPT ![p] = IF running THEN "enqueue" ELSE "submit"]
    /\ UNCHANGED <<turnVars, queueVars, aim, waitVars>>

\* executor.FollowUp(trimmed), after the unlock.
EnqueueFollowUp(p) ==
    /\ call[p] = "enqueue"
    /\ followUps' = Append(followUps, p)
    /\ call' = [call EXCEPT ![p] = "queued"]
    /\ UNCHANGED <<turnVars, steers, aim, waitVars>>

\* Steer reads c.running the same way; a stale frontend becomes a new turn.
Steer(p) ==
    /\ call[p] = "fresh" /\ ~LockLost
    /\ call' = [call EXCEPT ![p] = IF running THEN "steer" ELSE "submit"]
    /\ aim' = [aim EXCEPT ![p] = IF running THEN cancel ELSE None]
    /\ UNCHANGED <<turnVars, queueVars, waitVars>>

EnqueueSteer(p) ==
    /\ call[p] = "steer"
    /\ steers' = Append(steers, p)
    /\ call' = [call EXCEPT ![p] = "steered"]
    /\ UNCHANGED <<turnVars, followUps, aim, waitVars>>

\* submit handles quick-adds and slash commands itself: no turn is started.
SubmitCommand(p) ==
    /\ call[p] = "submit"
    /\ p \in Commands
    /\ call' = [call EXCEPT ![p] = "handled"]
    /\ UNCHANGED <<turnVars, queueVars, aim, waitVars>>

\* Turns are alike: the next one is fixed.
NextTurn == CHOOSE t \in Turns : pc[t] = "unused"

\* The state changes of admitting turn t for prompt p, under c.mu.
Admit(t, p) ==
    /\ running' = TRUE
    /\ cancel' = t
    /\ prompt' = [prompt EXCEPT ![t] = p]

\* runGuarded up to its unlock.
RunGuarded(p) ==
    /\ call[p] = "submit" /\ ~LockLost
    /\ p \notin Commands
    /\ \/ /\ running
          /\ call' = [call EXCEPT ![p] = "rejected"]
          /\ UNCHANGED turnVars
       \/ /\ ~running
          /\ \E t \in Turns :
                /\ pc[t] = "unused" /\ t = NextTurn
                /\ Admit(t, p)
                /\ pc' = [pc EXCEPT ![t] = "admitted"]
          /\ call' = [call EXCEPT ![p] = "admitted"]
          /\ UNCHANGED <<sync, failed, cancelled, firing, turnWG, handed>>
    /\ UNCHANGED <<queueVars, aim, waitVars>>

\* runGuarded after its unlock: turnWG.Add(1) and the turn's goroutine.
Spawn(t) ==
    /\ pc[t] = "admitted"
    /\ turnWG' = turnWG \cup {t}
    /\ pc' = [pc EXCEPT ![t] = "round"]
    /\ call' = [call EXCEPT ![prompt[t]] = "started"]
    /\ UNCHANGED <<running, cancel, prompt, sync, failed, cancelled, firing, handed>>
    /\ UNCHANGED <<queueVars, aim, waitVars>>

\* RunTurn: the same guard, the turn on the caller's goroutine, not in turnWG.
RunTurn(p) ==
    /\ call[p] = "fresh" /\ ~LockLost
    /\ \/ /\ running
          /\ call' = [call EXCEPT ![p] = "rejected"]
          /\ UNCHANGED turnVars
       \/ /\ ~running
          /\ \E t \in Turns :
                /\ pc[t] = "unused" /\ t = NextTurn
                /\ Admit(t, p)
                /\ pc' = [pc EXCEPT ![t] = "round"]
                /\ sync' = sync \cup {t}
          /\ call' = [call EXCEPT ![p] = "started"]
          /\ UNCHANGED <<failed, cancelled, firing, turnWG, handed>>
    /\ UNCHANGED <<queueVars, aim, waitVars>>

\* Cancel takes c.cancel under c.mu ...
Cancel ==
    /\ cancel # None /\ ~LockLost
    /\ firing' = firing \cup {cancel}
    /\ UNCHANGED <<running, cancel, pc, prompt, sync, failed, cancelled, turnWG, handed>>
    /\ UNCHANGED <<queueVars, call, aim, waitVars>>

\* ... and calls it after the unlock, when the turn may be over.
FireCancel(t) ==
    /\ t \in firing
    /\ firing' = firing \ {t}
    /\ cancelled' = cancelled \cup {t}
    /\ UNCHANGED <<running, cancel, pc, prompt, sync, failed, turnWG, handed>>
    /\ UNCHANGED <<queueVars, call, aim, waitVars>>

WaitTurn ==
    /\ waiter = "idle"
    /\ waiter' = "waiting"
    /\ waitFor' = turnWG
    /\ UNCHANGED <<turnVars, queueVars, call, aim>>

WaitTurnReturns ==
    /\ waiter = "waiting"
    /\ \/ turnWG = {} /\ waiter' = "drained" /\ UNCHANGED waitFor
       \/ waiter' = "timeout" /\ waitFor' = {}
    /\ UNCHANGED <<turnVars, queueVars, call, aim>>

-----------------------------------------------------------------------------
(* The turn's goroutine.  Its body is one or more agent Runs (the goal     *)
(* loop and an approved plan start another Run in the same turn).          *)

\* Only turn t's position moves.
Moves(t, to) ==
    /\ pc' = [pc EXCEPT ![t] = to]
    /\ UNCHANGED <<running, cancel, prompt, sync, failed, cancelled, firing, turnWG, handed>>

\* Variant: Run's loop without the stop gate.
GateIgnoresCancel(t) ==
    /\ pc[t] = "round"
    /\ Moves(t, "streaming")
    /\ UNCHANGED <<queueVars, call, aim, waitVars>>

\* Top of Run's loop: stop gate, then at most one steer is consumed.
Gate(t) ==
    /\ pc[t] = "round"
    /\ \/ /\ t \in cancelled
          /\ Moves(t, "unwind")
          /\ UNCHANGED <<steers, call>>
       \/ /\ t \notin cancelled
          /\ Moves(t, "streaming")
          /\ \/ /\ steers = <<>>
                /\ UNCHANGED <<steers, call>>
             \/ /\ steers # <<>>
                /\ call' = [call EXCEPT ![Head(steers)] = "consumed"]
                /\ steers' = Tail(steers)
    /\ UNCHANGED <<followUps, aim, waitVars>>

\* The model asked for tools (or the round is retried): the loop goes on.
StreamTools(t) ==
    /\ pc[t] = "streaming"
    /\ Moves(t, "round")
    /\ UNCHANGED <<queueVars, call, aim, waitVars>>

\* A final answer ends the Run unless a steer arrived meanwhile.
StreamFinal(t) ==
    /\ pc[t] = "streaming"
    /\ Moves(t, IF steers # <<>> THEN "round" ELSE "unwind")
    /\ UNCHANGED <<queueVars, call, aim, waitVars>>

\* Provider error, cancelled context, readiness failure or maxSteps.
StreamError(t) ==
    /\ pc[t] = "streaming"
    /\ Moves(t, "unwind")
    /\ UNCHANGED <<queueVars, call, aim, waitVars>>

\* A Run is over and its plan, if it made one, is answered.
BetweenRuns(t) == pc[t] \in {"runDone", "planned"}

\* A tool call of the Run asks the user, or the turn asks for its plan: it
\* waits for promptMu, and does not hear its context while it waits.
QueueForPrompt(t) ==
    /\ \/ pc[t] = "streaming" /\ Moves(t, "queued")
       \/ pc[t] = "runDone" /\ t \notin failed /\ Moves(t, "planQueued")
    /\ UNCHANGED <<queueVars, call, aim, waitVars>>

\* promptMu is free again; from here on the prompt hears the context, and the
\* call or the plan goes on with the answer.  Whoever holds promptMu (a
\* background job asks, too) may never be answered.
PromptComes(t) ==
    /\ \/ pc[t] = "queued" /\ Moves(t, "round")
       \/ pc[t] = "planQueued" /\ Moves(t, "planned")
    /\ UNCHANGED <<queueVars, call, aim, waitVars>>

\* The goal judge turns a finished goal down, or was cut by the cancel: c.mu is
\* locked again and never unlocked, so the next c.mu.Lock of the same goroutine
\* waits for itself.  RunTurn runs no goal loop.
JudgeRejects(t) ==
    /\ BetweenRuns(t)
    /\ t \notin failed \cup sync
    /\ Moves(t, "wedged")
    /\ UNCHANGED <<queueVars, call, aim, waitVars>>

\* runGuarded recovers a panic of the body; RunTurn does not.  The recover
\* stands until the goroutine ends: a panic of the sink or of the follow-up's
\* submit, after the flag was cleared, is not modelled.
RunPanics(t) ==
    /\ pc[t] = "streaming"
    /\ t \notin sync
    /\ failed' = failed \cup {t}
    /\ pc' = [pc EXCEPT ![t] = "unwind"]
    /\ UNCHANGED <<running, cancel, prompt, sync, cancelled, firing, turnWG, handed>>
    /\ UNCHANGED <<queueVars, call, aim, waitVars>>

\* Run's deferred clearSteerQueue: what is still queued is discarded.
ClearSteers(t) ==
    /\ pc[t] = "unwind"
    /\ Moves(t, "runDone")
    /\ steers' = <<>>
    /\ call' = [p \in Prompts |-> IF p \in SeqElems(steers) THEN "discarded" ELSE call[p]]
    /\ UNCHANGED <<followUps, aim, waitVars>>

\* continueGoal or an approved plan starts another Run in this turn.
NextRun(t) ==
    /\ BetweenRuns(t)
    /\ t \notin failed \cup cancelled
    /\ Moves(t, "round")
    /\ UNCHANGED <<queueVars, call, aim, waitVars>>

BodyReturns(t) ==
    /\ BetweenRuns(t)
    /\ Moves(t, "returned")
    /\ UNCHANGED <<queueVars, call, aim, waitVars>>

\* Variant: turnWG.Done when the body returns, before the goroutine's end.
ClearRunningAndDone(t) ==
    /\ pc[t] = "returned"
    /\ running' = FALSE
    /\ cancel' = None
    /\ pc' = [pc EXCEPT ![t] = IF t \in sync THEN "exited" ELSE "cleared"]
    /\ turnWG' = turnWG \ {t}
    /\ UNCHANGED <<prompt, sync, failed, cancelled, firing, handed>>
    /\ UNCHANGED <<queueVars, call, aim, waitVars>>

\* running = false, cancel = nil under c.mu.  RunTurn then returns.
ClearRunning(t) ==
    /\ pc[t] = "returned"
    /\ running' = FALSE
    /\ cancel' = None
    /\ pc' = [pc EXCEPT ![t] = IF t \in sync THEN "exited" ELSE "cleared"]
    /\ UNCHANGED <<prompt, sync, failed, cancelled, firing, turnWG, handed>>
    /\ UNCHANGED <<queueVars, call, aim, waitVars>>

\* TurnDone is emitted after the flag was cleared; a panic ends there.
EmitTurnDone(t) ==
    /\ pc[t] = "cleared"
    /\ Moves(t, "announced")
    /\ UNCHANGED <<queueVars, call, aim, waitVars>>

\* Variant: the drain reads the oldest follow-up and leaves it queued.
DrainFollowUpPeeks(t) ==
    /\ pc[t] = "announced"
    /\ t \notin cancelled \cup failed
    /\ followUps # <<>>
    /\ handed' = [handed EXCEPT ![t] = Head(followUps)]
    /\ call' = [call EXCEPT ![Head(followUps)] = "submit"]
    /\ pc' = [pc EXCEPT ![t] = "handing"]
    /\ UNCHANGED <<running, cancel, prompt, sync, failed, cancelled, firing, turnWG>>
    /\ UNCHANGED <<queueVars, aim, waitVars>>

\* A completed, uncancelled turn pops the oldest follow-up and submits it.
DrainFollowUp(t) ==
    /\ pc[t] = "announced"
    /\ t \notin cancelled \cup failed
    /\ followUps # <<>>
    /\ handed' = [handed EXCEPT ![t] = Head(followUps)]
    /\ followUps' = Tail(followUps)
    /\ call' = [call EXCEPT ![Head(followUps)] = "submit"]
    /\ pc' = [pc EXCEPT ![t] = "handing"]
    /\ UNCHANGED <<running, cancel, prompt, sync, failed, cancelled, firing, turnWG>>
    /\ UNCHANGED <<steers, aim, waitVars>>

\* The goroutine ends (turnWG.Done, deferred cancel()), without a drain or
\* once the submit of the follow-up it popped has returned.
TurnExits(t) ==
    /\ \/ /\ pc[t] = "announced"
          /\ t \in cancelled \cup failed \/ followUps = <<>>
       \/ /\ pc[t] = "handing"
          /\ call[handed[t]] \notin {"submit", "admitted"}
    /\ pc' = [pc EXCEPT ![t] = "exited"]
    /\ turnWG' = turnWG \ {t}
    /\ UNCHANGED <<running, cancel, prompt, sync, failed, cancelled, firing, handed>>
    /\ UNCHANGED <<queueVars, call, aim, waitVars>>

-----------------------------------------------------------------------------
TurnStep(t) ==
    \/ Spawn(t)
    \/ Gate(t)
    \/ StreamTools(t)
    \/ StreamFinal(t)
    \/ StreamError(t)
    \/ QueueForPrompt(t)
    \/ PromptComes(t)
    \/ JudgeRejects(t)
    \/ RunPanics(t)
    \/ ClearSteers(t)
    \/ NextRun(t)
    \/ BodyReturns(t)
    \/ ClearRunning(t)
    \/ EmitTurnDone(t)
    \/ DrainFollowUp(t)
    \/ TurnExits(t)

CallStep(p) ==
    \/ Send(p)
    \/ FollowUp(p)
    \/ EnqueueFollowUp(p)
    \/ Steer(p)
    \/ EnqueueSteer(p)
    \/ SubmitCommand(p)
    \/ RunGuarded(p)
    \/ RunTurn(p)

Next ==
    \/ \E t \in Turns : TurnStep(t) \/ FireCancel(t)
    \/ \E p \in Prompts : CallStep(p)
    \/ Cancel
    \/ WaitTurn
    \/ WaitTurnReturns

Spec == Init /\ [][Next]_vars

\* Goroutines and callers that can run do run.  A cancelled stream returns an
\* error; nothing else is assumed about what the provider answers, so a turn
\* that is not cancelled may stream for ever.  Nothing is assumed of PromptComes:
\* a turn may wait behind another prompt for good.
Fairness ==
    /\ \A t \in Turns :
          /\ WF_vars(Spawn(t) \/ Gate(t) \/ ClearSteers(t) \/ BodyReturns(t) \/ ClearRunning(t)
                       \/ EmitTurnDone(t) \/ DrainFollowUp(t) \/ TurnExits(t))
          /\ WF_vars(FireCancel(t))
          /\ WF_vars(t \in cancelled /\ StreamError(t))
    /\ \A p \in Prompts : WF_vars(EnqueueFollowUp(p) \/ EnqueueSteer(p) \/ SubmitCommand(p) \/ RunGuarded(p))

FairSpec == Spec /\ Fairness

-----------------------------------------------------------------------------
(* Properties.                                                             *)

\* runGuarded and RunTurn never let two turns run: c.running is true exactly
\* while one turn is between its admission and its clearing, and c.cancel then
\* cancels that turn and no other, so Stop always reaches the turn in flight.
OneTurn ==
    /\ running <=> \E t \in Turns : Active(t)
    /\ \A t \in Turns : Active(t) => cancel = t
    /\ ~running => cancel = None

\* A prompt starts at most one turn, whichever way it came: sent, queued as a
\* follow-up and popped, or a steer turned into a turn.
PromptStartsOnce ==
    \A t, u \in Turns : t # u /\ prompt[t] # None => prompt[t] # prompt[u]

\* The two queues and the calls agree: a queued prompt is queued once, and a
\* queued prompt is neither running nor handed to a turn.
QueuesConsistent ==
    /\ \A i, j \in DOMAIN followUps : followUps[i] = followUps[j] => i = j
    /\ \A i, j \in DOMAIN steers : steers[i] = steers[j] => i = j
    /\ \A p \in SeqElems(followUps) : call[p] = "queued" /\ \A t \in Turns : p \notin {prompt[t], handed[t]}
    /\ \A p \in SeqElems(steers) : call[p] = "steered" /\ \A t \in Turns : p \notin {prompt[t], handed[t]}

\* When WaitTurn returns because turnWG drained, every turn goroutine that was
\* counted when it was called has finished, its final session writes included.
WaitTurnDrains ==
    waiter = "drained" => \A t \in waitFor : pc[t] = "exited"

\* A turn whose context is cancelled ends, and the controller accepts turns
\* again, wherever the cancel meets it: waiting for its goroutine, between two
\* rounds, in a stream, between two Runs.  Two courses that keep it for ever are
\* excepted, and are findings of their own: a goal judge that turns a verdict
\* down keeps c.mu (JudgeRejectionContinues), and a call queued behind another
\* prompt does not hear the cancel (CancelUnblocksApproval).
CancelEndsTurn ==
    \A t \in Turns : []~LockLost /\ []<>~Queued(t) => (t \in cancelled /\ Active(t) ~> pc[t] = "exited")

\* What the controller does is what a server with one slot does: the slot is
\* the turn between the two regions that set and clear c.running.
Slot == IF running THEN prompt[cancel] ELSE None

Fate == [p \in Prompts |->
    IF call[p] \in {"admitted", "started"} THEN (IF Slot = p THEN "running" ELSE "finished")
    ELSE IF call[p] \in {"rejected", "discarded"} THEN "refused"
    ELSE IF call[p] = "consumed" THEN "absorbed"
    ELSE IF call[p] = "handled" THEN "handled"
    ELSE "waiting"]

Server == INSTANCE TurnServer WITH slot <- Slot, fate <- Fate

\* Every behaviour of the controller is one of the server: no interleaving of
\* Submit, FollowUp, Steer, RunTurn and a finishing turn starts a prompt while
\* another runs or starts it again, and a prompt is only turned down because a
\* turn was running at that moment.
ServesOneTurn == Server!Spec

(* What the comments of the code say and the code does not do.             *)

\* "Submitted after running was cleared, so runGuarded accepts the new turn":
\* the follow-up a finished turn pops is accepted.
FollowUpAccepted ==
    \A t \in Turns : handed[t] # None => call[handed[t]] # "rejected"

\* A queued follow-up runs "once the current one finishes": when every turn
\* goroutine is gone, none of them cancelled or failed, the queue is empty.
FollowUpNotStranded ==
    (\A t \in Turns : ~Live(t)) /\ cancelled \cup failed = {} => followUps = <<>>

\* "steer entries guide the current task": a steer is consumed by the turn that
\* was running when the user sent it.
SteerGuidesCurrentTask ==
    [][\A t \in Turns, p \in Prompts :
          pc[t] = "round" /\ call[p] = "steered" /\ call'[p] = "consumed"
              /\ pc'[t] = "streaming" => aim[p] = t]_vars

\* "blocks until no turn goroutine is in flight": no turn is running at the
\* moment WaitTurn returns without its timeout.
WaitTurnSeesNoTurn ==
    [][waiter = "waiting" /\ waiter' = "drained" => \A t \in Turns : ~Active(t)]_vars
=============================================================================
