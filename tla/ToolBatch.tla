----------------------------- MODULE ToolBatch -----------------------------
(***************************************************************************)
(* One user turn's tool calls: executeBatch of internal/agent/agent.go     *)
(* cuts what the model asked for into runs, executes the calls of a run on *)
(* parallel goroutines, and each call passes two per-turn guards, the      *)
(* repeat-success counter of agent.go and the gate of op_gate.go.          *)
(***************************************************************************)
EXTENDS Naturals, Sequences, FiniteSets

CONSTANTS Ops,                  \* operations: a tool with its arguments
          Readers,              \* those of read-only tools
          Ledger,               \* complete_step and todo_write
          Footprint,            \* operation -> the paths its preview names
          Tracked,              \* write-like operations with a repeat signature
          maxParallel,          \* 8 in the code
          opFailureThreshold,   \* 3 in the code
          episodeFailureLimit,  \* 6 in the code
          repeatSuccessBreakThreshold,  \* 2 in the code
          MaxCalls,             \* bound on the calls of one batch
          MaxBatches            \* bound on the batches of the turn

ASSUME OpsAssumption ==
    /\ Readers \subseteq Ops /\ Ledger \subseteq Ops /\ Tracked \subseteq Ops
    /\ Readers \cap Ledger = {} /\ Tracked \cap (Readers \cup Ledger) = {}
    /\ \A o \in Readers \cup Ledger : Footprint[o] = {}

ASSUME LimitsAssumption ==
    /\ maxParallel \in Nat \ {0} /\ opFailureThreshold \in Nat \ {0}
    /\ episodeFailureLimit \in Nat \ {0} /\ repeatSuccessBreakThreshold \in Nat \ {0}
    /\ MaxCalls \in Nat /\ MaxBatches \in Nat

VARIABLES
    calls,            \* the batch
    batches,          \* batches begun
    callPC,               \* call -> where its goroutine stands
    mapMade,          \* a.repeatSuccessCounts # nil
    counts,           \* operation -> its entry in repeatSuccessCounts
    opFailures,       \* operation -> its entry in opFailures
    stoppedOps,
    episodeFailures,
    episodeStopped,
    succeeded,        \* operation -> its successes this turn (history)
    crashed           \* the runtime stopped the process: concurrent map access

batchVars == <<calls, batches>>
repeatVars == <<mapMade, counts>>
gateVars == <<opFailures, stoppedOps, episodeFailures, episodeStopped>>
toolVars == <<batchVars, callPC, repeatVars, gateVars, succeeded, crashed>>

Slots == 1..MaxCalls
CallPCs == {"absent", "lookup", "gate", "run", "ok", "failed", "timed out",
        "record", "make", "increment", "done"}

BatchTypeOK ==
    /\ calls \in Seq(Ops) /\ Len(calls) <= MaxCalls
    /\ batches \in 0..MaxBatches
    /\ callPC \in [Slots -> CallPCs]
    /\ mapMade \in BOOLEAN
    /\ counts \in [Ops -> Nat]
    /\ opFailures \in [Ops -> Nat]
    /\ stoppedOps \subseteq Ops \ (Readers \cup Ledger)
    /\ episodeFailures \in Nat
    /\ episodeStopped \in BOOLEAN
    /\ succeeded \in [Ops -> Nat]
    /\ crashed \in BOOLEAN

NoneOf == [o \in Ops |-> 0]

\* As Run leaves the guards when a user turn starts.
BatchInit ==
    /\ calls = <<>>
    /\ batches = 0
    /\ callPC = [i \in Slots |-> "absent"]
    /\ mapMade = FALSE
    /\ counts = NoneOf
    /\ opFailures = NoneOf
    /\ stoppedOps = {}
    /\ episodeFailures = 0
    /\ episodeStopped = FALSE
    /\ succeeded = NoneOf
    /\ crashed = FALSE

ReadOnly(o) == o \in Readers \cup Ledger
Running(i) == callPC[i] \notin {"absent", "done"}
BatchDone == \A i \in DOMAIN calls : callPC[i] = "done"

-----------------------------------------------------------------------------
(* partitionToolCalls *)

Writes(i) == Footprint[calls[i]] # {}

\* Variant: a call is compared with the first of the run only.
JoinsFirst(s, i) ==
    \/ calls[s] \in Readers /\ calls[i] \in Readers
    \/ Writes(s) /\ Writes(i) /\ Footprint[calls[s]] \cap Footprint[calls[i]] = {}

\* Call i goes into the run that began at s: readers together, writers with
\* a preview as long as no path was claimed before.
Joins(s, i) ==
    \/ calls[s] \in Readers /\ calls[i] \in Readers
    \/ /\ Writes(s) /\ Writes(i)
       /\ \A k \in s..(i - 1) : Footprint[calls[k]] \cap Footprint[calls[i]] = {}

\* Call -> the first call of its run.
RunStart[i \in Nat] ==
    IF i <= 1 THEN 1
    ELSE IF Joins(RunStart[i - 1], i) THEN RunStart[i - 1] ELSE i

-----------------------------------------------------------------------------
Goes(i, to) == callPC' = [callPC EXCEPT ![i] = to]
Step(i, from) == ~crashed /\ callPC[i] = from

BeginBatch ==
    /\ ~crashed
    /\ BatchDone
    /\ batches < MaxBatches
    /\ \E n \in Slots : calls' \in [1..n -> Ops]
    /\ batches' = batches + 1
    /\ callPC' = [i \in Slots |-> "absent"]
    /\ UNCHANGED <<repeatVars, gateVars, succeeded, crashed>>

\* Variant: the slot is taken by the goroutine, after it was started.
HasSlotLate == Cardinality({i \in DOMAIN calls : Running(i)}) <= maxParallel

\* The semaphore of runParallel; a serial run never fills it.
HasSlot == Cardinality({i \in DOMAIN calls : Running(i)}) < maxParallel

\* runParallel, or the serial loop: runs in order, and within a run the
\* goroutines are started in order.
StartCall(i) ==
    /\ i \in DOMAIN calls
    /\ Step(i, "absent")
    /\ \A k \in 1..(RunStart[i] - 1) : callPC[k] = "done"
    /\ \A k \in RunStart[i]..(i - 1) : callPC[k] # "absent"
    /\ HasSlot
    /\ Goes(i, "lookup")
    /\ UNCHANGED <<batchVars, repeatVars, gateVars, succeeded, crashed>>

\* repeatedSuccessBlock reads the counter without a lock ...
Repeated(o) == o \in Tracked /\ mapMade /\ counts[o] >= repeatSuccessBreakThreshold

\* ... and plan mode, permissions and hooks may refuse the call as well.
Lookup(i) ==
    /\ Step(i, "lookup")
    /\ \/ Goes(i, "done")
       \/ ~Repeated(calls[i]) /\ Goes(i, IF ReadOnly(calls[i]) THEN "run" ELSE "gate")
    /\ UNCHANGED <<batchVars, repeatVars, gateVars, succeeded, crashed>>

\* Variant: only the budget of the turn refuses an operation.
RefusedTurnOnly(o) == episodeStopped

\* decide, for an operation that is not read-only.
Refused(o) == episodeStopped \/ o \in stoppedOps \/ opFailures[o] >= opFailureThreshold

BeforeMutation(i) ==
    /\ Step(i, "gate")
    /\ Goes(i, IF Refused(calls[i]) THEN "done" ELSE "run")
    /\ UNCHANGED <<batchVars, repeatVars, gateVars, succeeded, crashed>>

\* t.Execute.
Execute(i) ==
    /\ Step(i, "run")
    /\ \E outcome \in {"ok", "failed", "timed out"} : Goes(i, outcome)
    /\ UNCHANGED <<batchVars, repeatVars, gateVars, succeeded, crashed>>

\* observeResult of a success; recordRepeatSuccess is next.
ObserveSuccess(i) ==
    /\ Step(i, "ok")
    /\ LET o == calls[i]
       IN  /\ opFailures' = [opFailures EXCEPT ![o] = 0]
           /\ stoppedOps' = stoppedOps \ {o}
           /\ succeeded' = [succeeded EXCEPT ![o] = @ + 1]
           /\ Goes(i, IF o \in Tracked THEN "record" ELSE "done")
    /\ UNCHANGED <<batchVars, repeatVars, episodeFailures, episodeStopped, crashed>>

Qualifies(i) == callPC[i] = "failed" /\ ~ReadOnly(calls[i])

\* observeResult of a failure.
ObserveFailure(i) ==
    /\ ~crashed
    /\ callPC[i] \in {"failed", "timed out"}
    /\ IF Qualifies(i)
       THEN LET o == calls[i]
            IN  /\ opFailures' = [opFailures EXCEPT ![o] = @ + 1]
                /\ stoppedOps' = IF opFailures'[o] >= opFailureThreshold THEN stoppedOps \cup {o} ELSE stoppedOps
                /\ episodeFailures' = episodeFailures + 1
                /\ episodeStopped' = (episodeStopped \/ episodeFailures' >= episodeFailureLimit)
       ELSE UNCHANGED gateVars
    /\ Goes(i, "done")
    /\ UNCHANGED <<batchVars, repeatVars, succeeded, crashed>>

\* recordRepeatSuccess: is the map nil? ...
Record(i) ==
    /\ Step(i, "record")
    /\ Goes(i, IF mapMade THEN "increment" ELSE "make")
    /\ UNCHANGED <<batchVars, repeatVars, gateVars, succeeded, crashed>>

\* ... then a new one takes its place ...
MakeMap(i) ==
    /\ Step(i, "make")
    /\ mapMade' = TRUE
    /\ counts' = NoneOf
    /\ Goes(i, "increment")
    /\ UNCHANGED <<batchVars, gateVars, succeeded, crashed>>

\* ... and the entry is incremented.
Increment(i) ==
    /\ Step(i, "increment")
    /\ counts' = [counts EXCEPT ![calls[i]] = @ + 1]
    /\ Goes(i, "done")
    /\ UNCHANGED <<batchVars, mapMade, gateVars, succeeded, crashed>>

\* Go detects, when it happens to, a map written by one goroutine while
\* another writes or reads it, and ends the process.
Reading(i) == callPC[i] = "lookup" /\ calls[i] \in Tracked /\ mapMade

MapFault ==
    /\ ~crashed
    /\ \E i, k \in DOMAIN calls : i # k /\ callPC[i] = "increment" /\ (callPC[k] = "increment" \/ Reading(k))
    /\ crashed' = TRUE
    /\ UNCHANGED <<batchVars, callPC, repeatVars, gateVars, succeeded>>

CallStep(i) == \/ StartCall(i) \/ Lookup(i) \/ BeforeMutation(i) \/ Execute(i)
               \/ ObserveSuccess(i) \/ ObserveFailure(i)
               \/ Record(i) \/ MakeMap(i) \/ Increment(i)

BatchNext == \/ BeginBatch
        \/ \E i \in Slots : CallStep(i)
        \/ MapFault

BatchSpec == BatchInit /\ [][BatchNext]_toolVars

-----------------------------------------------------------------------------
(* Properties *)

Commute(o, p) == \/ o \in Readers /\ p \in Readers
                 \/ /\ Footprint[o] # {} /\ Footprint[p] # {}
                    /\ Footprint[o] \cap Footprint[p] = {}

\* A call starts only when every earlier call that it could interfere with
\* is over: two edits of one file keep the model's order, a read never
\* overlaps a write, and a call without a preview runs alone.
ConflictsOrdered ==
    \A i, k \in DOMAIN calls : i < k /\ callPC[k] # "absent" =>
        callPC[i] = "done" \/ Commute(calls[i], calls[k])

\* An operation that keeps failing is tried opFailureThreshold times and no
\* more, parallel runs included (opStopMessage).
FailingOpStops == \A o \in Ops : opFailures[o] <= opFailureThreshold

\* Parallel writers may take the failures of a turn past its budget, by
\* less than one run of the semaphore (episodeFailureLimit).
TurnFailuresBounded == episodeFailures < episodeFailureLimit + maxParallel

\* An identical write-like call succeeds at most repeatSuccessBreakThreshold
\* times in a turn (repeatedSuccessBlock).
RepeatsBlocked == \A o \in Tracked : succeeded[o] <= repeatSuccessBreakThreshold

\* executeOne may run on parallel goroutines.
ParallelSafe == ~crashed
=============================================================================
