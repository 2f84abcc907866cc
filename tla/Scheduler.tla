----------------------------- MODULE Scheduler -----------------------------
(***************************************************************************)
(* The task scheduler of internal/scheduler/scheduler.go: the precise      *)
(* timer and the goroutines it starts (fireDue), the user's Create,        *)
(* Update, Delete and RunNow, the task file, and crashes of the process    *)
(* followed by Load.  A region under s.mu is one action.                   *)
(*                                                                         *)
(* The clock counts units of the shortest interval the parser accepts      *)
(* (one minute).  An expression is "at arg" (oneShot) or "every arg";      *)
(* "daily" and cron expressions repeat and are "every" here.               *)
(***************************************************************************)
EXTENDS Naturals, Sequences, FiniteSets

CONSTANTS Ids,          \* task identifiers
          Firings,      \* goroutines the timer may have started at one time
          MaxTime,      \* where the clock stops
          MaxInterval,  \* the longest interval of an "every" expression
          Budgets,      \* bounds on the calls and crashes of a behaviour, see BudgetAssumption
          NoId

ASSUME ClockAssumption ==
    /\ MaxTime \in Nat \ {0} /\ MaxInterval \in Nat
    /\ IsFiniteSet(Firings) /\ NoId \notin Ids

\* ops counts Create, Update, Delete and Stop; refusals are the reasons for
\* which Update may refuse what it is given.
ASSUME BudgetAssumption ==
    Budgets \subseteq [ops : Nat, runNow : Nat, crashes : Nat, refusals : SUBSET {"interval", "past"}]

VARIABLES
    now,       \* the wall clock
    tasks,     \* s.tasks
    disk,      \* the task file
    created,   \* identifiers given out: taskID never repeats one
    phase,     \* of the process: "down", "loading" (before Load's save), "up"
    running,   \* s.running
    timer,     \* the instant s.nextTimer fires at, or Never
    missed,    \* s.missedReminders
    firePC,    \* timer goroutine -> where it stands
    due,       \* timer goroutine -> the indexes fireDue has still to run,
               \* which it takes in order
    at,        \* timer goroutine -> its argument now
    snap,      \* timer goroutine -> its copy t of the task
    manual,    \* the task RunNow is running, or NoId
    served,    \* task -> what became of its current one-shot schedule (history)
    started,   \* task -> runs begun for it (history)
    refused,   \* task -> whether an edit of its current schedule was refused, and
               \* left in memory: "unsaved" while the file has none of it (history)
    budget     \* calls and crashes left

taskVars == <<tasks, disk, created, served, refused>>
procVars == <<phase, running, timer, missed>>
fireVars == <<firePC, due, at, snap>>
schedVars == <<now, taskVars, procVars, fireVars, manual, started, budget>>

Never == 0    \* the zero time

Expressions == [oneShot : {TRUE}, arg : 1..MaxTime] \cup [oneShot : {FALSE}, arg : 0..MaxInterval]

\* NormalizeExpression refuses an interval below the minimum.
Valid(e) == e.oneShot \/ e.arg >= 1

NextRun(e, t) == IF ~e.oneShot THEN t + e.arg
                 ELSE IF e.arg > t THEN e.arg ELSE Never

Tasks == [id : Ids, expr : Expressions, oneShot : BOOLEAN, enabled : BOOLEAN,
          nextRun : Nat, runCount : Nat]

Scheduled(t) == t.enabled /\ t.nextRun # Never
DueAt(t, time) == Scheduled(t) /\ t.nextRun <= time

Positions(id) == {i \in DOMAIN tasks : tasks[i].id = id}
Listed == {tasks[i].id : i \in DOMAIN tasks}

Remove(s, i) == SubSeq(s, 1, i - 1) \o SubSeq(s, i + 1, Len(s))

SchedTypeOK ==
    /\ now \in 1..MaxTime
    /\ tasks \in Seq(Tasks)
    /\ disk \in Seq(Tasks)
    /\ created \subseteq Ids
    /\ phase \in {"down", "loading", "up"}
    /\ running \in BOOLEAN
    /\ timer \in Nat
    /\ missed \subseteq Ids
    /\ firePC \in [Firings -> {"idle", "guard", "collect", "next", "run", "record", "rearm"}]
    /\ due \in [Firings -> SUBSET (Nat \ {0})]
    /\ at \in [Firings -> 0..MaxTime]
    /\ snap \in [Firings -> Tasks \cup {NoId}]
    /\ \A f \in Firings : firePC[f] \in {"run", "record"} => snap[f] \in Tasks
    /\ manual \in Ids \cup {NoId}
    /\ served \in [Ids -> {"none", "owed", "fired", "delivered", "fired again", "reminded"}]
    /\ started \in [Ids -> Nat]
    /\ refused \in [Ids -> {"no", "unsaved", "kept"}]
    /\ \E b \in Budgets : budget \in [ops : 0..b.ops, runNow : 0..b.runNow, crashes : 0..b.crashes,
                                      refusals : {b.refusals}]

SchedInit ==
    /\ now = 1
    /\ tasks = <<>>
    /\ disk = <<>>
    /\ created = {}
    /\ phase = "up"
    /\ running = TRUE
    /\ timer = Never
    /\ missed = {}
    /\ firePC = [f \in Firings |-> "idle"]
    /\ due = [f \in Firings |-> {}]
    /\ at = [f \in Firings |-> 0]
    /\ snap = [f \in Firings |-> NoId]
    /\ manual = NoId
    /\ served = [id \in Ids |-> "none"]
    /\ started = [id \in Ids |-> 0]
    /\ refused = [id \in Ids |-> "no"]
    /\ budget \in Budgets

Tick == /\ now < MaxTime
        /\ now' = now + 1
        /\ UNCHANGED <<taskVars, procVars, fireVars, manual, started, budget>>

Spend(what) == /\ budget[what] > 0
               /\ budget' = [budget EXCEPT ![what] = @ - 1]

-----------------------------------------------------------------------------
(* The timer *)

Nearest(list) ==
    LET times == {list[i].nextRun : i \in {k \in DOMAIN list : Scheduled(list[k])}}
    IN  IF times = {} THEN Never ELSE CHOOSE t \in times : \A u \in times : t <= u

\* armNextTimerLocked, over the list the region leaves behind.
ArmTimer(list) == timer' = IF running THEN Nearest(list) ELSE timer

At(f, from, to) == firePC[f] = from /\ firePC' = [firePC EXCEPT ![f] = to]

\* Goroutines are alike, and taskID gives out identifiers in one order.
FreshFiring == CHOOSE f \in Firings : firePC[f] = "idle"
FreshId == CHOOSE id \in Ids \ created : TRUE

\* time.AfterFunc starts fireAndReschedule.
FireTimer(f) ==
    /\ timer # Never
    /\ timer <= now
    /\ At(f, "idle", "guard")
    /\ f = FreshFiring
    /\ timer' = Never
    /\ UNCHANGED <<now, taskVars, phase, running, missed, due, at, snap, manual, started, budget>>

\* The region that reads running, and the early return after Stop.
Guard(f) ==
    /\ At(f, "guard", IF running THEN "collect" ELSE "idle")
    /\ UNCHANGED <<now, taskVars, procVars, due, at, snap, manual, started, budget>>

\* fireDue's first region: the due tasks, as indexes into s.tasks.
Collect(f) ==
    /\ At(f, "collect", "next")
    /\ at' = [at EXCEPT ![f] = now]
    /\ due' = [due EXCEPT ![f] = {i \in DOMAIN tasks : DueAt(tasks[i], now)}]
    /\ UNCHANGED <<now, taskVars, procVars, snap, manual, started, budget>>

\* The one at which the loop of fireDue stands.
Index(f) == CHOOSE i \in due[f] : \A k \in due[f] : i <= k

\* What a scheduled run does to the history of a one-shot schedule.
AfterStart(t) == IF ~t.oneShot THEN served[t.id]
                 ELSE IF served[t.id] \in {"fired", "delivered", "fired again"} THEN "fired again"
                 ELSE "fired"

\* t := s.tasks[idx], in a region of its own, and the run begins.
BeginRun(f) ==
    /\ due[f] # {}
    /\ At(f, "next", "run")
    /\ LET idx == Index(f)
           t == tasks[idx]
       IN  /\ idx <= Len(tasks)
           /\ snap' = [snap EXCEPT ![f] = t]
           /\ started' = [started EXCEPT ![t.id] = @ + 1]
           /\ served' = [served EXCEPT ![t.id] = AfterStart(t)]
    /\ UNCHANGED <<now, tasks, disk, created, refused, procVars, due, at, manual, budget>>

\* runOne returned and deliverOutput has sent its result.
Deliver(f) ==
    /\ At(f, "run", "record")
    /\ LET id == snap[f].id
       IN  served' = [served EXCEPT ![id] = IF @ = "fired" THEN "delivered" ELSE @]
    /\ UNCHANGED <<now, tasks, disk, created, refused, procVars, due, at, snap, manual, started, budget>>

\* What the last region writes to an entry.
Rescheduled(t) ==
    IF t.oneShot THEN [t EXCEPT !.runCount = @ + 1, !.enabled = FALSE, !.nextRun = Never]
    ELSE [t EXCEPT !.runCount = @ + 1, !.nextRun = NextRun(t.expr, now)]

\* What was unsaved is in the file, or lost with the process.
Settled == [id \in Ids |-> IF refused[id] = "unsaved" THEN "kept" ELSE refused[id]]

Save(list) == tasks' = list /\ disk' = list /\ refused' = Settled

\* The new schedule takes the place of whatever refused edits left.
SaveAccepted(i, t) ==
    /\ tasks' = [tasks EXCEPT ![i] = t]
    /\ disk' = tasks'
    /\ refused' = [Settled EXCEPT ![t.id] = "no"]

\* Variant: the entry at the index is taken to be the task that ran.
SameEntryUnchecked(f, idx) == idx <= Len(tasks)

\* The re-validation under the lock.
SameEntry(f, idx) == idx <= Len(tasks) /\ tasks[idx].id = snap[f].id

\* The last region of the loop body.
Record(f) ==
    /\ At(f, "record", "next")
    /\ LET idx == Index(f)
       IN  IF SameEntry(f, idx)
           THEN Save([tasks EXCEPT ![idx] = Rescheduled(@)])
           ELSE UNCHANGED <<tasks, disk, refused>>
    /\ due' = [due EXCEPT ![f] = @ \ {Index(f)}]
    /\ UNCHANGED <<now, created, served, procVars, at, snap, manual, started, budget>>

EndOfDue(f) ==
    /\ due[f] = {}
    /\ At(f, "next", "rearm")
    /\ UNCHANGED <<now, taskVars, procVars, due, at, snap, manual, started, budget>>

\* Variant: a firing leaves the timer as it found it.
RearmForgotten(f) ==
    /\ At(f, "rearm", "idle")
    /\ UNCHANGED <<now, taskVars, procVars, due, at, snap, manual, started, budget>>

\* The end of fireAndReschedule.
Rearm(f) ==
    /\ At(f, "rearm", "idle")
    /\ ArmTimer(tasks)
    /\ UNCHANGED <<now, taskVars, phase, running, missed, due, at, snap, manual, started, budget>>

-----------------------------------------------------------------------------
(* The user's calls *)

\* Accepted schedules are owed one run, if one-shot and enabled.
Accepted(t) == IF t.oneShot /\ t.enabled THEN "owed" ELSE "none"

Create(id, e) ==
    /\ phase = "up"
    /\ Spend("ops")
    /\ id \notin created
    /\ id = FreshId
    /\ Valid(e)
    /\ e.oneShot => NextRun(e, now) # Never
    /\ LET t == [id |-> id, expr |-> e, oneShot |-> e.oneShot, enabled |-> TRUE,
                 nextRun |-> NextRun(e, now), runCount |-> 0]
       IN  /\ Save(Append(tasks, t))
           /\ served' = [served EXCEPT ![id] = Accepted(t)]
    /\ created' = created \cup {id}
    /\ ArmTimer(tasks')
    /\ UNCHANGED <<now, phase, running, missed, fireVars, manual, started>>

Delete(id) ==
    /\ phase = "up"
    /\ Spend("ops")
    /\ \E i \in Positions(id) : Save(Remove(tasks, i))
    /\ served' = [served EXCEPT ![id] = "none"]
    /\ ArmTimer(tasks')
    /\ UNCHANGED <<now, created, phase, running, missed, fireVars, manual, started>>

\* The entry as mut, then each refusal, leaves it in memory.
Edited(t, e, on) == [t EXCEPT !.expr = e, !.enabled = on]
Retyped(t) == [t EXCEPT !.oneShot = t.expr.oneShot]

Past(e, on) == on /\ e.oneShot /\ NextRun(e, now) = Never

Refused(e, on) == ~Valid(e) \/ Past(e, on)

\* Variant: the new schedule does not reach the timer.
UpdateAcceptedUnarmed(id, e, on) ==
    /\ ~Refused(e, on)
    /\ \E i \in Positions(id) :
         LET t == [Retyped(Edited(tasks[i], e, on)) EXCEPT
                       !.nextRun = IF on THEN NextRun(e, now) ELSE Never]
         IN  /\ SaveAccepted(i, t)
             /\ served' = [served EXCEPT ![id] = Accepted(t)]
    /\ UNCHANGED timer

UpdateAccepted(id, e, on) ==
    /\ ~Refused(e, on)
    /\ \E i \in Positions(id) :
         LET t == [Retyped(Edited(tasks[i], e, on)) EXCEPT
                       !.nextRun = IF on THEN NextRun(e, now) ELSE Never]
         IN  /\ SaveAccepted(i, t)
             /\ served' = [served EXCEPT ![id] = Accepted(t)]
    /\ ArmTimer(tasks')

\* The error returns: the entry was already edited in place.
UpdateRefused(id, e, on) ==
    /\ \/ ~Valid(e) /\ "interval" \in budget.refusals
       \/ Past(e, on) /\ "past" \in budget.refusals
    /\ refused' = [refused EXCEPT ![id] = "unsaved"]
    /\ \E i \in Positions(id) :
         LET t == Edited(tasks[i], e, on)
         IN  tasks' = [tasks EXCEPT ![i] = IF Valid(e) THEN Retyped(t) ELSE t]
    /\ UNCHANGED <<disk, served, timer>>

Update(id, e, on) ==
    /\ phase = "up"
    /\ Spend("ops")
    /\ \/ UpdateAccepted(id, e, on)
       \/ UpdateRefused(id, e, on)
    /\ UNCHANGED <<now, created, phase, running, missed, fireVars, manual, started>>

\* RunNow up to the run ...
BeginRunNow(id) ==
    /\ phase = "up"
    /\ Spend("runNow")
    /\ manual = NoId
    /\ id \in Listed
    /\ manual' = id
    /\ started' = [started EXCEPT ![id] = @ + 1]
    /\ UNCHANGED <<now, taskVars, procVars, fireVars>>

\* ... and from its result on: the schedule is not advanced.
EndRunNow ==
    /\ manual # NoId
    /\ IF manual \in Listed
       THEN \E i \in Positions(manual) : Save([tasks EXCEPT ![i].runCount = @ + 1])
       ELSE UNCHANGED <<tasks, disk, refused>>
    /\ manual' = NoId
    /\ UNCHANGED <<now, created, served, procVars, fireVars, started, budget>>

Stop ==
    /\ phase = "up"
    /\ Spend("ops")
    /\ running
    /\ running' = FALSE
    /\ timer' = Never
    /\ UNCHANGED <<now, taskVars, phase, missed, fireVars, manual, started>>

\* DrainMissedReminders, and the notifications the desktop sends.
DrainMissedReminders ==
    /\ phase = "up"
    /\ missed # {}
    /\ missed' = {}
    /\ served' = [id \in Ids |-> IF id \in missed /\ served[id] = "owed"
                                 THEN "reminded" ELSE served[id]]
    /\ UNCHANGED <<now, tasks, disk, created, refused, phase, running, timer, fireVars, manual, started, budget>>

-----------------------------------------------------------------------------
(* Crashes and restarts *)

Die == /\ tasks' = <<>>
       /\ refused' = Settled
       /\ phase' = "down"
       /\ running' = FALSE
       /\ timer' = Never
       /\ missed' = {}
       /\ firePC' = [f \in Firings |-> "idle"]
       /\ due' = [f \in Firings |-> {}]
       /\ at' = [f \in Firings |-> 0]
       /\ snap' = [f \in Firings |-> NoId]
       /\ manual' = NoId
       /\ UNCHANGED <<now, disk, created, served, started>>

Crash == phase # "down" /\ Spend("crashes") /\ Die

\* s.tasks[idx] beyond the end of the list ends the process.
Panic(f) == /\ firePC[f] = "next"
            /\ due[f] # {}
            /\ Index(f) > Len(tasks)
            /\ Die
            /\ UNCHANGED budget

Expired(t) == t.enabled /\ t.oneShot /\ NextRun(t.expr, now) = Never

\* One entry as Load leaves it.
Reloaded(t) == IF Expired(t) THEN [t EXCEPT !.enabled = FALSE, !.nextRun = Never]
               ELSE IF t.enabled THEN [t EXCEPT !.nextRun = NextRun(t.expr, now)]
               ELSE t

Load ==
    /\ phase = "down"
    /\ tasks' = [i \in DOMAIN disk |-> Reloaded(disk[i])]
    /\ missed' = {disk[i].id : i \in {k \in DOMAIN disk : Expired(disk[k]) /\ disk[k].runCount = 0}}
    /\ phase' = "loading"
    /\ UNCHANGED <<now, disk, created, served, refused, running, timer, fireVars, manual, started, budget>>

\* Variant: the tasks Load disabled are not saved.
StartTimerUnsaved ==
    /\ phase = "loading" \/ (phase = "up" /\ ~running)
    /\ phase' = "up"
    /\ running' = TRUE
    /\ timer' = Nearest(tasks)
    /\ UNCHANGED <<now, tasks, disk, created, refused, served, missed, fireVars, manual, started, budget>>

\* The save at Load's end, then Start; also Start alone after Stop.
StartTimer ==
    /\ phase = "loading" \/ (phase = "up" /\ ~running)
    /\ phase' = "up"
    /\ running' = TRUE
    /\ disk' = IF phase = "loading" THEN tasks ELSE disk
    /\ timer' = Nearest(tasks)
    /\ UNCHANGED <<now, tasks, created, refused, served, missed, fireVars, manual, started, budget>>

-----------------------------------------------------------------------------
Fire(f) == Guard(f) \/ Collect(f) \/ BeginRun(f) \/ Deliver(f) \/ Record(f) \/ EndOfDue(f) \/ Rearm(f) \/ Panic(f)

Call == \/ \E id \in Ids : Delete(id) \/ BeginRunNow(id)
        \/ \E id \in Ids, e \in Expressions : Create(id, e)
        \/ \E id \in Ids, e \in Expressions, on \in BOOLEAN : Update(id, e, on)
        \/ Stop \/ DrainMissedReminders

SchedNext == \/ Tick
             \/ \E f \in Firings : FireTimer(f) \/ Fire(f)
             \/ Call
             \/ EndRunNow
             \/ Crash \/ Load \/ StartTimer

SchedSpec == SchedInit /\ [][SchedNext]_schedVars

(***************************************************************************)
(* The runtime calls the timer's function, a run ends (runOne has a ten    *)
(* minute timeout) and a goroutine goes on.  Nothing is assumed of calls,  *)
(* of the clock or of restarts.                                            *)
(***************************************************************************)
FairSchedSpec == /\ SchedSpec
                 /\ WF_schedVars(\E f \in Firings : FireTimer(f))
                 /\ \A f \in Firings : WF_schedVars(Fire(f))

-----------------------------------------------------------------------------
(* Properties *)

\* An enabled task with a next run is never forgotten: the timer is set no
\* later than it, or a firing is under way that will set it again
\* (armNextTimerLocked after every change of the list).  Excepted are tasks of
\* whose schedule an edit was refused.
TimerCoversExcept(ids) ==
    running => \A i \in DOMAIN tasks : Scheduled(tasks[i]) =>
        \/ timer # Never /\ timer <= tasks[i].nextRun
        \/ \E f \in Firings : firePC[f] # "idle"
        \/ tasks[i].id \in ids
TimerCoversTasks == TimerCoversExcept({id \in Ids : refused[id] # "no"})

\* The same of all tasks: the code does not hold this.
TimerCoversAll == TimerCoversExcept({})

\* Runs are recorded on the task that ran, whatever was deleted or added
\* while they lasted: no entry counts more runs than were begun for it.
RunsCreditedToTask == \A i \in DOMAIN tasks : tasks[i].runCount <= started[tasks[i].id]

\* A schedule set while the process runs lies in the future: neither a call
\* nor the end of a run, however long, makes a task due at once.  This is
\* what the one-minute minimum is for ("avoid hot-looping", expr.go).
ScheduledAhead ==
    [][\A i \in DOMAIN tasks : phase = "up" /\ i \in DOMAIN tasks' /\ tasks'[i].id = tasks[i].id
          /\ tasks'[i].nextRun \notin {tasks[i].nextRun, Never} => tasks'[i].nextRun > now]_schedVars

\* What the file holds is what the process works with ("The file is
\* rewritten atomically on every mutation", Store), but for an edit that was
\* refused since.
FileMatchesExcept(ids) ==
    phase = "up" => /\ Len(disk) = Len(tasks)
                    /\ \A i \in DOMAIN tasks : disk[i] = tasks[i] \/ tasks[i].id \in ids
FileMatchesMemory == FileMatchesExcept({id \in Ids : refused[id] = "unsaved"})

\* The same of refused edits too: the code does not hold this.
FileAlwaysMatches == FileMatchesExcept({})

\* A one-shot schedule is run once ("auto-disable after their single fire").
OneShotFiresOnce == \A id \in Ids : served[id] # "fired again"

\* A one-shot schedule that was accepted and not run is still scheduled, or
\* its reminder is queued ("instead of silently dropped", missedReminders).
OneShotNotLost ==
    phase = "up" => \A i \in DOMAIN tasks : served[tasks[i].id] = "owed" =>
        Scheduled(tasks[i]) \/ tasks[i].id \in missed

\* No catch-up reminder for a schedule that was run and delivered ("no
\* duplicate catch-up", Load).
NoDuplicateCatchUp == \A id \in missed : served[id] \notin {"delivered", "fired again"}

\* fireDue runs tasks whose next run is at or before its instant, and no
\* other ("fireDue runs every task whose NextRun is at or before now").
FiresOnlyDue == \A f \in Firings : firePC[f] = "run" => DueAt(snap[f], at[f])

\* The list may change between the collection and a run ("a task may have
\* been deleted, swapped"): an index is still one of the list when used.
IndexInList == \A f \in Firings : firePC[f] = "next" /\ due[f] # {} => Index(f) <= Len(tasks)

\* A task that is due is run, put off or withdrawn, unless the scheduler
\* stops or refuses an edit of it.
DueTaskFires ==
    \A id \in Ids :
        (running /\ \E i \in Positions(id) : DueAt(tasks[i], now))
        ~> (~running \/ refused[id] # "no" \/ ~\E i \in Positions(id) : DueAt(tasks[i], now))
=============================================================================
