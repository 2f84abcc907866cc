------------------------ MODULE TurnLifecycleProofs ------------------------
(***************************************************************************)
(* TurnLifecycle for every set of prompts and turns: at most one turn, one *)
(* turn per prompt, consistent queues, and what WaitTurn guarantees.       *)
(***************************************************************************)
EXTENDS TurnLifecycle, TLAPS

\* The head of a non-empty queue is one of its elements, and what is left
\* are the others, each where it was, one place nearer.
LEMMA HeadTail ==
    ASSUME NEW S, NEW s \in Seq(S), s # <<>>
    PROVE  /\ Head(s) \in S
           /\ Head(s) = s[1]
           /\ 1 \in DOMAIN s
           /\ Tail(s) \in Seq(S)
           /\ \A i \in DOMAIN Tail(s) : i + 1 \in DOMAIN s /\ Tail(s)[i] = s[i + 1] /\ i # 0 /\ i \in Nat
  OBVIOUS

\* What Append adds and where.
LEMMA AppendElems ==
    ASSUME NEW S, NEW s \in Seq(S), NEW e \in S
    PROVE  /\ Append(s, e) \in Seq(S)
           /\ \A i \in DOMAIN Append(s, e) :
                 \/ i \in DOMAIN s /\ Append(s, e)[i] = s[i]
                 \/ i \notin DOMAIN s /\ i = Len(s) + 1 /\ Append(s, e)[i] = e
  OBVIOUS

\* Every reachable state has the shape TypeOK gives it.
THEOREM TypeCorrect == Spec => []TypeOK
<1>1. Init => TypeOK
  <2> SUFFICES ASSUME Init PROVE TypeOK
    OBVIOUS
  <2>1. followUps \in Seq(Prompts) /\ steers \in Seq(Prompts)
    BY DEF Init
  <2>2. running \in BOOLEAN
    BY DEF Init
  <2>3. QED
    BY <2>1, <2>2 DEF Init, TypeOK, PCs, Calls
<1>2. TypeOK /\ [Next]_vars => TypeOK'
  <2> SUFFICES ASSUME TypeOK, [Next]_vars PROVE TypeOK'
    OBVIOUS
  <2> USE DEF TypeOK, turnVars, queueVars, waitVars
  <2>1. ASSUME NEW t \in Turns, TurnStep(t) PROVE TypeOK'
    <3>1. CASE Spawn(t)
      BY <3>1 DEF Spawn, PCs, Calls
    <3>2. CASE Gate(t)
      <4>1. CASE steers = <<>> \/ t \in cancelled
        BY <3>2, <4>1 DEF Gate, Moves, PCs, Calls
      <4>2. CASE steers # <<>> /\ t \notin cancelled
        <5>1. Head(steers) \in Prompts /\ Tail(steers) \in Seq(Prompts)
          BY <4>2, HeadTail
        <5>2. QED
          BY <3>2, <4>2, <5>1 DEF Gate, Moves, PCs, Calls
      <4>3. QED
        BY <4>1, <4>2
    <3>3. CASE StreamTools(t) \/ StreamFinal(t) \/ StreamError(t) \/ QueueForPrompt(t)
                 \/ PromptComes(t) \/ JudgeRejects(t) \/ NextRun(t) \/ BodyReturns(t) \/ EmitTurnDone(t)
      BY <3>3 DEF StreamTools, StreamFinal, StreamError, QueueForPrompt, PromptComes, JudgeRejects,
             BetweenRuns, NextRun, BodyReturns, EmitTurnDone, Moves, PCs
    <3>4. CASE RunPanics(t)
      BY <3>4 DEF RunPanics, PCs
    <3>5. CASE ClearSteers(t)
      BY <3>5 DEF ClearSteers, Moves, PCs, Calls
    <3>6. CASE ClearRunning(t)
      BY <3>6 DEF ClearRunning, PCs
    <3>7. CASE DrainFollowUp(t)
      <4>1. Head(followUps) \in Prompts /\ Tail(followUps) \in Seq(Prompts)
        BY <3>7, HeadTail DEF DrainFollowUp
      <4>2. QED
        BY <3>7, <4>1 DEF DrainFollowUp, PCs, Calls
    <3>8. CASE TurnExits(t)
      BY <3>8 DEF TurnExits, PCs
    <3>9. QED
      BY <2>1, <3>1, <3>2, <3>3, <3>4, <3>5, <3>6, <3>7, <3>8 DEF TurnStep
  <2>2. ASSUME NEW p \in Prompts, CallStep(p) PROVE TypeOK'
    <3>1. CASE Send(p) \/ FollowUp(p) \/ SubmitCommand(p)
      BY <3>1 DEF Send, FollowUp, SubmitCommand, Calls
    <3>2. CASE EnqueueFollowUp(p) \/ EnqueueSteer(p)
      <4>1. Append(followUps, p) \in Seq(Prompts) /\ Append(steers, p) \in Seq(Prompts)
        BY AppendElems
      <4>2. QED
        BY <3>2, <4>1 DEF EnqueueFollowUp, EnqueueSteer, Calls
    <3>3. CASE Steer(p)
      BY <3>3 DEF Steer, Calls
    <3>4. CASE RunGuarded(p)
      <4>1. CASE running
        BY <3>4, <4>1 DEF RunGuarded, Calls
      <4>2. CASE ~running
        <5>1. PICK t \in Turns : Admit(t, p) /\ pc' = [pc EXCEPT ![t] = "admitted"]
          BY <3>4, <4>2 DEF RunGuarded
        <5>2. running' \in BOOLEAN
          BY <5>1 DEF Admit
        <5>3. QED
          BY <3>4, <4>2, <5>1, <5>2 DEF RunGuarded, Admit, PCs, Calls
      <4>3. QED
        BY <4>1, <4>2
    <3>5. CASE RunTurn(p)
      <4>1. CASE running
        BY <3>5, <4>1 DEF RunTurn, Calls
      <4>2. CASE ~running
        <5>1. PICK t \in Turns : Admit(t, p) /\ pc' = [pc EXCEPT ![t] = "round"] /\ sync' = sync \cup {t}
          BY <3>5, <4>2 DEF RunTurn
        <5>2. running' \in BOOLEAN
          BY <5>1 DEF Admit
        <5>3. QED
          BY <3>5, <4>2, <5>1, <5>2 DEF RunTurn, Admit, PCs, Calls
      <4>3. QED
        BY <4>1, <4>2
    <3>6. QED
      BY <2>2, <3>1, <3>2, <3>3, <3>4, <3>5 DEF CallStep
  <2>3. ASSUME NEW t \in Turns, FireCancel(t) PROVE TypeOK'
    BY <2>3 DEF FireCancel
  <2>4. CASE Cancel \/ WaitTurn \/ WaitTurnReturns \/ UNCHANGED vars
    BY <2>4 DEF Cancel, WaitTurn, WaitTurnReturns, vars
  <2>5. QED
    BY <2>1, <2>2, <2>3, <2>4 DEF Next
<1>3. QED
  BY <1>1, <1>2, PTL DEF Spec

-----------------------------------------------------------------------------
\* OneTurn is inductive by itself: each action keeps its turn inside or
\* outside Holding, except the admission, which needs ~running, and
\* ClearRunning, which ends the only active turn.
THEOREM TurnExclusion == Spec => []OneTurn
<1>1. Init => OneTurn
  BY DEF Init, OneTurn, Active, Holding
<1>2. TypeOK /\ OneTurn /\ [Next]_vars => OneTurn'
  <2> SUFFICES ASSUME TypeOK, OneTurn, [Next]_vars PROVE OneTurn'
    OBVIOUS
  <2>1. ASSUME NEW t \in Turns, TurnStep(t) PROVE OneTurn'
    <3>1. CASE ClearRunning(t)
      <4>1. \A u \in Turns : Active(u) => u = t
        BY <3>1 DEF ClearRunning, OneTurn, Active, Holding
      <4>2. \A u \in Turns : ~Active(u)'
        BY <3>1, <4>1 DEF ClearRunning, Active, Holding, TypeOK
      <4>3. QED
        BY <3>1, <4>2 DEF ClearRunning, OneTurn
    <3>2. CASE ~ClearRunning(t)
      <4>1. UNCHANGED <<running, cancel>>
        BY <2>1, <3>2 DEF TurnStep, Spawn, Gate, StreamTools, StreamFinal, StreamError, QueueForPrompt, PromptComes, JudgeRejects,
             BetweenRuns, RunPanics, ClearSteers, NextRun, BodyReturns, EmitTurnDone, DrainFollowUp, TurnExits, Moves
      <4>2. /\ \A u \in Turns : u # t => pc'[u] = pc[u]
            /\ pc[t] \in Holding <=> pc'[t] \in Holding
        BY <2>1, <3>2 DEF TurnStep, Spawn, Gate, StreamTools, StreamFinal, StreamError, QueueForPrompt, PromptComes, JudgeRejects,
             BetweenRuns, RunPanics, ClearSteers, NextRun, BodyReturns, EmitTurnDone, DrainFollowUp, TurnExits, Moves, Holding, TypeOK
      <4>3. \A u \in Turns : Active(u)' <=> Active(u)
        BY <4>2 DEF Active
      <4>4. QED
        BY <4>1, <4>3 DEF OneTurn
    <3>3. QED
      BY <3>1, <3>2
  <2>2. ASSUME NEW p \in Prompts, CallStep(p) PROVE OneTurn'
    <3>1. CASE UNCHANGED <<running, cancel, pc>>
      BY <3>1 DEF OneTurn, Active
    <3>2. ASSUME NEW t \in Turns, ~running, Admit(t, p), NEW q \in Holding, pc' = [pc EXCEPT ![t] = q]
          PROVE OneTurn'
      <4>1. \A u \in Turns : ~Active(u)
        BY <3>2 DEF OneTurn
      <4>2. \A u \in Turns : Active(u)' <=> u = t
        BY <3>2, <4>1 DEF Active, TypeOK
      <4>3. t # None
        BY NoneAssumption
      <4>4. QED
        BY <3>2, <4>2 DEF OneTurn, Admit
    <3>3. UNCHANGED <<running, cancel, pc>> \/
            \E t \in Turns, q \in Holding : ~running /\ Admit(t, p) /\ pc' = [pc EXCEPT ![t] = q]
      BY <2>2 DEF CallStep, Send, FollowUp, EnqueueFollowUp, Steer, EnqueueSteer, SubmitCommand,
           RunGuarded, RunTurn, turnVars, Holding
    <3>4. QED
      BY <3>1, <3>2, <3>3
  <2>3. CASE (\E t \in Turns : FireCancel(t)) \/ Cancel \/ WaitTurn \/ WaitTurnReturns \/ UNCHANGED vars
    BY <2>3 DEF FireCancel, Cancel, WaitTurn, WaitTurnReturns, vars, turnVars, OneTurn, Active
  <2>4. QED
    BY <2>1, <2>2, <2>3 DEF Next
<1>3. QED
  BY <1>1, <1>2, TypeCorrect, PTL DEF Spec

-----------------------------------------------------------------------------
\* What WaitTurnDrains needs: a turn leaves turnWG only by exiting, and an
\* exited turn stays so.
WaitInv ==
    /\ \A t \in waitFor : t \in turnWG \/ pc[t] = "exited"
    /\ WaitTurnDrains

THEOREM WaitTurnCovers == Spec => []WaitTurnDrains
<1>1. Init => WaitInv
  BY DEF Init, WaitInv, WaitTurnDrains
<1>2. TypeOK /\ WaitInv /\ [Next]_vars => WaitInv'
  <2> SUFFICES ASSUME TypeOK, WaitInv, [Next]_vars PROVE WaitInv'
    OBVIOUS
  <2>1. CASE WaitTurn
    BY <2>1 DEF WaitTurn, WaitInv, WaitTurnDrains, turnVars
  <2>2. CASE WaitTurnReturns
    BY <2>2 DEF WaitTurnReturns, WaitInv, WaitTurnDrains, turnVars
  <2>3. ASSUME UNCHANGED waitVars,
               \A t \in Turns : /\ pc[t] = "exited" => pc'[t] = "exited"
                                /\ t \in turnWG /\ t \notin turnWG' => pc'[t] = "exited"
        PROVE  WaitInv'
    BY <2>3 DEF WaitInv, WaitTurnDrains, waitVars, TypeOK
  <2>4. ASSUME NEW t \in Turns, TurnStep(t)
        PROVE  /\ UNCHANGED waitVars
               /\ \A u \in Turns : /\ pc[u] = "exited" => pc'[u] = "exited"
                                   /\ u \in turnWG /\ u \notin turnWG' => pc'[u] = "exited"
    BY <2>4 DEF TurnStep, Spawn, Gate, StreamTools, StreamFinal, StreamError, QueueForPrompt, PromptComes, JudgeRejects,
         BetweenRuns, RunPanics, ClearSteers,
         NextRun, BodyReturns, ClearRunning, EmitTurnDone, DrainFollowUp, TurnExits, Moves, TypeOK
  <2>5. ASSUME NEW p \in Prompts, CallStep(p)
        PROVE  /\ UNCHANGED waitVars
               /\ \A u \in Turns : /\ pc[u] = "exited" => pc'[u] = "exited"
                                   /\ u \in turnWG /\ u \notin turnWG' => pc'[u] = "exited"
    BY <2>5 DEF CallStep, Send, FollowUp, EnqueueFollowUp, Steer, EnqueueSteer, SubmitCommand,
         RunGuarded, RunTurn, turnVars, TypeOK
  <2>6. CASE (\E t \in Turns : FireCancel(t)) \/ Cancel \/ UNCHANGED vars
    BY <2>6 DEF FireCancel, Cancel, vars, turnVars, waitVars, WaitInv, WaitTurnDrains
  <2>7. QED
    BY <2>1, <2>2, <2>3, <2>4, <2>5, <2>6 DEF Next
<1>3. WaitInv => WaitTurnDrains
  BY DEF WaitInv
<1>4. QED
  BY <1>1, <1>2, <1>3, TypeCorrect, PTL DEF Spec

-----------------------------------------------------------------------------
\* Who may hold a prompt, by the state of its call: a turn that runs it has it
\* admitted or started, and a turn that popped it has submitted it.  With this
\* a fresh, queued, steered or submitted prompt is in no other turn's hands.
CallsInv ==
    /\ \A t \in Turns : prompt[t] # None => call[prompt[t]] \in {"admitted", "started"}
    /\ \A t \in Turns : handed[t] # None =>
          call[handed[t]] \in {"submit", "admitted", "started", "rejected", "handled"}
    /\ \A t \in Turns : pc[t] = "admitted" => prompt[t] # None /\ call[prompt[t]] = "admitted"
    /\ PromptStartsOnce

\* The part of QueuesConsistent that is about one queue s whose prompts stand
\* at state c.
Queue(s, c) ==
    /\ \A i, j \in DOMAIN s : s[i] = s[j] => i = j
    /\ \A i \in DOMAIN s : call[s[i]] = c

PromptInv == CallsInv /\ Queue(followUps, "queued") /\ Queue(steers, "steered")

LEMMA PromptInvQueues == TypeOK /\ PromptInv => QueuesConsistent
<1> SUFFICES ASSUME TypeOK, PromptInv PROVE QueuesConsistent
  OBVIOUS
<1>1. ASSUME NEW s \in Seq(Prompts), NEW c \in {"queued", "steered"}, Queue(s, c), NEW p \in SeqElems(s)
      PROVE  call[p] = c /\ \A t \in Turns : p \notin {prompt[t], handed[t]}
  <2>1. p \in Prompts /\ call[p] = c
    BY <1>1 DEF SeqElems, Queue
  <2>2. p # None
    BY <2>1, NoneAssumption
  <2>3. QED
    BY <1>1, <2>1, <2>2 DEF PromptInv, CallsInv
<1>2. QED
  BY <1>1 DEF PromptInv, Queue, QueuesConsistent, TypeOK

\* PromptInv is preserved, action by action.
LEMMA PromptInvStep == TypeOK /\ PromptInv /\ [Next]_vars => PromptInv'
<1> SUFFICES ASSUME TypeOK, PromptInv, [Next]_vars PROVE PromptInv'
  OBVIOUS
<1> USE DEF Queue
<1>1. ASSUME NEW t \in Turns, TurnStep(t) PROVE PromptInv'
  <2>1. CASE Spawn(t)
    <3>1. prompt[t] \in Prompts /\ call[prompt[t]] = "admitted"
      BY <2>1 DEF Spawn, PromptInv, CallsInv, TypeOK
    <3>2. call' = [call EXCEPT ![prompt[t]] = "started"] /\ pc' = [pc EXCEPT ![t] = "round"]
           /\ UNCHANGED <<prompt, handed, followUps, steers>>
      BY <2>1 DEF Spawn, queueVars
    <3>3. CallsInv'
      BY <3>1, <3>2 DEF PromptInv, CallsInv, PromptStartsOnce, TypeOK
    <3>4. Queue(followUps, "queued")' /\ Queue(steers, "steered")'
      BY <3>1, <3>2 DEF PromptInv, TypeOK
    <3>5. QED
      BY <3>3, <3>4 DEF PromptInv
  <2>2. CASE Gate(t)
    <3>1. CASE UNCHANGED <<steers, call>>
      BY <2>2, <3>1 DEF Gate, Moves, PromptInv, CallsInv, PromptStartsOnce, TypeOK
    <3>2. CASE steers # <<>> /\ steers' = Tail(steers)
                 /\ call' = [call EXCEPT ![Head(steers)] = "consumed"] /\ Moves(t, "streaming")
      <4>1. /\ Head(steers) \in Prompts /\ Head(steers) = steers[1] /\ 1 \in DOMAIN steers
            /\ \A i \in DOMAIN Tail(steers) : i + 1 \in DOMAIN steers /\ Tail(steers)[i] = steers[i + 1] /\ i # 0 /\ i \in Nat
        BY <3>2, HeadTail DEF TypeOK
      <4>2. call[Head(steers)] = "steered"
        BY <4>1 DEF PromptInv
      <4>3. CallsInv'
        BY <3>2, <4>1, <4>2 DEF Moves, PromptInv, CallsInv, PromptStartsOnce, TypeOK
      <4>4. Queue(followUps, "queued")'
        BY <2>2, <3>2, <4>1, <4>2 DEF Gate, PromptInv, TypeOK
      <4>5. Queue(steers, "steered")'
        BY <3>2, <4>1, <4>2 DEF PromptInv, TypeOK
      <4>6. QED
        BY <4>3, <4>4, <4>5 DEF PromptInv
    <3>3. QED
      BY <2>2, <3>1, <3>2 DEF Gate
  <2>3. CASE ClearSteers(t)
    <3>1. \A p \in Prompts : call'[p] # call[p] => call[p] = "steered"
      BY <2>3 DEF ClearSteers, SeqElems, PromptInv, TypeOK
    <3>2. UNCHANGED <<prompt, handed, followUps>> /\ steers' = <<>> /\ pc' = [pc EXCEPT ![t] = "runDone"]
      BY <2>3 DEF ClearSteers, Moves
    <3>3. CallsInv'
      BY <3>1, <3>2 DEF PromptInv, CallsInv, PromptStartsOnce, TypeOK
    <3>4. Queue(followUps, "queued")' /\ Queue(steers, "steered")'
      BY <3>1, <3>2 DEF PromptInv, TypeOK
    <3>5. QED
      BY <3>3, <3>4 DEF PromptInv
  <2>4. CASE DrainFollowUp(t)
    <3>1. /\ Head(followUps) \in Prompts /\ Head(followUps) = followUps[1] /\ 1 \in DOMAIN followUps
          /\ \A i \in DOMAIN Tail(followUps) :
                i + 1 \in DOMAIN followUps /\ Tail(followUps)[i] = followUps[i + 1] /\ i # 0 /\ i \in Nat
      BY <2>4, HeadTail DEF DrainFollowUp, TypeOK
    <3>2. call[Head(followUps)] = "queued"
      BY <3>1 DEF PromptInv
    <3>3. CallsInv'
      BY <2>4, <3>1, <3>2 DEF DrainFollowUp, PromptInv, CallsInv, PromptStartsOnce, TypeOK
    <3>4. Queue(followUps, "queued")'
      BY <2>4, <3>1, <3>2 DEF DrainFollowUp, PromptInv, TypeOK
    <3>5. Queue(steers, "steered")'
      BY <2>4, <3>1, <3>2 DEF DrainFollowUp, PromptInv, TypeOK
    <3>6. QED
      BY <3>3, <3>4, <3>5 DEF PromptInv
  <2>5. CASE StreamTools(t) \/ StreamFinal(t) \/ StreamError(t) \/ QueueForPrompt(t) \/ PromptComes(t)
               \/ JudgeRejects(t) \/ RunPanics(t) \/ NextRun(t)
               \/ BodyReturns(t) \/ ClearRunning(t) \/ EmitTurnDone(t) \/ TurnExits(t)
    <3>1. UNCHANGED <<prompt, handed, call, followUps, steers>>
      BY <2>5 DEF StreamTools, StreamFinal, StreamError, QueueForPrompt, PromptComes, JudgeRejects,
           BetweenRuns, RunPanics, NextRun, BodyReturns, ClearRunning,
           EmitTurnDone, TurnExits, Moves, queueVars
    <3>2. \A u \in Turns : pc'[u] = "admitted" => pc[u] = "admitted"
      BY <2>5 DEF StreamTools, StreamFinal, StreamError, QueueForPrompt, PromptComes, JudgeRejects,
           BetweenRuns, RunPanics, NextRun, BodyReturns, ClearRunning,
           EmitTurnDone, TurnExits, Moves, TypeOK
    <3>3. QED
      BY <3>1, <3>2 DEF PromptInv, CallsInv, PromptStartsOnce
  <2>6. QED
    BY <1>1, <2>1, <2>2, <2>3, <2>4, <2>5 DEF TurnStep
<1>2. ASSUME NEW p \in Prompts, CallStep(p) PROVE PromptInv'
  <2>1. CASE Send(p) \/ FollowUp(p) \/ Steer(p) \/ SubmitCommand(p)
    <3>1. call[p] \in {"fresh", "submit"} /\ call'[p] \in {"submit", "enqueue", "steer", "handled"}
          /\ (call[p] = "submit" => call'[p] = "handled")
          /\ (\A q \in Prompts : q # p => call'[q] = call[q])
          /\ UNCHANGED <<turnVars, queueVars>>
      BY <2>1 DEF Send, FollowUp, Steer, SubmitCommand, TypeOK
    <3>2. CallsInv'
      BY <3>1, SMTT(20) DEF PromptInv, CallsInv, PromptStartsOnce, turnVars, TypeOK
    <3>3. \A q \in Prompts : call[q] \in {"queued", "steered"} => call'[q] = call[q]
      BY <3>1
    <3>4. Queue(followUps, "queued")' /\ Queue(steers, "steered")'
      BY <3>1, <3>3 DEF PromptInv, queueVars, TypeOK
    <3>5. QED
      BY <3>2, <3>4 DEF PromptInv
  <2>2. CASE EnqueueFollowUp(p)
    <3>1. \A i \in DOMAIN Append(followUps, p) :
             \/ i \in DOMAIN followUps /\ Append(followUps, p)[i] = followUps[i]
             \/ i \notin DOMAIN followUps /\ i = Len(followUps) + 1 /\ Append(followUps, p)[i] = p
      BY AppendElems DEF TypeOK
    <3>2. CallsInv'
      BY <2>2 DEF EnqueueFollowUp, PromptInv, CallsInv, PromptStartsOnce, turnVars, TypeOK
    <3>3. Queue(followUps, "queued")'
      BY <2>2, <3>1 DEF EnqueueFollowUp, PromptInv, TypeOK
    <3>4. Queue(steers, "steered")'
      BY <2>2 DEF EnqueueFollowUp, PromptInv, TypeOK
    <3>5. QED
      BY <3>2, <3>3, <3>4 DEF PromptInv
  <2>3. CASE EnqueueSteer(p)
    <3>1. \A i \in DOMAIN Append(steers, p) :
             \/ i \in DOMAIN steers /\ Append(steers, p)[i] = steers[i]
             \/ i \notin DOMAIN steers /\ i = Len(steers) + 1 /\ Append(steers, p)[i] = p
      BY AppendElems DEF TypeOK
    <3>2. CallsInv'
      BY <2>3 DEF EnqueueSteer, PromptInv, CallsInv, PromptStartsOnce, turnVars, TypeOK
    <3>3. Queue(steers, "steered")'
      BY <2>3, <3>1 DEF EnqueueSteer, PromptInv, TypeOK
    <3>4. Queue(followUps, "queued")'
      BY <2>3 DEF EnqueueSteer, PromptInv, TypeOK
    <3>5. QED
      BY <3>2, <3>3, <3>4 DEF PromptInv
  <2>4. CASE RunGuarded(p) \/ RunTurn(p)
    <3>1. CASE running
      <4>1. call[p] \in {"fresh", "submit"} /\ call' = [call EXCEPT ![p] = "rejected"]
            /\ UNCHANGED <<turnVars, queueVars>> /\ (call[p] = "fresh" => RunTurn(p))
        BY <2>4, <3>1 DEF RunGuarded, RunTurn
      <4>2. QED
        BY <4>1 DEF PromptInv, CallsInv, PromptStartsOnce, turnVars, queueVars, TypeOK
    <3>2. CASE ~running
      <4>1. PICK t \in Turns, q \in {"admitted", "round"} :
               /\ pc[t] = "unused" /\ Admit(t, p) /\ pc' = [pc EXCEPT ![t] = q]
               /\ call' = [call EXCEPT ![p] = IF q = "admitted" THEN "admitted" ELSE "started"]
               /\ call[p] \in {"fresh", "submit"}
               /\ UNCHANGED <<handed, queueVars>>
        BY <2>4, <3>2 DEF RunGuarded, RunTurn
      <4>2. \A u \in Turns : prompt[u] # p
        BY <4>1, NoneAssumption DEF PromptInv, CallsInv
      <4>3. CallsInv'
        <5>1. prompt' = [prompt EXCEPT ![t] = p] /\ p # None
          BY <4>1, NoneAssumption DEF Admit
        <5>2. PromptStartsOnce'
          BY <4>2, <5>1 DEF PromptInv, CallsInv, PromptStartsOnce, TypeOK
        <5>3. \A u \in Turns : prompt'[u] # None => call'[prompt'[u]] \in {"admitted", "started"}
          BY <4>1, <4>2, <5>1 DEF PromptInv, CallsInv, TypeOK
        <5>4. \A u \in Turns : handed'[u] # None =>
                 call'[handed'[u]] \in {"submit", "admitted", "started", "rejected", "handled"}
          BY <4>1, <5>1 DEF PromptInv, CallsInv, TypeOK
        <5>5. \A u \in Turns : pc'[u] = "admitted" => prompt'[u] # None /\ call'[prompt'[u]] = "admitted"
          BY <4>1, <4>2, <5>1 DEF PromptInv, CallsInv, TypeOK
        <5>6. QED
          BY <5>2, <5>3, <5>4, <5>5 DEF CallsInv
      <4>4. Queue(followUps, "queued")' /\ Queue(steers, "steered")'
        BY <4>1 DEF queueVars, PromptInv, TypeOK
      <4>5. QED
        BY <4>3, <4>4 DEF PromptInv
    <3>3. QED
      BY <3>1, <3>2
  <2>5. QED
    BY <1>2, <2>1, <2>2, <2>3, <2>4 DEF CallStep
<1>3. CASE (\E t \in Turns : FireCancel(t)) \/ Cancel \/ WaitTurn \/ WaitTurnReturns \/ UNCHANGED vars
  <2>1. UNCHANGED <<pc, prompt, handed, call, followUps, steers>>
    BY <1>3 DEF FireCancel, Cancel, WaitTurn, WaitTurnReturns, vars, turnVars, queueVars
  <2>2. QED
    BY <2>1 DEF PromptInv, CallsInv, PromptStartsOnce
<1>4. QED
  BY <1>1, <1>2, <1>3 DEF Next

\* A prompt runs as one turn at most, and both queues hold waiting prompts
\* only, each once.
THEOREM PromptsOnce == Spec => [](PromptStartsOnce /\ QueuesConsistent)
<1>1. Init => PromptInv
  BY DEF Init, PromptInv, CallsInv, PromptStartsOnce, Queue
<1>2. TypeOK /\ PromptInv => PromptStartsOnce /\ QueuesConsistent
  BY PromptInvQueues DEF PromptInv, CallsInv
<1>3. QED
  BY <1>1, <1>2, PromptInvStep, TypeCorrect, PTL DEF Spec

-----------------------------------------------------------------------------
\* The turn that holds the slot has a prompt, so the slot is never empty while
\* c.running is true.
SlotInv == \A t \in Turns : Active(t) => prompt[t] # None

\* With it, a controller that runs a turn is a server whose slot is taken.
LEMMA SlotTaken ==
    ASSUME TypeOK, OneTurn, SlotInv
    PROVE  /\ running <=> Slot # None
           /\ \A t \in Turns : Active(t) => running /\ cancel = t
  BY DEF TypeOK, OneTurn, SlotInv, Slot

\* The prompt of the turn that runs is one whose call was admitted.
SlotHeld == running => prompt[cancel] \in Prompts /\ call[prompt[cancel]] \in {"admitted", "started"}

LEMMA SlotIsHeld == TypeOK /\ OneTurn /\ SlotInv /\ PromptInv => SlotHeld
  BY DEF TypeOK, OneTurn, SlotInv, PromptInv, CallsInv, SlotHeld

LEMMA SlotInvStep == TypeOK /\ OneTurn /\ SlotInv /\ [Next]_vars => SlotInv'
<1> SUFFICES ASSUME TypeOK, OneTurn, SlotInv, [Next]_vars PROVE SlotInv'
  OBVIOUS
<1>1. ASSUME NEW t \in Turns, TurnStep(t) PROVE SlotInv'
  <2>1. prompt' = prompt /\ \A u \in Turns : pc'[u] \in Holding => pc[u] \in Holding
    BY <1>1 DEF TurnStep, Spawn, Gate, StreamTools, StreamFinal, StreamError, QueueForPrompt, PromptComes, JudgeRejects,
         BetweenRuns, RunPanics, ClearSteers,
         NextRun, BodyReturns, ClearRunning, EmitTurnDone, DrainFollowUp, TurnExits, Moves, Holding, TypeOK
  <2>2. QED
    BY <2>1 DEF SlotInv, Active
<1>2. ASSUME NEW p \in Prompts, CallStep(p) PROVE SlotInv'
  <2>1. CASE UNCHANGED <<prompt, pc>>
    BY <2>1 DEF SlotInv, Active
  <2>2. ASSUME NEW t \in Turns, Admit(t, p), NEW q \in Holding, pc' = [pc EXCEPT ![t] = q]
        PROVE  SlotInv'
    BY <2>2, NoneAssumption DEF Admit, SlotInv, Active, TypeOK
  <2>3. QED
    BY <1>2, <2>1, <2>2 DEF CallStep, Send, FollowUp, EnqueueFollowUp, Steer, EnqueueSteer, SubmitCommand,
         RunGuarded, RunTurn, turnVars, Holding
<1>3. CASE (\E t \in Turns : FireCancel(t)) \/ Cancel \/ WaitTurn \/ WaitTurnReturns \/ UNCHANGED vars
  BY <1>3 DEF FireCancel, Cancel, WaitTurn, WaitTurnReturns, vars, turnVars, SlotInv, Active
<1>4. QED
  BY <1>1, <1>2, <1>3 DEF Next

\* The initial states map to the server's, and every step to one of its steps.
LEMMA InitServes == Init => Server!Init
  BY DEF Init, Server!Init, Slot, Fate

\* A step that moves no call from one fate to another, nor the slot, is a
\* stutter of the server.
LEMMA Stutters ==
    ASSUME TypeOK, UNCHANGED <<running, cancel, prompt>>,
           \A p \in Prompts :
              \/ call'[p] = call[p]
              \/ {call[p], call'[p]} \subseteq {"admitted", "started"}
              \/ {call[p], call'[p]} \subseteq {"fresh", "submit", "enqueue", "queued", "steer", "steered"}
    PROVE  UNCHANGED Server!serverVars
<1>1. Slot' = Slot
  BY DEF Slot
<1>2. ASSUME NEW p \in Prompts PROVE Fate'[p] = Fate[p]
  BY <1>1 DEF Fate
<1>3. Fate' = Fate
  BY <1>2 DEF Fate
<1>4. QED
  BY <1>1, <1>3 DEF Server!serverVars

LEMMA StepServes ==
    ASSUME TypeOK, OneTurn, SlotInv, PromptInv, [Next]_vars
    PROVE  [Server!Next]_(Server!serverVars)
<1> USE SlotTaken, SlotIsHeld
<1>1. ASSUME NEW t \in Turns, TurnStep(t) PROVE [Server!Next]_(Server!serverVars)
  <2>1. CASE Spawn(t)
    <3>1. prompt[t] \in Prompts /\ call[prompt[t]] = "admitted"
      BY <2>1 DEF Spawn, PromptInv, CallsInv, TypeOK
    <3>2. QED
      BY <2>1, <3>1, Stutters DEF Spawn, TypeOK
  <2>2. CASE Gate(t)
    <3>1. CASE UNCHANGED call
      BY <2>2, <3>1, Stutters DEF Gate, Moves
    <3>2. CASE steers # <<>> /\ call' = [call EXCEPT ![Head(steers)] = "consumed"] /\ Moves(t, "streaming")
      <4>1. Head(steers) \in Prompts /\ call[Head(steers)] = "steered"
        BY <3>2, HeadTail DEF PromptInv, Queue, TypeOK
      <4>2. running /\ Slot' = Slot
        BY <2>2, <3>2 DEF Gate, Moves, Active, Holding, Slot
      <4>3. Server!Absorb(Head(steers))
        <5>1. Slot # None /\ Fate[Head(steers)] = "waiting"
          BY <4>1, <4>2 DEF Fate
        <5>2. ASSUME NEW p \in Prompts PROVE Fate'[p] = [Fate EXCEPT ![Head(steers)] = "absorbed"][p]
          BY <3>2, <4>1, <4>2 DEF Fate, TypeOK
        <5>3. Fate' = [Fate EXCEPT ![Head(steers)] = "absorbed"]
          BY <5>2 DEF Fate
        <5>4. QED
          BY <4>2, <5>1, <5>3 DEF Server!Absorb
      <4>4. QED
        BY <4>1, <4>3 DEF Server!Next
    <3>3. QED
      BY <2>2, <3>1, <3>2 DEF Gate
  <2>3. CASE ClearSteers(t)
    <3>1. SeqElems(steers) \in SUBSET Prompts /\ \A p \in SeqElems(steers) : call[p] = "steered"
      BY DEF SeqElems, PromptInv, Queue, TypeOK
    <3>2. running /\ Slot' = Slot
      BY <2>3 DEF ClearSteers, Moves, Active, Holding, Slot
    <3>3. Server!Refuse(SeqElems(steers))
      <4>1. Slot # None /\ \A p \in SeqElems(steers) : Fate[p] = "waiting"
        BY <3>1, <3>2 DEF Fate
      <4>2. ASSUME NEW p \in Prompts
            PROVE  Fate'[p] = IF p \in SeqElems(steers) THEN "refused" ELSE Fate[p]
        BY <2>3, <3>1, <3>2 DEF ClearSteers, Fate
      <4>3. Fate' = [p \in Prompts |-> IF p \in SeqElems(steers) THEN "refused" ELSE Fate[p]]
        BY <4>2 DEF Fate
      <4>4. QED
        BY <3>2, <4>1, <4>3 DEF Server!Refuse
    <3>4. QED
      BY <3>1, <3>3 DEF Server!Next
  <2>4. CASE DrainFollowUp(t)
    <3>1. Head(followUps) \in Prompts /\ call[Head(followUps)] = "queued"
      BY <2>4, HeadTail DEF DrainFollowUp, PromptInv, Queue, TypeOK
    <3>2. QED
      BY <2>4, <3>1, Stutters DEF DrainFollowUp, TypeOK
  <2>5. CASE ClearRunning(t)
    <3>1. running /\ cancel = t /\ ~running' /\ UNCHANGED <<prompt, call>>
      BY <2>5 DEF ClearRunning, Active, Holding
    <3>2. Slot' = None /\ Slot # None /\ Slot \in Prompts
      BY <3>1 DEF Slot, SlotHeld
    <3>3. ASSUME NEW p \in Prompts PROVE Fate'[p] = [Fate EXCEPT ![Slot] = "finished"][p]
      BY <3>1, <3>2, NoneAssumption DEF Fate, SlotHeld, Slot
    <3>4. Fate' = [Fate EXCEPT ![Slot] = "finished"]
      BY <3>3 DEF Fate
    <3>5. QED
      BY <3>2, <3>4 DEF Server!Finish, Server!Next
  <2>6. CASE StreamTools(t) \/ StreamFinal(t) \/ StreamError(t) \/ QueueForPrompt(t) \/ PromptComes(t)
               \/ JudgeRejects(t) \/ RunPanics(t) \/ NextRun(t)
               \/ BodyReturns(t) \/ EmitTurnDone(t) \/ TurnExits(t)
    <3>1. UNCHANGED <<running, cancel, prompt, call>>
      BY <2>6 DEF StreamTools, StreamFinal, StreamError, QueueForPrompt, PromptComes, JudgeRejects,
           BetweenRuns, RunPanics, NextRun, BodyReturns,
           EmitTurnDone, TurnExits, Moves
    <3>2. QED
      BY <3>1, Stutters
  <2>7. QED
    BY <1>1, <2>1, <2>2, <2>3, <2>4, <2>5, <2>6 DEF TurnStep
<1>2. ASSUME NEW p \in Prompts, CallStep(p) PROVE [Server!Next]_(Server!serverVars)
  <2>1. CASE Send(p) \/ FollowUp(p) \/ EnqueueFollowUp(p) \/ Steer(p) \/ EnqueueSteer(p)
    BY <2>1, Stutters DEF Send, FollowUp, EnqueueFollowUp, Steer, EnqueueSteer, turnVars, TypeOK
  <2>2. CASE SubmitCommand(p)
    <3>1. Slot' = Slot /\ Fate[p] = "waiting"
      BY <2>2 DEF SubmitCommand, turnVars, Slot, Fate
    <3>2. ASSUME NEW q \in Prompts PROVE Fate'[q] = [Fate EXCEPT ![p] = "handled"][q]
      BY <2>2, <3>1 DEF SubmitCommand, Fate, TypeOK
    <3>3. Fate' = [Fate EXCEPT ![p] = "handled"]
      BY <3>2 DEF Fate
    <3>4. QED
      BY <3>1, <3>3 DEF Server!Handle, Server!Next
  <2>3. CASE (RunGuarded(p) \/ RunTurn(p)) /\ running
    <3>1. call[p] \in {"fresh", "submit"} /\ call' = [call EXCEPT ![p] = "rejected"] /\ UNCHANGED turnVars
      BY <2>3 DEF RunGuarded, RunTurn
    <3>2. Slot' = Slot /\ Slot # None /\ Fate[p] = "waiting"
      BY <2>3, <3>1 DEF turnVars, Slot, Fate
    <3>3. ASSUME NEW q \in Prompts PROVE Fate'[q] = IF q \in {p} THEN "refused" ELSE Fate[q]
      BY <3>1, <3>2 DEF Fate, TypeOK
    <3>4. Fate' = [q \in Prompts |-> IF q \in {p} THEN "refused" ELSE Fate[q]]
      BY <3>3 DEF Fate
    <3>5. Server!Refuse({p})
      BY <3>2, <3>4 DEF Server!Refuse
    <3>6. QED
      BY <3>5 DEF Server!Next
  <2>4. CASE (RunGuarded(p) \/ RunTurn(p)) /\ ~running
    <3>1. PICK t \in Turns, c \in {"admitted", "started"} :
             Admit(t, p) /\ call[p] \in {"fresh", "submit"} /\ call' = [call EXCEPT ![p] = c]
      BY <2>4 DEF RunGuarded, RunTurn
    <3>2. Slot = None /\ Slot' = p /\ Fate[p] = "waiting" /\ p # None
      BY <2>4, <3>1, NoneAssumption DEF Admit, Slot, Fate, TypeOK
    <3>3. ASSUME NEW q \in Prompts PROVE Fate'[q] = [Fate EXCEPT ![p] = "running"][q]
      BY <3>1, <3>2, NoneAssumption DEF Fate, TypeOK
    <3>4. Fate' = [Fate EXCEPT ![p] = "running"]
      BY <3>3 DEF Fate
    <3>5. QED
      BY <3>2, <3>4 DEF Server!Start, Server!Next
  <2>5. QED
    BY <1>2, <2>1, <2>2, <2>3, <2>4 DEF CallStep
<1>3. CASE (\E t \in Turns : FireCancel(t)) \/ Cancel \/ WaitTurn \/ WaitTurnReturns \/ UNCHANGED vars
  <2>1. UNCHANGED <<running, cancel, prompt, call>>
    BY <1>3 DEF FireCancel, Cancel, WaitTurn, WaitTurnReturns, vars, turnVars
  <2>2. QED
    BY <2>1, Stutters
<1>4. QED
  BY <1>1, <1>2, <1>3 DEF Next

\* The controller implements the server with one slot: turns, queues and stale
\* flags never start two prompts at a time, nor a prompt twice, and turn a
\* prompt down only while a turn runs.
THEOREM ImplementsServer == Spec => ServesOneTurn
<1>1. Init => PromptInv /\ SlotInv
  BY DEF Init, PromptInv, CallsInv, PromptStartsOnce, Queue, SlotInv, Active, Holding
<1>2. TypeOK /\ OneTurn /\ SlotInv /\ PromptInv /\ [Next]_vars => [Server!Next]_(Server!serverVars)
  BY StepServes
<1>3. QED
  BY <1>1, <1>2, InitServes, PromptInvStep, SlotInvStep, TypeCorrect, TurnExclusion, PTL
     DEF Spec, ServesOneTurn, Server!Spec
=============================================================================
