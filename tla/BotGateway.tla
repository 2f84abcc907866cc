----------------------------- MODULE BotGateway -----------------------------
(***************************************************************************)
(* internal/bot/gateway.go and session.go: chat messages of several        *)
(* platforms, one controller per chat session.                             *)
(*                                                                         *)
(* Each platform has a channel its adapter fills and one dispatchLoop that *)
(* takes a message at a time and runs it to its end, a turn of up to ten   *)
(* minutes included.  Against the loops run the reaper of idle sessions,   *)
(* the goroutine that prewarms a controller, and Stop.  They meet in       *)
(* gw.controllers, whose every mutex region is one action.                 *)
(*                                                                         *)
(* A session key names its platform (BuildSessionKey), so a key belongs to *)
(* one loop.  Texts are reduced to their kind.                             *)
(***************************************************************************)
EXTENDS Naturals, Sequences, FiniteSets

CONSTANTS Platforms, Keys,
          PlatformOf,    \* key -> its platform
          Kinds,         \* kinds of messages sent: prompt, stop, new, answer, plan
          Controllers,   \* controllers that may be built (bound)
          None,
          ChanCap,       \* capacity of an adapter's channel, 64 in the code
          MaxMessages    \* messages sent altogether (bound)

ASSUME PlatformAssumption == PlatformOf \in [Keys -> Platforms]
ASSUME KindAssumption == Kinds \subseteq {"prompt", "stop", "new", "answer", "plan"}
ASSUME NoneAssumption == None \notin Controllers \cup Keys
ASSUME BoundAssumption == ChanCap \in Nat \ {0} /\ MaxMessages \in Nat

Prewarm == "__prewarm__"
ASSUME PrewarmAssumption == Prewarm \notin Keys

VARIABLES
    inbox,      \* platform -> its adapter's channel
    pc,         \* platform -> where its dispatchLoop stands
    msg,        \* platform -> the message in hand
    held,       \* platform -> the controller of the session state in hand, or None
    active,     \* SessionManager.active
    slots,      \* gw.controllers: session key or __prewarm__ -> controller, or None
    ctrl,       \* controller -> unbuilt, open or closed
    stale,      \* controllers whose lastActive is SessionIdleTimeout ago
    done,       \* platforms whose turn's context is done
    prewarming, \* prewarmSession has not finished
    stopped,    \* Stop has closed the sessions
    sent        \* messages sent so far (bound)

loopVars == <<inbox, pc, msg, held, done>>
mapVars == <<slots, ctrl, stale>>
vars == <<loopVars, active, mapVars, prewarming, stopped, sent>>

Messages == [key : Keys, kind : Kinds]
NoMessage == [key |-> None, kind |-> "none"]

\* Between the registration of state.cancel and the return of RunTurn.
InTurn == {"starting", "running", "asking", "queued"}

TypeOK ==
    /\ inbox \in [Platforms -> Seq(Messages)]
    /\ \A l \in Platforms : Len(inbox[l]) <= ChanCap
    /\ pc \in [Platforms -> {"receive", "lookup", "build", "ready", "command", "release"} \cup InTurn]
    /\ msg \in [Platforms -> Messages \cup {NoMessage}]
    /\ held \in [Platforms -> Controllers \cup {None}]
    /\ active \subseteq Keys
    /\ slots \in [Keys \cup {Prewarm} -> Controllers \cup {None}]
    /\ ctrl \in [Controllers -> {"unbuilt", "open", "closed"}]
    /\ stale \subseteq Controllers
    /\ done \subseteq Platforms
    /\ prewarming \in BOOLEAN
    /\ stopped \in BOOLEAN
    /\ sent \in 0..MaxMessages

Init ==
    /\ inbox = [l \in Platforms |-> <<>>]
    /\ pc = [l \in Platforms |-> "receive"]
    /\ msg = [l \in Platforms |-> NoMessage]
    /\ held = [l \in Platforms |-> None]
    /\ active = {}
    /\ slots = [k \in Keys \cup {Prewarm} |-> None]
    /\ ctrl = [c \in Controllers |-> "unbuilt"]
    /\ stale = {}
    /\ done = {}
    /\ prewarming = TRUE
    /\ stopped = FALSE
    /\ sent = 0

Key(l) == msg[l].key

\* Controller.Running()
Running(c) == \E l \in Platforms : held[l] = c /\ pc[l] \in {"running", "asking", "queued"}

\* The turns whose context state.cancel of c's session cancels.
TurnsOf(cs) == {l \in Platforms : held[l] \in cs /\ pc[l] \in InTurn}

\* boot.Build makes a controller that was not there before; which name the
\* model gives it does not matter.
Unbuilt == {c \in Controllers : ctrl[c] = "unbuilt"}
New == CHOOSE c \in Unbuilt : TRUE

Go(l, to) == pc' = [pc EXCEPT ![l] = to]

-----------------------------------------------------------------------------
(* The adapters.                                                           *)

\* A chat message arrives; it is dropped when the channel is full.
Deliver(m) ==
    /\ sent < MaxMessages
    /\ sent' = sent + 1
    /\ LET l == PlatformOf[m.key]
       IN inbox' = IF Len(inbox[l]) < ChanCap THEN [inbox EXCEPT ![l] = Append(@, m)] ELSE inbox
    /\ UNCHANGED <<pc, msg, held, done, active, mapVars, prewarming, stopped>>

-----------------------------------------------------------------------------
(* dispatchLoop, handleMessage and runTurn of platform l.                  *)

\* The commands IsSlashBypass knows; handleSlashCommand also has a case for
\* /plan, which no message reaches.
Bypass == {"stop", "new", "answer"}

\* A command goes to handleSlashCommand.  A prompt acquires its session: the
\* key is free, since a turn of it would occupy this loop (KeyHasTurn), and
\* neither the pending queue of SessionManager nor its bypass is reached.
Receive(l) ==
    /\ pc[l] = "receive"
    /\ inbox[l] # <<>>
    /\ inbox' = [inbox EXCEPT ![l] = Tail(@)]
    /\ msg' = [msg EXCEPT ![l] = Head(inbox[l])]
    /\ LET m == Head(inbox[l])
       IN IF m.kind \in Bypass
          THEN /\ Go(l, "command")
               /\ held' = [held EXCEPT ![l] = slots[m.key]]
               /\ UNCHANGED active
          ELSE /\ m.key \notin active
               /\ Go(l, "lookup")
               /\ active' = active \cup {m.key}
               /\ UNCHANGED held
    /\ UNCHANGED <<done, mapVars, prewarming, stopped, sent>>

\* handleSlashCommand acts on the state it found after the unlock: /stop and
\* /new cancel the session's turn and release the key, /answer (like /approve
\* and /deny) answers what the controller waits for.
Command(l) ==
    /\ pc[l] = "command"
    /\ LET kind == msg[l].kind
       IN /\ done' = IF kind \in {"stop", "new"} /\ held[l] # None THEN done \cup TurnsOf({held[l]}) ELSE done
          /\ active' = IF kind \in {"stop", "new"} THEN active \ {Key(l)} ELSE active
          /\ pc' = [m \in Platforms |->
                      IF m = l THEN "receive"
                      ELSE IF kind = "answer" /\ held[l] # None /\ held[m] = held[l] /\ pc[m] = "asking" THEN "running"
                      ELSE pc[m]]
    /\ held' = [held EXCEPT ![l] = None]
    /\ msg' = [msg EXCEPT ![l] = NoMessage]
    /\ UNCHANGED <<inbox, mapVars, prewarming, stopped, sent>>

\* Variant: an existing session is returned without refreshing lastActive.
FindSessionStale(l) ==
    /\ pc[l] = "lookup"
    /\ slots[Key(l)] # None
    /\ held' = [held EXCEPT ![l] = slots[Key(l)]]
    /\ Go(l, "ready")
    /\ UNCHANGED <<inbox, msg, done, active, slots, ctrl, stale, prewarming, stopped, sent>>

\* getOrCreateSession finds the session ...
FindSession(l) ==
    /\ pc[l] = "lookup"
    /\ slots[Key(l)] # None
    /\ held' = [held EXCEPT ![l] = slots[Key(l)]]
    /\ stale' = stale \ {slots[Key(l)]}
    /\ Go(l, "ready")
    /\ UNCHANGED <<inbox, msg, done, active, slots, ctrl, prewarming, stopped, sent>>

\* Variant: the prewarmed session is copied and stays parked.
ClaimPrewarmKeepsSlot(l) ==
    /\ pc[l] = "lookup"
    /\ slots[Key(l)] = None
    /\ slots[Prewarm] # None
    /\ slots' = [slots EXCEPT ![Key(l)] = slots[Prewarm]]
    /\ held' = [held EXCEPT ![l] = slots[Prewarm]]
    /\ stale' = stale \ {slots[Prewarm]}
    /\ Go(l, "ready")
    /\ UNCHANGED <<inbox, msg, done, active, ctrl, prewarming, stopped, sent>>

\* ... or claims the prewarmed one ...
ClaimPrewarm(l) ==
    /\ pc[l] = "lookup"
    /\ slots[Key(l)] = None
    /\ slots[Prewarm] # None
    /\ slots' = [slots EXCEPT ![Prewarm] = None, ![Key(l)] = slots[Prewarm]]
    /\ held' = [held EXCEPT ![l] = slots[Prewarm]]
    /\ stale' = stale \ {slots[Prewarm]}
    /\ Go(l, "ready")
    /\ UNCHANGED <<inbox, msg, done, active, ctrl, prewarming, stopped, sent>>

\* ... or unlocks and builds one,
NoSession(l) ==
    /\ pc[l] = "lookup"
    /\ slots[Key(l)] = None
    /\ slots[Prewarm] = None
    /\ Go(l, "build")
    /\ UNCHANGED <<inbox, msg, held, done, active, mapVars, prewarming, stopped, sent>>

\* which it stores without looking again.
Built(l) ==
    /\ pc[l] = "build"
    /\ Unbuilt # {}
    /\ ctrl' = [ctrl EXCEPT ![New] = "open"]
    /\ slots' = [slots EXCEPT ![Key(l)] = New]
    /\ held' = [held EXCEPT ![l] = New]
    /\ Go(l, "ready")
    /\ UNCHANGED <<inbox, msg, done, active, stale, prewarming, stopped, sent>>

BuildFails(l) ==
    /\ pc[l] = "build"
    /\ Go(l, "release")
    /\ UNCHANGED <<inbox, msg, held, done, active, mapVars, prewarming, stopped, sent>>

\* state.cancel and lastActive, in a second region ...
Register(l) ==
    /\ pc[l] = "ready"
    /\ stale' = stale \ {held[l]}
    /\ Go(l, "starting")
    /\ UNCHANGED <<inbox, msg, held, done, active, slots, ctrl, prewarming, stopped, sent>>

\* ... and Controller.RunTurn.
RunTurn(l) ==
    /\ pc[l] = "starting"
    /\ Go(l, "running")
    /\ UNCHANGED <<inbox, msg, held, done, active, mapVars, prewarming, stopped, sent>>

\* A tool call or a question waits for the user.
Ask(l) ==
    /\ pc[l] = "running"
    /\ l \notin done
    /\ Go(l, "asking")
    /\ UNCHANGED <<inbox, msg, held, done, active, mapVars, prewarming, stopped, sent>>

\* A tool call of the turn waits at promptMu.Lock of its controller, behind a
\* prompt of somebody else (a background job), and does not hear its context ...
QueueForPrompt(l) ==
    /\ pc[l] = "running"
    /\ Go(l, "queued")
    /\ UNCHANGED <<inbox, msg, held, done, active, mapVars, prewarming, stopped, sent>>

\* ... until that prompt is answered, which may never be.
PromptComes(l) ==
    /\ pc[l] = "queued"
    /\ Go(l, "running")
    /\ UNCHANGED <<inbox, msg, held, done, active, mapVars, prewarming, stopped, sent>>

TurnEnds(l) ==
    /\ pc[l] = "running"
    /\ Go(l, "release")
    /\ UNCHANGED <<inbox, msg, held, done, active, mapVars, prewarming, stopped, sent>>

\* Variant: the deadline does not reach a turn that waits for the user.
TimesOutUnlessAsking(l) ==
    /\ pc[l] = "running"
    /\ l \notin done
    /\ done' = done \cup {l}
    /\ UNCHANGED <<inbox, pc, msg, held, active, mapVars, prewarming, stopped, sent>>

\* botTurnTimeout: ten minutes.
TimesOut(l) ==
    /\ pc[l] \in {"running", "asking", "queued"}
    /\ l \notin done
    /\ done' = done \cup {l}
    /\ UNCHANGED <<inbox, pc, msg, held, active, mapVars, prewarming, stopped, sent>>

\* A turn whose context is done returns, from its stream, its tools or its prompt.
TurnObeys(l) ==
    /\ pc[l] \in {"running", "asking"}
    /\ l \in done
    /\ Go(l, "release")
    /\ UNCHANGED <<inbox, msg, held, done, active, mapVars, prewarming, stopped, sent>>

\* The deferred calls: the context is over, nothing is pending and Release
\* frees the key.
Release(l) ==
    /\ pc[l] = "release"
    /\ active' = active \ {Key(l)}
    /\ held' = [held EXCEPT ![l] = None]
    /\ msg' = [msg EXCEPT ![l] = NoMessage]
    /\ done' = done \ {l}
    /\ Go(l, "receive")
    /\ UNCHANGED <<inbox, mapVars, prewarming, stopped, sent>>

-----------------------------------------------------------------------------
(* The other goroutines.                                                   *)

\* prewarmSession parks its controller; nobody else parks one.
PrewarmBuilt ==
    /\ prewarming
    /\ Unbuilt # {}
    /\ ctrl' = [ctrl EXCEPT ![New] = "open"]
    /\ slots' = [slots EXCEPT ![Prewarm] = New]
    /\ prewarming' = FALSE
    /\ UNCHANGED <<loopVars, active, stale, stopped, sent>>

PrewarmFails ==
    /\ prewarming
    /\ prewarming' = FALSE
    /\ UNCHANGED <<loopVars, active, mapVars, stopped, sent>>

\* SessionIdleTimeout passes for c's session.  It is minutes: it does not pass
\* between two statements of runTurn.
Age(c) ==
    /\ ctrl[c] = "open"
    /\ c \notin stale
    /\ \A l \in Platforms : held[l] = c => pc[l] \notin {"ready", "starting"}
    /\ stale' = stale \cup {c}
    /\ UNCHANGED <<loopVars, active, slots, ctrl, prewarming, stopped, sent>>

\* reapIdleSessions, one session, under gw.mu.
Reap(k) ==
    /\ slots[k] \in stale
    /\ ~Running(slots[k])
    /\ done' = done \cup TurnsOf({slots[k]})
    /\ ctrl' = [ctrl EXCEPT ![slots[k]] = "closed"]
    /\ slots' = [slots EXCEPT ![k] = None]
    /\ stale' = stale \ {slots[k]}
    /\ UNCHANGED <<inbox, pc, msg, held, active, prewarming, stopped, sent>>

\* Stop: every session is cancelled, closed and forgotten.  The loops and the
\* reaper belong to the context given to Start, and what is in the channels of
\* the adapters, which are stopped after that, stays there.
Stop ==
    /\ ~stopped
    /\ stopped' = TRUE
    /\ LET cs == {slots[k] : k \in DOMAIN slots} \ {None}
       IN /\ done' = done \cup TurnsOf(cs)
          /\ ctrl' = [c \in Controllers |-> IF c \in cs THEN "closed" ELSE ctrl[c]]
          /\ stale' = stale \ cs
    /\ slots' = [k \in DOMAIN slots |-> None]
    /\ UNCHANGED <<inbox, pc, msg, held, active, prewarming, sent>>

-----------------------------------------------------------------------------
LoopStep(l) ==
    \/ Receive(l)
    \/ Command(l)
    \/ FindSession(l)
    \/ ClaimPrewarm(l)
    \/ NoSession(l)
    \/ Built(l)
    \/ BuildFails(l)
    \/ Register(l)
    \/ RunTurn(l)
    \/ TurnObeys(l)
    \/ Release(l)

Next ==
    \/ \E m \in Messages : Deliver(m)
    \/ \E l \in Platforms : LoopStep(l) \/ Ask(l) \/ QueueForPrompt(l) \/ PromptComes(l)
                               \/ TurnEnds(l) \/ TimesOut(l)
    \/ PrewarmBuilt
    \/ PrewarmFails
    \/ \E c \in Controllers : Age(c)
    \/ \E k \in Keys : Reap(k)
    \/ Stop

Spec == Init /\ [][Next]_vars

\* The loops run, boot.Build returns, a deadline passes and a cancelled turn
\* returns, though a call of its last round may still queue for a prompt: Run
\* looks at its context before it streams again.  Nobody is obliged to answer,
\* nor the model to end its turn, nor the prompt a call is queued behind to go.
Fairness ==
    \A l \in Platforms : WF_vars(LoopStep(l)) /\ WF_vars(TimesOut(l)) /\ SF_vars(TurnObeys(l))

FairSpec == Spec /\ Fairness

-----------------------------------------------------------------------------
(* Properties.                                                             *)

\* A turn runs on an open controller: the reaper never closes the session a
\* loop has looked up and is about to run, nor one that runs.
TurnOnOpen ==
    ~stopped => \A l \in Platforms : pc[l] \in {"ready"} \cup InTurn => ctrl[held[l]] = "open"

\* Every open controller has one owner, the parking slot or one session: two
\* platforms that claim the prewarmed controller never share it, and none is
\* forgotten before it is closed.
OneOwner ==
    \A c \in Controllers :
        Cardinality({k \in DOMAIN slots : slots[k] = c}) = IF ctrl[c] = "open" THEN 1 ELSE 0

\* A key is taken exactly while its loop is in a turn of it, so no session
\* stays locked, whatever ended the turn.
KeyHasTurn ==
    \A k \in Keys :
        k \in active <=> LET l == PlatformOf[k]
                         IN Key(l) = k /\ pc[l] \notin {"receive", "command"}

\* Every loop comes back for the next message, also from a turn that asks the
\* user and is never answered.  Excepted is a turn with a call queued for good
\* behind another prompt, which neither the deadline nor /stop reaches (the
\* finding CancelUnblocksApproval).
LoopReturns ==
    \A l \in Platforms : []<>(pc[l] # "queued") => (pc[l] # "receive" ~> pc[l] = "receive")

(* What comments of the code say and the code does not do.                 *)

Waiting(l, kind) == \E i \in DOMAIN inbox[l] : inbox[l][i] = [key |-> Key(l), kind |-> kind]

\* "/stop still cancels at once": no turn runs into its deadline while a /stop
\* for it waits.
StopReachesTurn ==
    [][\A l \in Platforms : TimesOut(l) => ~Waiting(l, "stop")]_vars

\* "Use /answer to answer": no turn that asks runs into its deadline while the
\* answer waits.
AnswerReachesPrompt ==
    [][\A l \in Platforms : pc[l] = "asking" /\ TimesOut(l) => ~Waiting(l, "answer")]_vars

\* "Stops all adapters and closes all sessions": after Stop no session is open.
StopClosesAll == stopped => \A c \in Controllers : ctrl[c] # "open"

\* The reaper closes "sessions [that] haven't received a message in
\* SessionIdleTimeout": not one whose chat has a message being handled.
ReapedWereQuiet ==
    [][\A k \in Keys : Reap(k) => Key(PlatformOf[k]) # k]_vars

\* "/plan toggles plan mode on": it is not a prompt for the model.
PlanIsCommand == \A l \in Platforms : pc[l] \in InTurn => msg[l].kind # "plan"
=============================================================================
