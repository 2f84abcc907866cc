------------------------- MODULE BotGatewayProofs -------------------------
(***************************************************************************)
(* BotGateway for every set of platforms, chats and controllers and every  *)
(* number of messages: the reaper and the claims of the prewarmed session  *)
(* never leave a turn on a closed controller, and no key stays taken.      *)
(***************************************************************************)
EXTENDS BotGateway, FiniteSetTheorems, TLAPS

Slots == Keys \cup {Prewarm}
PCs == {"receive", "lookup", "build", "ready", "command", "release"} \cup InTurn
OnSession == {"ready"} \cup InTurn

\* A loop handles messages of its own platform only.
Routed ==
    /\ \A l \in Platforms : \A i \in 1..Len(inbox[l]) : PlatformOf[inbox[l][i].key] = l
    /\ \A l \in Platforms : pc[l] # "receive" => msg[l] \in Messages /\ PlatformOf[Key(l)] = l

\* Slots hold open controllers, each its own, and every open controller is in
\* one: what is written over a slot is nothing.
Owned ==
    /\ \A k \in Slots : slots[k] # None => ctrl[slots[k]] = "open"
    /\ \A j, k \in Slots : slots[j] = slots[k] /\ slots[j] # None => j = k
    /\ \A c \in Controllers : ctrl[c] = "open" => \E k \in Slots : slots[k] = c
    /\ prewarming => slots[Prewarm] = None
    /\ \A l \in Platforms : pc[l] = "build" => slots[Key(l)] = None
    /\ \A c \in stale : ctrl[c] # "unbuilt"

\* A turn's controller is the one of its key's slot, and the reaper does not
\* take it for idle before the turn shows in Running.
HeldIsSlot ==
    /\ ~stopped => \A l \in Platforms : pc[l] \in OnSession => held[l] # None /\ slots[Key(l)] = held[l]
    /\ \A l \in Platforms : pc[l] \in {"ready", "starting"} => held[l] \notin stale

GatewayInv == TypeOK /\ Routed /\ KeyHasTurn /\ Owned /\ HeldIsSlot

LEMMA GatewayInvInit == Init => GatewayInv
<1> SUFFICES ASSUME Init PROVE GatewayInv
  OBVIOUS
<1>1. TypeOK
  <2>1. prewarming \in BOOLEAN /\ stopped \in BOOLEAN
    BY DEF Init
  <2>2. sent \in 0..MaxMessages /\ \A l \in Platforms : Len(inbox[l]) <= ChanCap
    BY BoundAssumption DEF Init
  <2>3. QED
    BY <2>1, <2>2 DEF Init, TypeOK
<1>2. Routed /\ KeyHasTurn
  BY PlatformAssumption DEF Init, Routed, KeyHasTurn
<1>3. Owned /\ HeldIsSlot
  BY NoneAssumption DEF Init, Owned, HeldIsSlot, Slots, OnSession, InTurn
<1>4. QED
  BY <1>1, <1>2, <1>3 DEF GatewayInv

LEMMA NewIsUnbuilt == Unbuilt # {} => New \in Controllers /\ ctrl[New] = "unbuilt"
BY DEF Unbuilt, New

LEMMA TypeStep ==
    ASSUME TypeOK, Routed, [Next]_vars
    PROVE  TypeOK'
<1> USE DEF TypeOK, loopVars, mapVars, Go
<1>1. ASSUME NEW m \in Messages, Deliver(m) PROVE TypeOK'
  <2> DEFINE l == PlatformOf[m.key]
  <2>1. l \in Platforms
    BY PlatformAssumption DEF Messages
  <2>2. inbox' \in [Platforms -> Seq(Messages)] /\ \A p \in Platforms : Len(inbox'[p]) <= ChanCap
    <3>1. CASE Len(inbox[l]) < ChanCap
      <4>1. inbox' = [inbox EXCEPT ![l] = Append(inbox[l], m)]
        BY <1>1, <3>1 DEF Deliver
      <4>2. Append(inbox[l], m) \in Seq(Messages) /\ Len(Append(inbox[l], m)) = Len(inbox[l]) + 1
        BY <2>1
      <4>3. Len(inbox[l]) + 1 <= ChanCap
        BY <2>1, <3>1, BoundAssumption
      <4>4. QED
        BY <2>1, <4>1, <4>2, <4>3
    <3>2. CASE ~(Len(inbox[l]) < ChanCap)
      BY <1>1, <3>2 DEF Deliver
    <3>3. QED
      BY <3>1, <3>2
  <2>3. sent' \in 0..MaxMessages
    BY <1>1, BoundAssumption DEF Deliver
  <2>4. QED
    BY <1>1, <2>2, <2>3 DEF Deliver
<1>2. ASSUME NEW l \in Platforms, Receive(l) PROVE TypeOK'
  <2>1. /\ inbox[l] \in Seq(Messages) /\ inbox[l] # <<>>
        /\ inbox' = [inbox EXCEPT ![l] = Tail(inbox[l])]
    BY <1>2 DEF Receive
  <2>2. Head(inbox[l]) \in Messages /\ Tail(inbox[l]) \in Seq(Messages) /\ Len(Tail(inbox[l])) = Len(inbox[l]) - 1
    BY <2>1
  <2>3. \A p \in Platforms : Len(inbox'[p]) <= ChanCap
    <3>1. Len(inbox[l]) \in Nat /\ Len(inbox[l]) <= ChanCap
      BY <2>1
    <3>2. Len(Tail(inbox[l])) <= ChanCap
      BY <2>2, <3>1, BoundAssumption
    <3>3. QED
      BY <2>1, <3>2
  <2>4. Head(inbox[l]).key \in Keys
    BY <2>2 DEF Messages
  <2>5. held' \in [Platforms -> Controllers \cup {None}] /\ active' \subseteq Keys
    BY <1>2, <2>4 DEF Receive
  <2>6. pc' \in [Platforms -> PCs] /\ msg' \in [Platforms -> Messages \cup {NoMessage}]
    BY <1>2, <2>2 DEF Receive, PCs
  <2>7. inbox' \in [Platforms -> Seq(Messages)]
    BY <2>1, <2>2
  <2>8. QED
    BY <1>2, <2>3, <2>5, <2>6, <2>7 DEF Receive, PCs
<1>3. ASSUME NEW l \in Platforms, Command(l) PROVE TypeOK'
  BY <1>3 DEF Command, InTurn, TurnsOf
<1>4. ASSUME NEW l \in Platforms, FindSession(l) \/ ClaimPrewarm(l) \/ NoSession(l) PROVE TypeOK'
  <2>1. pc[l] = "lookup" /\ Key(l) \in Keys
    BY <1>4 DEF FindSession, ClaimPrewarm, NoSession, Routed, Key, Messages
  <2>2. QED
    BY <1>4, <2>1 DEF FindSession, ClaimPrewarm, NoSession
<1>5. ASSUME NEW l \in Platforms, Built(l) PROVE TypeOK'
  BY <1>5, NewIsUnbuilt DEF Built
<1>6. ASSUME NEW l \in Platforms, BuildFails(l) \/ Register(l) \/ RunTurn(l) \/ Ask(l) \/ QueueForPrompt(l) \/ PromptComes(l) \/ TurnEnds(l) PROVE TypeOK'
  BY <1>6 DEF BuildFails, Register, RunTurn, Ask, QueueForPrompt, PromptComes, TurnEnds, InTurn
<1>7. ASSUME NEW l \in Platforms, TimesOut(l) \/ TurnObeys(l) PROVE TypeOK'
  BY <1>7 DEF TimesOut, TurnObeys
<1>8. ASSUME NEW l \in Platforms, Release(l) PROVE TypeOK'
  BY <1>8 DEF Release
<1>9. CASE PrewarmBuilt
  <2>1. prewarming' \in BOOLEAN
    BY <1>9 DEF PrewarmBuilt
  <2>2. QED
    BY <1>9, <2>1, NewIsUnbuilt DEF PrewarmBuilt
<1>10. CASE PrewarmFails
  <2>1. prewarming' \in BOOLEAN
    BY <1>10 DEF PrewarmFails
  <2>2. QED
    BY <1>10, <2>1 DEF PrewarmFails
<1>11. ASSUME NEW c \in Controllers, Age(c) PROVE TypeOK'
  BY <1>11 DEF Age
<1>12. ASSUME NEW k \in Keys, Reap(k) PROVE TypeOK'
  BY <1>12 DEF Reap, TurnsOf
<1>13. CASE Stop
  <2>1. stopped' \in BOOLEAN
    BY <1>13 DEF Stop
  <2>2. slots' \in [Slots -> Controllers \cup {None}] /\ ctrl' \in [Controllers -> {"unbuilt", "open", "closed"}]
    BY <1>13 DEF Stop, Slots
  <2>3. QED
    BY <1>13, <2>1, <2>2 DEF Stop, Slots, TurnsOf
<1>14. CASE UNCHANGED vars
  BY <1>14 DEF vars
<1>15. QED
  BY <1>1, <1>2, <1>3, <1>4, <1>5, <1>6, <1>7, <1>8, <1>9, <1>10, <1>11, <1>12, <1>13, <1>14 DEF Next, LoopStep
\* Keys of different loops differ, so a loop's step concerns its own key only.
LEMMA RoutedStep ==
    ASSUME TypeOK, Routed, KeyHasTurn, [Next]_vars
    PROVE  Routed' /\ KeyHasTurn'
<1> USE DEF TypeOK, loopVars, mapVars, Go, Key
<1>1. ASSUME NEW m \in Messages, Deliver(m) PROVE Routed' /\ KeyHasTurn'
  <2> DEFINE l == PlatformOf[m.key]
  <2>1. l \in Platforms
    BY PlatformAssumption DEF Messages
  <2>2. KeyHasTurn'
    BY <1>1 DEF Deliver, KeyHasTurn
  <2>3. ASSUME NEW p \in Platforms, NEW i \in 1..Len(inbox'[p])
        PROVE  PlatformOf[inbox'[p][i].key] = p
    <3>1. CASE Len(inbox[l]) < ChanCap /\ p = l
      <4>1. inbox'[p] = Append(inbox[l], m)
        BY <1>1, <2>1, <3>1 DEF Deliver
      <4>2. inbox[l] \in Seq(Messages)
        BY <2>1
      <4>3. CASE i = Len(inbox[l]) + 1
        BY <4>1, <4>2, <4>3, <3>1
      <4>4. CASE i # Len(inbox[l]) + 1
        <5>1. i \in 1..Len(inbox[l]) /\ inbox'[p][i] = inbox[l][i]
          BY <2>3, <4>1, <4>2, <4>4
        <5>2. QED
          BY <5>1, <2>1, <3>1 DEF Routed
      <4>5. QED
        BY <4>3, <4>4
    <3>2. CASE ~(Len(inbox[l]) < ChanCap /\ p = l)
      <4>1. inbox'[p] = inbox[p]
        BY <1>1, <2>1, <3>2 DEF Deliver
      <4>2. QED
        BY <4>1, <2>3 DEF Routed
    <3>3. QED
      BY <3>1, <3>2
  <2>4. QED
    BY <1>1, <2>2, <2>3 DEF Deliver, Routed
<1>2. ASSUME NEW l \in Platforms, Receive(l) PROVE Routed' /\ KeyHasTurn'
  <2>1. /\ inbox[l] \in Seq(Messages) /\ inbox[l] # <<>>
        /\ inbox' = [inbox EXCEPT ![l] = Tail(inbox[l])]
        /\ msg' = [msg EXCEPT ![l] = Head(inbox[l])]
        /\ pc[l] = "receive"
    BY <1>2 DEF Receive
  <2>2. /\ Head(inbox[l]) \in Messages
        /\ Head(inbox[l]) = inbox[l][1]
        /\ 1 \in 1..Len(inbox[l])
        /\ \A i \in 1..Len(Tail(inbox[l])) : i + 1 \in 1..Len(inbox[l]) /\ Tail(inbox[l])[i] = inbox[l][i + 1]
    BY <2>1
  <2>3. PlatformOf[Head(inbox[l]).key] = l /\ Head(inbox[l]).key \in Keys
    BY <2>2 DEF Routed, Messages
  <2>4. \A p \in Platforms : \A i \in 1..Len(inbox'[p]) : PlatformOf[inbox'[p][i].key] = p
    BY <2>1, <2>2 DEF Routed
  <2>5. Routed'
    BY <1>2, <2>1, <2>2, <2>3, <2>4 DEF Receive, Routed
  <2>6. KeyHasTurn'
    <3>1. CASE Head(inbox[l]).kind \in Bypass
      BY <1>2, <2>1, <2>3, <3>1, PlatformAssumption DEF Receive, KeyHasTurn
    <3>2. CASE Head(inbox[l]).kind \notin Bypass
      BY <1>2, <2>1, <2>3, <3>2, PlatformAssumption DEF Receive, KeyHasTurn
    <3>3. QED
      BY <3>1, <3>2
  <2>7. QED
    BY <2>5, <2>6
<1>3. ASSUME NEW l \in Platforms, Command(l) PROVE Routed' /\ KeyHasTurn'
  <2>1. pc[l] = "command" /\ Key(l) \notin active
    BY <1>3, PlatformAssumption DEF Command, KeyHasTurn, Routed, Messages
  <2>2. active' = active
    BY <1>3, <2>1 DEF Command
  <2>3. pc'[l] = "receive" /\ msg' = [msg EXCEPT ![l] = NoMessage]
    BY <1>3 DEF Command
  <2>4. \A p \in Platforms : p # l => (pc'[p] = pc[p] \/ (pc[p] = "asking" /\ pc'[p] = "running"))
    BY <1>3 DEF Command
  <2>5. Routed'
    BY <1>3, <2>3, <2>4 DEF Command, Routed
  <2>6. ASSUME NEW k \in Keys
        PROVE  k \in active' <=> msg'[PlatformOf[k]].key = k /\ pc'[PlatformOf[k]] \notin {"receive", "command"}
    BY <2>1, <2>2, <2>3, <2>4, PlatformAssumption DEF KeyHasTurn
  <2>7. QED
    BY <2>5, <2>6 DEF KeyHasTurn
<1>4. ASSUME NEW l \in Platforms,
             FindSession(l) \/ ClaimPrewarm(l) \/ NoSession(l) \/ Built(l) \/ BuildFails(l) \/ Register(l)
             \/ RunTurn(l) \/ Ask(l) \/ QueueForPrompt(l) \/ PromptComes(l) \/ TurnEnds(l) \/ TimesOut(l) \/ TurnObeys(l)
      PROVE  Routed' /\ KeyHasTurn'
  <2>1. /\ pc' = pc \/ \E to \in PCs \ {"receive", "command"} : pc' = [pc EXCEPT ![l] = to]
        /\ pc[l] \notin {"receive", "command"}
        /\ UNCHANGED <<inbox, msg, active>>
    BY <1>4 DEF FindSession, ClaimPrewarm, NoSession, Built, BuildFails, Register, RunTurn, Ask, QueueForPrompt, PromptComes, TurnEnds,
                TimesOut, TurnObeys, PCs, InTurn
  <2>2. Routed'
    BY <2>1 DEF Routed, PCs, InTurn
  <2>3. \A p \in Platforms : pc'[p] \in {"receive", "command"} <=> pc[p] \in {"receive", "command"}
    BY <2>1
  <2>4. KeyHasTurn'
    BY <2>1, <2>3, PlatformAssumption DEF KeyHasTurn
  <2>5. QED
    BY <2>2, <2>4
<1>5. ASSUME NEW l \in Platforms, Release(l) PROVE Routed' /\ KeyHasTurn'
  <2>1. pc[l] = "release" /\ Key(l) \in Keys /\ PlatformOf[Key(l)] = l
    BY <1>5 DEF Release, Routed, Messages
  <2>2. Routed'
    BY <1>5 DEF Release, Routed
  <2>3. ASSUME NEW k \in Keys
        PROVE  k \in active' <=> msg'[PlatformOf[k]].key = k /\ pc'[PlatformOf[k]] \notin {"receive", "command"}
    BY <1>5, <2>1, PlatformAssumption DEF Release, KeyHasTurn
  <2>4. QED
    BY <2>2, <2>3 DEF KeyHasTurn
<1>6. ASSUME \/ PrewarmBuilt \/ PrewarmFails \/ Stop \/ UNCHANGED vars
             \/ \E c \in Controllers : Age(c)
             \/ \E k \in Keys : Reap(k)
      PROVE  Routed' /\ KeyHasTurn'
  <2>1. UNCHANGED <<inbox, pc, msg, active>>
    BY <1>6 DEF PrewarmBuilt, PrewarmFails, Age, Reap, Stop, vars
  <2>2. QED
    BY <2>1 DEF Routed, KeyHasTurn
<1>7. QED
  BY <1>1, <1>2, <1>3, <1>4, <1>5, <1>6 DEF Next, LoopStep
\* Two loops in the middle of a message have different keys.
LEMMA KeysDiffer ==
    ASSUME Routed, NEW l \in Platforms, NEW p \in Platforms, p # l, pc[l] # "receive", pc[p] # "receive"
    PROVE  Key(l) # Key(p) /\ Key(l) \in Keys /\ Key(p) \in Keys
BY DEF Routed, Messages, Key

LEMMA SlotsStep ==
    ASSUME GatewayInv, TypeOK', Routed', [Next]_vars
    PROVE  Owned' /\ HeldIsSlot'
<1> USE DEF TypeOK, loopVars, mapVars, Go
<1> USE DEF GatewayInv
<1>1. ASSUME NEW l \in Platforms, Command(l) PROVE Owned' /\ HeldIsSlot'
  <2>1. \A p \in Platforms : p # l => held'[p] = held[p] /\ (pc'[p] = pc[p] \/ (pc[p] = "asking" /\ pc'[p] = "running"))
    BY <1>1 DEF Command
  <2>2. pc'[l] = "receive" /\ UNCHANGED <<slots, ctrl, stale, prewarming, stopped>>
    BY <1>1 DEF Command
  <2>3. \A p \in Platforms : pc'[p] # "receive" => Key(p)' = Key(p)
    BY <1>1, <2>2 DEF Command, Key
  <2>4. Owned'
    <3>1. \A p \in Platforms : pc'[p] = "build" => pc[p] = "build" /\ Key(p)' = Key(p)
      BY <2>1, <2>2, <2>3
    <3>2. QED
      BY <2>2, <3>1 DEF Owned
  <2>5. HeldIsSlot'
    BY <2>1, <2>2, <2>3 DEF HeldIsSlot, OnSession, InTurn
  <2>6. QED
    BY <2>4, <2>5
<1>2. ASSUME NEW l \in Platforms, FindSession(l) PROVE Owned' /\ HeldIsSlot'
  BY <1>2 DEF FindSession, Owned, HeldIsSlot, Slots, OnSession, InTurn, Key
<1>3. ASSUME NEW l \in Platforms, ClaimPrewarm(l) PROVE Owned' /\ HeldIsSlot'
  <2>1. /\ pc[l] = "lookup" /\ Key(l) \in Keys /\ Key(l) # Prewarm
        /\ slots[Key(l)] = None /\ slots[Prewarm] \in Controllers
        /\ slots' = [slots EXCEPT ![Prewarm] = None, ![Key(l)] = slots[Prewarm]]
        /\ held' = [held EXCEPT ![l] = slots[Prewarm]]
        /\ pc' = [pc EXCEPT ![l] = "ready"]
        /\ stale' = stale \ {slots[Prewarm]}
        /\ UNCHANGED <<msg, ctrl, prewarming, stopped>>
    BY <1>3, PrewarmAssumption DEF ClaimPrewarm, Routed, Key, Messages
  <2>2. /\ slots'[Prewarm] = None
        /\ slots'[Key(l)] = slots[Prewarm]
        /\ \A k \in Slots : k # Prewarm /\ k # Key(l) => slots'[k] = slots[k]
    BY <2>1 DEF Slots
  <2>3. \A p \in Platforms : p # l /\ pc[p] # "receive" => Key(p) # Key(l) /\ Key(p) \in Keys /\ Key(p) # Prewarm
    BY <2>1, KeysDiffer, PrewarmAssumption
  <2>4. Owned'
    <3>1. \A k \in Slots : slots'[k] # None => ctrl'[slots'[k]] = "open"
      BY <2>1, <2>2 DEF Owned, Slots
    <3>2. \A j, k \in Slots : slots'[j] = slots'[k] /\ slots'[j] # None => j = k
      BY <2>1, <2>2 DEF Owned, Slots
    <3>3. \A c \in Controllers : ctrl'[c] = "open" => \E k \in Slots : slots'[k] = c
      <4> SUFFICES ASSUME NEW c \in Controllers, ctrl[c] = "open" PROVE \E k \in Slots : slots'[k] = c
        BY <2>1
      <4>1. PICK k \in Slots : slots[k] = c
        BY DEF Owned
      <4>2. CASE k = Prewarm
        BY <2>1, <2>2, <4>1, <4>2 DEF Slots
      <4>3. CASE k # Prewarm
        BY <2>1, <2>2, <4>1, <4>3, NoneAssumption
      <4>4. QED
        BY <4>2, <4>3
    <3>4. \A p \in Platforms : pc'[p] = "build" => slots'[Key(p)'] = None
      BY <2>1, <2>2, <2>3 DEF Owned, Slots, Key
    <3>5. \A c \in stale' : ctrl'[c] # "unbuilt"
      BY <2>1 DEF Owned
    <3>6. prewarming' => slots'[Prewarm] = None
      BY <2>2
    <3>7. QED
      BY <3>1, <3>2, <3>3, <3>4, <3>5, <3>6 DEF Owned
  <2>5. HeldIsSlot'
    BY <2>1, <2>2, <2>3, NoneAssumption DEF HeldIsSlot, Slots, OnSession, InTurn, Key
  <2>6. QED
    BY <2>4, <2>5
<1>4. ASSUME NEW l \in Platforms, NoSession(l) PROVE Owned' /\ HeldIsSlot'
  BY <1>4 DEF NoSession, Owned, HeldIsSlot, Slots, OnSession, InTurn, Key
<1>5. ASSUME NEW l \in Platforms, Built(l) PROVE Owned' /\ HeldIsSlot'
  <2>1. /\ pc[l] = "build" /\ Key(l) \in Keys /\ Key(l) # Prewarm
        /\ slots[Key(l)] = None
        /\ New \in Controllers /\ ctrl[New] = "unbuilt"
        /\ slots' = [slots EXCEPT ![Key(l)] = New]
        /\ ctrl' = [ctrl EXCEPT ![New] = "open"]
        /\ held' = [held EXCEPT ![l] = New]
        /\ pc' = [pc EXCEPT ![l] = "ready"]
        /\ UNCHANGED <<msg, stale, prewarming, stopped>>
    BY <1>5, NewIsUnbuilt, PrewarmAssumption DEF Built, Routed, Key, Messages, Owned
  <2>2. slots'[Key(l)] = New /\ \A k \in Slots : k # Key(l) => slots'[k] = slots[k]
    BY <2>1 DEF Slots
  <2>3. \A k \in Slots : slots[k] # New
    BY <2>1, NoneAssumption DEF Owned
  <2>4. \A p \in Platforms : p # l /\ pc[p] # "receive" => Key(p) # Key(l) /\ Key(p) \in Keys
    BY <2>1, KeysDiffer
  <2>5. Owned'
    BY <2>1, <2>2, <2>3, <2>4, NoneAssumption DEF Owned, Slots, Key
  <2>6. New \notin stale
    BY <2>1 DEF Owned
  <2>7. HeldIsSlot'
    BY <2>1, <2>2, <2>4, <2>6, NoneAssumption DEF HeldIsSlot, Slots, OnSession, InTurn, Key
  <2>8. QED
    BY <2>5, <2>7
<1>6. ASSUME NEW l \in Platforms, Register(l) PROVE Owned' /\ HeldIsSlot'
  BY <1>6 DEF Register, Owned, HeldIsSlot, Slots, OnSession, InTurn, Key
<1>7. ASSUME NEW l \in Platforms,
             BuildFails(l) \/ RunTurn(l) \/ Ask(l) \/ QueueForPrompt(l) \/ PromptComes(l) \/ TurnEnds(l) \/ TimesOut(l) \/ TurnObeys(l)
      PROVE  Owned' /\ HeldIsSlot'
  <2>1. /\ pc' = pc \/ \E to \in {"release", "running", "asking", "queued"} : pc' = [pc EXCEPT ![l] = to]
        /\ pc'[l] \in {"running", "asking", "queued"} => pc[l] \in OnSession
        /\ UNCHANGED <<msg, held, slots, ctrl, stale, prewarming, stopped>>
    BY <1>7 DEF BuildFails, RunTurn, Ask, QueueForPrompt, PromptComes, TurnEnds, TimesOut, TurnObeys, OnSession, InTurn
  <2>2. /\ \A p \in Platforms : pc'[p] = "build" => pc[p] = "build"
        /\ \A p \in Platforms : pc'[p] \in OnSession => pc[p] \in OnSession
        /\ \A p \in Platforms : pc'[p] \in {"ready", "starting"} => pc[p] \in {"ready", "starting"}
    BY <2>1 DEF OnSession, InTurn
  <2>3. QED
    BY <2>1, <2>2 DEF Owned, HeldIsSlot, Key
<1>8. ASSUME NEW l \in Platforms, Receive(l) \/ Release(l) PROVE Owned' /\ HeldIsSlot'
  <2>1. /\ pc'[l] \in {"command", "lookup", "receive"}
        /\ \A p \in Platforms : p # l => pc'[p] = pc[p] /\ held'[p] = held[p] /\ msg'[p] = msg[p]
        /\ UNCHANGED <<slots, ctrl, stale, prewarming, stopped>>
    BY <1>8 DEF Receive, Release
  <2>2. \A p \in Platforms : pc'[p] \in {"build"} \cup OnSession => p # l
    BY <2>1 DEF OnSession, InTurn
  <2>3. Owned'
    BY <2>1, <2>2, ZenonT(30) DEF Owned, Key
  <2>4. HeldIsSlot'
    BY <2>1, <2>2 DEF HeldIsSlot, OnSession, InTurn, Key
  <2>5. QED
    BY <2>3, <2>4
<1>9. CASE PrewarmBuilt
  <2>1. /\ slots[Prewarm] = None
        /\ New \in Controllers /\ ctrl[New] = "unbuilt"
        /\ slots' = [slots EXCEPT ![Prewarm] = New]
        /\ ctrl' = [ctrl EXCEPT ![New] = "open"]
        /\ UNCHANGED <<pc, msg, held, stale, stopped>>
    BY <1>9, NewIsUnbuilt DEF PrewarmBuilt, Owned
  <2>2. slots'[Prewarm] = New /\ \A k \in Slots : k # Prewarm => slots'[k] = slots[k]
    BY <2>1 DEF Slots
  <2>3. \A k \in Slots : slots[k] # New
    BY <2>1, NoneAssumption DEF Owned
  <2>4. \A p \in Platforms : pc[p] # "receive" => Key(p) \in Keys /\ Key(p) # Prewarm
    BY PrewarmAssumption DEF Routed, Messages, Key
  <2>5. Owned'
    <3>1. ~prewarming'
      BY <1>9 DEF PrewarmBuilt
    <3>2. QED
      BY <2>1, <2>2, <2>3, <2>4, <3>1, NoneAssumption DEF Owned, Slots, Key
  <2>6. HeldIsSlot'
    BY <2>1, <2>2, <2>4 DEF HeldIsSlot, Slots, OnSession, InTurn, Key
  <2>7. QED
    BY <2>5, <2>6
<1>10. ASSUME NEW c \in Controllers, Age(c) PROVE Owned' /\ HeldIsSlot'
  BY <1>10 DEF Age, Owned, HeldIsSlot, Slots, OnSession, InTurn, Key
<1>11. ASSUME NEW k \in Keys, Reap(k) PROVE Owned' /\ HeldIsSlot'
  <2>1. /\ slots[k] \in stale /\ slots[k] \in Controllers /\ ~Running(slots[k])
        /\ slots' = [slots EXCEPT ![k] = None]
        /\ ctrl' = [ctrl EXCEPT ![slots[k]] = "closed"]
        /\ stale' = stale \ {slots[k]}
        /\ UNCHANGED <<pc, msg, held, prewarming, stopped>>
    BY <1>11 DEF Reap
  <2>2. ~stopped => \A p \in Platforms : pc[p] \in OnSession => Key(p) # k
    BY <2>1 DEF HeldIsSlot, OnSession, InTurn, Running
  <2>3. \A p \in Platforms : pc[p] # "receive" => Key(p) \in Keys
    BY DEF Routed, Messages, Key
  <2>4. slots'[k] = None /\ \A j \in Slots : j # k => slots'[j] = slots[j]
    BY <2>1 DEF Slots
  <2>5. Owned'
    BY <2>1, <2>3, <2>4, NoneAssumption, PrewarmAssumption DEF Owned, Slots, Key
  <2>6. HeldIsSlot'
    BY <2>1, <2>2, <2>3, <2>4 DEF HeldIsSlot, Slots, OnSession, InTurn, Key
  <2>7. QED
    BY <2>5, <2>6
<1>12. CASE Stop
  <2>1. /\ stopped' = TRUE
        /\ slots' = [k \in Slots |-> None]
        /\ ctrl' = [c \in Controllers |-> IF c \in {slots[k] : k \in Slots} \ {None} THEN "closed" ELSE ctrl[c]]
        /\ stale' \subseteq stale
        /\ UNCHANGED <<pc, msg, held, prewarming>>
    BY <1>12 DEF Stop, Slots
  <2>2. \A p \in Platforms : pc[p] # "receive" => Key(p) \in Keys
    BY DEF Routed, Messages, Key
  <2>3. \A c \in Controllers : ctrl'[c] # "open"
    BY <2>1, NoneAssumption DEF Owned
  <2>4. Owned'
    BY <2>1, <2>2, <2>3 DEF Owned, Slots, Key
  <2>5. HeldIsSlot'
    BY <2>1 DEF HeldIsSlot
  <2>6. QED
    BY <2>4, <2>5
<1>13. ASSUME PrewarmFails \/ (\E m \in Messages : Deliver(m)) \/ UNCHANGED vars PROVE Owned' /\ HeldIsSlot'
  <2>1. UNCHANGED <<pc, msg, held, slots, ctrl, stale, stopped>> /\ (prewarming' = prewarming \/ ~prewarming')
    BY <1>13 DEF PrewarmFails, Deliver, vars
  <2>2. QED
    BY <2>1 DEF Owned, HeldIsSlot, Slots, OnSession, InTurn, Key
<1>14. QED
  BY <1>1, <1>2, <1>3, <1>4, <1>5, <1>6, <1>7, <1>8, <1>9, <1>10, <1>11, <1>12, <1>13 DEF Next, LoopStep

LEMMA Invariance == Spec => []GatewayInv
<1>1. GatewayInv /\ [Next]_vars => GatewayInv'
  BY TypeStep, RoutedStep, SlotsStep DEF GatewayInv
<1>2. QED
  BY <1>1, GatewayInvInit, PTL DEF Spec

\* Every reachable state has the shape TypeOK gives it.
THEOREM TypeCorrect == Spec => []TypeOK
<1>1. GatewayInv => TypeOK
  BY DEF GatewayInv
<1>2. QED
  BY <1>1, Invariance, PTL

\* A session key is taken exactly while its loop is in a turn of it, so the
\* deferred Release of runTurn is enough on every way out of a turn.
THEOREM KeysAreReleased == Spec => []KeyHasTurn
<1>1. GatewayInv => KeyHasTurn
  BY DEF GatewayInv
<1>2. QED
  BY <1>1, Invariance, PTL

\* Until Stop no turn runs on a closed controller: a session looked up by
\* getOrCreateSession is fresh until Running tells the reaper of its turn.
THEOREM TurnsAreOnOpen == Spec => []TurnOnOpen
<1>1. GatewayInv => TurnOnOpen
  <2> SUFFICES ASSUME GatewayInv, ~stopped, NEW l \in Platforms, pc[l] \in OnSession
               PROVE  ctrl[held[l]] = "open"
    BY DEF TurnOnOpen, OnSession
  <2>1. Key(l) \in Slots
    BY DEF GatewayInv, Routed, Messages, Slots, OnSession, InTurn, Key
  <2>2. QED
    BY <2>1 DEF GatewayInv, Owned, HeldIsSlot
<1>2. QED
  BY <1>1, Invariance, PTL

\* Every open controller belongs to one session or is parked: two platforms
\* never share the prewarmed one, and none is forgotten open.
THEOREM ControllersHaveOneOwner == Spec => []OneOwner
<1>1. GatewayInv => OneOwner
  <2> SUFFICES ASSUME GatewayInv, NEW c \in Controllers
               PROVE  Cardinality({k \in DOMAIN slots : slots[k] = c}) = IF ctrl[c] = "open" THEN 1 ELSE 0
    BY DEF OneOwner
  <2> DEFINE owners == {k \in DOMAIN slots : slots[k] = c}
  <2>1. DOMAIN slots = Slots /\ c # None
    BY NoneAssumption DEF GatewayInv, TypeOK, Slots
  <2>2. CASE ctrl[c] = "open"
    <3>1. PICK k \in Slots : slots[k] = c
      BY <2>2 DEF GatewayInv, Owned
    <3>2. owners = {k}
      BY <2>1, <3>1 DEF GatewayInv, Owned
    <3>3. QED
      BY <2>2, <3>2, FS_Singleton
  <2>3. CASE ctrl[c] # "open"
    <3>1. owners = {}
      BY <2>1, <2>3 DEF GatewayInv, Owned
    <3>2. QED
      BY <2>3, <3>1, FS_EmptySet
  <2>4. QED
    BY <2>2, <2>3
<1>2. QED
  BY <1>1, Invariance, PTL
=============================================================================
