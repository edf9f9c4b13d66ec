--------------------------- MODULE Progress_proofs ---------------------------
(* Proofs about quests, their rewards and the loot cache, for any numbers of   *)
(* characters, quests with any steps, loot tables, goroutines and crashes.     *)
EXTENDS Progress, FiniteSetTheorems, TLAPS

\* What no step of goroutine p does to the others.
Alone(p) == \A q \in Proc : q # p => pc'[q] = pc[q] /\ loc'[q] = loc[q]

\* What p itself has to be shown after a step.
Ready(p) == loc[p] \in Call /\ Held(pc[p], loc[p]) /\ Listed(loc[p].seen)

\* An idle goroutine holds nothing.
LEMMA NoCallHeld == NoCall \in Call /\ Held("idle", NoCall) /\ Listed(NoCall.seen)
<1>1. NoQuestRows \in [Quest -> QuestRows] /\ \A q \in Quest : NoQuestRows[q] = NoQuest
  BY DEF NoQuestRows, QuestRows
<1>2. NoTable \in Entries
  BY DEF Entries
<1> QED  BY <1>1, <1>2 DEF NoCall, Call, Held, Listed

\* The empty database satisfies the invariant.
LEMMA InitProgress == Init => ProgressIInv
<1> SUFFICES ASSUME Init PROVE ProgressIInv
  OBVIOUS
<1>1. TypeOK
  <2>1. QuestTypeOK
    BY DEF Init, QuestInit, QuestTypeOK, QuestRows
  <2>2. LootTypeOK /\ worn \in [Character -> Nat]
    BY DEF Init, CharacterInit, RowsInit, LootInit, LootTypeOK
  <2>3. pc \in [Proc -> {"idle"}] /\ loc \in [Proc -> Call]
    BY NoCallHeld DEF Init
  <2>4. /\ paid \in [Character -> [Quest -> [reward : Nat, items : Nat]]]
        /\ lost \in [Character -> [Quest -> Nat]]
    BY DEF Init
  <2> QED  BY <2>1, <2>2, <2>3, <2>4 DEF TypeOK, Control
<1>2. \A p \in Proc : Held(pc[p], loc[p]) /\ Listed(loc[p].seen)
  BY NoCallHeld DEF Init
<1>3. LogCoherent /\ CacheCoherent
  BY DEF Init, QuestInit, LootInit, LogCoherent, CacheCoherent, CacheHit
<1> QED  BY <1>1, <1>2, <1>3 DEF ProgressIInv

\* A goroutine of a state that satisfies the invariant is ready.
LEMMA AllReady == ProgressIInv => \A p \in Proc : Ready(p)
  BY DEF ProgressIInv, TypeOK, Ready

\* A step of one goroutine keeps what the others hold.
LEMMA OthersHold ==
    ASSUME NEW p \in Proc, ProgressIInv, Alone(p), Ready(p)',
           defs \subseteq defs', \A t \in Table : tables[t] # NoTable => tables'[t] = tables[t]
    PROVE  (\A q \in Proc : Held(pc[q], loc[q]) /\ Listed(loc[q].seen))'
<1> SUFFICES ASSUME NEW q \in Proc, q # p PROVE (Held(pc[q], loc[q]) /\ Listed(loc[q].seen))'
  BY DEF Ready
<1>1. /\ Held(pc[q], loc[q]) /\ Listed(loc[q].seen)
      /\ pc'[q] = pc[q] /\ loc'[q] = loc[q] /\ loc[q] \in Call
  BY DEF ProgressIInv, Alone, TypeOK
<1>2. pc[q] = "fill" => tables'[loc[q].table] = tables[loc[q].table]
  BY <1>1 DEF Held, Call
<1>3. Held(pc[q], loc[q])'
  BY <1>1, <1>2 DEF Held
<1> QED  BY <1>1, <1>3 DEF Listed

\* Only p goes on.
Moves(p) ==
    /\ pc' = [pc EXCEPT ![p] = pc'[p]] /\ pc'[p] \in Control
    /\ loc' = [loc EXCEPT ![p] = loc'[p]]

\* What a step of one goroutine leaves alone.
LEMMA MovesAlone ==
    ASSUME NEW p \in Proc, ProgressIInv, Moves(p), loc'[p] \in Call
    PROVE  Alone(p) /\ pc' \in [Proc -> Control] /\ loc' \in [Proc -> Call]
  BY DEF Moves, Alone, ProgressIInv, TypeOK

\* A step of one goroutine that treats the tables well.
LEMMA TableStep ==
    ASSUME NEW p \in Proc, ProgressIInv, Moves(p), Ready(p)',
           QuestTypeOK', LootTypeOK', LogCoherent', CacheCoherent',
           defs \subseteq defs', \A t \in Table : tables[t] # NoTable => tables'[t] = tables[t],
           worn' \in [Character -> Nat], lost' \in [Character -> [Quest -> Nat]],
           paid' \in [Character -> [Quest -> [reward : Nat, items : Nat]]]
    PROVE  ProgressIInv'
<1>0. loc'[p] \in Call
  BY DEF Ready
<1>1. Alone(p) /\ pc' \in [Proc -> Control] /\ loc' \in [Proc -> Call]
  BY <1>0, MovesAlone
<1>2. (\A q \in Proc : Held(pc[q], loc[q]) /\ Listed(loc[q].seen))'
  BY <1>1, OthersHold
<1>3. TypeOK'
  BY <1>1 DEF TypeOK
<1> QED  BY <1>2, <1>3 DEF ProgressIInv

\* A step of one goroutine that leaves the tables alone.
LEMMA LocalStep ==
    ASSUME NEW p \in Proc, ProgressIInv, Moves(p), Ready(p)', UNCHANGED <<questVars, lootVars>>,
           worn' \in [Character -> Nat], lost' \in [Character -> [Quest -> Nat]],
           paid' \in [Character -> [Quest -> [reward : Nat, items : Nat]]]
    PROVE  ProgressIInv'
<1>1. LogCoherent' /\ CacheCoherent'
  BY DEF ProgressIInv, LogCoherent, CacheCoherent, CacheHit, questVars, lootVars
<1>2. QuestTypeOK' /\ LootTypeOK'
  BY DEF ProgressIInv, TypeOK, QuestTypeOK, LootTypeOK, questVars, lootVars
<1> QED  BY <1>1, <1>2, TableStep DEF questVars, lootVars

\* Steps that leave the observations alone as well.
LEMMA QuietStep ==
    ASSUME NEW p \in Proc, ProgressIInv, Moves(p), Ready(p)',
           UNCHANGED <<questVars, lootVars, worn, lost, paid>>
    PROVE  ProgressIInv'
  BY LocalStep DEF ProgressIInv, TypeOK

\* A goroutine ends.
LEMMA FinishMoves ==
    ASSUME NEW p \in Proc, ProgressIInv, Finish(p)
    PROVE  Moves(p) /\ Ready(p)' /\ pc'[p] = "idle" /\ loc'[p] = NoCall
<1>1. pc'[p] = "idle" /\ loc'[p] = NoCall /\ Moves(p)
  BY DEF Finish, Goto, Moves, Control, ProgressIInv, TypeOK
<1>2. Held(pc[p], loc[p])'
  BY <1>1, NoCallHeld DEF Held, NoCall
<1>3. Listed(loc[p].seen)'
  BY <1>1, NoCallHeld DEF Listed, NoCall, NoQuestRows
<1> QED  BY <1>1, <1>2, <1>3, NoCallHeld DEF Ready

\* The quests are left behind.
LEMMA LeaveMoves ==
    ASSUME NEW p \in Proc, ProgressIInv, LeaveQuests(p), pc[p] \in {"list", "next"}
    PROVE  Moves(p) /\ Ready(p)' /\ pc'[p] = "loot" /\ loc'[p].quest = NoQuest
<1>0. Ready(p) /\ loc[p] \in Call
  BY AllReady DEF Ready
<1>1. loc'[p] = [loc[p] EXCEPT !.seen = NoQuestRows, !.quest = NoQuest, !.target = NoProc, !.amount = 0]
  BY DEF LeaveQuests, ProgressIInv, TypeOK
<1>2. Moves(p) /\ pc'[p] = "loot"
  <2>1. loc' = [loc EXCEPT ![p] = loc'[p]]
    BY DEF LeaveQuests, ProgressIInv, TypeOK
  <2>2. pc'[p] = "loot" /\ pc' = [pc EXCEPT ![p] = pc'[p]]
    BY DEF LeaveQuests, Goto, ProgressIInv, TypeOK
  <2> QED  BY <2>1, <2>2 DEF Moves, Control
<1>3. NoQuestRows \in [Quest -> QuestRows] /\ \A q \in Quest : NoQuestRows[q] = NoQuest
  BY DEF NoQuestRows, QuestRows
<1>4. loc'[p] \in Call /\ loc'[p].seen = NoQuestRows /\ loc'[p].quest = NoQuest /\ loc'[p].char = loc[p].char
  <2> DEFINE r == loc[p]
             w == loc'[p]
             seen == NoQuestRows
  <2>1. r \in Call /\ seen \in [Quest -> QuestRows]
    BY <1>0, <1>3
  <2>2. w = [r EXCEPT !.seen = seen, !.quest = NoQuest, !.target = NoProc, !.amount = 0]
    BY <1>1
  <2> HIDE DEF r, w, seen
  <2>3. w \in Call /\ w.char = r.char /\ w.quest = NoQuest /\ w.seen = seen
    BY <2>1, <2>2 DEF Call
  <2> QED  BY <2>3 DEF r, w, seen
<1>5. Held(pc[p], loc[p])'
  BY <1>0, <1>2, <1>4 DEF Ready, Held
<1>6. Listed(loc[p].seen)'
  BY <1>3, <1>4 DEF Listed
<1> QED  BY <1>2, <1>4, <1>5, <1>6 DEF Ready

\* AddRewards returns.
LEMMA BackMoves ==
    ASSUME NEW p \in Proc, ProgressIInv, Back(p), defs' = defs,
           pc[p] \in {"lock", "grant", "base", "gear", "stats"}
    PROVE  Moves(p) /\ Ready(p)' /\ pc'[p] \in {"idle", "items"}
<1>0. Ready(p)
  BY AllReady
<1>1. CASE loc[p].ret = "idle"
  BY <1>1, FinishMoves DEF Back
<1>2. CASE loc[p].ret # "idle"
  <2>1. loc[p].ret = "items"
    BY <1>0, <1>2 DEF Ready, Call
  <2>2. /\ pc'[p] = "items" /\ Moves(p)
        /\ loc'[p] = [loc[p] EXCEPT !.gold = 0, !.exp = 0, !.gear = 0]
    <3>1. loc'[p] = [loc[p] EXCEPT !.gold = 0, !.exp = 0, !.gear = 0]
      BY <2>1 DEF Back, ProgressIInv, TypeOK
    <3>2. loc' = [loc EXCEPT ![p] = loc'[p]]
      BY <2>1 DEF Back, ProgressIInv, TypeOK
    <3>3. pc'[p] = "items" /\ pc' = [pc EXCEPT ![p] = pc'[p]]
      BY <2>1 DEF Back, Goto, ProgressIInv, TypeOK
    <3> QED  BY <3>1, <3>2, <3>3 DEF Moves, Control
  <2>3. /\ loc'[p] \in Call /\ loc'[p].seen = loc[p].seen /\ loc'[p].quest = loc[p].quest
        /\ loc'[p].char = loc[p].char
    <3> DEFINE r == loc[p]
               w == loc'[p]
    <3>1. r \in Call /\ w = [r EXCEPT !.gold = 0, !.exp = 0, !.gear = 0]
      BY <1>0, <2>2 DEF Ready
    <3> HIDE DEF r, w
    <3>2. w \in Call /\ w.seen = r.seen /\ w.quest = r.quest /\ w.char = r.char
      BY <3>1 DEF Call
    <3> QED  BY <3>2 DEF r, w
  <2>4. Held(pc[p], loc[p])'
    BY <1>0, <2>1, <2>2, <2>3 DEF Ready, Held
  <2>5. Listed(loc[p].seen)'
    BY <1>0, <2>3 DEF Ready, Listed
  <2> QED  BY <2>2, <2>3, <2>4, <2>5 DEF Ready
<1> QED  BY <1>1, <1>2
\* Accepting a quest begins.
LEMMA AcceptStep ==
    ASSUME NEW p \in Proc, NEW u \in User, NEW c \in Character, NEW q \in Quest,
           ProgressIInv, AcceptQuestHandler(p, u, c, q)
    PROVE  ProgressIInv'
<1>0. Ready(p) /\ loc[p] \in Call
  BY AllReady DEF Ready
<1>1. loc'[p] = [loc[p] EXCEPT !.char = c, !.quest = q]
  BY DEF AcceptQuestHandler, ProgressIInv, TypeOK
<1>2. Moves(p) /\ pc'[p] = "accept"
  <2>1. loc' = [loc EXCEPT ![p] = loc'[p]]
    BY DEF AcceptQuestHandler, ProgressIInv, TypeOK
  <2>2. pc'[p] = "accept" /\ pc' = [pc EXCEPT ![p] = pc'[p]]
    BY DEF AcceptQuestHandler, Goto, ProgressIInv, TypeOK
  <2> QED  BY <2>1, <2>2 DEF Moves, Control
<1>3. loc'[p] \in Call /\ loc'[p].char = c /\ loc'[p].quest = q /\ loc'[p].seen = loc[p].seen
  <2> DEFINE r == loc[p]
             w == loc'[p]
  <2>1. r \in Call /\ w = [r EXCEPT !.char = c, !.quest = q]
    BY <1>0, <1>1
  <2> HIDE DEF r, w
  <2>3. w \in Call /\ w.char = c /\ w.quest = q /\ w.seen = r.seen
    BY <2>1 DEF Call
  <2> QED  BY <2>3 DEF r, w
<1>4. Held(pc[p], loc[p])'
  BY <1>0, <1>2, <1>3 DEF AcceptQuestHandler, AcceptQuest, GetDefinition, questVars, Ready, Held
<1>5. Listed(loc[p].seen)'
  BY <1>0, <1>3 DEF Ready, Listed, AcceptQuestHandler, questVars, characterVars, statVars, obsVars
<1>6. Ready(p)'
  BY <1>3, <1>4, <1>5 DEF Ready
<1> QED  BY <1>2, <1>6, QuietStep DEF AcceptQuestHandler, questVars, characterVars, statVars, obsVars

\* A kill.
LEMMA KillStep ==
    ASSUME NEW p \in Proc, NEW c \in Character, NEW v \in Victim,
           ProgressIInv, RewardKill(p, c, v)
    PROVE  ProgressIInv'
<1>0. Ready(p) /\ loc[p] \in Call
  BY AllReady DEF Ready
<1>1. loc'[p] = [loc[p] EXCEPT !.char = c, !.amount = 1, !.target = v, !.table = LootTableOf[v]]
  BY DEF RewardKill, Resolve, ProgressIInv, TypeOK
<1>2. Moves(p) /\ pc'[p] = "list"
  <2>1. loc' = [loc EXCEPT ![p] = loc'[p]]
    BY DEF RewardKill, Resolve, ProgressIInv, TypeOK
  <2>2. pc'[p] = "list" /\ pc' = [pc EXCEPT ![p] = pc'[p]]
    BY DEF RewardKill, Resolve, Goto, ProgressIInv, TypeOK
  <2> QED  BY <2>1, <2>2 DEF Moves, Control
<1>3. loc'[p] \in Call /\ loc'[p].char = c /\ loc'[p].quest = loc[p].quest /\ loc'[p].seen = loc[p].seen
  <2> DEFINE r == loc[p]
             w == loc'[p]
  <2>1. r \in Call /\ w = [r EXCEPT !.char = c, !.amount = 1, !.target = v, !.table = LootTableOf[v]]
    BY <1>0, <1>1
  <2>2. LootTableOf[v] \in Table \cup {NoTable}
    BY CreaturesHaveTables
  <2> HIDE DEF r, w
  <2>3. w \in Call /\ w.char = c /\ w.quest = r.quest /\ w.seen = r.seen
    BY <2>1, <2>2 DEF Call
  <2> QED  BY <2>3 DEF r, w
<1>4. Held(pc[p], loc[p])'
  BY <1>0, <1>2, <1>3 DEF RewardKill, At, Ready, Held
<1>5. Listed(loc[p].seen)'
  BY <1>0, <1>3 DEF Ready, Listed, RewardKill, questVars, characterVars, statVars, obsVars
<1>6. Ready(p)'
  BY <1>3, <1>4, <1>5 DEF Ready
<1> QED  BY <1>2, <1>6, QuietStep DEF RewardKill, questVars, characterVars, statVars, obsVars

\* A progress call of an administrator.
LEMMA ProgressStep ==
    ASSUME NEW p \in Proc, NEW c \in Character, NEW v \in Victim, NEW n \in Amounts,
           ProgressIInv, UpdateQuestProgressHandler(p, c, v, n)
    PROVE  ProgressIInv'
<1>0. Ready(p) /\ loc[p] \in Call
  BY AllReady DEF Ready
<1>1. loc'[p] = [loc[p] EXCEPT !.char = c, !.target = v, !.amount = n]
  BY DEF UpdateQuestProgressHandler, ProgressIInv, TypeOK
<1>2. Moves(p) /\ pc'[p] = "list"
  <2>1. loc' = [loc EXCEPT ![p] = loc'[p]]
    BY DEF UpdateQuestProgressHandler, ProgressIInv, TypeOK
  <2>2. pc'[p] = "list" /\ pc' = [pc EXCEPT ![p] = pc'[p]]
    BY DEF UpdateQuestProgressHandler, Goto, ProgressIInv, TypeOK
  <2> QED  BY <2>1, <2>2 DEF Moves, Control
<1>3. loc'[p] \in Call /\ loc'[p].char = c /\ loc'[p].quest = loc[p].quest /\ loc'[p].seen = loc[p].seen
  <2> DEFINE r == loc[p]
             w == loc'[p]
  <2>1. r \in Call /\ w = [r EXCEPT !.char = c, !.target = v, !.amount = n]
    BY <1>0, <1>1
  <2>2. n \in Nat
    BY AmountsAreNumbers
  <2> HIDE DEF r, w
  <2>3. w \in Call /\ w.char = c /\ w.quest = r.quest /\ w.seen = r.seen
    BY <2>1, <2>2 DEF Call
  <2> QED  BY <2>3 DEF r, w
<1>4. Held(pc[p], loc[p])'
  BY <1>0, <1>2, <1>3 DEF UpdateQuestProgressHandler, At, Ready, Held
<1>5. Listed(loc[p].seen)'
  BY <1>0, <1>3 DEF Ready, Listed, UpdateQuestProgressHandler, questVars, characterVars, statVars, obsVars
<1>6. Ready(p)'
  BY <1>3, <1>4, <1>5 DEF Ready
<1> QED  BY <1>2, <1>6, QuietStep DEF UpdateQuestProgressHandler, questVars, characterVars, statVars, obsVars

\* The quests are listed.
LEMMA FetchStep ==
    ASSUME NEW p \in Proc, ProgressIInv, FetchQuests(p)
    PROVE  ProgressIInv'
<1>0. Ready(p) /\ loc[p] \in Call
  BY AllReady DEF Ready
<1>a. loc[p].char \in Character
  BY <1>0 DEF FetchQuests, At, Ready, Held
<1>b. \A q \in Quest : loc'[p].seen[q] # NoQuest => loc'[p].seen[q] = log[loc[p].char][q]
  BY <1>0 DEF FetchQuests, ListCharacterQuests, ProgressIInv, TypeOK, Call
<1>c. loc'[p].seen \in [Quest -> QuestRows]
  BY <1>a, <1>0, QuestersAreCharacters
  DEF FetchQuests, ListCharacterQuests, ProgressIInv, TypeOK, QuestTypeOK, QuestRows, Call
<1>1. loc'[p] = [loc[p] EXCEPT !.seen = loc'[p].seen]
  BY DEF FetchQuests, Call, ProgressIInv, TypeOK
<1>2. Moves(p) /\ pc'[p] = "next"
  <2>1. loc' = [loc EXCEPT ![p] = loc'[p]]
    BY DEF FetchQuests, Call, ProgressIInv, TypeOK
  <2>2. pc'[p] = "next" /\ pc' = [pc EXCEPT ![p] = pc'[p]]
    BY DEF FetchQuests, Call, Goto, ProgressIInv, TypeOK
  <2> QED  BY <2>1, <2>2 DEF Moves, Control
<1>3. loc'[p] \in Call /\ loc'[p].char = loc[p].char /\ loc'[p].quest = loc[p].quest
  <2> DEFINE r == loc[p]
             w == loc'[p]
  <2>1. r \in Call /\ w = [r EXCEPT !.seen = loc'[p].seen]
    BY <1>0, <1>1
  <2>2. w.seen \in [Quest -> QuestRows]
    BY <1>c
  <2> HIDE DEF r, w
  <2>3. w \in Call /\ w.char = r.char /\ w.quest = r.quest
    BY <2>1, <2>2 DEF Call
  <2> QED  BY <2>3 DEF r, w
<1>4. Held(pc[p], loc[p])'
  BY <1>0, <1>2, <1>3 DEF FetchQuests, At, Ready, Held
<1>5. Listed(loc[p].seen)'
  BY <1>a, <1>b, QuestersAreCharacters DEF Ready, Listed, ProgressIInv, TypeOK, QuestTypeOK, LogCoherent, FetchQuests, questVars, lootVars, characterVars, statVars, obsVars
<1>6. Ready(p)'
  BY <1>0, <1>3, <1>4, <1>5 DEF Ready
<1> QED  BY <1>2, <1>6, QuietStep DEF FetchQuests, questVars, lootVars, characterVars, statVars, obsVars

\* The loop over the quests ends.
LEMMA NoMoreStep ==
    ASSUME NEW p \in Proc, ProgressIInv, NoMoreQuests(p)
    PROVE  ProgressIInv'
<1>1. Moves(p) /\ Ready(p)'
  BY LeaveMoves DEF NoMoreQuests, At
<1> QED  BY <1>1, QuietStep DEF NoMoreQuests, questVars, lootVars, characterVars, statVars, obsVars

\* The reward's items.
LEMMA ItemsStep ==
    ASSUME NEW p \in Proc, ProgressIInv, GrantItems(p)
    PROVE  ProgressIInv'
<1>0. Ready(p) /\ loc[p] \in Call
  BY AllReady DEF Ready
<1>1. loc'[p] = [loc[p] EXCEPT !.quest = NoQuest, !.ret = "idle"]
  BY DEF GrantItems, ProgressIInv, TypeOK
<1>2. Moves(p) /\ pc'[p] = "next"
  <2>1. loc' = [loc EXCEPT ![p] = loc'[p]]
    BY DEF GrantItems, ProgressIInv, TypeOK
  <2>2. pc'[p] = "next" /\ pc' = [pc EXCEPT ![p] = pc'[p]]
    BY DEF GrantItems, Goto, ProgressIInv, TypeOK
  <2> QED  BY <2>1, <2>2 DEF Moves, Control
<1>3. loc'[p] \in Call /\ loc'[p].char = loc[p].char /\ loc'[p].quest = NoQuest /\ loc'[p].seen = loc[p].seen
  <2> DEFINE r == loc[p]
             w == loc'[p]
  <2>1. r \in Call /\ w = [r EXCEPT !.quest = NoQuest, !.ret = "idle"]
    BY <1>0, <1>1
  <2> HIDE DEF r, w
  <2>3. w \in Call /\ w.char = r.char /\ w.quest = NoQuest /\ w.seen = r.seen
    BY <2>1 DEF Call
  <2> QED  BY <2>3 DEF r, w
<1>4. Held(pc[p], loc[p])'
  BY <1>0, <1>2, <1>3 DEF GrantItems, At, Ready, Held
<1>5. Listed(loc[p].seen)'
  BY <1>0, <1>3 DEF Ready, Listed, GrantItems, questVars, lootVars, characterVars, statVars, obsVars
<1>6. Ready(p)'
  BY <1>0, <1>3, <1>4, <1>5 DEF Ready
<1>7. /\ paid' \in [Character -> [Quest -> [reward : Nat, items : Nat]]]
      /\ worn' \in [Character -> Nat] /\ lost' \in [Character -> [Quest -> Nat]]
  <2> DEFINE c == loc[p].char
             q == loc[p].quest
             f == paid
             g == paid'
  <2>1. c \in Character /\ q \in Quest
    BY <1>0 DEF GrantItems, At, Ready, Held, Call
  <2>2. f \in [Character -> [Quest -> [reward : Nat, items : Nat]]]
    BY DEF ProgressIInv, TypeOK
  <2>3. g = [f EXCEPT ![c][q].items = @ + 1]
    BY DEF GrantItems
  <2>4. worn' \in [Character -> Nat] /\ lost' \in [Character -> [Quest -> Nat]]
    BY DEF GrantItems, ProgressIInv, TypeOK, characterVars, statVars
  <2> HIDE DEF c, q, f, g
  <2>5. g \in [Character -> [Quest -> [reward : Nat, items : Nat]]]
    BY <2>1, <2>2, <2>3
  <2> QED  BY <2>4, <2>5 DEF f, g
<1> QED  BY <1>2, <1>6, <1>7, LocalStep DEF GrantItems, questVars, lootVars, characterVars, statVars, obsVars

\* The row lock is taken.
LEMMA LockStep ==
    ASSUME NEW p \in Proc, ProgressIInv, LockRow(p)
    PROVE  ProgressIInv'
<1>0. Ready(p) /\ loc[p] \in Call
  BY AllReady DEF Ready
<1>2. Moves(p) /\ pc'[p] = "grant"
  BY DEF LockRow, Goto, Moves, Control, ProgressIInv, TypeOK
<1>3. loc'[p] = loc[p]
  BY DEF LockRow, characterVars
<1>4. Held(pc[p], loc[p])'
  BY <1>0, <1>2, <1>3 DEF LockRow, At, Ready, Held
<1>5. Listed(loc[p].seen)'
  BY <1>0, <1>3 DEF Ready, Listed, LockRow, questVars, lootVars, characterVars, statVars, obsVars
<1>6. Ready(p)'
  BY <1>0, <1>3, <1>4, <1>5 DEF Ready
<1> QED  BY <1>2, <1>6, QuietStep DEF LockRow, questVars, lootVars, characterVars, statVars, obsVars

\* The recalculation reads the base stats.
LEMMA BaseStep ==
    ASSUME NEW p \in Proc, ProgressIInv, RecalculateBase(p)
    PROVE  ProgressIInv'
<1>0. Ready(p) /\ loc[p] \in Call
  BY AllReady DEF Ready
<1>2. Moves(p) /\ pc'[p] = "gear"
  BY DEF RecalculateBase, Goto, Moves, Control, ProgressIInv, TypeOK
<1>3. loc'[p] = loc[p]
  BY DEF RecalculateBase, characterVars
<1>4. Held(pc[p], loc[p])'
  BY <1>0, <1>2, <1>3 DEF RecalculateBase, At, Ready, Held
<1>5. Listed(loc[p].seen)'
  BY <1>0, <1>3 DEF Ready, Listed, RecalculateBase, questVars, lootVars, characterVars, statVars, obsVars
<1>6. Ready(p)'
  BY <1>0, <1>3, <1>4, <1>5 DEF Ready
<1> QED  BY <1>2, <1>6, QuietStep DEF RecalculateBase, questVars, lootVars, characterVars, statVars, obsVars

\* The recalculation reads the equipment.
LEMMA GearStep ==
    ASSUME NEW p \in Proc, ProgressIInv, RecalculateGear(p)
    PROVE  ProgressIInv'
<1>0. Ready(p) /\ loc[p] \in Call
  BY AllReady DEF Ready
<1>1. loc'[p] = [loc[p] EXCEPT !.gear = worn[loc[p].char]]
  BY DEF RecalculateGear, GetEquippedModifiers, ProgressIInv, TypeOK
<1>2. Moves(p) /\ pc'[p] = "stats"
  <2>1. loc' = [loc EXCEPT ![p] = loc'[p]]
    BY DEF RecalculateGear, GetEquippedModifiers, ProgressIInv, TypeOK
  <2>2. pc'[p] = "stats" /\ pc' = [pc EXCEPT ![p] = pc'[p]]
    BY DEF RecalculateGear, GetEquippedModifiers, Goto, ProgressIInv, TypeOK
  <2> QED  BY <2>1, <2>2 DEF Moves, Control
<1>3. loc'[p] \in Call /\ loc'[p].char = loc[p].char /\ loc'[p].quest = loc[p].quest /\ loc'[p].seen = loc[p].seen /\ loc'[p].ret = loc[p].ret
  <2> DEFINE r == loc[p]
             w == loc'[p]
  <2>1. r \in Call /\ w = [r EXCEPT !.gear = worn[loc[p].char]]
    BY <1>0, <1>1
  <2>2. worn[loc[p].char] \in Nat
    BY <1>0 DEF RecalculateGear, At, Ready, Held, ProgressIInv, TypeOK
  <2> HIDE DEF r, w
  <2>3. w \in Call /\ w.char = r.char /\ w.quest = r.quest /\ w.seen = r.seen /\ w.ret = r.ret
    BY <2>1, <2>2 DEF Call
  <2> QED  BY <2>3 DEF r, w
<1>4. Held(pc[p], loc[p])'
  BY <1>0, <1>2, <1>3 DEF RecalculateGear, At, Ready, Held
<1>5. Listed(loc[p].seen)'
  BY <1>0, <1>3 DEF Ready, Listed, RecalculateGear, questVars, lootVars, characterVars, statVars, obsVars
<1>6. Ready(p)'
  BY <1>0, <1>3, <1>4, <1>5 DEF Ready
<1> QED  BY <1>2, <1>6, QuietStep DEF RecalculateGear, questVars, lootVars, characterVars, statVars, obsVars

\* The recalculation writes, and AddRewards or the event handler returns.
LEMMA StatsStep ==
    ASSUME NEW p \in Proc, ProgressIInv, RecalculateStats(p)
    PROVE  ProgressIInv'
<1>1. Moves(p) /\ Ready(p)'
  BY BackMoves DEF RecalculateStats, At, questVars
<1> QED  BY <1>1, QuietStep DEF RecalculateStats, UpdateStats, questVars, lootVars, obsVars

\* Equipment changes.
LEMMA EquipStep ==
    ASSUME NEW p \in Proc, NEW c \in Character, ProgressIInv, EquipmentChanged(p, c)
    PROVE  ProgressIInv'
<1>0. Ready(p) /\ loc[p] \in Call
  BY AllReady DEF Ready
<1>a. loc[p].ret = "idle"
  BY <1>0 DEF EquipmentChanged, At, Ready, Held
<1>1. loc'[p] = [loc[p] EXCEPT !.char = c]
  BY DEF EquipmentChanged, ProgressIInv, TypeOK
<1>2. Moves(p) /\ pc'[p] = "base"
  <2>1. loc' = [loc EXCEPT ![p] = loc'[p]]
    BY DEF EquipmentChanged, ProgressIInv, TypeOK
  <2>2. pc'[p] = "base" /\ pc' = [pc EXCEPT ![p] = pc'[p]]
    BY DEF EquipmentChanged, Goto, ProgressIInv, TypeOK
  <2> QED  BY <2>1, <2>2 DEF Moves, Control
<1>3. loc'[p] \in Call /\ loc'[p].char = c /\ loc'[p].quest = loc[p].quest /\ loc'[p].seen = loc[p].seen /\ loc'[p].ret = loc[p].ret
  <2> DEFINE r == loc[p]
             w == loc'[p]
  <2>1. r \in Call /\ w = [r EXCEPT !.char = c]
    BY <1>0, <1>1
  <2> HIDE DEF r, w
  <2>3. w \in Call /\ w.char = c /\ w.quest = r.quest /\ w.seen = r.seen /\ w.ret = r.ret
    BY <2>1 DEF Call
  <2> QED  BY <2>3 DEF r, w
<1>4. Held(pc[p], loc[p])'
  BY <1>0, <1>2, <1>3, <1>a DEF EquipmentChanged, At, Ready, Held
<1>5. Listed(loc[p].seen)'
  BY <1>0, <1>3 DEF Ready, Listed, EquipmentChanged, questVars, lootVars, characterVars, statVars, obsVars
<1>6. Ready(p)'
  BY <1>0, <1>3, <1>4, <1>5 DEF Ready
<1>7. /\ paid' \in [Character -> [Quest -> [reward : Nat, items : Nat]]]
      /\ worn' \in [Character -> Nat] /\ lost' \in [Character -> [Quest -> Nat]]
  BY DEF EquipmentChanged, ProgressIInv, TypeOK
<1> QED  BY <1>2, <1>6, <1>7, LocalStep DEF EquipmentChanged, questVars, lootVars, characterVars, statVars, obsVars

\* A payment for a quest is counted once.
LEMMA PaidCounts ==
    ASSUME NEW p \in Proc, ProgressIInv, pc[p] \in {"lock", "grant"}
    PROVE  /\ Paid(loc[p].char, loc[p].quest) \in [Character -> [Quest -> [reward : Nat, items : Nat]]]
           /\ LostReward(loc[p]) \in [Character -> [Quest -> Nat]]
<1>0. loc[p].char \in Character /\ loc[p].quest \in Quest \cup {NoQuest}
  BY DEF ProgressIInv, TypeOK, Held, Call
<1> DEFINE c == loc[p].char
           q == loc[p].quest
           f == paid
           g == Paid(c, q)
<1>1. f \in [Character -> [Quest -> [reward : Nat, items : Nat]]] /\ lost \in [Character -> [Quest -> Nat]]
  BY DEF ProgressIInv, TypeOK
<1>2. q # NoQuest => g = [f EXCEPT ![c][q].reward = @ + 1]
  BY DEF Paid
<1>3. q = NoQuest => g = f
  BY DEF Paid
<1>4. LostReward(loc[p]) \in [Character -> [Quest -> Nat]]
  BY <1>0, <1>1 DEF LostReward
<1>5. c \in Character /\ q \in Quest \cup {NoQuest}
  BY <1>0
<1> HIDE DEF c, q, f, g
<1>6. CASE q # NoQuest
  <2>1. q \in Quest /\ g = [f EXCEPT ![c][q].reward = @ + 1]
    BY <1>2, <1>5, <1>6
  <2>2. g \in [Character -> [Quest -> [reward : Nat, items : Nat]]]
    BY <1>1, <1>5, <2>1, SMTT(30)
  <2> QED  BY <1>4, <2>2 DEF c, q, g
<1>7. CASE q = NoQuest
  BY <1>1, <1>3, <1>4, <1>7 DEF c, q, g
<1> QED  BY <1>6, <1>7

\* The rewards are written; a level-up goes on to the recalculation.
LEMMA GrantStep ==
    ASSUME NEW p \in Proc, ProgressIInv, AddRewards(p)
    PROVE  ProgressIInv'
<1>0. Ready(p) /\ loc[p] \in Call /\ pc[p] = "grant"
  BY AllReady DEF Ready, AddRewards, At
<1>1. Moves(p) /\ Ready(p)'
  <2>1. CASE leveledUp(p, loc[p].exp)
    <3>1. Moves(p) /\ pc'[p] = "base" /\ loc'[p] = loc[p]
      BY <2>1 DEF AddRewards, Goto, Moves, Control, ProgressIInv, TypeOK
    <3>2. Held(pc[p], loc[p])'
      BY <1>0, <3>1 DEF Ready, Held
    <3>3. Listed(loc[p].seen)'
      BY <1>0, <3>1 DEF Ready, Listed, AddRewards, questVars
    <3> QED  BY <1>0, <3>1, <3>2, <3>3 DEF Ready
  <2>2. CASE ~leveledUp(p, loc[p].exp)
    <3>1. Back(p) /\ defs' = defs
      BY <2>2 DEF AddRewards, questVars
    <3> QED  BY <1>0, <3>1, BackMoves
  <2> QED  BY <2>1, <2>2
<1>2. /\ paid' \in [Character -> [Quest -> [reward : Nat, items : Nat]]]
      /\ worn' \in [Character -> Nat] /\ lost' \in [Character -> [Quest -> Nat]]
  <2>1. paid' = Paid(loc[p].char, loc[p].quest)
    BY DEF AddRewards
  <2>2. worn' \in [Character -> Nat] /\ lost' \in [Character -> [Quest -> Nat]]
    BY DEF AddRewards, ProgressIInv, TypeOK
  <2> QED  BY <1>0, <2>1, <2>2, PaidCounts
<1> QED  BY <1>1, <1>2, LocalStep DEF AddRewards

\* The search for a loot table.
LEMMA FindStep ==
    ASSUME NEW p \in Proc, ProgressIInv, FindTable(p)
    PROVE  ProgressIInv'
<1>0. Ready(p) /\ loc[p] \in Call /\ pc[p] = "loot"
  BY AllReady DEF Ready, FindTable, At
<1> DEFINE t == loc[p].table
<1>1. Moves(p) /\ Ready(p)'
  <2>1. CASE t = NoTable /\ Finish(p)
    BY <2>1, FinishMoves
  <2>2. CASE t # NoTable /\ CacheHit(t) /\ Goto(p, "roll") /\ loc' = [loc EXCEPT ![p].row = cache[t]]
    <3>1. t \in Table /\ cache[t] \in Entries
      BY <1>0, <2>2 DEF Call, Entries, ProgressIInv, TypeOK, LootTypeOK
    <3>2. /\ Moves(p) /\ pc'[p] = "roll" /\ loc'[p] = [loc[p] EXCEPT !.row = cache[t]]
      BY <2>2 DEF Goto, Moves, Control, ProgressIInv, TypeOK
    <3>3. /\ loc'[p] \in Call /\ loc'[p].char = loc[p].char /\ loc'[p].quest = loc[p].quest
          /\ loc'[p].seen = loc[p].seen
      <4> DEFINE r == loc[p]
                 w == loc'[p]
                 e == cache[t]
      <4>1. r \in Call /\ e \in Entries /\ w = [r EXCEPT !.row = e]
        BY <1>0, <3>1, <3>2
      <4> HIDE DEF r, w, e
      <4>2. w \in Call /\ w.char = r.char /\ w.quest = r.quest /\ w.seen = r.seen
        BY <4>1 DEF Call
      <4> QED  BY <4>2 DEF r, w
    <3>4. Held(pc[p], loc[p])'
      BY <1>0, <3>2, <3>3 DEF Ready, Held
    <3>5. Listed(loc[p].seen)'
      BY <1>0, <3>3 DEF Ready, Listed, FindTable, questVars
    <3> QED  BY <3>2, <3>3, <3>4, <3>5 DEF Ready
  <2>3. CASE t # NoTable /\ Goto(p, "table") /\ UNCHANGED loc
    <3>1. Moves(p) /\ pc'[p] = "table" /\ loc'[p] = loc[p]
      BY <2>3 DEF Goto, Moves, Control, ProgressIInv, TypeOK
    <3>2. Held(pc[p], loc[p])'
      BY <1>0, <2>3, <3>1 DEF Ready, Held
    <3>3. Listed(loc[p].seen)'
      BY <1>0, <3>1 DEF Ready, Listed, FindTable, questVars
    <3> QED  BY <1>0, <3>1, <3>2, <3>3 DEF Ready
  <2> QED  BY <2>1, <2>2, <2>3 DEF FindTable
<1> QED  BY <1>1, QuietStep DEF FindTable, questVars, lootVars, characterVars, statVars, obsVars

\* What the database has, or the embedded table.
LEMMA ReadTableStep ==
    ASSUME NEW p \in Proc, ProgressIInv, GetLootTable(p)
    PROVE  ProgressIInv'
<1>0. Ready(p) /\ loc[p] \in Call /\ pc[p] = "table" /\ loc[p].table \in Table
  BY AllReady DEF Ready, Held, Call, GetLootTable, At
<1>1. PICK e \in Entries : /\ loc' = [loc EXCEPT ![p].row = e]
                           /\ \/ e # NoTable /\ e = tables[loc[p].table] /\ Goto(p, "fill")
                              \/ Goto(p, "roll")
  <2>1. tables[loc[p].table] \in Entries /\ Fallback[loc[p].table] \in Entries
    BY <1>0 DEF Entries, ProgressIInv, TypeOK, LootTypeOK
  <2>2. entriesFor(loc[p].table, NoTable) = Fallback[loc[p].table]
    BY DEF entriesFor
  <2>3. \/ /\ tables[loc[p].table] # NoTable
           /\ loc' = [loc EXCEPT ![p].row = tables[loc[p].table]]
           /\ Goto(p, "fill")
        \/ /\ loc' = [loc EXCEPT ![p].row = Fallback[loc[p].table]]
           /\ Goto(p, "roll")
    BY <2>2 DEF GetLootTable
  <2> QED  BY <2>1, <2>3
<1>2. /\ Moves(p) /\ loc'[p] = [loc[p] EXCEPT !.row = e]
      /\ \/ pc'[p] = "fill" /\ e # NoTable /\ e = tables[loc[p].table]
         \/ pc'[p] = "roll"
  BY <1>1 DEF Goto, Moves, Control, ProgressIInv, TypeOK
<1>3. /\ loc'[p] \in Call /\ loc'[p].char = loc[p].char /\ loc'[p].quest = loc[p].quest
      /\ loc'[p].seen = loc[p].seen /\ loc'[p].table = loc[p].table /\ loc'[p].row = e
  <2> DEFINE r == loc[p]
             w == loc'[p]
  <2>1. r \in Call /\ w = [r EXCEPT !.row = e]
    BY <1>0, <1>2
  <2> HIDE DEF r, w
  <2>2. w \in Call /\ w.char = r.char /\ w.quest = r.quest /\ w.seen = r.seen /\ w.table = r.table /\ w.row = e
    BY <2>1 DEF Call
  <2> QED  BY <2>2 DEF r, w
<1>4. Held(pc[p], loc[p])'
  BY <1>0, <1>2, <1>3, NoTableIsNoTable DEF Ready, Held, GetLootTable, lootVars
<1>5. Listed(loc[p].seen)'
  BY <1>0, <1>3 DEF Ready, Listed, GetLootTable, questVars
<1>6. Ready(p)'
  BY <1>3, <1>4, <1>5 DEF Ready
<1> QED  BY <1>2, <1>6, QuietStep DEF GetLootTable, questVars, lootVars, characterVars, statVars, obsVars

\* The roll, and the gold it drops.
LEMMA RollStep ==
    ASSUME NEW p \in Proc, ProgressIInv, RollLoot(p)
    PROVE  ProgressIInv'
<1>0. Ready(p) /\ loc[p] \in Call /\ pc[p] = "roll"
  BY AllReady DEF Ready, RollLoot, At
<1>1. Moves(p) /\ Ready(p)'
  <2>1. CASE Finish(p)
    BY <2>1, FinishMoves
  <2>2. CASE /\ loc' = [loc EXCEPT ![p].gold = DropGold, ![p].row = NoTable, ![p].table = NoTable,
                                   ![p].ret = "idle"]
             /\ Goto(p, "lock")
    <3>1. loc'[p] = [loc[p] EXCEPT !.gold = DropGold, !.row = NoTable, !.table = NoTable, !.ret = "idle"]
      BY <2>2 DEF ProgressIInv, TypeOK
    <3>2. Moves(p) /\ pc'[p] = "lock"
      BY <2>2 DEF Goto, Moves, Control, ProgressIInv, TypeOK
    <3>3. /\ loc'[p] \in Call /\ loc'[p].char = loc[p].char /\ loc'[p].seen = loc[p].seen
          /\ loc'[p].ret = "idle"
      <4> DEFINE r == loc[p]
                 w == loc'[p]
      <4>1. r \in Call /\ w = [r EXCEPT !.gold = DropGold, !.row = NoTable, !.table = NoTable, !.ret = "idle"]
        BY <1>0, <3>1
      <4>2. DropGold \in Nat /\ NoTable \in Entries
        BY AmountsAreNumbers DEF Entries
      <4> HIDE DEF r, w
      <4>3. w \in Call /\ w.char = r.char /\ w.seen = r.seen /\ w.ret = "idle"
        BY <4>1, <4>2 DEF Call
      <4> QED  BY <4>3 DEF r, w
    <3>4. Held(pc[p], loc[p])'
      BY <1>0, <3>2, <3>3 DEF Ready, Held
    <3>5. Listed(loc[p].seen)'
      BY <1>0, <3>3 DEF Ready, Listed, RollLoot, questVars
    <3> QED  BY <3>2, <3>3, <3>4, <3>5 DEF Ready
  <2> QED  BY <2>1, <2>2 DEF RollLoot
<1> QED  BY <1>1, QuietStep DEF RollLoot, questVars, lootVars, characterVars, statVars, obsVars

\* A statement fails.
LEMMA ErrorStep ==
    ASSUME NEW p \in Proc, ProgressIInv, DbError(p)
    PROVE  ProgressIInv'
<1>0. defs' = defs /\ UNCHANGED <<questVars, lootVars>> /\ paid' = paid
  BY DEF DbError, questVars
<1>1. Moves(p) /\ Ready(p)'
  BY <1>0, LeaveMoves, FinishMoves, BackMoves DEF DbError, At
<1>2. worn' = worn
  BY DEF DbError, characterVars, statVars
<1>3. lost' \in [Character -> [Quest -> Nat]]
  <2>1. lost' = lost \/ (pc[p] \in {"lock", "grant"} /\ lost' = LostReward(loc[p]))
    BY DEF DbError, At
  <2>2. lost \in [Character -> [Quest -> Nat]]
    BY DEF ProgressIInv, TypeOK
  <2> QED  BY <2>1, <2>2, PaidCounts
<1>4. worn' \in [Character -> Nat] /\ paid' \in [Character -> [Quest -> [reward : Nat, items : Nat]]]
  BY <1>0, <1>2 DEF ProgressIInv, TypeOK
<1> QED  BY <1>0, <1>1, <1>3, <1>4, LocalStep

-----------------------------------------------------------------------------
\* Steps that change a table.

\* A row that could be a player's is written over another.
LEMMA WriteRow ==
    ASSUME NEW c \in Quester, NEW q \in Quest, NEW row \in QuestRow(q), QuestTypeOK, LogCoherent,
           q \in defs, Coherent(q, row), defs' = defs, log' = [log EXCEPT ![c][q] = row]
    PROVE  QuestTypeOK' /\ LogCoherent'
<1>1. row \in QuestRows /\ row # NoQuest
  BY NoQuestIsNoRow DEF QuestRows
<1>2. /\ log' \in [Quester -> [Quest -> QuestRows]] /\ log'[c][q] = row
      /\ \A d \in Quester, x \in Quest : d # c \/ x # q => log'[d][x] = log[d][x]
  BY <1>1 DEF QuestTypeOK
<1>3. QuestTypeOK'
  BY <1>2 DEF QuestTypeOK
<1>4. \A d \in Quester, x \in Quest : log'[d][x] # NoQuest => x \in defs' /\ Coherent(x, log'[d][x])
  BY <1>2 DEF LogCoherent
<1> QED  BY <1>3, <1>4 DEF LogCoherent

\* A table that nothing is written to.
LEMMA SameLoot ==
    ASSUME ProgressIInv, UNCHANGED lootVars
    PROVE  /\ LootTypeOK' /\ CacheCoherent'
           /\ \A t \in Table : tables[t] # NoTable => tables'[t] = tables[t]
  BY DEF ProgressIInv, TypeOK, LootTypeOK, CacheCoherent, CacheHit, lootVars

\* A log that nothing is written to.
LEMMA SameQuests ==
    ASSUME ProgressIInv, UNCHANGED questVars
    PROVE  QuestTypeOK' /\ LogCoherent' /\ defs \subseteq defs'
  BY DEF ProgressIInv, TypeOK, QuestTypeOK, LogCoherent, questVars

\* Observations that are left alone keep their types.
LEMMA SameObs ==
    ASSUME ProgressIInv, UNCHANGED <<worn, lost, paid>>
    PROVE  /\ worn' \in [Character -> Nat] /\ lost' \in [Character -> [Quest -> Nat]]
           /\ paid' \in [Character -> [Quest -> [reward : Nat, items : Nat]]]
  BY DEF ProgressIInv, TypeOK

\* A new row has no progress.
LEMMA NewRow ==
    ASSUME NEW q \in Quest
    PROVE  LET row == [status |-> "ACTIVE", step |-> 1, progress |-> NoProgress(q)] IN
           row \in QuestRow(q) /\ Coherent(q, row)
<1>1. Len(Steps[q]) \in Nat \ {0} /\ \A i \in 1 .. Len(Steps[q]) : Steps[q][i].count \in Nat \ {0}
  BY QuestsHaveSteps
<1>2. 1 \in 1 .. Len(Steps[q])
  BY <1>1
<1>3. NoProgress(q) \in [1 .. Len(Steps[q]) -> Nat] /\ \A i \in 1 .. Len(Steps[q]) : NoProgress(q)[i] = 0
  BY DEF NoProgress
<1> QED  BY <1>1, <1>2, <1>3 DEF QuestRow, Coherent

\* The accepted quest is inserted.
LEMMA SaveAcceptedStep ==
    ASSUME NEW p \in Proc, ProgressIInv, SaveAccepted(p)
    PROVE  ProgressIInv'
<1> DEFINE c == loc[p].char
           q == loc[p].quest
<1>1. c \in Quester /\ q \in Quest /\ q \in defs
  BY QuestersAreCharacters DEF SaveAccepted, At, ProgressIInv, Held, TypeOK, QuestTypeOK
<1>2. Moves(p) /\ Ready(p)'
  BY FinishMoves DEF SaveAccepted
<1>3. QuestTypeOK' /\ LogCoherent'
  <2> DEFINE row == [status |-> "ACTIVE", step |-> 1, progress |-> NoProgress(q)]
  <2>1. row \in QuestRow(q) /\ Coherent(q, row)
    BY <1>1, NewRow
  <2>2. QuestTypeOK /\ LogCoherent /\ defs' = defs
    BY DEF ProgressIInv, TypeOK, SaveAccepted
  <2>3. log' = log \/ log' = [log EXCEPT ![c][q] = row]
    BY DEF SaveAccepted, InsertQuest
  <2> HIDE DEF row, c, q
  <2>4. CASE log' = log
    BY <2>2, <2>4 DEF QuestTypeOK, LogCoherent
  <2>5. CASE log' = [log EXCEPT ![c][q] = row]
    BY <1>1, <2>1, <2>2, <2>5, WriteRow
  <2> QED  BY <2>3, <2>4, <2>5
<1> QED
  BY <1>2, <1>3, TableStep, SameLoot, SameObs DEF SaveAccepted, characterVars, statVars, obsVars

\* Advance leaves a row coherent as long as the quest is not complete.
LEMMA AdvanceCoherent ==
    ASSUME NEW q \in Quest, NEW row \in QuestRow(q), Coherent(q, row), NEW n \in Nat,
           ~Advance(q, row, n).completed
    PROVE  /\ Advance(q, row, n).step \in 1 .. Len(Steps[q])
           /\ Advance(q, row, n).progress \in [1 .. Len(Steps[q]) -> Nat]
           /\ \A new \in QuestRow(q) :
                 /\ new.step = Advance(q, row, n).step
                 /\ new.progress = Advance(q, row, n).progress
                 => Coherent(q, new)
<1> DEFINE len == Len(Steps[q])
           k == row.step
           count == Steps[q][k].count
           next == Smaller(row.progress[k] + n, count)
           done == next >= count
<1>1. len \in Nat \ {0} /\ \A i \in 1 .. len : Steps[q][i].count \in Nat \ {0}
  BY QuestsHaveSteps
<1>2. k \in 1 .. len /\ row.progress \in [1 .. len -> Nat] /\ row.progress[k] \in Nat
  BY DEF QuestRow
<1>3. count \in Nat \ {0} /\ next \in Nat /\ next <= count
  <2>1. count \in Nat \ {0}
    BY <1>1, <1>2
  <2>2. \A a, b \in Nat : Smaller(a, b) \in Nat /\ Smaller(a, b) <= b
    BY DEF Smaller
  <2>3. row.progress[k] + n \in Nat
    BY <1>2
  <2> QED  BY ONLY <2>1, <2>2, <2>3
<1>4. /\ Advance(q, row, n).step = IF done /\ k # len THEN k + 1 ELSE k
      /\ Advance(q, row, n).progress = [row.progress EXCEPT ![k] = next]
      /\ Advance(q, row, n).completed = (done /\ k = len)
  BY DEF Advance
<1>5. done => k # len
  BY <1>4
<1>6. Advance(q, row, n).step \in 1 .. len
  BY <1>1, <1>2, <1>4
<1>7. Advance(q, row, n).progress \in [1 .. len -> Nat]
  BY <1>2, <1>3, <1>4
<1>8. ASSUME NEW new \in QuestRow(q), new.step = Advance(q, row, n).step,
             new.progress = Advance(q, row, n).progress
      PROVE  Coherent(q, new)
  <2>1. /\ new.step = IF done THEN k + 1 ELSE k
        /\ new.progress[k] = next /\ \A i \in 1 .. len : i # k => new.progress[i] = row.progress[i]
    BY <1>2, <1>4, <1>5, <1>8
  <2>2. done => next = count
    BY <1>3
  <2>3. ~done => next < count
    BY <1>3
  <2>4. \A i \in 1 .. len : /\ i < k => row.progress[i] = Steps[q][i].count
                            /\ i > k => row.progress[i] = 0
    BY DEF Coherent
  <2> HIDE DEF next, done
  <2>5. ASSUME NEW i \in 1 .. len
        PROVE  /\ i < new.step => new.progress[i] = Steps[q][i].count
               /\ i = new.step => new.progress[i] < Steps[q][i].count
               /\ i > new.step => new.progress[i] = 0
    <3>1. CASE done
      <4>1. new.step = k + 1 /\ new.progress[k] = Steps[q][k].count /\ k \in Nat /\ i \in Nat
        BY <1>2, <2>1, <2>2, <3>1
      <4>2. i # k => new.progress[i] = row.progress[i]
        BY <2>1
      <4>3. Steps[q][i].count > 0
        BY <1>1
      <4> HIDE DEF k
      <4> QED  BY <2>4, <4>1, <4>2, <4>3
    <3>2. CASE ~done
      BY <1>1, <1>2, <1>3, <2>1, <2>3, <2>4, <3>2
    <3> QED  BY <3>1, <3>2
  <2> QED  BY <2>5 DEF Coherent
<1> QED  BY <1>6, <1>7, <1>8

\* What a goroutine knows that works on quest q.
LEMMA Working ==
    ASSUME NEW p \in Proc, NEW q \in Quest, ProgressIInv, At(p, "next"), q \in Todo(p)
    PROVE  /\ loc[p] \in Call /\ loc[p].char \in Quester /\ loc[p].amount \in Nat /\ q \in defs
           /\ loc[p].quest = NoQuest
           /\ loc[p].seen[q] \in QuestRow(q) /\ Coherent(q, loc[p].seen[q])
<1>1. Ready(p) /\ pc[p] = "next" /\ loc[p].seen[q] # NoQuest
  BY AllReady DEF At, Todo
<1>2. loc[p] \in Call /\ loc[p].char \in Quester /\ loc[p].quest = NoQuest
  BY <1>1, QuestersAreCharacters DEF Ready, Held
<1>3. q \in defs /\ loc[p].seen[q] \in QuestRow(q) /\ Coherent(q, loc[p].seen[q])
  BY <1>1 DEF Ready, Listed
<1> QED  BY <1>2, <1>3 DEF Call

\* A quest that is dealt with is taken off the list.
LEMMA OffTheList ==
    ASSUME NEW p \in Proc, NEW q \in Quest, ProgressIInv, loc'[p].seen = [loc[p].seen EXCEPT ![q] = NoQuest],
           defs' = defs
    PROVE  Listed(loc[p].seen)'
<1>1. Listed(loc[p].seen) /\ loc[p].seen \in [Quest -> QuestRows]
  BY DEF ProgressIInv, TypeOK, Call
<1> QED  BY <1>1 DEF Listed

\* UPDATE of an active row writes one row, with the status it had.
LEMMA UpdatedRow ==
    ASSUME NEW c \in Quester, NEW q \in Quest, QuestTypeOK, IsActive(log[c][q]),
           NEW s \in 1 .. Len(Steps[q]), NEW n \in [1 .. Len(Steps[q]) -> Nat], UpdateProgress(c, q, s, n)
    PROVE  \E row \in QuestRow(q) : /\ row.step = s /\ row.progress = n /\ row.status = "ACTIVE"
                                    /\ log' = [log EXCEPT ![c][q] = row]
<1> DEFINE old == log[c][q]
           row == [[old EXCEPT !.step = s] EXCEPT !.progress = n]
<1>1. row \in QuestRow(q) /\ row.step = s /\ row.progress = n /\ row.status = "ACTIVE"
  <2> DEFINE len == Len(Steps[q])
             w == row
  <2>1. /\ old \in [status : {"ACTIVE", "COMPLETED"}, step : 1 .. len, progress : [1 .. len -> Nat]]
        /\ s \in 1 .. len /\ n \in [1 .. len -> Nat] /\ old.status = "ACTIVE"
        /\ w = [[old EXCEPT !.step = s] EXCEPT !.progress = n]
    BY DEF QuestTypeOK, QuestRow, IsActive
  <2> HIDE DEF old, len, w
  <2>2. /\ w \in [status : {"ACTIVE", "COMPLETED"}, step : 1 .. len, progress : [1 .. len -> Nat]]
        /\ w.step = s /\ w.progress = n /\ w.status = "ACTIVE"
    BY <2>1
  <2> QED  BY <2>2 DEF len, w, QuestRow
<1>2. log' = [log EXCEPT ![c][q] = row]
  <2> DEFINE f == log
             g == log'
  <2>1. f \in [Quester -> [Quest -> QuestRows]] /\ g = [f EXCEPT ![c][q].step = s, ![c][q].progress = n]
    BY DEF QuestTypeOK, UpdateProgress
  <2>2. row = [[f[c][q] EXCEPT !.step = s] EXCEPT !.progress = n]
    OBVIOUS
  <2> HIDE DEF f, g, row
  <2>3. g = [f EXCEPT ![c][q] = row]
    BY <2>1, <2>2
  <2> QED  BY <2>3 DEF f, g
<1> HIDE DEF row
<1> QED  BY <1>1, <1>2

\* The completion changes the status and nothing else.
LEMMA CompletedRow ==
    ASSUME NEW c \in Quester, NEW q \in Quest, QuestTypeOK, IsActive(log[c][q]), CompleteQuest(c, q)
    PROVE  \E row \in QuestRow(q) : /\ row.step = log[c][q].step /\ row.progress = log[c][q].progress
                                    /\ row.status = "COMPLETED" /\ log' = [log EXCEPT ![c][q] = row]
<1> DEFINE old == log[c][q]
           row == [status |-> "COMPLETED", step |-> old.step, progress |-> old.progress]
<1>1. old \in QuestRow(q)
  BY DEF QuestTypeOK, IsActive
<1>2. /\ row \in QuestRow(q) /\ row.step = old.step /\ row.progress = old.progress
      /\ row.status = "COMPLETED"
  BY <1>1 DEF QuestRow
<1>3. log' = [log EXCEPT ![c][q].status = "COMPLETED"]
  BY DEF CompleteQuest
<1>4. [old EXCEPT !.status = "COMPLETED"] = row
  BY <1>1 DEF QuestRow
<1>5. log' = [log EXCEPT ![c][q] = row]
  BY <1>3, <1>4 DEF QuestTypeOK
<1> HIDE DEF row
<1> QED  BY <1>2, <1>5

\* Progress is saved, unless the quest was completed in between.
LEMMA SaveStep ==
    ASSUME NEW p \in Proc, NEW q \in Quest, ProgressIInv, SaveProgress(p, q)
    PROVE  ProgressIInv'
<1> DEFINE c == loc[p].char
           new == Advance(q, loc[p].seen[q], loc[p].amount)
<1>0. /\ At(p, "next") /\ q \in Todo(p) /\ ~new.completed
      /\ UpdateProgress(c, q, new.step, new.progress)
      /\ IF IsActive(log[c][q]) THEN loc' = [loc EXCEPT ![p].seen[q] = NoQuest] /\ UNCHANGED pc
                                ELSE LeaveQuests(p)
      /\ defs' = defs
  BY DEF SaveProgress
<1>1. /\ loc[p] \in Call /\ c \in Quester /\ loc[p].amount \in Nat /\ q \in defs
      /\ loc[p].quest = NoQuest
      /\ loc[p].seen[q] \in QuestRow(q) /\ Coherent(q, loc[p].seen[q])
  BY <1>0, Working
<1>2. /\ new.step \in 1 .. Len(Steps[q]) /\ new.progress \in [1 .. Len(Steps[q]) -> Nat]
      /\ \A row \in QuestRow(q) : row.step = new.step /\ row.progress = new.progress => Coherent(q, row)
  BY <1>0, <1>1, AdvanceCoherent
<1> HIDE DEF new
<1>3. QuestTypeOK /\ LogCoherent
  BY DEF ProgressIInv, TypeOK
<1>4. CASE IsActive(log[c][q])
  <2>1. QuestTypeOK' /\ LogCoherent'
    <3>1. PICK row \in QuestRow(q) : /\ row.step = new.step /\ row.progress = new.progress
                                     /\ log' = [log EXCEPT ![c][q] = row]
      <4>1. c \in Quester /\ new.step \in 1 .. Len(Steps[q]) /\ new.progress \in [1 .. Len(Steps[q]) -> Nat]
        BY <1>1, <1>2
      <4>2. UpdateProgress(c, q, new.step, new.progress)
        BY <1>0
      <4> HIDE DEF c
      <4> QED  BY <1>3, <1>4, <4>1, <4>2, UpdatedRow
    <3>2. Coherent(q, row)
      BY <1>2, <3>1
    <3> QED  BY <1>0, <1>1, <1>3, <3>1, <3>2, WriteRow
  <2>2. loc'[p] = [loc[p] EXCEPT !.seen[q] = NoQuest]
    BY <1>0, <1>4 DEF ProgressIInv, TypeOK
  <2>3. Moves(p) /\ pc'[p] = "next"
    BY <1>0, <1>4 DEF At, Moves, Control, ProgressIInv, TypeOK
  <2>4. /\ loc'[p] \in Call /\ loc'[p].char = loc[p].char /\ loc'[p].quest = loc[p].quest
        /\ loc'[p].seen = [loc[p].seen EXCEPT ![q] = NoQuest]
    <3> DEFINE r == loc[p]
               w == loc'[p]
    <3>1. r \in Call /\ w = [r EXCEPT !.seen[q] = NoQuest] /\ NoQuest \in QuestRows
      BY <1>1, <2>2 DEF QuestRows
    <3> HIDE DEF r, w
    <3>2. w \in Call /\ w.char = r.char /\ w.quest = r.quest /\ w.seen = [r.seen EXCEPT ![q] = NoQuest]
      BY <3>1 DEF Call
    <3> QED  BY <3>2 DEF r, w
  <2>5. Held(pc[p], loc[p])'
    BY <1>1, <2>3, <2>4, QuestersAreCharacters DEF Held
  <2>6. Listed(loc[p].seen)'
    BY <1>0, <2>4, OffTheList
  <2>7. Ready(p)'
    BY <2>4, <2>5, <2>6 DEF Ready
  <2> QED
    BY <1>0, <2>1, <2>3, <2>7, TableStep, SameLoot, SameObs DEF SaveProgress, characterVars, statVars, obsVars
<1>5. CASE ~IsActive(log[c][q])
  <2>1. Moves(p) /\ Ready(p)'
    BY <1>0, <1>5, LeaveMoves DEF At
  <2>2. log' = log
    BY <1>0, <1>5 DEF UpdateProgress
  <2> QED
    BY <1>0, <2>1, <2>2, QuietStep DEF SaveProgress, characterVars, statVars, obsVars, questVars
<1> QED  BY <1>4, <1>5

\* A quest is completed by the first who gets there.
LEMMA FinishQuestStep ==
    ASSUME NEW p \in Proc, NEW q \in Quest, ProgressIInv, FinishQuest(p, q)
    PROVE  ProgressIInv'
<1> DEFINE c == loc[p].char
<1>0. /\ At(p, "next") /\ q \in Todo(p) /\ CompleteQuest(c, q)
      /\ IF IsActive(log[c][q])
         THEN /\ Goto(p, "lock")
              /\ loc' = [loc EXCEPT ![p].seen[q] = NoQuest, ![p].quest = q, ![p].ret = "items",
                           ![p].gold = Rewards[q].gold, ![p].exp = Rewards[q].exp]
         ELSE LeaveQuests(p)
      /\ defs' = defs
  BY DEF FinishQuest
<1>1. loc[p] \in Call /\ c \in Quester /\ q \in defs
  BY <1>0, Working
<1>2. QuestTypeOK /\ LogCoherent
  BY DEF ProgressIInv, TypeOK
<1>3. CASE IsActive(log[c][q])
  <2>1. QuestTypeOK' /\ LogCoherent'
    <3>1. PICK row \in QuestRow(q) : /\ row.step = log[c][q].step /\ row.progress = log[c][q].progress
                                     /\ log' = [log EXCEPT ![c][q] = row]
      <4>1. c \in Quester /\ CompleteQuest(c, q)
        BY <1>0, <1>1
      <4> HIDE DEF c
      <4> QED  BY <1>2, <1>3, <4>1, CompletedRow
    <3>2. Coherent(q, log[c][q])
      BY <1>1, <1>2, <1>3 DEF LogCoherent, IsActive
    <3>3. Coherent(q, row)
      BY <3>1, <3>2 DEF Coherent
    <3> QED  BY <1>0, <1>1, <1>2, <3>1, <3>3, WriteRow
  <2>2. loc'[p] = [loc[p] EXCEPT !.seen[q] = NoQuest, !.quest = q, !.ret = "items",
                     !.gold = Rewards[q].gold, !.exp = Rewards[q].exp]
    BY <1>0, <1>3 DEF ProgressIInv, TypeOK
  <2>3. Moves(p) /\ pc'[p] = "lock"
    BY <1>0, <1>3 DEF Goto, Moves, Control, ProgressIInv, TypeOK
  <2>4. /\ loc'[p] \in Call /\ loc'[p].char = loc[p].char /\ loc'[p].quest = q
        /\ loc'[p].seen = [loc[p].seen EXCEPT ![q] = NoQuest]
    <3> DEFINE r == loc[p]
               w == loc'[p]
               g == Rewards[q].gold
               e == Rewards[q].exp
    <3>1. /\ r \in Call /\ NoQuest \in QuestRows /\ g \in Nat /\ e \in Nat
          /\ w = [r EXCEPT !.seen[q] = NoQuest, !.quest = q, !.ret = "items", !.gold = g, !.exp = e]
      BY <1>1, <2>2, RewardsAreNumbers DEF QuestRows
    <3> HIDE DEF r, w, g, e
    <3>2. w \in Call
      BY <3>1 DEF Call
    <3>3. w.char = r.char /\ w.quest = q
      BY <3>1 DEF Call
    <3>4. w.seen = [r.seen EXCEPT ![q] = NoQuest]
      BY <3>1 DEF Call
    <3> QED  BY <3>2, <3>3, <3>4 DEF r, w
  <2>5. Held(pc[p], loc[p])'
    BY <1>1, <2>3, <2>4, NoQuestIsNoRow, QuestersAreCharacters DEF Held
  <2>6. Listed(loc[p].seen)'
    BY <1>0, <2>4, OffTheList
  <2>7. Ready(p)'
    BY <2>4, <2>5, <2>6 DEF Ready
  <2> QED
    BY <1>0, <2>1, <2>3, <2>7, TableStep, SameLoot, SameObs DEF FinishQuest, characterVars, statVars, obsVars
<1>4. CASE ~IsActive(log[c][q])
  <2>1. Moves(p) /\ Ready(p)'
    BY <1>0, <1>4, LeaveMoves DEF At
  <2>2. log' = log
    BY <1>0, <1>4 DEF CompleteQuest
  <2> QED
    BY <1>0, <2>1, <2>2, QuietStep DEF FinishQuest, characterVars, statVars, obsVars, questVars
<1> QED  BY <1>3, <1>4

\* The cache is filled with what the database has.
LEMMA FillStep ==
    ASSUME NEW p \in Proc, ProgressIInv, FillCache(p)
    PROVE  ProgressIInv'
<1>0. Ready(p) /\ pc[p] = "fill"
  BY AllReady DEF FillCache, At
<1>1. loc[p].table \in Table /\ loc[p].row = tables[loc[p].table] /\ tables[loc[p].table] # NoTable
  BY <1>0 DEF Ready, Held, Call
<1>2. Moves(p) /\ pc'[p] = "roll" /\ loc'[p] = loc[p]
  BY DEF FillCache, Goto, Moves, Control, ProgressIInv, TypeOK
<1>3. Held(pc[p], loc[p])'
  BY <1>0, <1>2 DEF Ready, Held
<1>4. Listed(loc[p].seen)'
  BY <1>0, <1>2 DEF Ready, Listed, FillCache, questVars
<1>5. Ready(p)'
  BY <1>0, <1>2, <1>3, <1>4 DEF Ready
<1>6. tables' = tables /\ LootTypeOK' /\ CacheCoherent'
  <2>1. LootTypeOK /\ CacheCoherent
    BY DEF ProgressIInv, TypeOK
  <2>2. tables' = tables /\ (cache' = cache \/ cache' = [cache EXCEPT ![loc[p].table] = tables[loc[p].table]])
    BY <1>1 DEF FillCache, CacheSet, lootVars
  <2> QED  BY <1>1, <2>1, <2>2 DEF LootTypeOK, CacheCoherent, CacheHit
<1> QED
  BY <1>2, <1>5, <1>6, TableStep, SameQuests, SameObs DEF FillCache, characterVars, statVars, obsVars

\* A table is defined: nobody had cached it.
LEMMA CreateTableStep ==
    ASSUME NEW p \in Proc, NEW t \in Table, NEW content \in Content, ProgressIInv, CreateLootTable(p, t, content)
    PROVE  ProgressIInv'
<1>0. Ready(p) /\ loc[p] \in Call /\ pc[p] = "idle"
  BY AllReady DEF Ready, CreateLootTable, At
<1>1. Moves(p) /\ pc'[p] = "invalidate" /\ loc'[p] = [loc[p] EXCEPT !.table = t]
  BY DEF CreateLootTable, Goto, Moves, Control, ProgressIInv, TypeOK
<1>2. loc'[p] \in Call /\ loc'[p].quest = loc[p].quest /\ loc'[p].seen = loc[p].seen /\ loc'[p].table = t
  <2> DEFINE r == loc[p]
             w == loc'[p]
  <2>1. r \in Call /\ w = [r EXCEPT !.table = t]
    BY <1>0, <1>1
  <2> HIDE DEF r, w
  <2>2. w \in Call /\ w.quest = r.quest /\ w.seen = r.seen /\ w.table = t
    BY <2>1 DEF Call
  <2> QED  BY <2>2 DEF r, w
<1>3. Held(pc[p], loc[p])'
  BY <1>0, <1>1, <1>2, NoTableIsNoTable DEF Ready, Held
<1>4. Listed(loc[p].seen)'
  BY <1>0, <1>2 DEF Ready, Listed, CreateLootTable, questVars
<1>5. Ready(p)'
  BY <1>2, <1>3, <1>4 DEF Ready
<1>6. LootTypeOK' /\ CacheCoherent' /\ \A x \in Table : tables[x] # NoTable => tables'[x] = tables[x]
  BY DEF CreateLootTable, InsertTable, ProgressIInv, TypeOK, LootTypeOK, CacheCoherent, CacheHit
<1> QED
  BY <1>1, <1>5, <1>6, TableStep, SameQuests, SameObs DEF CreateLootTable, characterVars, statVars, obsVars

\* The invalidation.
LEMMA InvalidateStep ==
    ASSUME NEW p \in Proc, ProgressIInv, Invalidate(p)
    PROVE  ProgressIInv'
<1>1. Moves(p) /\ Ready(p)'
  BY FinishMoves DEF Invalidate
<1>2. LootTypeOK' /\ CacheCoherent' /\ tables' = tables
  BY DEF Invalidate, CacheDelete, lootVars, ProgressIInv, TypeOK, LootTypeOK, CacheCoherent, CacheHit
<1> QED
  BY <1>1, <1>2, TableStep, SameQuests, SameObs DEF Invalidate, characterVars, statVars, obsVars

\* Steps of nobody: a cached table expires, a quest is defined.
LEMMA OutsideStep ==
    ASSUME ProgressIInv, (\E t \in Table : Expire(t)) \/ (\E q \in Quest : AdminCreate(q))
    PROVE  ProgressIInv'
<1>1. UNCHANGED <<pc, loc, tables, log, worn, paid, lost>> /\ defs \subseteq defs' /\ defs' \subseteq Quest
  BY DEF Expire, CacheExpire, AdminCreate, CreateDefinition, questVars, lootVars, characterVars, statVars,
         obsVars, ProgressIInv, TypeOK, QuestTypeOK
<1>2. LootTypeOK' /\ CacheCoherent'
  BY DEF Expire, CacheExpire, AdminCreate, lootVars, ProgressIInv, TypeOK, LootTypeOK, CacheCoherent, CacheHit
<1>3. QuestTypeOK' /\ LogCoherent'
  BY <1>1 DEF ProgressIInv, TypeOK, QuestTypeOK, LogCoherent
<1>4. TypeOK'
  BY <1>1, <1>2, <1>3 DEF ProgressIInv, TypeOK
<1>5. (\A p \in Proc : Held(pc[p], loc[p]) /\ Listed(loc[p].seen))'
  <2> SUFFICES ASSUME NEW p \in Proc PROVE (Held(pc[p], loc[p]) /\ Listed(loc[p].seen))'
    OBVIOUS
  <2>1. Held(pc[p], loc[p]) /\ Listed(loc[p].seen)
    BY DEF ProgressIInv
  <2>2. Held(pc[p], loc[p])'
    BY <1>1, <2>1 DEF Held
  <2>3. Listed(loc[p].seen)'
    BY <1>1, <2>1 DEF Listed
  <2> QED  BY <2>2, <2>3
<1> QED  BY <1>2, <1>3, <1>4, <1>5 DEF ProgressIInv

\* The payments under way for a quest can be counted.
LEMMA PayingCountable ==
    ASSUME NEW c, NEW q
    PROVE  IsFiniteSet(Paying(c, q)) /\ Cardinality(Paying(c, q)) \in Nat
<1>1. Paying(c, q) \subseteq Proc
  BY DEF Paying
<1> QED  BY <1>1, CallsAreFinite, FS_Subset, FS_CardinalityType

\* A crash loses the payments under way.
LEMMA CrashLost ==
    ASSUME Crash
    PROVE  lost' = [c \in Character |-> [q \in Quest |-> lost[c][q] + Cardinality(Paying(c, q))]]
  BY DEF Crash, Paying

\* A crash leaves no goroutine.
LEMMA CrashStep ==
    ASSUME ProgressIInv, Crash
    PROVE  ProgressIInv'
<1>1. UNCHANGED <<questVars, lootVars, worn, paid>>
  BY DEF Crash
<1>2. lost' \in [Character -> [Quest -> Nat]]
  <2>1. \A c \in Character, q \in Quest : lost[c][q] + Cardinality(Paying(c, q)) \in Nat
    BY PayingCountable DEF ProgressIInv, TypeOK
  <2> QED  BY <2>1, CrashLost
<1>3. TypeOK'
  <2>1. pc' \in [Proc -> Control] /\ loc' \in [Proc -> Call]
    BY NoCallHeld DEF Crash, Control
  <2>2. QuestTypeOK' /\ LootTypeOK'
    BY <1>1, SameQuests, SameLoot
  <2> QED  BY <1>1, <1>2, <2>1, <2>2 DEF ProgressIInv, TypeOK
<1>4. (\A p \in Proc : Held(pc[p], loc[p]) /\ Listed(loc[p].seen))'
  <2> SUFFICES ASSUME NEW p \in Proc PROVE (Held(pc[p], loc[p]) /\ Listed(loc[p].seen))'
    OBVIOUS
  <2>1. pc'[p] = "idle" /\ loc'[p] = NoCall
    BY DEF Crash
  <2>2. Held(pc[p], loc[p])'
    BY <2>1 DEF Held, NoCall
  <2>3. Listed(loc[p].seen)'
    BY <2>1 DEF Listed, NoCall, NoQuestRows
  <2> QED  BY <2>2, <2>3
<1> QED  BY <1>1, <1>3, <1>4, SameQuests, SameLoot DEF ProgressIInv

\* Nothing happens.
LEMMA StutterStep ==
    ASSUME ProgressIInv, UNCHANGED vars
    PROVE  ProgressIInv'
<1>1. TypeOK'
  BY DEF vars, questVars, lootVars, characterVars, statVars, obsVars, ProgressIInv, TypeOK, QuestTypeOK, LootTypeOK
<1>2. (\A p \in Proc : Held(pc[p], loc[p]) /\ Listed(loc[p].seen))'
  BY DEF vars, questVars, lootVars, ProgressIInv, Held, Listed
<1> QED  BY <1>1, <1>2, SameQuests, SameLoot DEF ProgressIInv, vars

\* The invariant holds after every step.
LEMMA NextProgress == ProgressIInv /\ [Next]_vars => ProgressIInv'
<1> SUFFICES ASSUME ProgressIInv, [Next]_vars PROVE ProgressIInv'
  OBVIOUS
<1>1. ASSUME NEW p \in Proc, Step(p) PROVE ProgressIInv'
  BY <1>1, SaveAcceptedStep, FetchStep, NoMoreStep, ItemsStep, SaveStep, FinishQuestStep, LockStep, GrantStep,
     BaseStep, GearStep, StatsStep, FindStep, ReadTableStep, FillStep, RollStep, InvalidateStep
  DEF Step
<1> QED
  BY <1>1, AcceptStep, KillStep, ProgressStep, EquipStep, CreateTableStep, ErrorStep, OutsideStep, CrashStep,
     StutterStep
  DEF Next

\* Every reachable state satisfies the inductive invariant of quests and loot:
\* what goroutines have read may be stale, but it is never something that must
\* not be written (service.go:152-189, cache.go:34-58).
THEOREM ProgressInvariant == Spec => []ProgressIInv
<1>1. Init => ProgressIInv
  BY InitProgress
<1>2. ProgressIInv /\ [Next]_vars => ProgressIInv'
  BY NextProgress
<1> QED  BY <1>1, <1>2, PTL DEF Spec

\* Stale writes lose progress but never tear a quest's row, for any quest and any
\* number of kills at once.
THEOREM LogsCoherent == Spec => []LogCoherent
<1>1. ProgressIInv => LogCoherent
  BY DEF ProgressIInv
<1> QED  BY <1>1, ProgressInvariant, PTL

\* A cached loot table is the stored one, for any number of readers and writers
\* (cache.go:44-58).
THEOREM CachesCoherent == Spec => []CacheCoherent
<1>1. ProgressIInv => CacheCoherent
  BY DEF ProgressIInv
<1> QED  BY <1>1, ProgressInvariant, PTL

-----------------------------------------------------------------------------
\* The status of a quest.

Completed(c, q) == log[c][q] # NoQuest /\ log[c][q].status = "COMPLETED"

\* What a step may do to the log: nothing, or write one row that is no completed
\* one yet, and complete it only from FinishQuest.
LEMMA LogChange ==
    ASSUME ProgressIInv, Next
    PROVE  \/ log' = log
           \/ \E c \in Quester, q \in Quest : \E row \in QuestRow(q) :
                 /\ log' = [log EXCEPT ![c][q] = row] /\ row.status = "ACTIVE"
                 /\ ~Completed(c, q)
           \/ \E p \in Proc, q \in Quest : \E row \in QuestRow(q) :
                 /\ FinishQuest(p, q) /\ row.status = "COMPLETED" /\ ~Completed(loc[p].char, q)
                 /\ log' = [log EXCEPT ![loc[p].char][q] = row]
<1>0. QuestTypeOK
  BY DEF ProgressIInv, TypeOK
<1>1. ASSUME NEW p \in Proc, SaveAccepted(p), log' # log
      PROVE  \E c \in Quester, q \in Quest : \E row \in QuestRow(q) :
                 /\ log' = [log EXCEPT ![c][q] = row] /\ row.status = "ACTIVE" /\ ~Completed(c, q)
  <2> DEFINE c == loc[p].char
             q == loc[p].quest
             row == [status |-> "ACTIVE", step |-> 1, progress |-> NoProgress(q)]
  <2>1. c \in Quester /\ q \in Quest
    BY <1>1, QuestersAreCharacters DEF SaveAccepted, At, ProgressIInv, Held, TypeOK, QuestTypeOK
  <2>2. row \in QuestRow(q) /\ row.status = "ACTIVE"
    BY <2>1, NewRow
  <2>3. log' = [log EXCEPT ![c][q] = row] /\ log[c][q] = NoQuest
    BY <1>1 DEF SaveAccepted, InsertQuest
  <2>4. ~Completed(c, q)
    BY <2>3 DEF Completed
  <2> HIDE DEF c, q, row
  <2> QED  BY <2>1, <2>2, <2>3, <2>4
<1>2. ASSUME NEW p \in Proc, NEW q \in Quest, SaveProgress(p, q), log' # log
      PROVE  \E c \in Quester, x \in Quest : \E row \in QuestRow(x) :
                 /\ log' = [log EXCEPT ![c][x] = row] /\ row.status = "ACTIVE" /\ ~Completed(c, x)
  <2> DEFINE c == loc[p].char
             new == Advance(q, loc[p].seen[q], loc[p].amount)
  <2>1. At(p, "next") /\ q \in Todo(p) /\ ~new.completed /\ UpdateProgress(c, q, new.step, new.progress)
    BY <1>2 DEF SaveProgress
  <2>2. /\ c \in Quester /\ loc[p].amount \in Nat
        /\ loc[p].seen[q] \in QuestRow(q) /\ Coherent(q, loc[p].seen[q])
    BY <2>1, Working
  <2>3. new.step \in 1 .. Len(Steps[q]) /\ new.progress \in [1 .. Len(Steps[q]) -> Nat]
    BY <2>1, <2>2, AdvanceCoherent
  <2>4. IsActive(log[c][q])
    BY <1>2, <2>1 DEF UpdateProgress
  <2>5. ~Completed(c, q)
    BY <2>4 DEF IsActive, Completed
  <2>6. UpdateProgress(c, q, new.step, new.progress)
    BY <2>1
  <2>7. c \in Quester
    BY <2>2
  <2> HIDE DEF c, new
  <2>8. PICK row \in QuestRow(q) : row.status = "ACTIVE" /\ log' = [log EXCEPT ![c][q] = row]
    BY <1>0, <2>3, <2>4, <2>6, <2>7, UpdatedRow
  <2> QED  BY <2>5, <2>7, <2>8
<1>3. ASSUME NEW p \in Proc, NEW q \in Quest, FinishQuest(p, q), log' # log
      PROVE  \E row \in QuestRow(q) :
                 /\ row.status = "COMPLETED" /\ ~Completed(loc[p].char, q)
                 /\ log' = [log EXCEPT ![loc[p].char][q] = row]
  <2> DEFINE c == loc[p].char
  <2>1. At(p, "next") /\ q \in Todo(p) /\ CompleteQuest(c, q)
    BY <1>3 DEF FinishQuest
  <2>2. c \in Quester
    BY <2>1, Working
  <2>3. IsActive(log[c][q]) /\ CompleteQuest(c, q)
    BY <1>3, <2>1 DEF CompleteQuest
  <2>4. ~Completed(c, q)
    BY <2>3 DEF IsActive, Completed
  <2> HIDE DEF c
  <2>5. PICK row \in QuestRow(q) : row.status = "COMPLETED" /\ log' = [log EXCEPT ![c][q] = row]
    BY <1>0, <2>2, <2>3, CompletedRow
  <2> QED  BY <2>4, <2>5 DEF c
<1>4. ASSUME NEW p \in Proc, Step(p), log' # log,
             ~SaveAccepted(p), \A q \in Quest : ~SaveProgress(p, q) /\ ~FinishQuest(p, q)
      PROVE  FALSE
  BY <1>4 DEF Step, FetchQuests, NoMoreQuests, GrantItems, LockRow, AddRewards, RecalculateBase, RecalculateGear,
     RecalculateStats, FindTable, GetLootTable, FillCache, RollLoot, Invalidate, questVars
<1>5. ASSUME log' # log PROVE \E p \in Proc : Step(p)
  <2>1. ASSUME NEW q \in Quest, AdminCreate(q) PROVE log' = log
    BY <2>1 DEF AdminCreate, CreateDefinition
  <2>2. ASSUME NEW t \in Table, Expire(t) PROVE log' = log
    BY <2>2 DEF Expire, questVars
  <2>3. Crash => log' = log
    BY DEF Crash, questVars
  <2>4. ASSUME NEW p \in Proc, NEW c \in Character
        PROVE  /\ \A u \in User, q \in Quest : AcceptQuestHandler(p, u, c, q) => log' = log
               /\ \A v \in Victim : RewardKill(p, c, v) => log' = log
               /\ \A v \in Victim, n \in Amounts : UpdateQuestProgressHandler(p, c, v, n) => log' = log
               /\ EquipmentChanged(p, c) => log' = log
    BY DEF AcceptQuestHandler, RewardKill, UpdateQuestProgressHandler, EquipmentChanged, questVars
  <2>5. ASSUME NEW p \in Proc
        PROVE  /\ \A t \in Table, content \in Content : CreateLootTable(p, t, content) => log' = log
               /\ DbError(p) => log' = log
    BY DEF CreateLootTable, DbError, questVars
  <2> QED  BY <1>5, <2>1, <2>2, <2>3, <2>4, <2>5 DEF Next
<1>6. CASE log' = log
  BY <1>6
<1>7. CASE log' # log
  <2>1. PICK p \in Proc : Step(p)
    BY <1>5, <1>7
  <2>2. SaveAccepted(p) \/ \E q \in Quest : SaveProgress(p, q) \/ FinishQuest(p, q)
    BY <1>4, <1>7, <2>1
  <2>3. CASE SaveAccepted(p)
    BY <1>1, <1>7, <2>3
  <2>4. ASSUME NEW q \in Quest, SaveProgress(p, q)
        PROVE  \E c \in Quester, x \in Quest : \E row \in QuestRow(x) :
                 /\ log' = [log EXCEPT ![c][x] = row] /\ row.status = "ACTIVE" /\ ~Completed(c, x)
    BY <1>2, <1>7, <2>4
  <2>5. ASSUME NEW q \in Quest, FinishQuest(p, q)
        PROVE  \E r \in Proc, x \in Quest : \E row \in QuestRow(x) :
                 /\ FinishQuest(r, x) /\ row.status = "COMPLETED" /\ ~Completed(loc[r].char, x)
                 /\ log' = [log EXCEPT ![loc[r].char][x] = row]
    <3>1. PICK row \in QuestRow(q) : /\ row.status = "COMPLETED" /\ ~Completed(loc[p].char, q)
                                     /\ log' = [log EXCEPT ![loc[p].char][q] = row]
      BY <1>3, <1>7, <2>5
    <3> QED  BY <2>5, <3>1
  <2> QED  BY <2>2, <2>3, <2>4, <2>5
<1> QED  BY <1>6, <1>7

\* A completed quest is final: no step changes its row, for any quests and any
\* number of kills and accepts at once (repository.go:115-253).
THEOREM CompletedStays == Spec => CompletedIsFinal
<1> DEFINE Final == \A c \in Quester, q \in Quest :
                       log[c][q] # NoQuest =>
                          /\ log'[c][q] # NoQuest
                          /\ log[c][q].status = "COMPLETED" => log'[c][q] = log[c][q]
<1>1. ASSUME ProgressIInv, Next PROVE Final
  <2>0. QuestTypeOK
    BY <1>1 DEF ProgressIInv, TypeOK
  <2>1. CASE log' = log
    BY <2>1
  <2>2. CASE \E c \in Quester, q \in Quest : \E row \in QuestRow(q) :
                log' = [log EXCEPT ![c][q] = row] /\ ~Completed(c, q)
    BY <2>0, <2>2, NoQuestIsNoRow DEF QuestTypeOK, Completed
  <2>3. ASSUME NEW p \in Proc, NEW q \in Quest, FinishQuest(p, q) PROVE loc[p].char \in Quester
    BY <1>1, <2>3, Working DEF FinishQuest
  <2> QED  BY <1>1, <2>1, <2>2, <2>3, LogChange
<1>2. ProgressIInv /\ [Next]_vars => [Final]_questVars
  BY <1>1 DEF vars, questVars
<1> QED  BY <1>2, ProgressInvariant, PTL DEF Spec, CompletedIsFinal

-----------------------------------------------------------------------------
\* Rewards.

\* Goroutine p is not about to pay for a quest.
NotPaying(p) == pc[p] \in {"lock", "grant"} => loc[p].quest = NoQuest

\* A goroutine that pays for no quest, before and after its step.
LEMMA SamePaying ==
    ASSUME NEW p \in Proc, Alone(p), NotPaying(p), NotPaying(p)'
    PROVE  \A c \in Character, q \in Quest : Paying(c, q)' = Paying(c, q)
  BY NoQuestIsNoRow DEF Alone, NotPaying, Paying

\* A step that neither pays, nor loses, nor completes.
LEMMA QuietRewards ==
    ASSUME QuestRewardsAccounted,
           \A c \in Character, q \in Quest :
              /\ Paying(c, q)' = Paying(c, q)
              /\ paid'[c][q].reward = paid[c][q].reward /\ lost'[c][q] = lost[c][q]
              /\ Completed(c, q)' <=> Completed(c, q)
    PROVE  QuestRewardsAccounted'
  BY DEF QuestRewardsAccounted, Completed

\* A payment under way becomes one made or one lost.
LEMMA PaymentEnds ==
    ASSUME NEW p \in Proc, ProgressIInv, QuestRewardsAccounted, Alone(p),
           pc[p] \in {"lock", "grant"}, pc'[p] \notin {"lock", "grant"}, log' = log,
           \A c \in Character, q \in Quest :
              /\ paid'[c][q].reward \in Nat /\ lost'[c][q] \in Nat
              /\ paid'[c][q].reward + lost'[c][q] = paid[c][q].reward + lost[c][q]
                   + (IF c = loc[p].char /\ q = loc[p].quest THEN 1 ELSE 0)
    PROVE  QuestRewardsAccounted'
<1> SUFFICES ASSUME NEW c \in Character, NEW q \in Quest
             PROVE  paid'[c][q].reward + lost'[c][q] + Cardinality(Paying(c, q)') =
                      IF log[c][q] # NoQuest /\ log[c][q].status = "COMPLETED" THEN 1 ELSE 0
  BY DEF QuestRewardsAccounted
<1>1. Paying(c, q)' = Paying(c, q) \ {p}
  BY DEF Paying, Alone
<1>2. p \in Paying(c, q) <=> c = loc[p].char /\ q = loc[p].quest
  BY DEF Paying
<1>3. IsFiniteSet(Paying(c, q)) /\ Cardinality(Paying(c, q)) \in Nat
  BY PayingCountable
<1>4. paid[c][q].reward \in Nat /\ lost[c][q] \in Nat
  BY DEF ProgressIInv, TypeOK
<1>5. paid[c][q].reward + lost[c][q] + Cardinality(Paying(c, q)) =
         IF log[c][q] # NoQuest /\ log[c][q].status = "COMPLETED" THEN 1 ELSE 0
  BY DEF QuestRewardsAccounted
<1>6. CASE p \in Paying(c, q)
  <2>1. Cardinality(Paying(c, q)') = Cardinality(Paying(c, q)) - 1
    BY ONLY <1>1, <1>3, <1>6, FS_RemoveElement
  <2>2. paid'[c][q].reward + lost'[c][q] = paid[c][q].reward + lost[c][q] + 1
    BY <1>2, <1>6
  <2>3. paid'[c][q].reward \in Nat /\ lost'[c][q] \in Nat
    OBVIOUS
  <2> QED  BY <1>3, <1>4, <1>5, <2>1, <2>2, <2>3
<1>7. CASE p \notin Paying(c, q)
  <2>1. Paying(c, q)' = Paying(c, q)
    BY <1>1, <1>7
  <2>2. paid'[c][q].reward + lost'[c][q] = paid[c][q].reward + lost[c][q]
    BY <1>2, <1>4, <1>7
  <2> QED  BY <1>3, <1>4, <1>5, <2>1, <2>2
<1> QED  BY <1>6, <1>7

\* The rewards are granted.
LEMMA GrantRewards ==
    ASSUME NEW p \in Proc, ProgressIInv, QuestRewardsAccounted, AddRewards(p)
    PROVE  QuestRewardsAccounted'
<1>0. Ready(p) /\ pc[p] = "grant" /\ loc[p] \in Call /\ log' = log /\ lost' = lost
  BY AllReady DEF Ready, AddRewards, At, questVars
<1>1. Alone(p) /\ pc'[p] \notin {"lock", "grant"}
  <2>1. CASE leveledUp(p, loc[p].exp)
    BY <2>1 DEF AddRewards, Goto, Alone, ProgressIInv, TypeOK
  <2>2. CASE ~leveledUp(p, loc[p].exp)
    <3>1. Back(p) /\ defs' = defs
      BY <2>2 DEF AddRewards, questVars
    <3>2. Moves(p) /\ Ready(p)' /\ pc'[p] \in {"idle", "items"}
      BY <1>0, <3>1, BackMoves
    <3> QED  BY <3>2, MovesAlone DEF Ready
  <2> QED  BY <2>1, <2>2
<1>2. ASSUME NEW c \in Character, NEW q \in Quest
      PROVE  /\ paid'[c][q].reward \in Nat
             /\ paid'[c][q].reward = paid[c][q].reward
                  + (IF c = loc[p].char /\ q = loc[p].quest THEN 1 ELSE 0)
  <2> DEFINE d == loc[p].char
             x == loc[p].quest
             f == paid
             g == paid'
  <2>1. f \in [Character -> [Quest -> [reward : Nat, items : Nat]]]
    BY DEF ProgressIInv, TypeOK
  <2>2. g = IF x = NoQuest THEN f ELSE [f EXCEPT ![d][x].reward = @ + 1]
    BY DEF AddRewards, Paid
  <2>3. d \in Character /\ x \in Quest \cup {NoQuest}
    BY <1>0 DEF Ready, Held, Call
  <2> HIDE DEF d, x, f, g
  <2>4. g[c][q].reward \in Nat /\ g[c][q].reward = f[c][q].reward + (IF c = d /\ q = x THEN 1 ELSE 0)
    <3>1. CASE x = NoQuest
      BY <2>1, <2>2, <3>1, NoQuestIsNoRow
    <3>2. CASE x # NoQuest
      BY <2>1, <2>2, <2>3, <3>2
    <3> QED  BY <3>1, <3>2
  <2> QED  BY <2>4 DEF d, x, f, g
<1>3. \A c \in Character, q \in Quest : paid[c][q].reward \in Nat /\ lost[c][q] \in Nat
  BY DEF ProgressIInv, TypeOK
<1>4. \A c \in Character, q \in Quest :
        /\ paid'[c][q].reward \in Nat /\ lost'[c][q] \in Nat
        /\ paid'[c][q].reward + lost'[c][q] = paid[c][q].reward + lost[c][q]
             + (IF c = loc[p].char /\ q = loc[p].quest THEN 1 ELSE 0)
  BY <1>0, <1>2, <1>3
<1> QED  BY <1>0, <1>1, <1>4, PaymentEnds

\* A statement fails; a payment under way is lost.
LEMMA ErrorRewards ==
    ASSUME NEW p \in Proc, ProgressIInv, QuestRewardsAccounted, DbError(p)
    PROVE  QuestRewardsAccounted'
<1>0. Ready(p) /\ loc[p] \in Call /\ log' = log /\ defs' = defs /\ paid' = paid
  BY AllReady DEF Ready, DbError, questVars
<1>1. Moves(p) /\ Ready(p)' /\ pc'[p] \notin {"lock", "grant"}
  BY <1>0, LeaveMoves, FinishMoves, BackMoves DEF DbError, At
<1>2. Alone(p)
  BY <1>1, MovesAlone DEF Ready
<1>3. \A c \in Character, q \in Quest : paid[c][q].reward \in Nat /\ lost[c][q] \in Nat
  BY DEF ProgressIInv, TypeOK
<1>4. CASE pc[p] \in {"lock", "grant"}
  <2>1. lost' = LostReward(loc[p])
    BY <1>4 DEF DbError, At
  <2>2. loc[p].char \in Character /\ loc[p].quest \in Quest \cup {NoQuest}
    BY <1>0, <1>4 DEF Ready, Held, Call
  <2>3. \A c \in Character, q \in Quest :
          /\ lost'[c][q] \in Nat
          /\ lost'[c][q] = lost[c][q] + (IF c = loc[p].char /\ q = loc[p].quest THEN 1 ELSE 0)
    <3>1. CASE loc[p].quest = NoQuest
      BY <1>3, <2>1, <3>1, NoQuestIsNoRow DEF LostReward
    <3>2. CASE loc[p].quest # NoQuest
      BY <1>3, <2>1, <2>2, <3>2 DEF LostReward, ProgressIInv, TypeOK
    <3> QED  BY <3>1, <3>2
  <2>4. \A c \in Character, q \in Quest :
          /\ paid'[c][q].reward \in Nat /\ lost'[c][q] \in Nat
          /\ paid'[c][q].reward + lost'[c][q] = paid[c][q].reward + lost[c][q]
               + (IF c = loc[p].char /\ q = loc[p].quest THEN 1 ELSE 0)
    BY <1>0, <1>3, <2>3
  <2> QED  BY <1>0, <1>1, <1>2, <1>4, <2>4, PaymentEnds
<1>5. CASE pc[p] \notin {"lock", "grant"}
  <2>1. lost' = lost
    BY <1>5 DEF DbError, At
  <2>2. NotPaying(p) /\ NotPaying(p)'
    BY <1>1, <1>5 DEF NotPaying
  <2> QED  BY <1>0, <1>2, <2>1, <2>2, SamePaying, QuietRewards DEF Completed
<1> QED  BY <1>4, <1>5

\* A crash loses all payments under way.
LEMMA CrashRewards ==
    ASSUME ProgressIInv, QuestRewardsAccounted, Crash
    PROVE  QuestRewardsAccounted'
<1> SUFFICES ASSUME NEW c \in Character, NEW q \in Quest
             PROVE  paid'[c][q].reward + lost'[c][q] + Cardinality(Paying(c, q)') =
                      IF log'[c][q] # NoQuest /\ log'[c][q].status = "COMPLETED" THEN 1 ELSE 0
  BY DEF QuestRewardsAccounted
<1>1. Paying(c, q)' = {}
  BY DEF Paying, Crash
<1>2. lost'[c][q] = lost[c][q] + Cardinality(Paying(c, q)) /\ paid' = paid /\ log' = log
  BY CrashLost DEF Crash, questVars
<1>3. paid[c][q].reward \in Nat /\ lost[c][q] \in Nat /\ Cardinality(Paying(c, q)) \in Nat
  BY PayingCountable DEF ProgressIInv, TypeOK
<1>4. paid[c][q].reward + lost[c][q] + Cardinality(Paying(c, q)) =
         IF log[c][q] # NoQuest /\ log[c][q].status = "COMPLETED" THEN 1 ELSE 0
  BY DEF QuestRewardsAccounted
<1>5. Cardinality(Paying(c, q)') = 0
  BY <1>1, FS_EmptySet
<1> QED  BY <1>2, <1>3, <1>4, <1>5

\* The one who completes a quest is the one who pays for it.
LEMMA FinishRewards ==
    ASSUME NEW p \in Proc, NEW q \in Quest, ProgressIInv, QuestRewardsAccounted, FinishQuest(p, q)
    PROVE  QuestRewardsAccounted'
<1> DEFINE c == loc[p].char
<1>0. /\ At(p, "next") /\ q \in Todo(p) /\ CompleteQuest(c, q) /\ paid' = paid /\ lost' = lost
      /\ IF IsActive(log[c][q])
         THEN /\ Goto(p, "lock")
              /\ loc' = [loc EXCEPT ![p].seen[q] = NoQuest, ![p].quest = q, ![p].ret = "items",
                           ![p].gold = Rewards[q].gold, ![p].exp = Rewards[q].exp]
         ELSE LeaveQuests(p)
  BY DEF FinishQuest, obsVars
<1>1. loc[p] \in Call /\ c \in Quester /\ pc[p] = "next" /\ QuestTypeOK
  BY <1>0, Working DEF At, ProgressIInv, TypeOK
<1>2. CASE ~IsActive(log[c][q])
  <2>1. log' = log
    BY <1>0, <1>2 DEF CompleteQuest
  <2>2. Moves(p) /\ Ready(p)' /\ pc'[p] = "loot"
    BY <1>0, <1>1, <1>2, LeaveMoves
  <2>3. Alone(p)
    BY <2>2, MovesAlone DEF Ready
  <2>4. NotPaying(p) /\ NotPaying(p)'
    BY <1>1, <2>2 DEF NotPaying
  <2> QED  BY <1>0, <2>1, <2>3, <2>4, SamePaying, QuietRewards DEF Completed
<1>3. CASE IsActive(log[c][q])
  <2>1. Alone(p) /\ pc'[p] = "lock"
    BY <1>0, <1>3 DEF Goto, Alone, ProgressIInv, TypeOK
  <2>2. loc'[p].char = c /\ loc'[p].quest = q
    <3>1. loc'[p] = [loc[p] EXCEPT !.seen[q] = NoQuest, !.quest = q, !.ret = "items",
                       !.gold = Rewards[q].gold, !.exp = Rewards[q].exp]
      BY <1>0, <1>3 DEF ProgressIInv, TypeOK
    <3> DEFINE r == loc[p]
               w == loc'[p]
               g == Rewards[q].gold
               e == Rewards[q].exp
    <3>2. r \in Call /\ w = [r EXCEPT !.seen[q] = NoQuest, !.quest = q, !.ret = "items", !.gold = g, !.exp = e]
      BY <1>1, <3>1
    <3> HIDE DEF r, w, g, e
    <3>3. w.char = r.char /\ w.quest = q
      BY <3>2 DEF Call
    <3> QED  BY <3>3 DEF r, w
  <2>3. ~Completed(c, q) /\ log[c][q] # NoQuest
    BY <1>3 DEF IsActive, Completed
  <2>4. PICK row \in QuestRow(q) : row.status = "COMPLETED" /\ log' = [log EXCEPT ![c][q] = row]
    <3>1. CompleteQuest(c, q) /\ c \in Quester
      BY <1>0, <1>1
    <3> HIDE DEF c
    <3> QED  BY <1>1, <1>3, <3>1, CompletedRow
  <2>5. PICK k \in Character : k = c
    BY <1>1, QuestersAreCharacters
  <2>6. log'[k][q] = row /\ \A d \in Character, x \in Quest : d # k \/ x # q => log'[d][x] = log[d][x]
    BY <1>1, <2>4, <2>5, QuestersAreCharacters DEF QuestTypeOK
  <2>7. /\ ~Completed(k, q) /\ Completed(k, q)'
        /\ \A d \in Character, x \in Quest : d # k \/ x # q => (Completed(d, x)' <=> Completed(d, x))
    BY <2>3, <2>4, <2>5, <2>6, NoQuestIsNoRow DEF Completed
  <2>8. ASSUME NEW d \in Character, NEW x \in Quest
        PROVE  paid'[d][x].reward + lost'[d][x] + Cardinality(Paying(d, x)') = IF Completed(d, x)' THEN 1 ELSE 0
    <3>1. paid[d][x].reward + lost[d][x] + Cardinality(Paying(d, x)) = IF Completed(d, x) THEN 1 ELSE 0
      BY DEF QuestRewardsAccounted, Completed
    <3>2. paid[d][x].reward \in Nat /\ lost[d][x] \in Nat /\ IsFiniteSet(Paying(d, x))
          /\ Cardinality(Paying(d, x)) \in Nat
      BY PayingCountable DEF ProgressIInv, TypeOK
    <3>3. CASE d = k /\ x = q
      <4>1. Paying(d, x)' = Paying(d, x) \cup {p} /\ p \notin Paying(d, x)
        BY <1>1, <2>1, <2>2, <2>5, <3>3 DEF Paying, Alone
      <4>2. Cardinality(Paying(d, x)') = Cardinality(Paying(d, x)) + 1
        BY <3>2, <4>1, FS_AddElement
      <4> QED  BY <1>0, <2>7, <3>1, <3>2, <3>3, <4>2
    <3>4. CASE d # k \/ x # q
      <4>1. Paying(d, x)' = Paying(d, x)
        BY <1>1, <2>1, <2>2, <2>5, <3>4 DEF Paying, Alone
      <4> QED  BY <1>0, <2>7, <3>1, <3>4, <4>1
    <3> QED  BY <3>3, <3>4
  <2> QED  BY <2>8 DEF QuestRewardsAccounted, Completed
<1> QED  BY <1>2, <1>3

\* A quest that is not complete stays so unless FinishQuest completes it.
LEMMA SameStatus ==
    ASSUME ProgressIInv, Next, \A p \in Proc, q \in Quest : ~FinishQuest(p, q)
    PROVE  \A c \in Character, q \in Quest : Completed(c, q)' <=> Completed(c, q)
<1>1. QuestTypeOK
  BY DEF ProgressIInv, TypeOK
<1>2. CASE log' = log
  BY <1>2 DEF Completed
<1>3. ASSUME NEW c \in Quester, NEW q \in Quest, NEW row \in QuestRow(q),
             log' = [log EXCEPT ![c][q] = row], row.status = "ACTIVE", ~Completed(c, q)
      PROVE  \A d \in Character, x \in Quest : Completed(d, x)' <=> Completed(d, x)
  BY <1>1, <1>3, QuestersAreCharacters DEF Completed, QuestTypeOK
<1> QED  BY <1>2, <1>3, LogChange

\* The steps that pay nothing, lose nothing and complete nothing.
LEMMA OtherRewards ==
    ASSUME NEW p \in Proc, ProgressIInv, QuestRewardsAccounted, Next,
           \A r \in Proc, q \in Quest : ~FinishQuest(r, q),
           \A c \in Character, q \in Quest :
              paid'[c][q].reward = paid[c][q].reward /\ lost'[c][q] = lost[c][q],
           Alone(p), NotPaying(p), NotPaying(p)'
    PROVE  QuestRewardsAccounted'
  BY SamePaying, SameStatus, QuietRewards

\* Where the other steps lead: to no payment.
LEMMA ElsewhereSteps ==
    ASSUME NEW p \in Proc, ProgressIInv,
           \/ \E u \in User, c \in Character, q \in Quest : AcceptQuestHandler(p, u, c, q)
           \/ \E c \in Character, v \in Victim : RewardKill(p, c, v)
           \/ \E c \in Character, v \in Victim, n \in Amounts : UpdateQuestProgressHandler(p, c, v, n)
           \/ \E c \in Character : EquipmentChanged(p, c)
           \/ \E t \in Table, content \in Content : CreateLootTable(p, t, content)
           \/ SaveAccepted(p) \/ FetchQuests(p) \/ NoMoreQuests(p) \/ GrantItems(p)
           \/ \E q \in Quest : SaveProgress(p, q)
           \/ RecalculateBase(p) \/ RecalculateGear(p) \/ RecalculateStats(p)
           \/ FindTable(p) \/ GetLootTable(p) \/ FillCache(p) \/ Invalidate(p)
    PROVE  Alone(p) /\ pc[p] \notin {"lock", "grant"} /\ pc'[p] \notin {"lock", "grant"}
<1> USE DEF Goto, At, ProgressIInv, TypeOK, Alone
<1>1. ASSUME NEW u \in User, NEW c \in Character, NEW q \in Quest, AcceptQuestHandler(p, u, c, q)
      PROVE Alone(p) /\ pc[p] \notin {"lock", "grant"} /\ pc'[p] \notin {"lock", "grant"}
  BY <1>1 DEF AcceptQuestHandler
<1>2. ASSUME NEW c \in Character, NEW v \in Victim, RewardKill(p, c, v)
      PROVE Alone(p) /\ pc[p] \notin {"lock", "grant"} /\ pc'[p] \notin {"lock", "grant"}
  BY <1>2 DEF RewardKill
<1>3. ASSUME NEW c \in Character, NEW v \in Victim, NEW n \in Amounts, UpdateQuestProgressHandler(p, c, v, n)
      PROVE Alone(p) /\ pc[p] \notin {"lock", "grant"} /\ pc'[p] \notin {"lock", "grant"}
  BY <1>3 DEF UpdateQuestProgressHandler
<1>4. ASSUME NEW c \in Character, EquipmentChanged(p, c)
      PROVE Alone(p) /\ pc[p] \notin {"lock", "grant"} /\ pc'[p] \notin {"lock", "grant"}
  BY <1>4 DEF EquipmentChanged
<1>5. ASSUME NEW t \in Table, NEW content \in Content, CreateLootTable(p, t, content)
      PROVE Alone(p) /\ pc[p] \notin {"lock", "grant"} /\ pc'[p] \notin {"lock", "grant"}
  BY <1>5 DEF CreateLootTable
<1>6. ASSUME SaveAccepted(p) \/ Invalidate(p)
      PROVE Alone(p) /\ pc[p] \notin {"lock", "grant"} /\ pc'[p] \notin {"lock", "grant"}
  BY <1>6 DEF SaveAccepted, Invalidate, Finish
<1>7. ASSUME FetchQuests(p) \/ GrantItems(p) \/ RecalculateBase(p) \/ RecalculateGear(p) \/ FillCache(p)
      PROVE Alone(p) /\ pc[p] \notin {"lock", "grant"} /\ pc'[p] \notin {"lock", "grant"}
  BY <1>7 DEF FetchQuests, GrantItems, RecalculateBase, RecalculateGear, FillCache
<1>8. ASSUME NoMoreQuests(p)
      PROVE Alone(p) /\ pc[p] \notin {"lock", "grant"} /\ pc'[p] \notin {"lock", "grant"}
  BY <1>8 DEF NoMoreQuests, LeaveQuests
<1>9. ASSUME NEW q \in Quest, SaveProgress(p, q)
      PROVE Alone(p) /\ pc[p] \notin {"lock", "grant"} /\ pc'[p] \notin {"lock", "grant"}
  <2>1. /\ pc[p] = "next"
        /\ \/ loc' = [loc EXCEPT ![p].seen[q] = NoQuest] /\ pc' = pc
           \/ LeaveQuests(p)
    BY <1>9 DEF SaveProgress
  <2> QED  BY <2>1 DEF LeaveQuests
<1>10. ASSUME RecalculateStats(p)
      PROVE Alone(p) /\ pc[p] \notin {"lock", "grant"} /\ pc'[p] \notin {"lock", "grant"}
  <2>1. Back(p) /\ pc[p] = "stats" /\ loc[p].ret \in {"idle", "items"}
    BY <1>10 DEF RecalculateStats, Call
  <2> QED  BY <2>1 DEF Back, Finish
<1>11. ASSUME FindTable(p)
      PROVE Alone(p) /\ pc[p] \notin {"lock", "grant"} /\ pc'[p] \notin {"lock", "grant"}
  BY <1>11 DEF FindTable, Finish
<1>12. ASSUME GetLootTable(p)
      PROVE Alone(p) /\ pc[p] \notin {"lock", "grant"} /\ pc'[p] \notin {"lock", "grant"}
  BY <1>12 DEF GetLootTable
<1> HIDE DEF Goto, At, ProgressIInv, TypeOK, Alone
<1> QED  BY <1>1, <1>2, <1>3, <1>4, <1>5, <1>6, <1>7, <1>8, <1>9, <1>10, <1>11, <1>12

\* What is paid and lost changes in three actions and a crash.
LEMMA ObsChange ==
    ASSUME NEW p \in Proc,
           \/ \E u \in User, c \in Character, q \in Quest : AcceptQuestHandler(p, u, c, q)
           \/ \E c \in Character, v \in Victim : RewardKill(p, c, v)
           \/ \E c \in Character, v \in Victim, n \in Amounts : UpdateQuestProgressHandler(p, c, v, n)
           \/ \E c \in Character : EquipmentChanged(p, c)
           \/ \E t \in Table, content \in Content : CreateLootTable(p, t, content)
           \/ SaveAccepted(p) \/ FetchQuests(p) \/ NoMoreQuests(p)
           \/ \E q \in Quest : SaveProgress(p, q)
           \/ RecalculateBase(p) \/ RecalculateGear(p) \/ RecalculateStats(p)
           \/ FindTable(p) \/ GetLootTable(p) \/ FillCache(p) \/ Invalidate(p) \/ RollLoot(p) \/ LockRow(p)
    PROVE  paid' = paid /\ lost' = lost
  BY DEF AcceptQuestHandler, RewardKill, UpdateQuestProgressHandler, EquipmentChanged, CreateLootTable, SaveAccepted,
     FetchQuests, NoMoreQuests, SaveProgress, RecalculateBase, RecalculateGear, RecalculateStats, FindTable,
     GetLootTable, FillCache, Invalidate, RollLoot, LockRow, obsVars

\* The rewards are accounted for after every step.
LEMMA NextRewards ==
    ASSUME ProgressIInv, QuestRewardsAccounted, [Next]_vars
    PROVE  QuestRewardsAccounted'
<1>1. CASE UNCHANGED vars
  BY <1>1 DEF vars, obsVars, questVars, QuestRewardsAccounted, Paying
<1>2. CASE Crash
  BY <1>2, CrashRewards
<1>3. CASE \E p \in Proc : AddRewards(p)
  BY <1>3, GrantRewards
<1>4. CASE \E p \in Proc : DbError(p)
  BY <1>4, ErrorRewards
<1>5. CASE \E p \in Proc, q \in Quest : FinishQuest(p, q)
  BY <1>5, FinishRewards
<1>6. CASE Next /\ (\A p \in Proc, q \in Quest : ~FinishQuest(p, q))
                /\ ((\E q \in Quest : AdminCreate(q)) \/ (\E t \in Table : Expire(t)))
  <2>1. UNCHANGED <<pc, loc, paid, lost>>
    BY <1>6 DEF AdminCreate, Expire, obsVars
  <2> QED  BY <1>6, <2>1, SameStatus, QuietRewards DEF Paying
<1>7. ASSUME NEW p \in Proc, Next, \A r \in Proc, q \in Quest : ~FinishQuest(r, q), LockRow(p)
      PROVE  QuestRewardsAccounted'
  <2>1. pc[p] = "lock" /\ pc'[p] = "grant" /\ (\A r \in Proc : r # p => pc'[r] = pc[r]) /\ loc' = loc
    BY <1>7 DEF LockRow, Goto, At, ProgressIInv, TypeOK
  <2>2. \A c \in Character, q \in Quest : Paying(c, q)' = Paying(c, q)
    BY <2>1 DEF Paying
  <2>3. paid' = paid /\ lost' = lost
    BY <1>7, ObsChange
  <2> QED  BY <1>7, <2>2, <2>3, SameStatus, QuietRewards
<1>8. ASSUME NEW p \in Proc, Next, \A r \in Proc, q \in Quest : ~FinishQuest(r, q), RollLoot(p)
      PROVE  QuestRewardsAccounted'
  <2>1. Ready(p) /\ loc[p] \in Call /\ pc[p] = "roll" /\ loc[p].quest = NoQuest
    BY <1>8, AllReady DEF RollLoot, At, Ready, Held
  <2>2. Alone(p) /\ NotPaying(p)'
    <3>1. CASE Finish(p)
      BY <3>1 DEF Finish, Goto, Alone, NotPaying, ProgressIInv, TypeOK
    <3>2. CASE ~Finish(p)
      <4>1. loc' = [loc EXCEPT ![p].gold = DropGold, ![p].row = NoTable, ![p].table = NoTable, ![p].ret = "idle"]
            /\ Goto(p, "lock")
        BY <1>8, <3>2 DEF RollLoot
      <4>2. Alone(p) /\ loc'[p] = [loc[p] EXCEPT !.gold = DropGold, !.row = NoTable, !.table = NoTable, !.ret = "idle"]
        BY <4>1 DEF Goto, Alone, ProgressIInv, TypeOK
      <4> DEFINE r == loc[p]
                 w == loc'[p]
      <4>3. r \in Call /\ r.quest = NoQuest
            /\ w = [r EXCEPT !.gold = DropGold, !.row = NoTable, !.table = NoTable, !.ret = "idle"]
        BY <2>1, <4>2
      <4> HIDE DEF r, w
      <4>4. w.quest = NoQuest
        BY <4>3 DEF Call
      <4> QED  BY <4>2, <4>4 DEF NotPaying, w
    <3> QED  BY <3>1, <3>2
  <2>3. NotPaying(p)
    BY <2>1 DEF NotPaying
  <2>4. paid' = paid /\ lost' = lost
    BY <1>8, ObsChange
  <2> QED  BY <1>8, <2>2, <2>3, <2>4, OtherRewards
<1>9. ASSUME NEW p \in Proc, Next, \A r \in Proc, q \in Quest : ~FinishQuest(r, q), GrantItems(p)
      PROVE  QuestRewardsAccounted'
  <2>1. Alone(p) /\ pc[p] \notin {"lock", "grant"} /\ pc'[p] \notin {"lock", "grant"}
    BY <1>9, ElsewhereSteps
  <2>2. NotPaying(p) /\ NotPaying(p)'
    BY <2>1 DEF NotPaying
  <2>3. lost' = lost /\ \A c \in Character, q \in Quest : paid'[c][q].reward = paid[c][q].reward
    <3> DEFINE d == loc[p].char
               x == loc[p].quest
               f == paid
               g == paid'
    <3>1. f \in [Character -> [Quest -> [reward : Nat, items : Nat]]] /\ g = [f EXCEPT ![d][x].items = @ + 1]
          /\ lost' = lost
      BY <1>9 DEF GrantItems, ProgressIInv, TypeOK
    <3> HIDE DEF d, x, f, g
    <3>2. \A c \in Character, q \in Quest : g[c][q].reward = f[c][q].reward
      BY <3>1
    <3> QED  BY <3>1, <3>2 DEF f, g
  <2> QED  BY <1>9, <2>1, <2>2, <2>3, OtherRewards
<1>10. ASSUME NEW p \in Proc, Next, \A r \in Proc, q \in Quest : ~FinishQuest(r, q),
              \/ \E u \in User, c \in Character, q \in Quest : AcceptQuestHandler(p, u, c, q)
              \/ \E c \in Character, v \in Victim : RewardKill(p, c, v)
              \/ \E c \in Character, v \in Victim, n \in Amounts : UpdateQuestProgressHandler(p, c, v, n)
              \/ \E c \in Character : EquipmentChanged(p, c)
              \/ \E t \in Table, content \in Content : CreateLootTable(p, t, content)
              \/ SaveAccepted(p) \/ FetchQuests(p) \/ NoMoreQuests(p)
              \/ \E q \in Quest : SaveProgress(p, q)
              \/ RecalculateBase(p) \/ RecalculateGear(p) \/ RecalculateStats(p)
              \/ FindTable(p) \/ GetLootTable(p) \/ FillCache(p) \/ Invalidate(p)
       PROVE  QuestRewardsAccounted'
  <2>1. Alone(p) /\ pc[p] \notin {"lock", "grant"} /\ pc'[p] \notin {"lock", "grant"}
    BY <1>10, ElsewhereSteps
  <2>2. NotPaying(p) /\ NotPaying(p)'
    BY <2>1 DEF NotPaying
  <2>3. paid' = paid /\ lost' = lost
    BY <1>10, ObsChange
  <2> QED  BY <1>10, <2>1, <2>2, <2>3, OtherRewards
<1>11. CASE Next
  BY <1>2, <1>3, <1>4, <1>5, <1>6, <1>7, <1>8, <1>9, <1>10, <1>11 DEF Next, Step
<1> QED  BY <1>1, <1>11

\* A completed quest is paid for once, or its payment is known to be lost, for any
\* quests and any number of kills, errors and crashes (service.go:152-189).
THEOREM RewardsPaidOnce == Spec => []QuestRewardsAccounted
<1>1. Init => QuestRewardsAccounted
  <2> SUFFICES ASSUME Init, NEW c \in Character, NEW q \in Quest
               PROVE  paid[c][q].reward + lost[c][q] + Cardinality(Paying(c, q)) =
                        IF log[c][q] # NoQuest /\ log[c][q].status = "COMPLETED" THEN 1 ELSE 0
    BY DEF QuestRewardsAccounted
  <2>1. Paying(c, q) = {}
    BY DEF Init, Paying
  <2>2. Cardinality(Paying(c, q)) = 0
    BY <2>1, FS_EmptySet
  <2> QED  BY <2>2, QuestersAreCharacters DEF Init, QuestInit
<1>2. ProgressIInv /\ QuestRewardsAccounted /\ [Next]_vars => QuestRewardsAccounted'
  BY NextRewards
<1> QED  BY <1>1, <1>2, ProgressInvariant, PTL DEF Spec


-----------------------------------------------------------------------------
\* The cached stats.

Rowed ==
    /\ DOMAIN rows = Character /\ DOMAIN rowLock = Character
    /\ DOMAIN read = Proc /\ DOMAIN derived = Character

\* A transaction that has read a row holds its lock.
Locked(p) == pc[p] = "grant" => rowLock[loc[p].char] = p /\ read[p] = rows[loc[p].char]

\* At most one recalculation of c is under way; it has read what is stored.
Current(c) ==
    /\ \A p, q \in Recalculating(c) : p = q
    /\ \A p \in Recalculating(c) :
          /\ pc[p] \in {"gear", "stats"} => read[p].base = rows[c].base
          /\ pc[p] = "stats" => loc[p].gear = worn[c]
    /\ Recalculating(c) = {} => derived[c] = [base |-> rows[c].base, worn |-> worn[c]]

\* The invariant by transactions and by characters, before a step and after it.
LEMMA FreshParts ==
    FreshIInv <=> Rowed /\ (\A p \in Proc : Locked(p)) /\ \A c \in Character \ disturbed : Current(c)
  BY DEF FreshIInv, StatsFresh, Rowed, Locked, Current, At

\* And after a step.
LEMMA FreshPartsThen ==
    FreshIInv' <=> Rowed' /\ (\A p \in Proc : Locked(p)') /\ \A c \in Character \ disturbed' : Current(c)'
  BY DEF FreshIInv, StatsFresh, Rowed, Locked, Current, At

\* A character whose base stats, equipment and recalculations stay as they are.
LEMMA CurrentKept ==
    ASSUME NEW c \in Character, Current(c), Recalculating(c)' = Recalculating(c),
           rows'[c].base = rows[c].base, worn'[c] = worn[c], derived'[c] = derived[c],
           \A p \in Recalculating(c) : pc'[p] = pc[p] /\ loc'[p] = loc[p] /\ read'[p] = read[p]
    PROVE  Current(c)'
  BY DEF Current

\* The steps that touch rows and stats.
Touching == {"grant", "base", "gear", "stats"}

\* A step that touches neither.
LEMMA UntouchedFresh ==
    ASSUME FreshIInv, NEW p \in Proc, Alone(p), pc[p] \notin Touching, pc'[p] \notin Touching,
           UNCHANGED <<rows, rowLock, read, derived, worn, disturbed>>
    PROVE  FreshIInv'
<1>1. Rowed'
  BY FreshParts DEF Rowed
<1>2. ASSUME NEW q \in Proc PROVE Locked(q)'
  <2>1. CASE q = p
    BY <2>1 DEF Locked, Touching
  <2>2. CASE q # p
    BY <2>2, FreshParts DEF Locked, Alone
  <2> QED  BY <2>1, <2>2
<1>3. ASSUME NEW c \in Character \ disturbed PROVE Current(c)'
  <2>1. /\ Recalculating(c)' = Recalculating(c)
        /\ \A q \in Recalculating(c) : pc'[q] = pc[q] /\ loc'[q] = loc[q]
    BY DEF Recalculating, Touching, Alone
  <2>2. Current(c)
    BY FreshParts
  <2> QED  BY <2>1, <2>2, CurrentKept
<1> QED  BY <1>1, <1>2, <1>3, FreshPartsThen

\* The steps of which that is true.
LEMMA UntouchedSteps ==
    ASSUME NEW p \in Proc, ProgressIInv,
           \/ \E u \in User, c \in Character, q \in Quest : AcceptQuestHandler(p, u, c, q)
           \/ \E c \in Character, v \in Victim : RewardKill(p, c, v)
           \/ \E c \in Character, v \in Victim, n \in Amounts : UpdateQuestProgressHandler(p, c, v, n)
           \/ \E t \in Table, content \in Content : CreateLootTable(p, t, content)
           \/ SaveAccepted(p) \/ FetchQuests(p) \/ NoMoreQuests(p) \/ GrantItems(p)
           \/ \E q \in Quest : SaveProgress(p, q) \/ FinishQuest(p, q)
           \/ FindTable(p) \/ GetLootTable(p) \/ FillCache(p) \/ RollLoot(p) \/ Invalidate(p)
    PROVE  /\ Alone(p) /\ pc[p] \notin Touching /\ pc'[p] \notin Touching
           /\ UNCHANGED <<rows, rowLock, read, derived, worn, disturbed>>
<1> DEFINE Fine == /\ Alone(p) /\ pc[p] \notin Touching /\ pc'[p] \notin Touching
                   /\ UNCHANGED <<rows, rowLock, read, derived, worn, disturbed>>
<1> USE DEF Goto, At, ProgressIInv, TypeOK, Alone, Touching, characterVars, rowVars, statVars
<1>1. ASSUME NEW u \in User, NEW c \in Character, NEW q \in Quest, AcceptQuestHandler(p, u, c, q) PROVE Fine
  BY <1>1 DEF AcceptQuestHandler
<1>2. ASSUME NEW c \in Character, NEW v \in Victim, RewardKill(p, c, v) PROVE Fine
  BY <1>2 DEF RewardKill
<1>3. ASSUME NEW c \in Character, NEW v \in Victim, NEW n \in Amounts,
             UpdateQuestProgressHandler(p, c, v, n) PROVE Fine
  BY <1>3 DEF UpdateQuestProgressHandler
<1>4. ASSUME NEW t \in Table, NEW content \in Content, CreateLootTable(p, t, content) PROVE Fine
  BY <1>4 DEF CreateLootTable
<1>5. ASSUME SaveAccepted(p) \/ Invalidate(p) PROVE Fine
  BY <1>5 DEF SaveAccepted, Invalidate, Finish
<1>6. ASSUME FetchQuests(p) \/ GrantItems(p) \/ FillCache(p) PROVE Fine
  BY <1>6 DEF FetchQuests, GrantItems, FillCache
<1>7. ASSUME NoMoreQuests(p) PROVE Fine
  BY <1>7 DEF NoMoreQuests, LeaveQuests
<1>8. ASSUME NEW q \in Quest, SaveProgress(p, q) PROVE Fine
  <2>1. /\ pc[p] = "next" /\ UNCHANGED <<rows, rowLock, read, derived, worn, disturbed>>
        /\ \/ loc' = [loc EXCEPT ![p].seen[q] = NoQuest] /\ pc' = pc
           \/ LeaveQuests(p)
    BY <1>8 DEF SaveProgress
  <2> QED  BY <2>1 DEF LeaveQuests
<1>9. ASSUME NEW q \in Quest, FinishQuest(p, q) PROVE Fine
  <2>1. /\ pc[p] = "next" /\ UNCHANGED <<rows, rowLock, read, derived, worn, disturbed>>
        /\ \/ /\ loc' = [loc EXCEPT ![p].seen[q] = NoQuest, ![p].quest = q, ![p].ret = "items",
                           ![p].gold = Rewards[q].gold, ![p].exp = Rewards[q].exp]
              /\ Goto(p, "lock")
           \/ LeaveQuests(p)
    BY <1>9 DEF FinishQuest
  <2> QED  BY <2>1 DEF LeaveQuests
<1>10. ASSUME FindTable(p) PROVE Fine
  BY <1>10 DEF FindTable, Finish
<1>11. ASSUME GetLootTable(p) PROVE Fine
  BY <1>11 DEF GetLootTable
<1>12. ASSUME RollLoot(p) PROVE Fine
  BY <1>12 DEF RollLoot, Finish
<1> HIDE DEF Goto, At, ProgressIInv, TypeOK, Alone, Touching, characterVars, rowVars, statVars
<1> QED  BY <1>1, <1>2, <1>3, <1>4, <1>5, <1>6, <1>7, <1>8, <1>9, <1>10, <1>11, <1>12


\* The transaction of AddRewards reads the row and locks it.
LEMMA LockFresh ==
    ASSUME ProgressIInv, FreshIInv, NEW p \in Proc, LockRow(p)
    PROVE  FreshIInv'
<1>1. /\ pc[p] = "lock" /\ pc'[p] = "grant" /\ loc' = loc /\ Alone(p)
      /\ rowLock[loc[p].char] = NoProc /\ rowLock' = [rowLock EXCEPT ![loc[p].char] = p]
      /\ read' = [read EXCEPT ![p] = rows[loc[p].char]]
      /\ UNCHANGED <<rows, derived, worn, disturbed>>
  BY DEF LockRow, SelectForUpdate, Goto, At, Alone, ProgressIInv, TypeOK, statVars
<1>2. Rowed /\ Rowed'
  BY <1>1, FreshParts DEF Rowed
<1>3. loc[p].char \in Character
  BY <1>1, AllReady DEF Ready, Held
<1>4. ASSUME NEW q \in Proc PROVE Locked(q)'
  <2>1. CASE q = p
    BY <1>1, <1>2, <1>3, <2>1 DEF Locked, Rowed
  <2>2. CASE q # p
    <3>1. Locked(q) /\ (pc[q] = "grant" => loc[q].char \in Character)
      BY FreshParts, AllReady DEF Ready, Held
    <3>2. pc'[q] = pc[q] /\ read'[q] = read[q]
      BY <1>1, <1>2, <2>2 DEF Alone, Rowed
    <3>3. pc[q] = "grant" => loc[q].char # loc[p].char
      BY <1>1, <3>1, NoProcIsNoProc DEF Locked
    <3>4. pc[q] = "grant" => rowLock'[loc[q].char] = rowLock[loc[q].char]
      BY <1>1, <1>2, <3>1, <3>3 DEF Rowed
    <3> QED  BY <1>1, <3>1, <3>2, <3>4 DEF Locked
  <2> QED  BY <2>1, <2>2
<1>5. ASSUME NEW c \in Character \ disturbed PROVE Current(c)'
  <2>1. /\ Recalculating(c)' = Recalculating(c)
        /\ \A q \in Recalculating(c) : pc'[q] = pc[q] /\ loc'[q] = loc[q] /\ read'[q] = read[q]
    BY <1>1 DEF Recalculating, Alone
  <2>2. Current(c)
    BY FreshParts
  <2> QED  BY <1>1, <2>1, <2>2, CurrentKept
<1> QED  BY <1>1, <1>2, <1>4, <1>5, FreshPartsThen

\* Transactions other than p's are not touched by a step that keeps the rows of
\* other characters and their locks.
LEMMA OthersLocked ==
    ASSUME ProgressIInv, FreshIInv, NEW p \in Proc, NEW q \in Proc, q # p, Alone(p), read'[q] = read[q],
           \A c \in Character : rowLock[c] # p => rowLock'[c] = rowLock[c] /\ rows'[c] = rows[c]
    PROVE  Locked(q)'
<1>1. /\ Locked(q) /\ pc'[q] = pc[q] /\ loc'[q] = loc[q]
      /\ pc[q] = "grant" => loc[q].char \in Character
  BY FreshParts, AllReady DEF Alone, Ready, Held
<1> QED  BY <1>1 DEF Locked

\* A recalculation reads base stats and equipment.
LEMMA BaseFresh ==
    ASSUME ProgressIInv, FreshIInv, NEW p \in Proc, RecalculateBase(p) \/ RecalculateGear(p)
    PROVE  FreshIInv'
<1> DEFINE g == loc[p].char
<1>1. /\ pc[p] \in {"base", "gear"} /\ pc'[p] \in {"gear", "stats"} /\ Alone(p)
      /\ UNCHANGED <<rows, rowLock, derived, worn, disturbed>>
      /\ \A q \in Proc : q # p => read'[q] = read[q]
  <2>1. Rowed
    BY FreshParts
  <2>2. CASE RecalculateBase(p)
    BY <2>1, <2>2 DEF Rowed, RecalculateBase, ReadBaseStats, Goto, At, Alone, ProgressIInv, TypeOK, statVars
  <2>3. CASE RecalculateGear(p)
    BY <2>3 DEF RecalculateGear, Goto, At, Alone, ProgressIInv, TypeOK, characterVars, rowVars, statVars
  <2> QED  BY <2>2, <2>3
<1>2. g \in Character /\ loc[p] \in Call
  BY <1>1, AllReady DEF Ready, Held
<1>3. /\ Rowed /\ Rowed' /\ loc'[p].char = g
      /\ pc'[p] = "gear" => pc[p] = "base" /\ read'[p] = rows[g]
      /\ pc'[p] = "stats" => pc[p] = "gear" /\ read'[p] = read[p] /\ loc'[p].gear = worn[g]
  <2>1. Rowed
    BY FreshParts
  <2>2. CASE RecalculateBase(p)
    BY <2>1, <2>2, <1>1 DEF RecalculateBase, ReadBaseStats, Goto, At, Rowed, ProgressIInv, TypeOK
  <2>3. CASE RecalculateGear(p)
    <3>1. /\ pc'[p] = "stats" /\ pc[p] = "gear" /\ read' = read
          /\ loc'[p] = [loc[p] EXCEPT !.gear = worn[loc[p].char]]
      BY <2>3 DEF RecalculateGear, GetEquippedModifiers, Goto, At, ProgressIInv, TypeOK,
                  characterVars, rowVars
    <3>2. loc'[p].gear = worn[loc[p].char] /\ loc'[p].char = loc[p].char
      BY <1>2, <3>1 DEF Call
    <3> QED  BY <2>1, <3>1, <3>2, <1>1 DEF Rowed
  <2> QED  BY <2>2, <2>3
<1>4. ASSUME NEW q \in Proc PROVE Locked(q)'
  <2>1. CASE q = p
    BY <1>1, <2>1 DEF Locked
  <2>2. CASE q # p
    BY <1>1, <2>2, OthersLocked
  <2> QED  BY <2>1, <2>2
<1>5. ASSUME NEW c \in Character \ disturbed PROVE Current(c)'
  <2>1. Current(c)
    BY FreshParts
  <2>2. Recalculating(c)' = Recalculating(c)
    BY <1>1, <1>3 DEF Recalculating, Alone
  <2>3. CASE g # c
    <3>1. \A q \in Recalculating(c) : pc'[q] = pc[q] /\ loc'[q] = loc[q] /\ read'[q] = read[q]
      BY <1>1, <2>3 DEF Recalculating, Alone
    <3> QED  BY <1>1, <2>1, <2>2, <3>1, CurrentKept
  <2>4. CASE g = c
    <3>1. Recalculating(c) = {p}
      BY <1>1, <2>1, <2>4 DEF Current, Recalculating
    <3>2. pc[p] = "gear" => read[p].base = rows[c].base
      BY <2>1, <3>1 DEF Current
    <3> QED  BY <1>1, <1>3, <2>2, <2>4, <3>1, <3>2 DEF Current
  <2> QED  BY <2>3, <2>4
<1> QED  BY <1>1, <1>3, <1>4, <1>5, FreshPartsThen

\* A recalculation writes what it has read.
LEMMA StatsWritten ==
    ASSUME ProgressIInv, FreshIInv, NEW p \in Proc, RecalculateStats(p)
    PROVE  FreshIInv'
<1> DEFINE g == loc[p].char
<1>1. /\ pc[p] = "stats" /\ Back(p) /\ defs' = defs
      /\ derived' = [derived EXCEPT ![g] = [base |-> read[p].base, worn |-> loc[p].gear]]
      /\ UNCHANGED <<rows, rowLock, worn, disturbed>>
      /\ read' = [read EXCEPT ![p] = NewCharacter]
  BY DEF RecalculateStats, UpdateStats, At, questVars
<1>2. g \in Character /\ Rowed
  BY <1>1, AllReady, FreshParts DEF Ready, Held
<1>3. Alone(p) /\ pc'[p] \in {"idle", "items"}
  BY <1>1, BackMoves, MovesAlone DEF Ready
<1>4. Rowed'
  BY <1>1, <1>2 DEF Rowed
<1>5. ASSUME NEW q \in Proc PROVE Locked(q)'
  <2>1. CASE q = p
    BY <1>3, <2>1 DEF Locked
  <2>2. CASE q # p
    <3>1. read'[q] = read[q]
      BY <1>1, <1>2, <2>2 DEF Rowed
    <3> QED  BY <1>1, <1>3, <2>2, <3>1, OthersLocked
  <2> QED  BY <2>1, <2>2
<1>6. ASSUME NEW c \in Character \ disturbed PROVE Current(c)'
  <2>1. Current(c)
    BY FreshParts
  <2>2. Recalculating(c)' = Recalculating(c) \ {p}
    BY <1>1, <1>3 DEF Recalculating, Alone
  <2>3. CASE g # c
    <3>1. /\ Recalculating(c)' = Recalculating(c)
          /\ \A q \in Recalculating(c) : pc'[q] = pc[q] /\ loc'[q] = loc[q] /\ read'[q] = read[q]
      BY <1>1, <1>2, <1>3, <2>2, <2>3 DEF Recalculating, Alone, Rowed
    <3>2. derived'[c] = derived[c]
      BY <1>1, <1>2, <2>3 DEF Rowed
    <3> QED  BY <1>1, <2>1, <3>1, <3>2, CurrentKept
  <2>4. CASE g = c
    <3>1. Recalculating(c) = {p}
      BY <1>1, <2>1, <2>4 DEF Current, Recalculating
    <3>2. read[p].base = rows[c].base /\ loc[p].gear = worn[c]
      BY <1>1, <2>1, <3>1 DEF Current
    <3>3. derived'[c] = [base |-> rows[c].base, worn |-> worn[c]]
      BY <1>1, <1>2, <2>4, <3>2 DEF Rowed
    <3> QED  BY <1>1, <2>2, <3>1, <3>3 DEF Current
  <2> QED  BY <2>3, <2>4
<1> QED  BY <1>1, <1>4, <1>5, <1>6, FreshPartsThen


\* AddRewards commits: base stats change with a level-up only, and then their
\* recalculation is due.
LEMMA GrantFresh ==
    ASSUME ProgressIInv, FreshIInv, NEW p \in Proc, AddRewards(p)
    PROVE  FreshIInv'
<1> DEFINE g == loc[p].char
           up == leveledUp(p, loc[p].exp)
<1>1. /\ pc[p] = "grant" /\ defs' = defs /\ UNCHANGED <<derived, worn>>
      /\ WriteRewards(p, g, loc[p].gold, loc[p].exp)
      /\ IF up THEN pc' = [pc EXCEPT ![p] = "base"] /\ disturbed' = Overlap(g) /\ loc' = loc
               ELSE Back(p) /\ disturbed' = disturbed
  BY DEF AddRewards, At, Goto, questVars
<1>2. g \in Character /\ Rowed /\ Locked(p)
  BY <1>1, AllReady, FreshParts DEF Ready, Held
<1>3. /\ Alone(p)
      /\ IF up THEN pc'[p] = "base" /\ loc'[p].char = g ELSE pc'[p] \in {"idle", "items"}
  <2>1. CASE up
    BY <1>1, <2>1 DEF Alone, ProgressIInv, TypeOK
  <2>2. CASE ~up
    <3>1. Back(p)
      BY <1>1, <2>2
    <3> QED  BY <1>1, <2>2, <3>1, BackMoves, MovesAlone DEF Ready
  <2> QED  BY <2>1, <2>2
<1>4. /\ read' = [read EXCEPT ![p] = NewCharacter] /\ rowLock' = [rowLock EXCEPT ![g] = NoProc]
      /\ DOMAIN rows' = Character /\ (\A c \in Character : c # g => rows'[c] = rows[c])
      /\ ~up => rows'[g].base = rows[g].base
  <2> DEFINE new == ApplyExperience(read[p], loc[p].exp)
             row == [gold |-> read[p].gold + loc[p].gold, level |-> new.level, exp |-> new.exp,
                     base |-> IF up THEN ApplyLevelUpStatGains(read[p], new.level - read[p].level)
                              ELSE read[p].base]
  <2>1. rows' = [rows EXCEPT ![g] = row] /\ EndTx(p, g)
    BY <1>1 DEF WriteRewards
  <2>2. ~up => row.base = read[p].base
    OBVIOUS
  <2>3. read[p] = rows[g]
    BY <1>1, <1>2 DEF Locked
  <2> HIDE DEF row, up, g
  <2> QED  BY <1>2, <2>1, <2>2, <2>3 DEF EndTx, Rowed
<1>5. Rowed'
  BY <1>1, <1>2, <1>4 DEF Rowed
<1>6. ASSUME NEW q \in Proc PROVE Locked(q)'
  <2>1. CASE q = p
    BY <1>3, <2>1 DEF Locked
  <2>2. CASE q # p
    <3>1. read'[q] = read[q]
      BY <1>2, <1>4, <2>2 DEF Rowed
    <3>2. \A c \in Character : rowLock[c] # p => rowLock'[c] = rowLock[c] /\ rows'[c] = rows[c]
      BY <1>1, <1>2, <1>4 DEF Rowed, Locked
    <3> QED  BY <1>3, <2>2, <3>1, <3>2, OthersLocked
  <2> QED  BY <2>1, <2>2
<1>7. ASSUME NEW c \in Character \ disturbed' PROVE Current(c)'
  <2>1. c \notin disturbed /\ Current(c)
    <3>1. c \notin disturbed
      BY <1>1 DEF Overlap
    <3> QED  BY <3>1, FreshParts
  <2>2. /\ p \notin Recalculating(c)
        /\ \A q \in Recalculating(c) : pc'[q] = pc[q] /\ loc'[q] = loc[q] /\ read'[q] = read[q]
    BY <1>1, <1>2, <1>3, <1>4 DEF Recalculating, Alone, Rowed
  <2>3. CASE up /\ c = g
    <3>1. Recalculating(c) = {}
      BY <1>1, <2>3 DEF Overlap
    <3>2. Recalculating(c)' = {p}
      BY <1>3, <2>3, <3>1 DEF Recalculating, Alone
    <3> QED  BY <1>3, <2>3, <3>2 DEF Current
  <2>4. CASE ~(up /\ c = g)
    <3>1. Recalculating(c)' = Recalculating(c)
      BY <1>3, <2>2, <2>4 DEF Recalculating, Alone
    <3>2. rows'[c].base = rows[c].base
      BY <1>4, <2>4
    <3> QED  BY <1>1, <2>1, <2>2, <3>1, <3>2, CurrentKept
  <2> QED  BY <2>3, <2>4
<1> QED  BY <1>5, <1>6, <1>7, FreshPartsThen

\* Equipment changes, and its recalculation is due.
LEMMA EquipFresh ==
    ASSUME ProgressIInv, FreshIInv, NEW p \in Proc, NEW g \in Character, EquipmentChanged(p, g)
    PROVE  FreshIInv'
<1>1. /\ pc[p] = "idle" /\ pc' = [pc EXCEPT ![p] = "base"] /\ worn' = [worn EXCEPT ![g] = @ + 1]
      /\ disturbed' = Overlap(g) /\ UNCHANGED <<rows, rowLock, read, derived>>
      /\ loc' = [loc EXCEPT ![p].char = g]
  BY DEF EquipmentChanged, At, Goto, rowVars
<1>2. Alone(p) /\ pc'[p] = "base" /\ loc'[p].char = g /\ \A c \in Character : c # g => worn'[c] = worn[c]
  BY <1>1 DEF Alone, ProgressIInv, TypeOK, Call
<1>3. Rowed'
  BY <1>1, FreshParts DEF Rowed
<1>4. ASSUME NEW q \in Proc PROVE Locked(q)'
  <2>1. CASE q = p
    BY <1>2, <2>1 DEF Locked
  <2>2. CASE q # p
    BY <1>1, <1>2, <2>2, OthersLocked
  <2> QED  BY <2>1, <2>2
<1>5. ASSUME NEW c \in Character \ disturbed' PROVE Current(c)'
  <2>1. c \notin disturbed /\ Current(c)
    <3>1. c \notin disturbed
      BY <1>1 DEF Overlap
    <3> QED  BY <3>1, FreshParts
  <2>2. CASE c = g
    <3>1. Recalculating(c) = {}
      BY <1>1, <2>2 DEF Overlap
    <3>2. Recalculating(c)' = {p}
      BY <1>2, <2>2, <3>1 DEF Recalculating, Alone
    <3> QED  BY <1>2, <2>2, <3>2 DEF Current
  <2>3. CASE c # g
    <3>1. /\ Recalculating(c)' = Recalculating(c)
          /\ \A q \in Recalculating(c) : pc'[q] = pc[q] /\ loc'[q] = loc[q]
      BY <1>1, <1>2, <2>3 DEF Recalculating, Alone
    <3> QED  BY <1>1, <1>2, <2>1, <2>3, <3>1, CurrentKept
  <2> QED  BY <2>2, <2>3
<1> QED  BY <1>3, <1>4, <1>5, FreshPartsThen

\* A statement fails: a transaction rolls back, a recalculation leaves the stats
\* of its character disturbed.
LEMMA ErrorFresh ==
    ASSUME ProgressIInv, FreshIInv, NEW p \in Proc, DbError(p)
    PROVE  FreshIInv'
<1> DEFINE g == loc[p].char
<1>1. Moves(p) /\ Ready(p)' /\ pc'[p] \in {"idle", "items", "loot"}
  BY LeaveMoves, FinishMoves, BackMoves DEF DbError, At, questVars
<1>2. Alone(p) /\ pc'[p] \notin Touching
  BY <1>1, MovesAlone DEF Ready, Touching
<1>3. CASE pc[p] \notin Touching
  BY <1>2, <1>3, UntouchedFresh DEF DbError, At, Touching, characterVars, rowVars, statVars
<1>4. CASE pc[p] \in Touching
  <2>1. g \in Character /\ Rowed /\ Locked(p)
    BY <1>4, AllReady, FreshParts DEF Ready, Held, Touching
  <2>2. /\ read' = [read EXCEPT ![p] = NewCharacter] /\ UNCHANGED <<rows, derived, worn>>
        /\ IF pc[p] = "grant" THEN rowLock' = [rowLock EXCEPT ![g] = NoProc] /\ disturbed' = disturbed
           ELSE rowLock' = rowLock /\ disturbed' = disturbed \cup {g}
    BY <1>4 DEF DbError, At, Rollback, EndTx, Touching, statVars
  <2>3. Rowed'
    BY <2>1, <2>2 DEF Rowed
  <2>4. ASSUME NEW q \in Proc PROVE Locked(q)'
    <3>1. CASE q = p
      BY <1>2, <3>1 DEF Locked, Touching
    <3>2. CASE q # p
      <4>1. read'[q] = read[q]
        BY <2>1, <2>2, <3>2 DEF Rowed
      <4>2. \A c \in Character : rowLock[c] # p => rowLock'[c] = rowLock[c] /\ rows'[c] = rows[c]
        BY <2>1, <2>2 DEF Rowed, Locked
      <4> QED  BY <1>2, <3>2, <4>1, <4>2, OthersLocked
    <3> QED  BY <3>1, <3>2
  <2>5. ASSUME NEW c \in Character \ disturbed' PROVE Current(c)'
    <3>1. Current(c)
      BY <2>2, FreshParts
    <3>2. p \notin Recalculating(c)
      BY <2>2 DEF Recalculating
    <3>3. /\ Recalculating(c)' = Recalculating(c)
          /\ \A q \in Recalculating(c) : pc'[q] = pc[q] /\ loc'[q] = loc[q] /\ read'[q] = read[q]
      BY <1>2, <2>1, <2>2, <3>2 DEF Recalculating, Alone, Rowed, Touching
    <3> QED  BY <2>2, <3>1, <3>3, CurrentKept
  <2> QED  BY <2>3, <2>4, <2>5, FreshPartsThen
<1> QED  BY <1>3, <1>4

\* A crash disturbs the stats whose recalculation it ends.
LEMMA CrashFresh ==
    ASSUME FreshIInv, Crash
    PROVE  FreshIInv'
<1>1. /\ pc' = [p \in Proc |-> "idle"] /\ UNCHANGED <<rows, derived, worn>>
      /\ rowLock' = [c \in Character |-> NoProc] /\ read' = [p \in Proc |-> NewCharacter]
      /\ disturbed' = disturbed \cup {c \in Character : Recalculating(c) # {}}
  BY DEF Crash
<1>2. Rowed'
  BY <1>1, FreshParts DEF Rowed
<1>3. \A q \in Proc : Locked(q)'
  BY <1>1 DEF Locked
<1>4. ASSUME NEW c \in Character \ disturbed' PROVE Current(c)'
  <2>1. Current(c) /\ Recalculating(c) = {} /\ Recalculating(c)' = {}
    BY <1>1, FreshParts DEF Recalculating
  <2> QED  BY <1>1, <2>1, CurrentKept
<1> QED  BY <1>2, <1>3, <1>4, FreshPartsThen

\* Steps in which no goroutine goes on.
LEMMA IdleFresh ==
    ASSUME FreshIInv, UNCHANGED <<pc, loc, rows, rowLock, read, derived, worn, disturbed>>
    PROVE  FreshIInv'
  BY DEF FreshIInv, StatsFresh, Recalculating, At

\* Every step keeps the stats fresh.
LEMMA NextFresh ==
    ASSUME ProgressIInv, FreshIInv, [Next]_vars
    PROVE  FreshIInv'
<1>1. CASE UNCHANGED vars
  BY <1>1, IdleFresh DEF vars, characterVars, rowVars, statVars
<1>2. CASE (\E q \in Quest : AdminCreate(q)) \/ (\E t \in Table : Expire(t))
  BY <1>2, IdleFresh DEF AdminCreate, Expire, characterVars, rowVars, statVars
<1>3. CASE Crash
  BY <1>3, CrashFresh
<1>4. ASSUME NEW p \in Proc, DbError(p) \/ AddRewards(p) \/ LockRow(p) \/ RecalculateStats(p)
                               \/ RecalculateBase(p) \/ RecalculateGear(p)
                               \/ \E c \in Character : EquipmentChanged(p, c)
      PROVE  FreshIInv'
  BY <1>4, ErrorFresh, GrantFresh, LockFresh, StatsWritten, BaseFresh, EquipFresh
<1>5. ASSUME NEW p \in Proc,
             \/ \E u \in User, c \in Character, q \in Quest : AcceptQuestHandler(p, u, c, q)
             \/ \E c \in Character, v \in Victim : RewardKill(p, c, v)
             \/ \E c \in Character, v \in Victim, n \in Amounts : UpdateQuestProgressHandler(p, c, v, n)
             \/ \E t \in Table, content \in Content : CreateLootTable(p, t, content)
             \/ SaveAccepted(p) \/ FetchQuests(p) \/ NoMoreQuests(p) \/ GrantItems(p)
             \/ \E q \in Quest : SaveProgress(p, q) \/ FinishQuest(p, q)
             \/ FindTable(p) \/ GetLootTable(p) \/ FillCache(p) \/ RollLoot(p) \/ Invalidate(p)
      PROVE  FreshIInv'
  BY <1>5, UntouchedSteps, UntouchedFresh
<1>6. CASE Next
  BY <1>2, <1>3, <1>4, <1>5, <1>6 DEF Next, Step
<1> QED  BY <1>1, <1>6

\* The cached stats of a character are those of its base stats and equipment
\* whenever no recalculation is due, unless two of them overlapped or one was lost,
\* for any numbers of goroutines and characters and any curve (service.go:115-192).
THEOREM StatsAreFresh == Spec => []StatsFresh
<1>1. Init => FreshIInv
  <2> SUFFICES ASSUME Init PROVE FreshIInv
    OBVIOUS
  <2>1. Rowed /\ \A p \in Proc : Locked(p)
    BY DEF Init, CharacterInit, RowsInit, Rowed, Locked
  <2>2. ASSUME NEW c \in Character PROVE Current(c)
    <3>1. Recalculating(c) = {}
      BY DEF Init, Recalculating
    <3>2. derived[c] = [base |-> rows[c].base, worn |-> worn[c]]
      BY DEF Init, CharacterInit, RowsInit, NewCharacter
    <3> QED  BY <3>1, <3>2 DEF Current
  <2> QED  BY <2>1, <2>2, FreshParts
<1>2. ProgressIInv /\ FreshIInv /\ [Next]_vars => FreshIInv'
  BY NextFresh
<1>3. FreshIInv => StatsFresh
  BY DEF FreshIInv
<1> QED  BY <1>1, <1>2, <1>3, ProgressInvariant, PTL DEF Spec


-----------------------------------------------------------------------------
\* Quest progress.

\* A call of amount n has n units.
LEMMA UnitsOfOne ==
    ASSUME NEW p, NEW n \in Nat
    PROVE  IsFiniteSet({p} \X (1 .. n)) /\ Cardinality({p} \X (1 .. n)) = n
<1>1. IsFiniteSet({p}) /\ Cardinality({p}) = 1
  BY FS_Singleton
<1>2. IsFiniteSet(1 .. n) /\ Cardinality(1 .. n) = n
  BY FS_Interval
<1>3. IsFiniteSet({p} \X (1 .. n)) /\ Cardinality({p} \X (1 .. n)) = 1 * n
  <2> DEFINE S == {p}
             T == 1 .. n
  <2>1. IsFiniteSet(S) /\ IsFiniteSet(T) /\ Cardinality(S) = 1 /\ Cardinality(T) = n
    BY <1>1, <1>2
  <2> HIDE DEF S, T
  <2>2. IsFiniteSet(S \X T) /\ Cardinality(S \X T) = Cardinality(S) * Cardinality(T)
    BY <2>1, FS_Product
  <2> QED  BY <2>1, <2>2 DEF S, T
<1> QED  BY <1>3

\* Two disjoint sets of units.
LEMMA DisjointUnits ==
    ASSUME NEW S, NEW T, IsFiniteSet(S), IsFiniteSet(T), S \cap T = {}
    PROVE  /\ IsFiniteSet(S \cup T) /\ Cardinality(S) \in Nat /\ Cardinality(T) \in Nat
           /\ Cardinality(S \cup T) = Cardinality(S) + Cardinality(T)
<1>1. Cardinality(S \cap T) = 0
  BY FS_EmptySet
<1>2. /\ IsFiniteSet(S \cup T)
      /\ Cardinality(S \cup T) = Cardinality(S) + Cardinality(T) - Cardinality(S \cap T)
  BY FS_Union
<1>3. Cardinality(S) \in Nat /\ Cardinality(T) \in Nat
  BY FS_CardinalityType
<1> QED  BY <1>1, <1>2, <1>3

\* The units of one call, and of all the outstanding ones.
UnitsOf(p) == {p} \X (1 .. loc[p].amount)

\* Each unit belongs to an outstanding call.
LEMMA UnitsOwned ==
    ASSUME NEW c, NEW v, NEW q, NEW x
    PROVE  x \in Units(c, v, q) <=> \E p \in Outstanding(c, v, q) : x \in UnitsOf(p)
  BY DEF Units, UnitsOf

\* A goroutine that is outstanding after a step was so before.
Narrows(p) ==
    \A c \in Character, v \in Victim, q \in Quest :
        p \in Outstanding(c, v, q)' => p \in Outstanding(c, v, q) /\ loc'[p].amount = loc[p].amount

\* Without a call that begins, units are only used up.
LEMMA FewerUnits ==
    ASSUME NEW c \in Character, NEW v \in Victim, NEW q \in Quest, IsFiniteSet(Units(c, v, q)),
           \A p \in Proc : Narrows(p)
    PROVE  /\ Units(c, v, q)' \subseteq Units(c, v, q)
           /\ IsFiniteSet(Units(c, v, q)') /\ IsFiniteSet(Units(c, v, q))
           /\ Cardinality(Units(c, v, q)') \in Nat /\ Cardinality(Units(c, v, q)) \in Nat
           /\ Cardinality(Units(c, v, q)') <= Cardinality(Units(c, v, q))
<1>1. ASSUME NEW x \in Units(c, v, q)' PROVE x \in Units(c, v, q)
  <2>1. PICK p \in Outstanding(c, v, q)' : x \in UnitsOf(p)'
    BY <1>1 DEF Units, UnitsOf
  <2>2. p \in Proc
    BY <2>1 DEF Outstanding
  <2>3. p \in Outstanding(c, v, q) /\ UnitsOf(p)' = UnitsOf(p)
    BY <2>1, <2>2 DEF Narrows, UnitsOf
  <2> QED  BY <2>1, <2>3, UnitsOwned
<1>2. Units(c, v, q)' \in SUBSET Units(c, v, q)
  BY <1>1
<1>3. IsFiniteSet(Units(c, v, q)') /\ Cardinality(Units(c, v, q)') <= Cardinality(Units(c, v, q))
  BY <1>2, FS_Subset
<1> QED  BY <1>2, <1>3, FS_CardinalityType

\* A call that is dealt with takes its units along.
LEMMA UnitsSpent ==
    ASSUME NEW c \in Character, NEW v \in Victim, NEW q \in Quest, IsFiniteSet(Units(c, v, q)),
           \A r \in Proc : Narrows(r), NEW p \in Outstanding(c, v, q), p \notin Outstanding(c, v, q)',
           loc[p].amount \in Nat
    PROVE  Cardinality(Units(c, v, q)') + loc[p].amount <= Cardinality(Units(c, v, q))
<1> DEFINE n == loc[p].amount
           U == Units(c, v, q)
           V == Units(c, v, q)'
<1>1. V \subseteq U /\ IsFiniteSet(V)
  BY FewerUnits
<1>2. UnitsOf(p) \subseteq U
  BY UnitsOwned
<1>3. V \cap UnitsOf(p) = {}
  <2> SUFFICES ASSUME NEW x \in V, x \in UnitsOf(p) PROVE FALSE
    OBVIOUS
  <2>1. PICK r \in Outstanding(c, v, q)' : x \in UnitsOf(r)'
    BY DEF Units, UnitsOf
  <2>2. r = p
    BY <2>1 DEF UnitsOf
  <2> QED  BY <2>1, <2>2
<1>4. IsFiniteSet(UnitsOf(p)) /\ Cardinality(UnitsOf(p)) = n
  BY UnitsOfOne DEF UnitsOf
<1>5. V \cup UnitsOf(p) \in SUBSET U
  BY <1>1, <1>2
<1> HIDE DEF U, V, n
<1>6. Cardinality(V \cup UnitsOf(p)) = Cardinality(V) + n
  BY <1>1, <1>3, <1>4, DisjointUnits
<1>7. Cardinality(V \cup UnitsOf(p)) <= Cardinality(U)
  BY <1>5, FS_Subset DEF U
<1> QED  BY <1>6, <1>7 DEF U, V, n

\* A call that begins brings its units.
LEMMA UnitsAsked ==
    ASSUME NEW c \in Character, NEW v \in Victim, NEW q \in Quest, IsFiniteSet(Units(c, v, q)),
           NEW p \in Proc, NEW n \in Nat, Alone(p), p \notin Outstanding(c, v, q),
           p \in Outstanding(c, v, q)', loc'[p].amount = n
    PROVE  /\ IsFiniteSet(Units(c, v, q)') /\ Cardinality(Units(c, v, q)) \in Nat
           /\ Cardinality(Units(c, v, q)') = Cardinality(Units(c, v, q)) + n
<1> DEFINE U == Units(c, v, q)
           T == {p} \X (1 .. n)
<1>1. Outstanding(c, v, q)' = Outstanding(c, v, q) \cup {p}
  BY DEF Outstanding, Alone, At
<1>2. \A r \in Outstanding(c, v, q) : r \in Proc /\ r # p /\ loc'[r].amount = loc[r].amount
  BY DEF Outstanding, Alone
<1>3. Units(c, v, q)' = U \cup T
  <2>1. ASSUME NEW x PROVE x \in Units(c, v, q)' <=> x \in U \/ x \in T
    <3>1. x \in Units(c, v, q)' <=> \E r \in Outstanding(c, v, q)' : x \in {r} \X (1 .. loc'[r].amount)
      BY DEF Units
    <3>2. x \in U <=> \E r \in Outstanding(c, v, q) : x \in {r} \X (1 .. loc[r].amount)
      BY UnitsOwned DEF UnitsOf
    <3> QED  BY <1>1, <1>2, <3>1, <3>2
  <2> QED  BY <2>1
<1>4. U \cap T = {}
  <2> SUFFICES ASSUME NEW x \in U, x \in T PROVE FALSE
    OBVIOUS
  <2>1. PICK r \in Outstanding(c, v, q) : x \in UnitsOf(r)
    BY UnitsOwned
  <2>2. r = p
    BY <2>1 DEF UnitsOf
  <2> QED  BY <2>1, <2>2
<1>5. IsFiniteSet(T) /\ Cardinality(T) = n
  BY UnitsOfOne
<1> HIDE DEF U, T
<1>6. IsFiniteSet(U)
  BY DEF U
<1>7. /\ IsFiniteSet(U \cup T) /\ Cardinality(U) \in Nat
      /\ Cardinality(U \cup T) = Cardinality(U) + Cardinality(T)
  BY <1>4, <1>5, <1>6, DisjointUnits
<1> QED  BY <1>3, <1>5, <1>7 DEF U


\* What is known of the row of a quest.
Backed(c, q, row) ==
    row # NoQuest =>
       /\ Covered(c, q, row)
       /\ row.status = "COMPLETED" =>
             \A i \in 1 .. Len(Steps[q]) : work[c][Steps[q][i].target] >= Steps[q][i].count

\* The steps at which a call may hold rows it has listed.
Busy == {"next", "lock", "grant", "base", "gear", "stats", "items"}

\* What is known of the rows that goroutine p holds.
Grasped(p) ==
    \A q \in Quest :
        loc[p].seen[q] # NoQuest =>
           /\ pc[p] \in Busy /\ Steps[q][loc[p].seen[q].step].target = loc[p].target
           /\ Covered(loc[p].char, q, loc[p].seen[q])

\* The parts of the invariant before a step.
LEMMA EarnedParts ==
    ASSUME EarnedIInv
    PROVE  /\ work \in [Character -> [Victim -> Nat]]
           /\ \A c \in Character, v \in Victim, q \in Quest :
                 IsFiniteSet(Units(c, v, q)) /\ Cardinality(Units(c, v, q)) <= work[c][v]
           /\ \A c \in Character, q \in Quest : Backed(c, q, log[c][q])
           /\ \A p \in Proc : Grasped(p)
  BY DEF EarnedIInv, Backed, Grasped, Busy, ProgressEarned

\* And after it.
LEMMA EarnedFrom ==
    ASSUME QuestTypeOK', work' \in [Character -> [Victim -> Nat]],
           \A c \in Character, v \in Victim, q \in Quest :
              IsFiniteSet(Units(c, v, q)') /\ Cardinality(Units(c, v, q)') <= work'[c][v],
           \A c \in Character, q \in Quest : Backed(c, q, log[c][q])',
           \A p \in Proc : Grasped(p)'
    PROVE  EarnedIInv'
<1>1. ASSUME NEW c \in Character, NEW q \in Quest, log'[c][q] # NoQuest, NEW i \in 1 .. Len(Steps[q])
      PROVE  /\ log'[c][q].progress[i] <= work'[c][Steps[q][i].target]
             /\ log'[c][q].status = "COMPLETED" => work'[c][Steps[q][i].target] >= Steps[q][i].count
  <2> DEFINE v == Steps[q][i].target
  <2>1. v \in Victim
    BY TargetsAreVictims
  <2>2. log'[c][q] \in QuestRow(q)
    BY <1>1, QuestersAreCharacters DEF QuestTypeOK
  <2>3. log'[c][q].progress[i] \in Nat
    BY <2>2 DEF QuestRow
  <2>4. /\ log'[c][q].progress[i] + Cardinality(Units(c, v, q)') <= work'[c][v]
        /\ log'[c][q].status = "COMPLETED" => work'[c][v] >= Steps[q][i].count
    BY <1>1 DEF Backed, Covered
  <2>5. Cardinality(Units(c, v, q)') \in Nat /\ work'[c][v] \in Nat
    BY <2>1, FS_CardinalityType
  <2> QED  BY <2>3, <2>4, <2>5
<1>2. ProgressEarned'
  BY <1>1 DEF ProgressEarned
<1>3. \A c \in Character, q \in Quest : log'[c][q] # NoQuest => Covered(c, q, log[c][q])'
  BY DEF Backed
<1>4. \A p \in Proc, q \in Quest :
         loc'[p].seen[q] # NoQuest =>
             /\ pc'[p] \in {"next", "lock", "grant", "base", "gear", "stats", "items"}
             /\ Steps[q][loc'[p].seen[q].step].target = loc'[p].target
             /\ Covered(loc[p].char, q, loc[p].seen[q])'
  BY DEF Grasped, Busy
<1> QED  BY <1>2, <1>3, <1>4 DEF EarnedIInv

\* A covered row stays covered while no call begins.
LEMMA CoveredKept ==
    ASSUME EarnedIInv, NEW c \in Character, NEW q \in Quest, NEW row \in QuestRow(q), Covered(c, q, row),
           work' = work, \A p \in Proc : Narrows(p)
    PROVE  Covered(c, q, row)'
<1> SUFFICES ASSUME NEW i \in 1 .. Len(Steps[q])
             PROVE  row.progress[i] + Cardinality(Units(c, Steps[q][i].target, q)')
                      <= work'[c][Steps[q][i].target]
  BY DEF Covered
<1> DEFINE v == Steps[q][i].target
<1>1. v \in Victim
  BY TargetsAreVictims
<1>2. IsFiniteSet(Units(c, v, q)) /\ work[c][v] \in Nat
  BY <1>1, EarnedParts
<1>3. /\ Cardinality(Units(c, v, q)') \in Nat /\ Cardinality(Units(c, v, q)) \in Nat
      /\ Cardinality(Units(c, v, q)') <= Cardinality(Units(c, v, q))
  BY <1>1, <1>2, FewerUnits
<1>4. row.progress[i] + Cardinality(Units(c, v, q)) <= work[c][v] /\ row.progress[i] \in Nat
  BY DEF Covered, QuestRow
<1> QED  BY <1>2, <1>3, <1>4

\* A goroutine that gives no row or unit up but by dealing with it.
Keeps(p) ==
    /\ pc'[p] = "list" => pc[p] = "list" /\ loc'[p] = loc[p]
    /\ \A q \in Quest : loc'[p].seen[q] # NoQuest =>
          /\ pc'[p] \in Busy /\ loc'[p].seen[q] = loc[p].seen[q] /\ loc'[p].char = loc[p].char
          /\ loc'[p].target = loc[p].target /\ loc'[p].amount = loc[p].amount

\* Who keeps its rows does not become outstanding.
LEMMA KeepsNarrows ==
    ASSUME NEW p \in Proc, Keeps(p)
    PROVE  Narrows(p)
  BY DEF Keeps, Narrows, Outstanding, At

\* A step of one goroutine takes nothing from the others.
LEMMA OthersKeep ==
    ASSUME EarnedIInv, NEW p \in Proc, Alone(p)
    PROVE  \A r \in Proc : r # p => Keeps(r)
<1>1. \A r \in Proc : Grasped(r)
  BY EarnedParts
<1> QED  BY <1>1 DEF Alone, Keeps, Grasped

\* Rows that are kept are still covered.
LEMMA KeepsGrasped ==
    ASSUME ProgressIInv, EarnedIInv, NEW p \in Proc, Keeps(p), work' = work, \A r \in Proc : Narrows(r)
    PROVE  Grasped(p)'
<1> SUFFICES ASSUME NEW q \in Quest, loc'[p].seen[q] # NoQuest
             PROVE  /\ pc'[p] \in Busy /\ Steps[q][loc'[p].seen[q].step].target = loc'[p].target
                    /\ Covered(loc[p].char, q, loc[p].seen[q])'
  BY DEF Grasped
<1>1. /\ pc'[p] \in Busy /\ loc'[p].seen[q] = loc[p].seen[q] /\ loc'[p].char = loc[p].char
      /\ loc'[p].target = loc[p].target
  BY DEF Keeps
<1>2. /\ pc[p] \in Busy /\ Steps[q][loc[p].seen[q].step].target = loc[p].target
      /\ Covered(loc[p].char, q, loc[p].seen[q])
  BY <1>1, EarnedParts DEF Grasped
<1>3. loc[p].char \in Character /\ loc[p].seen[q] \in QuestRow(q)
  BY <1>1, <1>2, AllReady DEF Ready, Held, Listed, Busy
<1>4. PICK c \in Character : c = loc[p].char
  BY <1>3
<1>5. PICK row \in QuestRow(q) : row = loc[p].seen[q]
  BY <1>3
<1>6. Covered(c, q, row)'
  BY <1>2, <1>4, <1>5, CoveredKept
<1> QED  BY <1>1, <1>2, <1>4, <1>5, <1>6 DEF Covered

\* Steps in which no call begins.
LEMMA NarrowEarned ==
    ASSUME QuestTypeOK', EarnedIInv, work' = work, \A p \in Proc : Narrows(p) /\ Grasped(p)',
           \A c \in Character, q \in Quest : Backed(c, q, log[c][q])'
    PROVE  EarnedIInv'
<1>1. ASSUME NEW c \in Character, NEW v \in Victim, NEW q \in Quest
      PROVE  IsFiniteSet(Units(c, v, q)') /\ Cardinality(Units(c, v, q)') <= work'[c][v]
  <2>1. IsFiniteSet(Units(c, v, q)) /\ Cardinality(Units(c, v, q)) <= work[c][v] /\ work[c][v] \in Nat
    BY EarnedParts
  <2>2. /\ IsFiniteSet(Units(c, v, q)')
        /\ Cardinality(Units(c, v, q)') \in Nat /\ Cardinality(Units(c, v, q)) \in Nat
        /\ Cardinality(Units(c, v, q)') <= Cardinality(Units(c, v, q))
    BY <2>1, FewerUnits
  <2> QED  BY <2>1, <2>2
<1>2. work' \in [Character -> [Victim -> Nat]]
  BY EarnedParts
<1> QED  BY <1>1, <1>2, EarnedFrom

\* Steps in which no row is listed either.
LEMMA KeptEarned ==
    ASSUME ProgressIInv, QuestTypeOK', EarnedIInv, work' = work, \A p \in Proc : Keeps(p),
           \A c \in Character, q \in Quest : Backed(c, q, log[c][q])'
    PROVE  EarnedIInv'
<1>1. \A p \in Proc : Narrows(p)
  BY KeepsNarrows
<1>2. \A p \in Proc : Grasped(p)'
  BY <1>1, KeepsGrasped
<1> QED  BY <1>1, <1>2, NarrowEarned

\* A row that is not written stays backed.
LEMMA BackedKept ==
    ASSUME ProgressIInv, EarnedIInv, NEW c \in Character, NEW q \in Quest, log'[c][q] = log[c][q],
           work' = work, \A p \in Proc : Narrows(p)
    PROVE  Backed(c, q, log[c][q])'
<1> SUFFICES ASSUME log[c][q] # NoQuest
             PROVE  Backed(c, q, log[c][q])'
  BY DEF Backed
<1>1. PICK row \in QuestRow(q) : row = log[c][q]
  BY QuestersAreCharacters DEF ProgressIInv, TypeOK, QuestTypeOK
<1>2. /\ Covered(c, q, row)
      /\ row.status = "COMPLETED" =>
            \A i \in 1 .. Len(Steps[q]) : work[c][Steps[q][i].target] >= Steps[q][i].count
  BY <1>1, EarnedParts DEF Backed
<1>3. Covered(c, q, row)'
  BY <1>2, CoveredKept
<1> QED  BY <1>1, <1>2, <1>3 DEF Backed, Covered

\* Steps that leave the quest log alone as well.
LEMMA QuietEarned ==
    ASSUME ProgressIInv, QuestTypeOK', EarnedIInv, work' = work, \A p \in Proc : Keeps(p), log' = log
    PROVE  EarnedIInv'
<1>1. \A p \in Proc : Narrows(p)
  BY KeepsNarrows
<1>2. \A c \in Character, q \in Quest : Backed(c, q, log[c][q])'
  BY <1>1, BackedKept
<1> QED  BY <1>2, KeptEarned


\* A call that ends.
LEMMA FinishKeeps ==
    ASSUME ProgressIInv, NEW p \in Proc, Finish(p)
    PROVE  Alone(p) /\ Keeps(p)
<1>1. pc'[p] = "idle" /\ loc'[p] = NoCall /\ Alone(p)
  BY FinishMoves, MovesAlone DEF Ready
<1>2. \A q \in Quest : NoCall.seen[q] = NoQuest
  BY DEF NoCall, NoQuestRows
<1> QED  BY <1>1, <1>2 DEF Keeps

\* A call that leaves its quests.
LEMMA LeaveKeeps ==
    ASSUME ProgressIInv, NEW p \in Proc, LeaveQuests(p)
    PROVE  Alone(p) /\ Keeps(p)
<1>1. pc'[p] = "loot" /\ loc'[p].seen = NoQuestRows /\ Alone(p)
  BY DEF LeaveQuests, Goto, Alone, ProgressIInv, TypeOK, Call
<1>2. \A q \in Quest : NoQuestRows[q] = NoQuest
  BY DEF NoQuestRows
<1> QED  BY <1>1, <1>2 DEF Keeps

\* A call that returns from AddRewards.
LEMMA BackKeeps ==
    ASSUME ProgressIInv, NEW p \in Proc, Back(p)
    PROVE  Alone(p) /\ Keeps(p)
<1>1. CASE loc[p].ret = "idle"
  BY <1>1, FinishKeeps DEF Back
<1>2. CASE loc[p].ret # "idle"
  <2>1. loc[p].ret = "items" /\ loc[p] \in Call
    BY <1>2 DEF ProgressIInv, TypeOK, Call
  <2>2. /\ pc'[p] = "items" /\ Alone(p)
        /\ loc'[p] = [loc[p] EXCEPT !.gold = 0, !.exp = 0, !.gear = 0]
    BY <2>1 DEF Back, Goto, Alone, ProgressIInv, TypeOK
  <2>3. /\ loc'[p].seen = loc[p].seen /\ loc'[p].char = loc[p].char
        /\ loc'[p].target = loc[p].target /\ loc'[p].amount = loc[p].amount
    BY <2>1, <2>2 DEF Call
  <2> QED  BY <2>2, <2>3 DEF Keeps, Busy
<1> QED  BY <1>1, <1>2

\* A call that keeps its rows.
LEMMA RowsKept ==
    ASSUME NEW p \in Proc, pc'[p] \in Busy, loc'[p].seen = loc[p].seen, loc'[p].char = loc[p].char,
           loc'[p].target = loc[p].target, loc'[p].amount = loc[p].amount
    PROVE  Keeps(p)
  BY DEF Keeps, Busy

\* A call that has no rows.
LEMMA NoRowsKept ==
    ASSUME EarnedIInv, NEW p \in Proc, pc[p] \notin Busy, pc'[p] # "list", loc'[p].seen = loc[p].seen
    PROVE  Keeps(p)
  BY EarnedParts DEF Grasped, Keeps

\* The steps that neither begin a call on a quest nor list or write a row.
LEMMA QuietKeeps ==
    ASSUME NEW p \in Proc, ProgressIInv, EarnedIInv,
           \/ \E u \in User, c \in Character, q \in Quest : AcceptQuestHandler(p, u, c, q)
           \/ \E c \in Character : EquipmentChanged(p, c)
           \/ \E t \in Table, content \in Content : CreateLootTable(p, t, content)
           \/ NoMoreQuests(p) \/ GrantItems(p) \/ LockRow(p) \/ AddRewards(p)
           \/ RecalculateBase(p) \/ RecalculateGear(p) \/ RecalculateStats(p)
           \/ FindTable(p) \/ GetLootTable(p) \/ FillCache(p) \/ RollLoot(p) \/ Invalidate(p)
           \/ DbError(p)
    PROVE  Alone(p) /\ Keeps(p) /\ log' = log /\ work' = work
<1> DEFINE Fine == Alone(p) /\ Keeps(p) /\ log' = log /\ work' = work
<1>0. loc[p] \in Call
  BY DEF ProgressIInv, TypeOK
<1> USE DEF Goto, At, questVars, obsVars
<1>1. ASSUME NEW u \in User, NEW c \in Character, NEW q \in Quest, AcceptQuestHandler(p, u, c, q) PROVE Fine
  <2>1. /\ pc[p] = "idle" /\ pc'[p] = "accept" /\ Alone(p) /\ log' = log /\ work' = work
        /\ loc'[p].seen = loc[p].seen
    BY <1>1 DEF AcceptQuestHandler, ProgressIInv, TypeOK, Alone, Call
  <2> QED  BY <2>1, NoRowsKept DEF Busy
<1>2. ASSUME NEW c \in Character, EquipmentChanged(p, c) PROVE Fine
  <2>1. /\ pc[p] = "idle" /\ pc'[p] = "base" /\ Alone(p) /\ log' = log /\ work' = work
        /\ loc'[p].seen = loc[p].seen
    BY <1>2 DEF EquipmentChanged, ProgressIInv, TypeOK, Alone, Call
  <2> QED  BY <2>1, NoRowsKept DEF Busy
<1>3. ASSUME NEW t \in Table, NEW content \in Content, CreateLootTable(p, t, content) PROVE Fine
  <2>1. /\ pc[p] = "idle" /\ pc'[p] = "invalidate" /\ Alone(p) /\ log' = log /\ work' = work
        /\ loc'[p].seen = loc[p].seen
    BY <1>3 DEF CreateLootTable, ProgressIInv, TypeOK, Alone, Call
  <2> QED  BY <2>1, NoRowsKept DEF Busy
<1>4. ASSUME NoMoreQuests(p) PROVE Fine
  BY <1>4, LeaveKeeps DEF NoMoreQuests
<1>5. ASSUME GrantItems(p) PROVE Fine
  <2>1. /\ pc'[p] = "next" /\ Alone(p) /\ log' = log /\ work' = work
        /\ loc'[p] = [loc[p] EXCEPT !.quest = NoQuest, !.ret = "idle"]
    BY <1>5 DEF GrantItems, ProgressIInv, TypeOK, Alone
  <2>2. /\ loc'[p].seen = loc[p].seen /\ loc'[p].char = loc[p].char
        /\ loc'[p].target = loc[p].target /\ loc'[p].amount = loc[p].amount
    BY <1>0, <2>1 DEF Call
  <2> QED  BY <2>1, <2>2, RowsKept DEF Busy
<1>6. ASSUME LockRow(p) \/ RecalculateBase(p) PROVE Fine
  <2>1. pc'[p] \in {"grant", "gear"} /\ Alone(p) /\ log' = log /\ work' = work /\ loc' = loc
    BY <1>6 DEF LockRow, RecalculateBase, ProgressIInv, TypeOK, Alone
  <2> QED  BY <2>1, RowsKept DEF Busy
<1>7. ASSUME AddRewards(p) PROVE Fine
  <2>1. log' = log /\ work' = work
    BY <1>7 DEF AddRewards
  <2>2. CASE leveledUp(p, loc[p].exp)
    <3>1. pc'[p] = "base" /\ Alone(p) /\ loc' = loc
      BY <1>7, <2>2 DEF AddRewards, ProgressIInv, TypeOK, Alone
    <3> QED  BY <2>1, <3>1, RowsKept DEF Busy
  <2>3. CASE ~leveledUp(p, loc[p].exp)
    BY <1>7, <2>1, <2>3, BackKeeps DEF AddRewards
  <2> QED  BY <2>2, <2>3
<1>8. ASSUME RecalculateGear(p) PROVE Fine
  <2>1. /\ pc'[p] = "stats" /\ Alone(p) /\ log' = log /\ work' = work
        /\ loc'[p] = [loc[p] EXCEPT !.gear = GetEquippedModifiers(loc[p].char)]
    BY <1>8 DEF RecalculateGear, ProgressIInv, TypeOK, Alone
  <2>2. /\ loc'[p].seen = loc[p].seen /\ loc'[p].char = loc[p].char
        /\ loc'[p].target = loc[p].target /\ loc'[p].amount = loc[p].amount
    BY <1>0, <2>1 DEF Call
  <2> QED  BY <2>1, <2>2, RowsKept DEF Busy
<1>9. ASSUME RecalculateStats(p) PROVE Fine
  BY <1>9, BackKeeps DEF RecalculateStats
<1>10. ASSUME FindTable(p) \/ GetLootTable(p) \/ FillCache(p) PROVE Fine
  <2>1. CASE Finish(p) /\ log' = log /\ work' = work
    BY <2>1, FinishKeeps
  <2>2. CASE ~Finish(p)
    <3>1. /\ pc[p] \in {"loot", "table", "fill"} /\ pc'[p] \in {"roll", "table", "fill"}
          /\ Alone(p) /\ log' = log /\ work' = work
          /\ loc'[p].seen = loc[p].seen
      BY <1>10, <2>2 DEF FindTable, GetLootTable, FillCache, ProgressIInv, TypeOK, Alone, Call
    <3> QED  BY <3>1, NoRowsKept DEF Busy
  <2>3. log' = log /\ work' = work
    BY <1>10 DEF FindTable, GetLootTable, FillCache
  <2> QED  BY <2>1, <2>2, <2>3
<1>11. ASSUME RollLoot(p) PROVE Fine
  <2>1. log' = log /\ work' = work /\ pc[p] = "roll"
    BY <1>11 DEF RollLoot
  <2>2. CASE Finish(p)
    BY <2>1, <2>2, FinishKeeps
  <2>3. CASE ~Finish(p)
    <3>1. pc'[p] = "lock" /\ Alone(p) /\ loc'[p].seen = loc[p].seen
      BY <1>11, <2>3 DEF RollLoot, ProgressIInv, TypeOK, Alone, Call
    <3> QED  BY <2>1, <3>1, NoRowsKept DEF Busy
  <2> QED  BY <2>2, <2>3
<1>12. ASSUME Invalidate(p) PROVE Fine
  BY <1>12, FinishKeeps DEF Invalidate
<1>13. ASSUME DbError(p) PROVE Fine
  BY <1>13, LeaveKeeps, FinishKeeps, BackKeeps DEF DbError
<1> HIDE DEF Goto, At, questVars, obsVars
<1> QED  BY <1>1, <1>2, <1>3, <1>4, <1>5, <1>6, <1>7, <1>8, <1>9, <1>10, <1>11, <1>12, <1>13


\* The rows that match are listed.
LEMMA FetchEarned ==
    ASSUME ProgressIInv, QuestTypeOK', EarnedIInv, NEW p \in Proc, FetchQuests(p)
    PROVE  EarnedIInv'
<1> DEFINE g == loc[p].char
<1>1. Ready(p) /\ loc[p] \in Call /\ pc[p] = "list" /\ pc'[p] = "next" /\ Alone(p) /\ log' = log /\ work' = work
  BY AllReady DEF FetchQuests, Ready, Goto, At, Alone, ProgressIInv, TypeOK, questVars, obsVars
<1>2. /\ loc'[p].char = g /\ loc'[p].target = loc[p].target /\ loc'[p].amount = loc[p].amount
      /\ \A q \in Quest : loc'[p].seen[q] # NoQuest =>
            loc'[p].seen[q] = log[g][q] /\ Matches(q, log[g][q], loc[p].target)
  <2> DEFINE s == [q \in Quest |-> IF IsActive(log[g][q]) /\ Matches(q, log[g][q], loc[p].target)
                                   THEN log[g][q] ELSE NoQuest]
             r == loc[p]
             w == loc'[p]
  <2>1. w = [r EXCEPT !.seen = s] /\ r \in Call
    BY <1>1 DEF FetchQuests, ListCharacterQuests, ProgressIInv, TypeOK
  <2>2. \A q \in Quest : s[q] # NoQuest => s[q] = log[g][q] /\ Matches(q, log[g][q], loc[p].target)
    OBVIOUS
  <2> HIDE DEF s, r, w
  <2>3. w.char = r.char /\ w.target = r.target /\ w.amount = r.amount /\ w.seen = s
    BY <2>1 DEF Call
  <2> QED  BY <2>2, <2>3 DEF r, w
<1>3. PICK c \in Character : c = g
  BY <1>1 DEF Ready, Held
<1>4. \A r \in Proc : r # p => Keeps(r)
  BY <1>1, OthersKeep
<1>5. \A r \in Proc : Narrows(r)
  <2>1. Narrows(p)
    BY <1>1, <1>2 DEF Narrows, Outstanding, At
  <2> QED  BY <1>4, <2>1, KeepsNarrows
<1>6. Grasped(p)'
  <2> SUFFICES ASSUME NEW q \in Quest, loc'[p].seen[q] # NoQuest
               PROVE  /\ pc'[p] \in Busy /\ Steps[q][loc'[p].seen[q].step].target = loc'[p].target
                      /\ Covered(loc[p].char, q, loc[p].seen[q])'
    BY DEF Grasped
  <2>1. loc'[p].seen[q] = log[c][q] /\ log[c][q] # NoQuest
    BY <1>2, <1>3
  <2>2. PICK row \in QuestRow(q) : row = log[c][q]
    BY <2>1, QuestersAreCharacters DEF ProgressIInv, TypeOK, QuestTypeOK
  <2>3. Covered(c, q, row)
    BY <2>1, <2>2, EarnedParts DEF Backed
  <2>4. Covered(c, q, row)'
    BY <1>1, <1>5, <2>3, CoveredKept
  <2>5. Covered(loc[p].char, q, loc[p].seen[q])'
    BY <1>2, <1>3, <2>1, <2>2, <2>4 DEF Covered
  <2>6. Steps[q][loc'[p].seen[q].step].target = loc'[p].target
    BY <1>2 DEF Matches
  <2> QED  BY <1>1, <2>5, <2>6 DEF Busy
<1>7. \A r \in Proc : Grasped(r)'
  BY <1>1, <1>4, <1>5, <1>6, KeepsGrasped
<1>8. \A d \in Character, q \in Quest : Backed(d, q, log[d][q])'
  BY <1>1, <1>5, BackedKept
<1> QED  BY <1>1, <1>5, <1>7, <1>8, NarrowEarned

\* The log after one row of it was written.
LEMMA WrittenBacked ==
    ASSUME ProgressIInv, EarnedIInv, work' = work, \A r \in Proc : Narrows(r),
           NEW c \in Character, NEW q \in Quest, NEW row \in QuestRow(q), log' = [log EXCEPT ![c][q] = row],
           Covered(c, q, row)',
           row.status = "COMPLETED" =>
             \A i \in 1 .. Len(Steps[q]) : work[c][Steps[q][i].target] >= Steps[q][i].count
    PROVE  \A d \in Character, x \in Quest : Backed(d, x, log[d][x])'
<1> SUFFICES ASSUME NEW d \in Character, NEW x \in Quest PROVE Backed(d, x, log[d][x])'
  OBVIOUS
<1>1. log'[d][x] = IF d = c /\ x = q THEN row ELSE log[d][x]
  BY QuestersAreCharacters DEF ProgressIInv, TypeOK, QuestTypeOK
<1>2. CASE d = c /\ x = q
  BY <1>1, <1>2 DEF Backed, Covered
<1>3. CASE ~(d = c /\ x = q)
  BY <1>1, <1>3, BackedKept
<1> QED  BY <1>2, <1>3

\* A new row.
LEMMA AcceptedEarned ==
    ASSUME ProgressIInv, QuestTypeOK', EarnedIInv, NEW p \in Proc, SaveAccepted(p)
    PROVE  EarnedIInv'
<1>1. /\ Finish(p) /\ work' = work /\ pc[p] = "accept"
      /\ InsertQuest(loc[p].char, loc[p].quest)
  BY DEF SaveAccepted, At, obsVars
<1>2. \A r \in Proc : Keeps(r)
  BY <1>1, FinishKeeps, OthersKeep
<1>3. \A r \in Proc : Narrows(r)
  BY <1>2, KeepsNarrows
<1>4. PICK c \in Character, q \in Quest : c = loc[p].char /\ q = loc[p].quest
  BY <1>1, AllReady DEF Ready, Held, ProgressIInv, TypeOK, QuestTypeOK
<1> DEFINE row == [status |-> "ACTIVE", step |-> 1, progress |-> NoProgress(q)]
<1>5. row \in QuestRow(q) /\ row.status = "ACTIVE" /\ \A i \in 1 .. Len(Steps[q]) : row.progress[i] = 0
  BY NewRow DEF NoProgress
<1>6. CASE log' = log
  BY <1>1, <1>2, <1>6, QuietEarned
<1>7. CASE log' # log
  <2>1. log' = [log EXCEPT ![c][q] = row]
    BY <1>1, <1>4, <1>7 DEF InsertQuest
  <2> HIDE DEF row
  <2>2. Covered(c, q, row)'
    <3> SUFFICES ASSUME NEW i \in 1 .. Len(Steps[q])
                 PROVE  row.progress[i] + Cardinality(Units(c, Steps[q][i].target, q)')
                          <= work'[c][Steps[q][i].target]
      BY DEF Covered
    <3> DEFINE v == Steps[q][i].target
    <3>1. v \in Victim
      BY TargetsAreVictims
    <3>2. /\ IsFiniteSet(Units(c, v, q)) /\ Cardinality(Units(c, v, q)) <= work[c][v]
          /\ work[c][v] \in Nat
      BY <3>1, EarnedParts
    <3>3. /\ Cardinality(Units(c, v, q)') \in Nat /\ Cardinality(Units(c, v, q)) \in Nat
          /\ Cardinality(Units(c, v, q)') <= Cardinality(Units(c, v, q))
      BY <1>3, <3>1, <3>2, FewerUnits
    <3>4. row.progress[i] = 0
      BY <1>5
    <3> QED  BY <1>1, <3>2, <3>3, <3>4
  <2>3. \A d \in Character, x \in Quest : Backed(d, x, log[d][x])'
    BY <1>1, <1>3, <1>5, <2>1, <2>2, WrittenBacked
  <2> QED  BY <1>1, <1>2, <2>3, KeptEarned
<1> QED  BY <1>6, <1>7

\* A call that deals with quest q keeps its other rows, and what it makes of this
\* one is covered.
LEMMA DealtWith ==
    ASSUME ProgressIInv, EarnedIInv, NEW p \in Proc, NEW q \in Quest, At(p, "next"), q \in Todo(p),
           Alone(p), pc'[p] \in Busy, loc'[p].seen = [loc[p].seen EXCEPT ![q] = NoQuest],
           loc'[p].char = loc[p].char, loc'[p].target = loc[p].target,
           loc'[p].amount = loc[p].amount, work' = work,
           NEW c \in Character, c = loc[p].char, NEW s \in QuestRow(q), s = loc[p].seen[q]
    PROVE  /\ \A r \in Proc : Keeps(r)
           /\ Covered(c, q, s) /\ Covered(c, q, s)'
           /\ s.progress[s.step] + loc[p].amount + Cardinality(Units(c, Steps[q][s.step].target, q)')
                <= work[c][Steps[q][s.step].target]
<1> DEFINE k == s.step
           v == Steps[q][k].target
           n == loc[p].amount
<1>1. loc[p] \in Call /\ n \in Nat /\ s # NoQuest
  BY Working, NoQuestIsNoRow
<1>2. \A x \in Quest : loc'[p].seen[x] = IF x = q THEN NoQuest ELSE loc[p].seen[x]
  BY <1>1 DEF Call
<1>3. pc'[p] # "list" /\ pc[p] = "next"
  BY DEF Busy, At
<1>4. Keeps(p)
  BY <1>2, <1>3 DEF Keeps
<1>5. \A r \in Proc : Keeps(r)
  BY <1>4, OthersKeep
<1>6. \A r \in Proc : Narrows(r)
  BY <1>5, KeepsNarrows
<1>7. Covered(c, q, s) /\ v = loc[p].target
  BY <1>1, EarnedParts DEF Grasped
<1>8. k \in 1 .. Len(Steps[q]) /\ s.progress[k] \in Nat
  BY DEF QuestRow
<1>9. v \in Victim
  BY <1>8, TargetsAreVictims
<1>10. p \in Outstanding(c, v, q) /\ p \notin Outstanding(c, v, q)'
  BY <1>1, <1>2, <1>3, <1>7 DEF Outstanding, At
<1>11. IsFiniteSet(Units(c, v, q)) /\ work[c][v] \in Nat
  BY <1>9, EarnedParts
<1>12. /\ Cardinality(Units(c, v, q)') + n <= Cardinality(Units(c, v, q))
       /\ Cardinality(Units(c, v, q)') \in Nat /\ Cardinality(Units(c, v, q)) \in Nat
  BY <1>1, <1>6, <1>9, <1>10, <1>11, UnitsSpent, FewerUnits
<1>13. s.progress[k] + Cardinality(Units(c, v, q)) <= work[c][v]
  BY <1>7, <1>8 DEF Covered
<1>14. s.progress[k] + n + Cardinality(Units(c, v, q)') <= work[c][v]
  <2> DEFINE a == s.progress[k]
             U == Cardinality(Units(c, v, q))
             V == Cardinality(Units(c, v, q)')
             W == work[c][v]
  <2>1. a \in Nat /\ n \in Nat /\ U \in Nat /\ V \in Nat /\ W \in Nat /\ V + n <= U /\ a + U <= W
    BY <1>1, <1>8, <1>11, <1>12, <1>13
  <2> HIDE DEF a, U, V, W, n
  <2>2. a + n + V <= W
    BY <2>1
  <2> QED  BY <2>2 DEF a, V, W
<1>15. Covered(c, q, s)'
  BY <1>6, <1>7, CoveredKept
<1> QED  BY <1>5, <1>7, <1>14, <1>15

\* Progress is saved.
LEMMA SaveEarned ==
    ASSUME ProgressIInv, QuestTypeOK', EarnedIInv, NEW p \in Proc, NEW q \in Quest, SaveProgress(p, q)
    PROVE  EarnedIInv'
<1> DEFINE new == Advance(q, loc[p].seen[q], loc[p].amount)
<1>0. /\ At(p, "next") /\ q \in Todo(p) /\ ~new.completed /\ work' = work
      /\ UpdateProgress(loc[p].char, q, new.step, new.progress)
      /\ IF IsActive(log[loc[p].char][q])
         THEN loc' = [loc EXCEPT ![p].seen[q] = NoQuest] /\ UNCHANGED pc
         ELSE LeaveQuests(p)
  BY DEF SaveProgress, obsVars
<1>1. /\ loc[p] \in Call /\ loc[p].char \in Character /\ loc[p].amount \in Nat
      /\ loc[p].seen[q] \in QuestRow(q) /\ Coherent(q, loc[p].seen[q])
  BY <1>0, Working, QuestersAreCharacters
<1>2. PICK c \in Character, s \in QuestRow(q), n \in Nat :
         c = loc[p].char /\ s = loc[p].seen[q] /\ n = loc[p].amount
  BY <1>1
<1>3. /\ new.step \in 1 .. Len(Steps[q]) /\ new.progress \in [1 .. Len(Steps[q]) -> Nat]
  BY <1>0, <1>1, AdvanceCoherent
<1>4. new.progress = [s.progress EXCEPT
                        ![s.step] = Smaller(s.progress[s.step] + n, Steps[q][s.step].count)]
  BY <1>2 DEF Advance
<1> HIDE DEF new
<1>5. CASE IsActive(log[c][q])
  <2>1. c \in Quester /\ QuestTypeOK /\ UpdateProgress(c, q, new.step, new.progress)
    BY <1>0, <1>2, QuestersAreCharacters DEF ProgressIInv, TypeOK
  <2>2. PICK row \in QuestRow(q) : /\ row.progress = new.progress /\ row.status = "ACTIVE"
                                   /\ log' = [log EXCEPT ![c][q] = row]
    BY <1>3, <1>5, <2>1, UpdatedRow
  <2>3. loc' = [loc EXCEPT ![p].seen[q] = NoQuest] /\ pc' = pc
    BY <1>0, <1>2, <1>5
  <2>4. Alone(p) /\ pc'[p] \in Busy /\ loc'[p] = [loc[p] EXCEPT !.seen[q] = NoQuest]
    BY <1>0, <2>3 DEF Alone, Busy, At, ProgressIInv, TypeOK
  <2>5. /\ loc'[p].seen = [loc[p].seen EXCEPT ![q] = NoQuest] /\ loc'[p].char = loc[p].char
        /\ loc'[p].target = loc[p].target /\ loc'[p].amount = loc[p].amount
    <3> DEFINE r == loc[p]
               w == loc'[p]
    <3>1. r \in Call /\ w = [r EXCEPT !.seen[q] = NoQuest]
      BY <1>1, <2>4
    <3> HIDE DEF r, w
    <3>2. /\ w.char = r.char /\ w.target = r.target /\ w.amount = r.amount
          /\ w.seen = [r.seen EXCEPT ![q] = NoQuest]
      BY <3>1 DEF Call
    <3> QED  BY <3>2 DEF r, w
  <2>6. /\ \A r \in Proc : Keeps(r)
        /\ Covered(c, q, s)'
        /\ s.progress[s.step] + n + Cardinality(Units(c, Steps[q][s.step].target, q)')
             <= work[c][Steps[q][s.step].target]
    BY <1>0, <1>2, <2>4, <2>5, DealtWith
  <2>7. \A r \in Proc : Narrows(r)
    BY <2>6, KeepsNarrows
  <2>8. Covered(c, q, row)'
    <3> SUFFICES ASSUME NEW i \in 1 .. Len(Steps[q])
                 PROVE  row.progress[i] + Cardinality(Units(c, Steps[q][i].target, q)')
                          <= work'[c][Steps[q][i].target]
      BY DEF Covered
    <3>1. s.progress \in [1 .. Len(Steps[q]) -> Nat] /\ s.step \in 1 .. Len(Steps[q])
      BY DEF QuestRow
    <3>2. CASE i = s.step
      <4> DEFINE v == Steps[q][i].target
                 U == Cardinality(Units(c, v, q)')
                 m == Steps[q][i].count
      <4>1. v \in Victim /\ m \in Nat
        BY TargetsAreVictims, QuestsHaveSteps
      <4>2. U \in Nat /\ work[c][v] \in Nat
        BY <2>7, <4>1, EarnedParts, FewerUnits
      <4>3. s.progress[i] + n + U <= work[c][v] /\ s.progress[i] \in Nat
        BY <2>6, <3>1, <3>2
      <4>4. row.progress[i] = Smaller(s.progress[i] + n, m)
        BY <1>4, <2>2, <3>1, <3>2
      <4>5. Smaller(s.progress[i] + n, m) <= s.progress[i] + n /\ Smaller(s.progress[i] + n, m) \in Nat
        BY <4>1, <4>3 DEF Smaller
      <4> HIDE DEF U, m
      <4>6. row.progress[i] + U <= work[c][v]
        BY <4>2, <4>3, <4>4, <4>5, SMTT(30)
      <4> QED  BY <1>0, <4>6 DEF U
    <3>3. CASE i # s.step
      <4>1. row.progress[i] = s.progress[i]
        BY <1>4, <2>2, <3>1, <3>3
      <4> QED  BY <2>6, <4>1 DEF Covered
    <3> QED  BY <3>2, <3>3
  <2>9. \A d \in Character, x \in Quest : Backed(d, x, log[d][x])'
    BY <1>0, <2>2, <2>7, <2>8, WrittenBacked
  <2> QED  BY <1>0, <2>6, <2>9, KeptEarned
<1>6. CASE ~IsActive(log[c][q])
  <2>1. LeaveQuests(p) /\ log' = log
    BY <1>0, <1>2, <1>6 DEF UpdateProgress
  <2>2. \A r \in Proc : Keeps(r)
    BY <2>1, LeaveKeeps, OthersKeep
  <2> QED  BY <1>0, <2>1, <2>2, QuietEarned
<1> QED  BY <1>5, <1>6

\* A row that is complete with what a call adds was asked for in full.
LEMMA CompleteAsked ==
    ASSUME EarnedIInv, NEW c \in Character, NEW q \in Quest, NEW s \in QuestRow(q), NEW n \in Nat,
           Coherent(q, s), Covered(c, q, s), Advance(q, s, n).completed, \A r \in Proc : Narrows(r),
           s.progress[s.step] + n + Cardinality(Units(c, Steps[q][s.step].target, q)')
             <= work[c][Steps[q][s.step].target]
    PROVE  \A i \in 1 .. Len(Steps[q]) : work[c][Steps[q][i].target] >= Steps[q][i].count
<1> SUFFICES ASSUME NEW i \in 1 .. Len(Steps[q])
             PROVE  work[c][Steps[q][i].target] >= Steps[q][i].count
  OBVIOUS
<1> DEFINE v == Steps[q][i].target
           m == Steps[q][i].count
           U == Cardinality(Units(c, v, q))
           V == Cardinality(Units(c, v, q)')
           W == work[c][v]
           a == s.progress[i]
<1>1. v \in Victim /\ m \in Nat
  BY TargetsAreVictims, QuestsHaveSteps
<1>2. W \in Nat /\ U \in Nat /\ V \in Nat
  BY <1>1, EarnedParts, FewerUnits
<1>3. a \in Nat /\ a + U <= W /\ i \in Nat /\ Len(Steps[q]) \in Nat /\ s.step \in 1 .. Len(Steps[q])
  BY QuestsHaveSteps DEF Covered, QuestRow
<1>4. s.step = Len(Steps[q])
  BY DEF Advance
<1>5. CASE i < s.step
  <2>1. a = m
    BY <1>5 DEF Coherent
  <2> HIDE DEF a, m, U, W
  <2> QED  BY <1>1, <1>2, <1>3, <2>1 DEF W, m
<1>6. CASE i = s.step
  <2>1. Smaller(a + n, m) >= m
    BY <1>6 DEF Advance
  <2>2. a + n + V <= W
    BY <1>6
  <2> HIDE DEF a, m, V, W
  <2>3. m <= a + n
    BY <1>1, <1>3, <2>1 DEF Smaller
  <2>4. m <= W
    BY <1>1, <1>2, <1>3, <2>2, <2>3
  <2> QED  BY <1>1, <1>2, <2>4 DEF W, m
<1> QED  BY <1>3, <1>4, <1>5, <1>6

\* A quest is completed.
LEMMA FinishEarned ==
    ASSUME ProgressIInv, QuestTypeOK', EarnedIInv, NEW p \in Proc, NEW q \in Quest, FinishQuest(p, q)
    PROVE  EarnedIInv'
<1>0. /\ At(p, "next") /\ q \in Todo(p) /\ Advance(q, loc[p].seen[q], loc[p].amount).completed
      /\ work' = work /\ CompleteQuest(loc[p].char, q)
      /\ IF IsActive(log[loc[p].char][q])
         THEN /\ Goto(p, "lock")
              /\ loc' = [loc EXCEPT ![p].seen[q] = NoQuest, ![p].quest = q, ![p].ret = "items",
                           ![p].gold = Rewards[q].gold, ![p].exp = Rewards[q].exp]
         ELSE LeaveQuests(p)
  BY DEF FinishQuest, obsVars
<1>1. /\ loc[p] \in Call /\ loc[p].char \in Character /\ loc[p].amount \in Nat
      /\ loc[p].seen[q] \in QuestRow(q) /\ Coherent(q, loc[p].seen[q])
  BY <1>0, Working, QuestersAreCharacters
<1>2. PICK c \in Character, s \in QuestRow(q), n \in Nat :
         c = loc[p].char /\ s = loc[p].seen[q] /\ n = loc[p].amount
  BY <1>1
<1>3. CASE IsActive(log[c][q])
  <2>1. c \in Quester /\ QuestTypeOK /\ CompleteQuest(c, q)
    BY <1>0, <1>2, QuestersAreCharacters DEF ProgressIInv, TypeOK
  <2>2. PICK row \in QuestRow(q) : /\ row.progress = log[c][q].progress /\ row.status = "COMPLETED"
                                   /\ log' = [log EXCEPT ![c][q] = row]
    BY <1>3, <2>1, CompletedRow
  <2>3. /\ Goto(p, "lock")
        /\ loc' = [loc EXCEPT ![p].seen[q] = NoQuest, ![p].quest = q, ![p].ret = "items",
                     ![p].gold = Rewards[q].gold, ![p].exp = Rewards[q].exp]
    BY <1>0, <1>2, <1>3
  <2>4. /\ Alone(p) /\ pc'[p] \in Busy
        /\ loc'[p] = [loc[p] EXCEPT !.seen[q] = NoQuest, !.quest = q, !.ret = "items",
                        !.gold = Rewards[q].gold, !.exp = Rewards[q].exp]
    BY <2>3 DEF Alone, Busy, Goto, ProgressIInv, TypeOK
  <2>5. /\ loc'[p].seen = [loc[p].seen EXCEPT ![q] = NoQuest] /\ loc'[p].char = loc[p].char
        /\ loc'[p].target = loc[p].target /\ loc'[p].amount = loc[p].amount
    <3> DEFINE r == loc[p]
               w == loc'[p]
               g == Rewards[q].gold
               e == Rewards[q].exp
    <3>1. r \in Call /\ w = [r EXCEPT !.seen[q] = NoQuest, !.quest = q, !.ret = "items", !.gold = g, !.exp = e]
      BY <1>1, <2>4
    <3> HIDE DEF r, w, g, e
    <3>2. w.char = r.char /\ w.target = r.target /\ w.amount = r.amount
      BY <3>1 DEF Call
    <3>3. w.seen = [r.seen EXCEPT ![q] = NoQuest]
      BY <3>1 DEF Call
    <3> QED  BY <3>2, <3>3 DEF r, w
  <2>6. /\ \A r \in Proc : Keeps(r)
        /\ Covered(c, q, s)
        /\ s.progress[s.step] + n + Cardinality(Units(c, Steps[q][s.step].target, q)')
             <= work[c][Steps[q][s.step].target]
    BY <1>0, <1>2, <2>4, <2>5, DealtWith
  <2>7. \A r \in Proc : Narrows(r)
    BY <2>6, KeepsNarrows
  <2>8. \A i \in 1 .. Len(Steps[q]) : work[c][Steps[q][i].target] >= Steps[q][i].count
    <3>1. Coherent(q, s) /\ Advance(q, s, n).completed
      BY <1>0, <1>1, <1>2
    <3> QED  BY <2>6, <2>7, <3>1, CompleteAsked
  <2>9. Covered(c, q, row)'
    <3>1. Covered(c, q, log[c][q])
      BY <1>3, EarnedParts DEF Backed, IsActive
    <3>2. Covered(c, q, row)
      BY <2>2, <3>1 DEF Covered
    <3> QED  BY <1>0, <2>7, <3>2, CoveredKept
  <2>10. \A d \in Character, x \in Quest : Backed(d, x, log[d][x])'
    BY <1>0, <2>2, <2>7, <2>8, <2>9, WrittenBacked
  <2> QED  BY <1>0, <2>6, <2>10, KeptEarned
<1>4. CASE ~IsActive(log[c][q])
  <2>1. LeaveQuests(p) /\ log' = log
    BY <1>0, <1>2, <1>4 DEF CompleteQuest
  <2>2. \A r \in Proc : Keeps(r)
    BY <2>1, LeaveKeeps, OthersKeep
  <2> QED  BY <1>0, <2>1, <2>2, QuietEarned
<1> QED  BY <1>3, <1>4

\* The units of the calls that a step does not begin.
LEMMA SameUnits ==
    ASSUME NEW p \in Proc, Alone(p), NEW c \in Character, NEW v \in Victim, NEW q \in Quest,
           p \notin Outstanding(c, v, q), p \notin Outstanding(c, v, q)'
    PROVE  Units(c, v, q)' = Units(c, v, q)
<1>1. Outstanding(c, v, q)' = Outstanding(c, v, q)
  BY DEF Outstanding, Alone, At
<1>2. \A r \in Outstanding(c, v, q) : loc'[r].amount = loc[r].amount
  BY DEF Outstanding, Alone
<1>3. ASSUME NEW x PROVE x \in Units(c, v, q)' <=> x \in Units(c, v, q)
  <2>1. x \in Units(c, v, q)' <=> \E r \in Outstanding(c, v, q)' : x \in {r} \X (1 .. loc'[r].amount)
    BY DEF Units
  <2>2. x \in Units(c, v, q) <=> \E r \in Outstanding(c, v, q) : x \in {r} \X (1 .. loc[r].amount)
    BY UnitsOwned DEF UnitsOf
  <2> QED  BY <1>1, <1>2, <2>1, <2>2
<1> QED  BY <1>3

\* An idle goroutine takes up a call for n on target v.
Begins(p, c, v, n) ==
    /\ pc[p] = "idle" /\ pc'[p] = "list" /\ Alone(p)
    /\ loc'[p].char = c /\ loc'[p].target = v /\ loc'[p].amount = n /\ loc'[p].seen = loc[p].seen
    /\ Asked(c, v, n) /\ log' = log

\* What is asked for and what is outstanding grow together.
LEMMA BothGrow ==
    ASSUME EarnedIInv, NEW p \in Proc, NEW c \in Character, NEW v \in Victim, NEW n \in Nat,
           Begins(p, c, v, n), NEW d \in Character, NEW w \in Victim, NEW q \in Quest
    PROVE  /\ IsFiniteSet(Units(d, w, q)') /\ Cardinality(Units(d, w, q)) \in Nat
           /\ work[d][w] \in Nat
           /\ \E m \in Nat : /\ Cardinality(Units(d, w, q)') = Cardinality(Units(d, w, q)) + m
                             /\ work'[d][w] = work[d][w] + m
<1>1. /\ work \in [Character -> [Victim -> Nat]] /\ work' = [work EXCEPT ![c][v] = @ + n]
      /\ IsFiniteSet(Units(d, w, q)) /\ work[d][w] \in Nat
  BY EarnedParts DEF Begins, Asked
<1>2. p \notin Outstanding(d, w, q)
  BY EarnedParts DEF Grasped, Busy, Outstanding, At, Begins
<1>3. p \in Outstanding(d, w, q)' <=> d = c /\ w = v
  <2>1. loc'[p].seen[q] = NoQuest
    BY EarnedParts DEF Grasped, Busy, Begins
  <2> QED  BY <2>1 DEF Outstanding, At, Begins
<1>4. CASE d = c /\ w = v
  <2>1. /\ IsFiniteSet(Units(d, w, q)') /\ Cardinality(Units(d, w, q)) \in Nat
        /\ Cardinality(Units(d, w, q)') = Cardinality(Units(d, w, q)) + n
    BY <1>1, <1>2, <1>3, <1>4, UnitsAsked DEF Begins
  <2>2. work'[d][w] = work[d][w] + n
    BY <1>1, <1>4
  <2> QED  BY <1>1, <2>1, <2>2
<1>5. CASE ~(d = c /\ w = v)
  <2>1. Units(d, w, q)' = Units(d, w, q)
    BY <1>2, <1>3, <1>5, SameUnits DEF Begins
  <2>2. work'[d][w] = work[d][w]
    BY <1>1, <1>5
  <2>3. Cardinality(Units(d, w, q)) \in Nat
    BY <1>1, FS_CardinalityType
  <2>4. /\ Cardinality(Units(d, w, q)') = Cardinality(Units(d, w, q)) + 0
        /\ work'[d][w] = work[d][w] + 0
    BY <1>1, <2>1, <2>2, <2>3
  <2> QED  BY <1>1, <2>1, <2>3, <2>4
<1> QED  BY <1>4, <1>5

\* So rows stay covered, and full steps stay asked for.
LEMMA BeginCovered ==
    ASSUME EarnedIInv, NEW p \in Proc, NEW c \in Character, NEW v \in Victim, NEW n \in Nat,
           Begins(p, c, v, n), NEW d \in Character, NEW q \in Quest, NEW row \in QuestRow(q),
           Covered(d, q, row)
    PROVE  Covered(d, q, row)'
<1> SUFFICES ASSUME NEW i \in 1 .. Len(Steps[q])
             PROVE  row.progress[i] + Cardinality(Units(d, Steps[q][i].target, q)')
                      <= work'[d][Steps[q][i].target]
  BY DEF Covered
<1> DEFINE w == Steps[q][i].target
<1>1. w \in Victim
  BY TargetsAreVictims
<1>2. PICK m \in Nat : /\ Cardinality(Units(d, w, q)') = Cardinality(Units(d, w, q)) + m
                       /\ work'[d][w] = work[d][w] + m
  BY <1>1, BothGrow
<1>3. Cardinality(Units(d, w, q)) \in Nat /\ work[d][w] \in Nat
  BY <1>1, BothGrow
<1>4. row.progress[i] + Cardinality(Units(d, w, q)) <= work[d][w] /\ row.progress[i] \in Nat
  BY DEF Covered, QuestRow
<1> QED  BY <1>2, <1>3, <1>4, SMTT(30)

\* A call begins.
LEMMA BeginEarned ==
    ASSUME ProgressIInv, QuestTypeOK', EarnedIInv, NEW p \in Proc, NEW c \in Character,
           NEW v \in Victim, NEW n \in Nat, Begins(p, c, v, n)
    PROVE  EarnedIInv'
<1>1. work' \in [Character -> [Victim -> Nat]]
  BY EarnedParts DEF Begins, Asked
<1>2. ASSUME NEW d \in Character, NEW w \in Victim, NEW q \in Quest
      PROVE  IsFiniteSet(Units(d, w, q)') /\ Cardinality(Units(d, w, q)') <= work'[d][w]
  <2>1. PICK m \in Nat : /\ Cardinality(Units(d, w, q)') = Cardinality(Units(d, w, q)) + m
                         /\ work'[d][w] = work[d][w] + m
    BY BothGrow
  <2>2. Cardinality(Units(d, w, q)) \in Nat /\ work[d][w] \in Nat /\ IsFiniteSet(Units(d, w, q)')
    BY BothGrow
  <2>3. Cardinality(Units(d, w, q)) <= work[d][w]
    BY EarnedParts
  <2> QED  BY <2>1, <2>2, <2>3
<1>3. ASSUME NEW d \in Character, NEW q \in Quest
      PROVE  Backed(d, q, log[d][q])'
  <2>1. log'[d][q] = log[d][q]
    BY DEF Begins
  <2> SUFFICES ASSUME log[d][q] # NoQuest
               PROVE  Backed(d, q, log[d][q])'
    BY <2>1 DEF Backed
  <2>2. PICK row \in QuestRow(q) : row = log[d][q]
    BY QuestersAreCharacters DEF ProgressIInv, TypeOK, QuestTypeOK
  <2>3. /\ Covered(d, q, row)
        /\ row.status = "COMPLETED" =>
              \A i \in 1 .. Len(Steps[q]) : work[d][Steps[q][i].target] >= Steps[q][i].count
    BY <2>2, EarnedParts DEF Backed
  <2>4. Covered(d, q, row)'
    BY <2>3, BeginCovered
  <2>5. ASSUME NEW i \in 1 .. Len(Steps[q])
        PROVE  /\ work[d][Steps[q][i].target] \in Nat /\ work'[d][Steps[q][i].target] \in Nat
               /\ work'[d][Steps[q][i].target] >= work[d][Steps[q][i].target]
    <3> DEFINE w == Steps[q][i].target
    <3>1. w \in Victim
      BY TargetsAreVictims
    <3>2. \E m \in Nat : work'[d][w] = work[d][w] + m
      BY <3>1, BothGrow
    <3>3. work[d][w] \in Nat
      BY <3>1, BothGrow
    <3> QED  BY <3>2, <3>3
  <2>6. row.status = "COMPLETED" =>
           \A i \in 1 .. Len(Steps[q]) : work'[d][Steps[q][i].target] >= Steps[q][i].count
    <3> SUFFICES ASSUME row.status = "COMPLETED", NEW i \in 1 .. Len(Steps[q])
                 PROVE  work'[d][Steps[q][i].target] >= Steps[q][i].count
      OBVIOUS
    <3> DEFINE W == work[d][Steps[q][i].target]
               W2 == work'[d][Steps[q][i].target]
               m == Steps[q][i].count
    <3>1. W \in Nat /\ W2 \in Nat /\ W2 >= W /\ W >= m /\ m \in Nat
      BY <2>3, <2>5, QuestsHaveSteps
    <3> HIDE DEF W, W2, m
    <3>2. W2 >= m
      BY <3>1
    <3> QED  BY <3>2 DEF W2, m
  <2> QED  BY <2>1, <2>2, <2>4, <2>6 DEF Backed, Covered
<1>4. ASSUME NEW r \in Proc, NEW q \in Quest, loc'[r].seen[q] # NoQuest
      PROVE  /\ pc'[r] \in Busy /\ Steps[q][loc'[r].seen[q].step].target = loc'[r].target
             /\ Covered(loc[r].char, q, loc[r].seen[q])'
  <2>1. r # p
    BY <1>4, EarnedParts DEF Grasped, Busy, Begins
  <2>2. pc'[r] = pc[r] /\ loc'[r] = loc[r]
    BY <2>1 DEF Begins, Alone
  <2>3. /\ pc[r] \in Busy /\ Steps[q][loc[r].seen[q].step].target = loc[r].target
        /\ Covered(loc[r].char, q, loc[r].seen[q])
    BY <1>4, <2>2, EarnedParts DEF Grasped
  <2>4. loc[r].char \in Character /\ loc[r].seen[q] \in QuestRow(q)
    BY <1>4, <2>2, <2>3, AllReady DEF Ready, Held, Listed, Busy
  <2>5. PICK d \in Character, row \in QuestRow(q) : d = loc[r].char /\ row = loc[r].seen[q]
    BY <2>4
  <2>6. Covered(d, q, row)'
    BY <2>3, <2>5, BeginCovered
  <2> QED  BY <2>2, <2>3, <2>5, <2>6 DEF Covered
<1>5. \A r \in Proc : Grasped(r)'
  BY <1>4 DEF Grasped
<1> QED  BY <1>1, <1>2, <1>3, <1>5, EarnedFrom

\* A kill, or an administrator's call.
LEMMA CallEarned ==
    ASSUME ProgressIInv, QuestTypeOK', EarnedIInv, NEW p \in Proc, NEW c \in Character,
           NEW v \in Victim,
           RewardKill(p, c, v) \/ \E n \in Amounts : UpdateQuestProgressHandler(p, c, v, n)
    PROVE  EarnedIInv'
<1>0. loc[p] \in Call
  BY DEF ProgressIInv, TypeOK
<1>1. PICK n \in Nat : Begins(p, c, v, n)
  <2>1. CASE RewardKill(p, c, v)
    <3>1. pc[p] = "idle" /\ pc'[p] = "list" /\ Alone(p) /\ Asked(c, v, 1) /\ log' = log
      BY <2>1 DEF RewardKill, At, Goto, Alone, ProgressIInv, TypeOK, questVars
    <3>2. loc'[p] = [loc[p] EXCEPT !.char = c, !.amount = 1, !.target = v, !.table = LootTableOf[v]]
      BY <2>1 DEF RewardKill, Resolve, ProgressIInv, TypeOK
    <3>3. /\ loc'[p].char = c /\ loc'[p].target = v /\ loc'[p].amount = 1
          /\ loc'[p].seen = loc[p].seen
      BY <1>0, <3>2 DEF Call
    <3> QED  BY <3>1, <3>3 DEF Begins
  <2>2. ASSUME NEW n \in Amounts, UpdateQuestProgressHandler(p, c, v, n) PROVE n \in Nat /\ Begins(p, c, v, n)
    <3>1. pc[p] = "idle" /\ pc'[p] = "list" /\ Alone(p) /\ Asked(c, v, n) /\ log' = log
      BY <2>2 DEF UpdateQuestProgressHandler, At, Goto, Alone, ProgressIInv, TypeOK, questVars
    <3>2. loc'[p] = [loc[p] EXCEPT !.char = c, !.target = v, !.amount = n]
      BY <2>2 DEF UpdateQuestProgressHandler, ProgressIInv, TypeOK
    <3>3. /\ loc'[p].char = c /\ loc'[p].target = v /\ loc'[p].amount = n
          /\ loc'[p].seen = loc[p].seen
      BY <1>0, <3>2 DEF Call
    <3> QED  BY <3>1, <3>3, AmountsAreNumbers DEF Begins
  <2> QED  BY <2>1, <2>2
<1> QED  BY <1>1, BeginEarned

\* A crash leaves no call on any quest.
LEMMA CrashKeeps ==
    ASSUME Crash
    PROVE  log' = log /\ work' = work /\ \A p \in Proc : Keeps(p)
<1>1. log' = log /\ work' = work
  BY DEF Crash, questVars
<1>2. \A p \in Proc : pc'[p] = "idle" /\ loc'[p] = NoCall
  BY DEF Crash
<1>3. \A q \in Quest : NoCall.seen[q] = NoQuest
  BY DEF NoCall, NoQuestRows
<1> QED  BY <1>1, <1>2, <1>3 DEF Keeps

\* A step in which no goroutine moves.
LEMMA OutsideKeeps ==
    ASSUME EarnedIInv, UNCHANGED <<pc, loc>>
    PROVE  \A p \in Proc : Keeps(p)
<1>1. \A p \in Proc : Grasped(p)
  BY EarnedParts
<1> QED  BY <1>1 DEF Keeps, Grasped

\* Before the first call nothing was asked for.
LEMMA InitEarned == Init => EarnedIInv
<1> SUFFICES ASSUME Init PROVE EarnedIInv
  OBVIOUS
<1>1. /\ \A p \in Proc : pc[p] = "idle" /\ \A q \in Quest : loc[p].seen[q] = NoQuest
      /\ \A c \in Character, q \in Quest : log[c][q] = NoQuest
      /\ work = [c \in Character |-> [v \in Victim |-> 0]]
  BY QuestersAreCharacters DEF Init, QuestInit, NoCall, NoQuestRows
<1>2. ASSUME NEW c \in Character, NEW v \in Victim, NEW q \in Quest
      PROVE  IsFiniteSet(Units(c, v, q)) /\ Cardinality(Units(c, v, q)) <= work[c][v]
  <2>1. Outstanding(c, v, q) = {}
    BY <1>1 DEF Outstanding, At
  <2>2. Units(c, v, q) = {}
    BY <2>1 DEF Units
  <2>3. IsFiniteSet(Units(c, v, q)) /\ Cardinality(Units(c, v, q)) = 0
    BY <2>2, FS_EmptySet
  <2> QED  BY <1>1, <2>3
<1>3. ProgressEarned
  BY <1>1 DEF ProgressEarned
<1> QED  BY <1>1, <1>2, <1>3 DEF EarnedIInv

\* Every step keeps what is held and what is outstanding asked for.
LEMMA NextEarned ==
    ASSUME ProgressIInv, EarnedIInv, [Next]_vars
    PROVE  EarnedIInv'
<1>0. QuestTypeOK'
  BY NextProgress DEF ProgressIInv, TypeOK
<1>1. CASE UNCHANGED vars
  <2>1. UNCHANGED <<pc, loc>> /\ log' = log /\ work' = work
    BY <1>1 DEF vars, questVars, obsVars
  <2> QED  BY <1>0, <2>1, OutsideKeeps, QuietEarned
<1>2. CASE (\E q \in Quest : AdminCreate(q)) \/ (\E t \in Table : Expire(t))
  <2>1. UNCHANGED <<pc, loc>> /\ log' = log /\ work' = work
    BY <1>2 DEF AdminCreate, CreateDefinition, Expire, questVars, obsVars
  <2> QED  BY <1>0, <2>1, OutsideKeeps, QuietEarned
<1>3. CASE Crash
  BY <1>0, <1>3, CrashKeeps, QuietEarned
<1>4. ASSUME NEW p \in Proc,
             \/ \E u \in User, c \in Character, q \in Quest : AcceptQuestHandler(p, u, c, q)
             \/ \E c \in Character : EquipmentChanged(p, c)
             \/ \E t \in Table, content \in Content : CreateLootTable(p, t, content)
             \/ NoMoreQuests(p) \/ GrantItems(p) \/ LockRow(p) \/ AddRewards(p)
             \/ RecalculateBase(p) \/ RecalculateGear(p) \/ RecalculateStats(p)
             \/ FindTable(p) \/ GetLootTable(p) \/ FillCache(p) \/ RollLoot(p) \/ Invalidate(p)
             \/ DbError(p)
      PROVE  EarnedIInv'
  <2>1. Alone(p) /\ Keeps(p) /\ log' = log /\ work' = work
    BY <1>4, QuietKeeps
  <2>2. \A r \in Proc : Keeps(r)
    BY <2>1, OthersKeep
  <2> QED  BY <1>0, <2>1, <2>2, QuietEarned
<1>5. ASSUME NEW p \in Proc,
             \/ \E c \in Character, v \in Victim : RewardKill(p, c, v)
             \/ \E c \in Character, v \in Victim, n \in Amounts : UpdateQuestProgressHandler(p, c, v, n)
      PROVE  EarnedIInv'
  BY <1>0, <1>5, CallEarned
<1>6. ASSUME NEW p \in Proc,
             \/ SaveAccepted(p) \/ FetchQuests(p)
             \/ \E q \in Quest : SaveProgress(p, q) \/ FinishQuest(p, q)
      PROVE  EarnedIInv'
  BY <1>0, <1>6, AcceptedEarned, FetchEarned, SaveEarned, FinishEarned
<1>7. CASE Next
  BY <1>2, <1>3, <1>4, <1>5, <1>6, <1>7 DEF Next, Step
<1> QED  BY <1>1, <1>7

\* However the kills and progress calls of a character overlap, on one node or on
\* several, no step of a quest is filled by more than was asked for on its target,
\* and no quest completes before that was enough, for any quests and any number of
\* goroutines (service.go:127-189, repository.go:218-253).
THEOREM ProgressIsEarned == Spec => []ProgressEarned
<1>1. Init => EarnedIInv
  BY InitEarned
<1>2. ProgressIInv /\ EarnedIInv /\ [Next]_vars => EarnedIInv'
  BY NextEarned
<1>3. EarnedIInv => ProgressEarned
  BY DEF EarnedIInv
<1> QED  BY <1>1, <1>2, <1>3, ProgressInvariant, PTL DEF Spec
==============================================================================
