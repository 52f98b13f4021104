------------------------------ MODULE IpcProofs ------------------------------
(***************************************************************************)
(* Theorems about the programs of Application/ipc for any number of        *)
(* processes, threads, items and messages.                                 *)
(***************************************************************************)
EXTENDS IpcPrograms, FiniteSetTheorems, TLAPS

(* A step of the composition is a step of one program, or leaves it alone. *)
LEMMA OneProgram ==
  ASSUME [Next]_vars
  PROVE  /\ [SemNext]_semVars /\ [CondNext]_condVars /\ [MqNext]_mqVars /\ [TalkNext]_talkVars
         /\ [ShmNext]_shmVars /\ [RwNext]_rwVars /\ [SvNext]_svVars
BY DEF Next, vars, RunSem, RunCond, RunMq, RunTalk, RunShm, RunRw, RunSv, OnlySem, OnlyCond,
       OnlyMq, OnlyTalk, OnlyShm, OnlyRw, OnlySv

-----------------------------------------------------------------------------
(* sem.c *)

(* What a thread has waited for and not yet passed on. *)
Token(t) == IF tpc[t] \in {"second", "turn", "post", "last"} THEN 1 ELSE 0
Locks(t) == IF tpc[t] \in {"turn", "post"} THEN 1 ELSE 0

(* The tokens nempty and nstored can have together: every killed run but   *)
(* the first may leave one too many.                                       *)
Cap == IF kills = 0 THEN 2 ELSE kills + 1

SemType ==
  /\ sem \in [Sems -> Nat \cup {Absent}]
  /\ run \in {"off", "threads"} \cup Sems
  /\ tpc \in [Threads -> {"first", "second", "turn", "post", "last", "done"}]
  /\ item \in [Threads -> 0 .. SemItems]
  /\ ring \in [0 .. NBUFF - 1 -> 0 .. SemItems]
  /\ lost \in BOOLEAN
  /\ kills \in 0 .. MaxKills

(* Threads run only between main_starts and main_joins, one item at a time. *)
RunShape ==
  /\ run # "threads" => \A t \in Threads : tpc[t] = "done"
  /\ run = "threads" => \A t \in Threads : tpc[t] = "done" <=> item[t] = SemItems

(* The names go in the order mutex, nempty, nstored. *)
Linked ==
  /\ run \in {"threads", "mutex"} => sem["mutex"] # Absent
  /\ run \in {"threads", "mutex", "nempty"} => sem["nempty"] # Absent
  /\ run \in {"nempty", "nstored"} => sem["mutex"] = Absent
  /\ run = "nstored" => sem["nempty"] = Absent /\ sem["nstored"] # Absent
  /\ sem["nempty"] # Absent => sem["nstored"] # Absent

(* How many tokens there are, also in what a killed run left behind. *)
Tokens ==
  /\ sem["mutex"] # Absent => sem["mutex"] + Locks("produce") + Locks("consume") <= 1
  /\ sem["nempty"] # Absent =>
       sem["nempty"] + Token("produce") + sem["nstored"] + Token("consume") <= Cap
  /\ sem["nempty"] = Absent /\ sem["nstored"] # Absent =>
       sem["nstored"] <= IF run # "off" /\ kills > 0 THEN Cap ELSE Cap - 1

(* Before the first kill the semaphores say how far the threads are apart. *)
InStep ==
  kills = 0 =>
    /\ run = "off" => \A s \in Sems : sem[s] = Absent
    /\ run # "off" => sem["nstored"] + Token("consume") + item["consume"] = 1 + item["produce"]
    /\ run \in Sems => item["consume"] = item["produce"]

(* After it, nempty still bounds how far the producer is ahead. *)
Ahead ==
  /\ run = "threads" =>
       sem["nempty"] + Token("produce") + item["produce"] <= Cap + item["consume"]
  /\ lost => kills >= NBUFF

SemInv == SemType /\ RunShape /\ Linked /\ Tokens /\ InStep /\ Ahead

LEMMA SemInitInv == SemInit => SemInv
<1> SUFFICES ASSUME SemInit PROVE SemInv
  OBVIOUS
<1> USE NbuffAssumption, ItemsAssumption, KillsAssumption
<1>1. /\ sem = [s \in Sems |-> Absent] /\ run = "off" /\ kills = 0
      /\ tpc = [t \in Threads |-> "done"] /\ item = [t \in Threads |-> 0]
      /\ ring = [k \in 0 .. NBUFF - 1 |-> 0]
  BY DEF SemInit
<1>2. lost \in BOOLEAN /\ ~lost
  BY Zenon DEF SemInit
<1>3. SemType
  BY <1>1, <1>2 DEF SemType
<1>4. RunShape /\ Linked /\ Tokens /\ InStep
  BY <1>1 DEF RunShape, Linked, Tokens, InStep, Sems, Absent
<1>5. Ahead
  BY <1>1, <1>2 DEF Ahead
<1> QED BY <1>3, <1>4, <1>5 DEF SemInv

(* A thread's step leaves the run, the kills and the other thread alone.   *)
LEMMA SemThreadInv ==
  ASSUME SemInv, NEW t \in Threads, thread_step(t)
  PROVE  SemInv'
<1> USE NbuffAssumption, ItemsAssumption, KillsAssumption
<1>0. /\ SemType /\ RunShape /\ Linked /\ Tokens /\ InStep /\ Ahead
      /\ run = "threads" /\ run' = run /\ kills' = kills /\ kills \in Nat
      /\ \A s \in Sems : sem[s] \in Nat
      /\ \A u \in Threads : item[u] \in Nat /\ item[u] <= SemItems
      /\ t \in {"produce", "consume"}
  <2>1. run = "threads" /\ run' = run /\ kills' = kills
    BY DEF thread_step, sem_wait, produce_stores, consume_prints, post_mutex, post_last
  <2> QED BY <2>1 DEF SemInv, SemType, Linked, Sems, Threads, Absent
<1>1. ASSUME sem_wait(t, "first", First(t), "second") PROVE SemInv'
  <2>1. /\ tpc[t] = "first" /\ tpc' = [tpc EXCEPT ![t] = "second"]
        /\ sem[First(t)] > 0 /\ sem' = [sem EXCEPT ![First(t)] = @ - 1]
        /\ UNCHANGED <<run, item, ring, lost, kills>>
    BY <1>1 DEF sem_wait
  <2>2. /\ First(t) \in Sems /\ First("produce") = "nempty" /\ First("consume") = "nstored"
    BY <1>0 DEF First, Sems
  <2>3. SemType'
    BY <1>0, <2>1, <2>2 DEF SemType
  <2>4. RunShape' /\ Linked'
    BY <1>0, <2>1, <2>2 DEF RunShape, Linked, SemType, Sems, Threads, Absent
  <2>5. /\ Token(t) = 0 /\ Token(t)' = 1 /\ Locks(t)' = Locks(t) /\ Cap' = Cap
        /\ \A u \in Threads \ {t} : Token(u)' = Token(u) /\ Locks(u)' = Locks(u)
        /\ \A u \in Threads : Token(u) \in Nat /\ Token(u)' \in Nat
    BY <1>0, <2>1 DEF Token, Locks, Cap, SemType
  <2>6. Tokens' /\ InStep' /\ Ahead'
    <3>1. CASE t = "produce"
      <4>1. /\ sem'["mutex"] = sem["mutex"] /\ sem'["nstored"] = sem["nstored"]
            /\ sem'["nempty"] = sem["nempty"] - 1
        BY <2>1, <2>2, <3>1, <1>0 DEF SemType, Sems
      <4> QED BY <1>0, <2>1, <2>5, <3>1, <4>1 DEF Tokens, InStep, Ahead, Sems, Threads, Absent
    <3>2. CASE t = "consume"
      <4>1. /\ sem'["mutex"] = sem["mutex"] /\ sem'["nstored"] = sem["nstored"] - 1
            /\ sem'["nempty"] = sem["nempty"]
        BY <2>1, <2>2, <3>2, <1>0 DEF SemType, Sems
      <4> QED BY <1>0, <2>1, <2>5, <3>2, <4>1 DEF Tokens, InStep, Ahead, Sems, Threads, Absent
    <3> QED BY <1>0, <3>1, <3>2
  <2> QED BY <2>3, <2>4, <2>6 DEF SemInv
<1>2. ASSUME sem_wait(t, "second", "mutex", "turn") PROVE SemInv'
  <2>1. /\ tpc[t] = "second" /\ tpc' = [tpc EXCEPT ![t] = "turn"]
        /\ sem["mutex"] > 0 /\ sem' = [sem EXCEPT !["mutex"] = @ - 1]
        /\ UNCHANGED <<run, item, ring, lost, kills>>
    BY <1>2 DEF sem_wait
  <2>3. SemType'
    BY <1>0, <2>1 DEF SemType, Sems
  <2>4. RunShape' /\ Linked'
    BY <1>0, <2>1 DEF RunShape, Linked, SemType, Sems, Threads, Absent
  <2>5. Tokens'
    <3>1. /\ Locks(t) = 0 /\ Locks(t)' = 1 /\ Cap' = Cap
          /\ \A u \in Threads \ {t} : Locks(u)' = Locks(u)
          /\ \A u \in Threads : Token(u)' = Token(u)
          /\ \A u \in Threads : Locks(u) \in Nat
      BY <1>0, <2>1 DEF Token, Locks, Cap, SemType
    <3>2. /\ sem'["mutex"] = sem["mutex"] - 1 /\ sem'["nstored"] = sem["nstored"]
          /\ sem'["nempty"] = sem["nempty"]
      BY <1>0, <2>1 DEF SemType, Sems
    <3>3. Locks("produce")' + Locks("consume")' = Locks("produce") + Locks("consume") + 1
      BY <1>0, <3>1 DEF Threads
    <3>4. sem'["mutex"] # Absent => sem'["mutex"] + Locks("produce")' + Locks("consume")' <= 1
      BY <1>0, <3>1, <3>2, <3>3 DEF Tokens, Sems, Threads, Absent
    <3> QED BY <1>0, <2>1, <3>1, <3>2, <3>4 DEF Tokens, Threads
  <2>6. InStep' /\ Ahead'
    BY <1>0, <2>1 DEF InStep, Ahead, Token, Cap, SemType, Sems, Threads, Absent
  <2> QED BY <2>3, <2>4, <2>5, <2>6 DEF SemInv
<1>3. ASSUME t = "produce", produce_stores PROVE SemInv'
  <2>1. /\ tpc["produce"] = "turn" /\ tpc' = [tpc EXCEPT !["produce"] = "post"]
        /\ ring' = [ring EXCEPT ![item["produce"] % NBUFF] = item["produce"]]
        /\ lost' = (lost \/ item["consume"] <= item["produce"] - NBUFF)
        /\ UNCHANGED <<sem, run, item, kills>>
    BY <1>3 DEF produce_stores
  <2>2. lost' \in BOOLEAN
    BY <2>1, Zenon
  <2>3. SemType'
    BY <1>0, <2>1, <2>2 DEF SemType, Threads
  <2>4. RunShape' /\ Linked'
    BY <1>0, <2>1 DEF RunShape, Linked, SemType, Threads
  <2>5. Tokens'
    <3>1. Cap' = Cap /\ \A u \in Threads : Token(u)' = Token(u) /\ Locks(u)' = Locks(u)
      BY <1>0, <2>1 DEF Token, Locks, Cap, SemType
    <3> QED BY <1>0, <2>1, <3>1 DEF Tokens, Threads
  <2>6. InStep'
    BY <1>0, <2>1 DEF InStep, Token, SemType, Threads
  <2>7. Ahead'
    <3>1. sem["nempty"] + 1 + item["produce"] <= Cap + item["consume"]
      BY <1>0, <2>1 DEF Ahead, Token
    <3>2. sem["nempty"] \in Nat /\ item["produce"] \in Nat /\ item["consume"] \in Nat
      BY <1>0 DEF Sems, Threads
    <3>3. item["consume"] <= item["produce"] - NBUFF => kills >= NBUFF
      BY <1>0, <3>1, <3>2 DEF Cap
    <3>4. lost' => kills >= NBUFF
      BY <1>0, <2>1, <3>3 DEF Ahead
    <3> QED BY <1>0, <2>1, <3>4 DEF Ahead, Token, Cap, SemType, Threads
  <2> QED BY <2>3, <2>4, <2>5, <2>6, <2>7 DEF SemInv
<1>4. ASSUME t = "consume", consume_prints PROVE SemInv'
  <2>1. /\ tpc["consume"] = "turn" /\ tpc' = [tpc EXCEPT !["consume"] = "post"]
        /\ UNCHANGED <<sem, run, item, ring, lost, kills>>
    BY <1>4 DEF consume_prints
  <2>3. SemType'
    BY <1>0, <2>1 DEF SemType, Threads
  <2>4. RunShape' /\ Linked'
    BY <1>0, <2>1 DEF RunShape, Linked, SemType, Threads
  <2>5. Tokens'
    <3>1. Cap' = Cap /\ \A u \in Threads : Token(u)' = Token(u) /\ Locks(u)' = Locks(u)
      BY <1>0, <2>1 DEF Token, Locks, Cap, SemType
    <3> QED BY <1>0, <2>1, <3>1 DEF Tokens, Threads
  <2>6. InStep' /\ Ahead'
    BY <1>0, <2>1 DEF InStep, Ahead, Token, Cap, SemType, Threads
  <2> QED BY <2>3, <2>4, <2>5, <2>6 DEF SemInv
<1>5. ASSUME post_mutex(t) PROVE SemInv'
  <2>1. /\ tpc[t] = "post" /\ tpc' = [tpc EXCEPT ![t] = "last"]
        /\ sem' = [sem EXCEPT !["mutex"] = @ + 1]
        /\ UNCHANGED <<run, item, ring, lost, kills>>
    BY <1>5 DEF post_mutex
  <2>3. SemType'
    BY <1>0, <2>1 DEF SemType, Sems
  <2>4. RunShape' /\ Linked'
    BY <1>0, <2>1 DEF RunShape, Linked, SemType, Sems, Threads, Absent
  <2>5. Tokens'
    <3>1. /\ Locks(t) = 1 /\ Locks(t)' = 0 /\ Cap' = Cap
          /\ \A u \in Threads \ {t} : Locks(u)' = Locks(u)
          /\ \A u \in Threads : Token(u)' = Token(u)
          /\ \A u \in Threads : Locks(u) \in Nat
      BY <1>0, <2>1 DEF Token, Locks, Cap, SemType
    <3>2. /\ sem'["mutex"] = sem["mutex"] + 1 /\ sem'["nstored"] = sem["nstored"]
          /\ sem'["nempty"] = sem["nempty"]
      BY <1>0, <2>1 DEF SemType, Sems
    <3>3. Locks("produce")' + Locks("consume")' + 1 = Locks("produce") + Locks("consume")
      BY <1>0, <3>1 DEF Threads
    <3>4. sem["mutex"] \in Nat /\ sem'["mutex"] + Locks("produce")' + Locks("consume")' <= 1
      <4>1. sem["mutex"] \in Nat /\ sem["mutex"] + Locks("produce") + Locks("consume") <= 1
        BY <1>0 DEF Tokens, Sems, Absent
      <4> QED BY <4>1, <3>1, <3>2, <3>3 DEF Threads
    <3> QED BY <1>0, <2>1, <3>1, <3>2, <3>4 DEF Tokens, Threads
  <2>6. InStep' /\ Ahead'
    BY <1>0, <2>1 DEF InStep, Ahead, Token, Cap, SemType, Sems, Threads, Absent
  <2> QED BY <2>3, <2>4, <2>5, <2>6 DEF SemInv
<1>6. ASSUME post_last(t) PROVE SemInv'
  <2>1. /\ tpc[t] = "last"
        /\ tpc' = [tpc EXCEPT ![t] = IF item[t] + 1 < SemItems THEN "first" ELSE "done"]
        /\ sem' = [sem EXCEPT ![Last(t)] = @ + 1]
        /\ item' = [item EXCEPT ![t] = @ + 1]
        /\ UNCHANGED <<run, ring, lost, kills>>
    BY <1>0, <1>6 DEF post_last, LoopTop, SemType
  <2>2. /\ Last(t) \in Sems /\ Last("produce") = "nstored" /\ Last("consume") = "nempty"
        /\ item[t] < SemItems
    <3>1. item[t] # SemItems
      BY <1>0, <2>1 DEF RunShape
    <3> QED BY <1>0, <3>1 DEF Last, Sems
  <2>3. SemType'
    BY <1>0, <2>1, <2>2 DEF SemType
  <2>4. RunShape' /\ Linked'
    BY SMTT(30), <1>0, <2>1, <2>2 DEF RunShape, Linked, SemType, Sems, Threads, Absent
  <2>5. /\ Token(t) = 1 /\ Token(t)' = 0 /\ Locks(t)' = Locks(t) /\ Cap' = Cap
        /\ \A u \in Threads \ {t} : Token(u)' = Token(u) /\ Locks(u)' = Locks(u)
        /\ \A u \in Threads : Token(u) \in Nat /\ Token(u)' \in Nat
    BY <1>0, <2>1 DEF Token, Locks, Cap, SemType
  <2>6. Tokens' /\ InStep' /\ Ahead'
    <3>1. CASE t = "produce"
      <4>1. /\ sem'["mutex"] = sem["mutex"] /\ sem'["nstored"] = sem["nstored"] + 1
            /\ sem'["nempty"] = sem["nempty"]
            /\ item'["produce"] = item["produce"] + 1 /\ item'["consume"] = item["consume"]
        BY <2>1, <2>2, <3>1, <1>0 DEF SemType, Sems, Threads
      <4> QED BY <1>0, <2>1, <2>5, <3>1, <4>1 DEF Tokens, InStep, Ahead, Sems, Threads, Absent
    <3>2. CASE t = "consume"
      <4>1. /\ sem'["mutex"] = sem["mutex"] /\ sem'["nstored"] = sem["nstored"]
            /\ sem'["nempty"] = sem["nempty"] + 1
            /\ item'["produce"] = item["produce"] /\ item'["consume"] = item["consume"] + 1
        BY <2>1, <2>2, <3>2, <1>0 DEF SemType, Sems, Threads
      <4>2. Tokens'
        BY <1>0, <2>1, <2>5, <3>2, <4>1 DEF Tokens, Sems, Threads, Absent
      <4>3. InStep'
        BY <1>0, <2>1, <2>5, <3>2, <4>1 DEF InStep, Sems, Threads, Absent
      <4>4. Ahead'
        <5>1. sem["nempty"] + Token("produce") + item["produce"] <= Cap + item["consume"]
          BY <1>0 DEF Ahead
        <5>2. /\ sem["nempty"] \in Nat /\ item["produce"] \in Nat /\ item["consume"] \in Nat
              /\ Token("produce")' = Token("produce") /\ Token("produce") \in Nat /\ Cap \in Nat
          BY <1>0, <2>5, <3>2 DEF Sems, Threads, Cap
        <5>3. sem'["nempty"] + Token("produce")' + item'["produce"] <= Cap' + item'["consume"]
          BY <2>5, <4>1, <5>1, <5>2
        <5>4. lost' => kills' >= NBUFF
          BY <1>0, <2>1 DEF Ahead
        <5> QED BY <5>3, <5>4 DEF Ahead
      <4> QED BY <4>2, <4>3, <4>4
    <3> QED BY <1>0, <3>1, <3>2
  <2> QED BY <2>3, <2>4, <2>6 DEF SemInv
<1> QED BY <1>1, <1>2, <1>3, <1>4, <1>5, <1>6 DEF thread_step

LEMMA SemStepInv == SemInv /\ [SemNext]_semVars => SemInv'
<1> SUFFICES ASSUME SemInv, [SemNext]_semVars PROVE SemInv'
  OBVIOUS
<1> USE NbuffAssumption, ItemsAssumption, KillsAssumption
<1>0. /\ SemType /\ RunShape /\ Linked /\ Tokens /\ InStep /\ Ahead /\ kills \in Nat
      /\ \A s \in Sems : sem[s] = Absent \/ sem[s] \in Nat
  BY DEF SemInv, SemType
<1>1. CASE main_starts
  <2>1. /\ run = "off" /\ run' = "threads" /\ lost' = FALSE /\ kills' = kills
        /\ sem' = [s \in Sems |-> IF sem[s] = Absent THEN 1 ELSE sem[s]]
        /\ tpc' = [t \in Threads |-> IF 0 < SemItems THEN "first" ELSE "done"]
        /\ item' = [t \in Threads |-> 0]
        /\ ring' = [k \in 0 .. NBUFF - 1 |-> 0]
    BY <1>1 DEF main_starts, sem_open, LoopTop
  <2>2. \A t \in Threads : tpc[t] = "done"
    BY <1>0, <2>1 DEF RunShape
  <2>3. SemType'
    <3>1. sem' \in [Sems -> Nat \cup {Absent}]
      BY <1>0, <2>1
    <3>2. tpc' \in [Threads -> {"first", "second", "turn", "post", "last", "done"}]
      BY <2>1
    <3>3. item' \in [Threads -> 0 .. SemItems] /\ ring' \in [0 .. NBUFF - 1 -> 0 .. SemItems]
      BY <2>1
    <3>4. lost' \in BOOLEAN
      BY <2>1, Zenon
    <3> QED BY <1>0, <2>1, <3>1, <3>2, <3>3, <3>4 DEF SemType
  <2>4. RunShape' /\ Linked'
    BY <1>0, <2>1 DEF RunShape, Linked, Sems, Threads, Absent
  <2>5. Tokens'
    BY <1>0, <2>1, <2>2 DEF Tokens, Token, Locks, Cap, Linked, Sems, Threads, Absent
  <2>6. InStep' /\ Ahead'
    BY <1>0, <2>1, <2>2, <2>5 DEF InStep, Ahead, Tokens, Token, Cap, Sems, Threads, Absent
  <2> QED BY <2>3, <2>4, <2>5, <2>6 DEF SemInv
<1>2. CASE main_joins
  <2>1. /\ run = "threads" /\ run' = "mutex" /\ (\A t \in Threads : tpc[t] = "done")
        /\ UNCHANGED <<sem, tpc, item, ring, lost, kills>>
    BY <1>2 DEF main_joins
  <2>2. item["consume"] = SemItems /\ item["produce"] = SemItems
    BY <1>0, <2>1 DEF RunShape, Threads
  <2>3. SemType' /\ RunShape' /\ Linked'
    BY <1>0, <2>1 DEF SemType, RunShape, Linked, Sems
  <2>4. Tokens' /\ InStep' /\ Ahead'
    BY <1>0, <2>1, <2>2 DEF Tokens, InStep, Ahead, Linked, Token, Locks, Cap, Sems, Threads
  <2> QED BY <2>3, <2>4 DEF SemInv
<1>3. CASE sem_unlink
  <2>1. /\ run \in Sems /\ sem' = [sem EXCEPT ![run] = Absent]
        /\ run' = IF run = "mutex" THEN "nempty" ELSE IF run = "nempty" THEN "nstored" ELSE "off"
        /\ UNCHANGED <<tpc, item, ring, lost, kills>>
    BY <1>3 DEF sem_unlink, Sems
  <2>2. /\ \A t \in Threads : tpc[t] = "done"
        /\ Token("produce") = 0 /\ Token("consume") = 0 /\ Token("produce")' = 0 /\ Token("consume")' = 0
    BY <1>0, <2>1 DEF RunShape, Sems, Token, Threads
  <2>3. SemType' /\ RunShape'
    BY <1>0, <2>1 DEF SemType, RunShape, Sems
  <2>4. Linked'
    BY <1>0, <2>1 DEF Linked, SemType, Sems, Absent
  <2>5. Tokens'
    BY <1>0, <2>1, <2>2 DEF Tokens, InStep, Linked, Locks, Cap, SemType, Sems, Threads, Absent
  <2>6. InStep'
    <3>1. CASE run = "mutex"
      BY <1>0, <2>1, <2>2, <3>1 DEF InStep, SemType, Sems, Absent
    <3>2. CASE run = "nempty"
      BY <1>0, <2>1, <2>2, <3>2 DEF InStep, SemType, Sems, Absent
    <3>3. CASE run = "nstored"
      BY <1>0, <2>1, <2>2, <3>3 DEF InStep, Linked, SemType, Sems, Absent
    <3> QED BY <2>1, <3>1, <3>2, <3>3 DEF Sems
  <2>7. Ahead'
    BY <1>0, <2>1 DEF Ahead, Sems
  <2> QED BY <2>3, <2>4, <2>5, <2>6, <2>7 DEF SemInv
<1>4. CASE Kill
  <2>1. /\ run # "off" /\ run' = "off" /\ kills < MaxKills /\ kills' = kills + 1
        /\ tpc' = [t \in Threads |-> "done"]
        /\ UNCHANGED <<sem, item, ring, lost>>
    BY <1>4 DEF Kill
  <2>2. SemType' /\ RunShape'
    BY <1>0, <2>1 DEF SemType, RunShape
  <2>3. Linked'
    BY <1>0, <2>1 DEF Linked
  <2>4. Tokens'
    <3>1. /\ Token("produce")' = 0 /\ Token("consume")' = 0
          /\ Locks("produce")' = 0 /\ Locks("consume")' = 0
          /\ \A t \in Threads : Token(t) \in Nat /\ Locks(t) \in Nat
      BY <2>1 DEF Token, Locks, Threads
    <3>2. Cap \in Nat /\ Cap' \in Nat /\ Cap <= Cap' /\ (kills > 0 => Cap' = Cap + 1) /\ (kills = 0 => Cap = 2 /\ Cap' = 2)
      BY <1>0, <2>1 DEF Cap
    <3>3. \A u \in Sems : sem[u] \in Nat \cup {Absent}
      BY <1>0 DEF SemType
    <3>4. sem["mutex"] # Absent => sem["mutex"] <= 1
      BY <1>0, <3>1, <3>3 DEF Tokens, Sems, Threads, Absent
    <3>5. sem["nempty"] # Absent => sem["nempty"] + sem["nstored"] <= Cap
      BY <1>0, <3>1, <3>2, <3>3 DEF Tokens, Linked, Sems, Threads, Absent
    <3>6. sem["nempty"] = Absent /\ sem["nstored"] # Absent => sem["nstored"] <= Cap' - 1
      BY <1>0, <2>1, <3>2, <3>3 DEF Tokens, Sems, Absent
    <3> QED BY <1>0, <2>1, <3>1, <3>2, <3>3, <3>4, <3>5, <3>6 DEF Tokens, Linked, Sems, Threads, Absent
  <2>5. InStep' /\ Ahead'
    BY <1>0, <2>1 DEF InStep, Ahead
  <2> QED BY <2>2, <2>3, <2>4, <2>5 DEF SemInv
<1>5. CASE UNCHANGED semVars
  BY <1>0, <1>5 DEF semVars, SemInv, SemType, RunShape, Linked, Tokens, InStep, Ahead, Token, Locks, Cap
<1> QED BY <1>1, <1>2, <1>3, <1>4, <1>5, SemThreadInv DEF SemNext

LEMMA SemInvKeeps == SemInv => SemTypeOK /\ NoneOverwritten
<1> SUFFICES ASSUME SemInv PROVE SemTypeOK
  BY DEF SemInv, Ahead, NoneOverwritten
<1>0. SemType /\ Tokens /\ Linked
  BY DEF SemInv
<1>1. Cap <= 2 + MaxKills /\ Cap \in Nat
  BY <1>0, KillsAssumption DEF Cap, SemType
<1>2. ASSUME NEW s \in Sems, sem[s] # Absent PROVE sem[s] \in 0 .. 3 + MaxKills
  <2>1. \A u \in Sems : sem[u] \in Nat \cup {Absent}
    BY <1>0 DEF SemType
  <2>2. \A t \in Threads : Token(t) \in Nat /\ Locks(t) \in Nat
    BY DEF Token, Locks
  <2> QED BY <1>0, <1>1, <1>2, <2>1, <2>2, KillsAssumption DEF Tokens, Linked, Sems, Threads, Absent
<1>3. sem \in [Sems -> {Absent} \cup 0 .. 3 + MaxKills]
  BY <1>0, <1>2 DEF SemType
<1> QED BY <1>0, <1>3 DEF SemTypeOK, SemType

LEMMA SemAlways == Spec => []SemInv
<1>1. Init => SemInv
  BY SemInitInv DEF Init
<1>2. SemInv /\ [Next]_vars => SemInv'
  BY SemStepInv, OneProgram
<1> QED BY <1>1, <1>2, PTL DEF Spec

(* produce and consume: a ring is overrun only after as many killed runs   *)
(* as it has places, for rings of any length and any number of items.      *)
THEOREM NoneOverwrittenAlways == Spec => []NoneOverwritten
<1>1. SemInv => NoneOverwritten
  BY SemInvKeeps
<1> QED BY <1>1, SemAlways, PTL

-----------------------------------------------------------------------------
(* mutex_cond.c *)

CondType ==
  /\ wpc \in [Workers -> {"put", "putting", "count", "counting", "take", "check",
                          "waiting", "woken", "taken", "print", "returned"}]
  /\ waiting \in SUBSET Consumers
  /\ pbuf \in [0 .. nitems - 1 -> Nat]
  /\ nput \in Nat /\ nval = nput
  /\ nready \in Nat /\ cnt \in Nat
  /\ printed \in Nat \X Nat

(* While something is ready nobody goes to sleep; the first item wakes one. *)
SomeoneAwake == nready > 0 /\ waiting # {} => waiting # Consumers

(* A consumer returns when all items have been looked for. *)
ReturnedLate == (\E w \in Consumers : wpc[w] = "returned") => cnt >= nitems

(* Every place of the ring is empty or holds its index. *)
RingIsIndex ==
  /\ \A k \in 0 .. nitems - 1 : pbuf[k] \in {0, k}
  /\ printed[1] = printed[2]

CondInv == CondType /\ SomeoneAwake /\ ReturnedLate /\ RingIsIndex

LEMMA CondStepInv == CondInv /\ [CondNext]_condVars => CondInv'
<1> SUFFICES ASSUME CondInv, [CondNext]_condVars PROVE CondInv'
  OBVIOUS
<1> USE NitemsAssumption, WorkersAssumption
<1>0. CondType /\ SomeoneAwake /\ ReturnedLate /\ RingIsIndex
  BY DEF CondInv
<1>1. ASSUME NEW w \in Workers, NEW from, NEW to \in {"putting", "print", "check", "counting"},
             lock_pmutex(w, from, to) \/ lock_cmutex(w, from, to)
      PROVE  CondInv'
  <2>1. /\ wpc' = [wpc EXCEPT ![w] = to]
        /\ UNCHANGED <<waiting, pbuf, nput, nval, nready, cnt, printed>>
    BY <1>1 DEF lock_pmutex, lock_cmutex
  <2> QED BY <1>0, <1>1, <2>1 DEF CondInv, CondType, SomeoneAwake, ReturnedLate, RingIsIndex, Workers
<1>2. ASSUME NEW w \in Producers, produce_puts(w) PROVE CondInv'
  <2>1. PICK n \in Nat : /\ pbuf' = [pbuf EXCEPT ![n] = n]
                         /\ nput' = n + 1 /\ nval' = n + 1
                         /\ wpc' = [wpc EXCEPT ![w] = "count"]
                         /\ UNCHANGED <<waiting, nready, cnt, printed>>
    <3>1. Wrap.put = Wrap.val /\ Wrap.put \in Nat
      BY <1>0 DEF Wrap, CondType
    <3> QED BY <1>2, <3>1 DEF produce_puts
  <2>2. CondType'
    <3>1. pbuf' \in [0 .. nitems - 1 -> Nat]
      BY <1>0, <2>1 DEF CondType
    <3>2. wpc' \in [Workers -> {"put", "putting", "count", "counting", "take", "check",
                               "waiting", "woken", "taken", "print", "returned"}]
      BY <1>0, <2>1 DEF CondType
    <3> QED BY <1>0, <2>1, <3>1, <3>2 DEF CondType
  <2>3. SomeoneAwake' /\ ReturnedLate'
    BY <1>0, <2>1 DEF CondType, SomeoneAwake, ReturnedLate, Workers
  <2>4. RingIsIndex'
    BY <1>0, <2>1 DEF CondType, RingIsIndex
  <2> QED BY <2>2, <2>3, <2>4 DEF CondInv
<1>3. ASSUME NEW w \in Producers, produce_counts(w) PROVE CondInv'
  <2>1. nready' = nready + 1 /\ UNCHANGED <<pbuf, nput, nval, cnt, printed>>
    BY <1>3 DEF produce_counts
  <2>2. CASE ~Signals
    <3>1. waiting' = waiting /\ wpc' = [wpc EXCEPT ![w] = "put"]
      BY <1>3, <2>2 DEF produce_counts
    <3>2. CondType'
      BY <1>0, <2>1, <3>1 DEF CondType, Workers
    <3>3. SomeoneAwake' /\ ReturnedLate' /\ RingIsIndex'
      BY <1>0, <2>1, <2>2, <3>1 DEF CondType, SomeoneAwake, ReturnedLate, RingIsIndex, Signals, Workers
    <3> QED BY <3>2, <3>3 DEF CondInv
  <2>3. CASE Signals
    <3>1. PICK c \in waiting : /\ waiting' = waiting \ {c}
                               /\ wpc' = [wpc EXCEPT ![w] = "put", ![c] = "woken"]
      BY <1>3, <2>3 DEF produce_counts
    <3>2. c \in Consumers
      BY <1>0 DEF CondType
    <3>3. CondType'
      BY SMTT(30), <1>0, <2>1, <3>1, <3>2 DEF CondType, Workers
    <3>4. SomeoneAwake' /\ RingIsIndex'
      BY <1>0, <2>1, <3>1, <3>2 DEF SomeoneAwake, RingIsIndex
    <3>5. ReturnedLate'
      BY <1>0, <2>1, <3>1, <3>2 DEF CondType, ReturnedLate, Workers
    <3> QED BY <3>3, <3>4, <3>5 DEF CondInv
  <2> QED BY <2>2, <2>3
<1>4. ASSUME NEW w \in Consumers, consume_waits(w) \/ consume_takes(w) PROVE CondInv'
  <2>1. /\ wpc' = [wpc EXCEPT ![w] = "waiting"] \/ wpc' = [wpc EXCEPT ![w] = "taken"]
        /\ nready' \in Nat /\ UNCHANGED <<pbuf, nput, nval, cnt, printed>>
        /\ waiting' = waiting \/ (waiting' = waiting \cup {w} /\ nready' = 0)
        /\ nready' <= nready
    BY <1>0, <1>4 DEF consume_waits, consume_takes, CondType
  <2>2. CondType'
    <3>1. waiting' \in SUBSET Consumers
      BY <1>0, <2>1 DEF CondType
    <3>2. wpc' \in [Workers -> {"put", "putting", "count", "counting", "take", "check",
                               "waiting", "woken", "taken", "print", "returned"}]
      BY <1>0, <2>1 DEF CondType
    <3> QED BY <1>0, <2>1, <3>1, <3>2 DEF CondType
  <2>3. SomeoneAwake' /\ RingIsIndex'
    BY <1>0, <2>1 DEF CondType, SomeoneAwake, RingIsIndex
  <2>4. ReturnedLate'
    BY <1>0, <2>1 DEF CondType, ReturnedLate, Workers
  <2> QED BY <2>2, <2>3, <2>4 DEF CondInv
<1>5. ASSUME NEW w \in Consumers, SpuriousWakeup(w) PROVE CondInv'
  <2>1. /\ w \in waiting /\ waiting' = waiting \ {w} /\ wpc' = [wpc EXCEPT ![w] = "woken"]
        /\ UNCHANGED <<pbuf, nput, nval, nready, cnt, printed>>
    BY <1>5 DEF SpuriousWakeup
  <2> QED BY <1>0, <2>1 DEF CondInv, CondType, SomeoneAwake, ReturnedLate, RingIsIndex, Workers
<1>6. ASSUME NEW w \in Consumers, consume_prints_item(w) PROVE CondInv'
  <2>1. /\ cnt' = cnt + 1 /\ cnt' \in 0 .. nitems - 1
        /\ printed' = IF pbuf[cnt'] # 0 THEN <<cnt', pbuf[cnt']>> ELSE printed
        /\ pbuf' = [pbuf EXCEPT ![cnt'] = 0]
        /\ wpc' = [wpc EXCEPT ![w] = "take"]
        /\ UNCHANGED <<waiting, nput, nval, nready>>
    BY <1>0, <1>6 DEF consume_prints_item, CondType
  <2>2. pbuf[cnt'] \in Nat /\ pbuf[cnt'] \in {0, cnt'} /\ cnt' \in Nat
    BY <1>0, <2>1 DEF CondType, RingIsIndex
  <2>3. printed' \in Nat \X Nat /\ printed'[1] = printed'[2]
    BY <1>0, <2>1, <2>2 DEF CondType, RingIsIndex
  <2>4. CondType'
    BY <1>0, <2>1, <2>2, <2>3 DEF CondType, Workers
  <2>5. SomeoneAwake' /\ ReturnedLate'
    BY <1>0, <2>1 DEF CondType, SomeoneAwake, ReturnedLate, Workers
  <2>6. RingIsIndex'
    BY <1>0, <2>1, <2>3 DEF CondType, RingIsIndex
  <2> QED BY <2>4, <2>5, <2>6 DEF CondInv
<1>7. ASSUME NEW w \in Consumers, consume_returns(w) PROVE CondInv'
  <2>1. /\ cnt' = cnt + 1 /\ cnt' >= nitems /\ wpc' = [wpc EXCEPT ![w] = "returned"]
        /\ UNCHANGED <<waiting, pbuf, nput, nval, nready, printed>>
    BY <1>7 DEF consume_returns
  <2> QED BY <1>0, <2>1 DEF CondInv, CondType, SomeoneAwake, ReturnedLate, RingIsIndex, Workers
<1>8. CASE UNCHANGED condVars
  BY <1>0, <1>8 DEF condVars, CondInv, CondType, SomeoneAwake, ReturnedLate, RingIsIndex
<1> QED BY <1>1, <1>2, <1>3, <1>4, <1>5, <1>6, <1>7, <1>8 DEF CondNext, produce, consume, Workers

LEMMA CondAlways == Spec => []CondInv
<1>1. Init => CondInv
  BY NitemsAssumption, WorkersAssumption DEF Init, CondInit, CondInv, CondType, SomeoneAwake, ReturnedLate,
     RingIsIndex, Workers
<1>2. CondInv /\ [Next]_vars => CondInv'
  BY CondStepInv, OneProgram
<1> QED BY <1>1, <1>2, PTL DEF Spec

(* produce and consume: one signal for several items is enough, for any    *)
(* number of producers and consumers.                                      *)
THEOREM ReadyIsTakenAlways == Spec => []ReadyIsTaken
<1>1. ASSUME CondInv, nready > 0, waiting # {}, cnt < nitems - 1
      PROVE  \E w \in Consumers \ waiting : wpc[w] # "returned"
  <2>1. waiting \subseteq Consumers /\ waiting # Consumers
    BY <1>1 DEF CondInv, CondType, SomeoneAwake
  <2>2. PICK w \in Consumers : w \notin waiting
    BY <2>1
  <2>3. wpc[w] # "returned"
    BY <1>1, NitemsAssumption DEF CondInv, CondType, ReturnedLate
  <2> QED BY <2>2, <2>3
<1>2. CondInv => ReadyIsTaken
  BY <1>1 DEF ReadyIsTaken
<1> QED BY <1>2, CondAlways, PTL

(* What consume prints as buf[k] is k, for rings of any length.            *)
THEOREM PrintsIndexAlways == Spec => []PrintsIndex
<1>1. CondInv => PrintsIndex
  BY DEF CondInv, RingIsIndex, PrintsIndex
<1> QED BY <1>1, CondAlways, PTL

(* Who counts or looks at nready holds consumer.mutex; a producer that is  *)
(* let in to count finds room.                                             *)
CounterAlone ==
  /\ \A w \in waiting : wpc[w] = "waiting"
  /\ \A w \in Workers : wpc[w] \in {"counting", "check"} => cmutex = w
  /\ \A w \in Workers : wpc[w] = "counting" => nready < MaxReady

CondTypeInv == CondTypeOK /\ CounterAlone

LEMMA CondTypeStepInv == CondTypeInv /\ [CondNext]_condVars => CondTypeInv'
<1> SUFFICES ASSUME CondTypeInv, [CondNext]_condVars PROVE CondTypeInv'
  OBVIOUS
<1> USE NitemsAssumption, ReadyAssumption, WorkersAssumption, FreeAssumption
<1> DEFINE Places == {"put", "putting", "count", "counting", "take", "check",
                      "waiting", "woken", "taken", "print", "returned"}
<1>0. CondTypeOK /\ CounterAlone
  BY DEF CondTypeInv
<1>1. ASSUME NEW w \in Workers, NEW to \in {"putting", "print"}, NEW from \in {"put", "taken"},
             lock_pmutex(w, from, to)
      PROVE  CondTypeInv'
  <2>1. /\ wpc[w] = from /\ wpc' = [wpc EXCEPT ![w] = to] /\ pmutex' = w
        /\ UNCHANGED <<cmutex, waiting, pbuf, nput, nval, nready, cnt, printed>>
    BY <1>1 DEF lock_pmutex
  <2>2. CondTypeOK'
    BY <1>0, <2>1 DEF CondTypeOK
  <2>3. CounterAlone'
    BY <1>0, <2>1 DEF CondTypeOK, CounterAlone, Workers
  <2> QED BY <2>2, <2>3 DEF CondTypeInv
<1>2. ASSUME NEW w \in Workers, NEW to \in {"counting", "check"}, NEW from \in {"count", "take", "woken"},
             lock_cmutex(w, from, to), to = "counting" => nready < MaxReady
      PROVE  CondTypeInv'
  <2>1. /\ wpc[w] = from /\ cmutex = Free /\ cmutex' = w /\ wpc' = [wpc EXCEPT ![w] = to]
        /\ UNCHANGED <<pmutex, waiting, pbuf, nput, nval, nready, cnt, printed>>
    BY <1>2 DEF lock_cmutex
  <2>2. CondTypeOK'
    BY <1>0, <2>1 DEF CondTypeOK
  <2>3. \A v \in Workers : wpc[v] \notin {"counting", "check"}
    BY <1>0, <2>1 DEF CounterAlone
  <2>4. CounterAlone'
    BY <1>0, <1>2, <2>1, <2>3 DEF CondTypeOK, CounterAlone, Workers
  <2> QED BY <2>2, <2>4 DEF CondTypeInv
<1>3. ASSUME NEW w \in Producers, produce_puts(w) PROVE CondTypeInv'
  <2>1. PICK n \in 0 .. nitems - 1, v \in Nat :
               /\ pbuf' = [pbuf EXCEPT ![n] = v]
               /\ nput' = n + 1 /\ nval' = v + 1 /\ pmutex' = Free
               /\ wpc' = [wpc EXCEPT ![w] = "count"]
               /\ UNCHANGED <<cmutex, waiting, nready, cnt, printed>>
    <3>1. Wrap.put \in 0 .. nitems - 1 /\ Wrap.val \in Nat
      BY <1>0 DEF Wrap, CondTypeOK
    <3> QED BY <1>3, <3>1 DEF produce_puts
  <2>2. pbuf' \in [0 .. nitems - 1 -> Nat] /\ wpc' \in [Workers -> Places]
    BY <1>0, <2>1 DEF CondTypeOK
  <2>3. CondTypeOK'
    BY <1>0, <2>1, <2>2 DEF CondTypeOK
  <2>4. wpc[w] = "putting"
    BY <1>3 DEF produce_puts
  <2>5. CounterAlone'
    BY <1>0, <2>1, <2>4 DEF CondTypeOK, CounterAlone, Workers
  <2> QED BY <2>3, <2>5 DEF CondTypeInv
<1>4. ASSUME NEW w \in Producers, produce_counts(w) PROVE CondTypeInv'
  <2>1. /\ wpc[w] = "counting" /\ nready' = nready + 1 /\ cmutex' = Free
        /\ UNCHANGED <<pmutex, pbuf, nput, nval, cnt, printed>>
        /\ cmutex = w /\ nready < MaxReady
        /\ \A v \in Workers \ {w} : wpc[v] \notin {"counting", "check"}
    BY <1>0, <1>4 DEF produce_counts, CounterAlone, Workers
  <2>2. /\ waiting' \in SUBSET Consumers /\ wpc' \in [Workers -> Places]
        /\ wpc'[w] = "put"
        /\ \A v \in Workers \ {w} : wpc'[v] \in {wpc[v], "woken"}
        /\ \A c \in waiting' : c \in waiting /\ wpc'[c] = wpc[c]
    <3>1. CASE ~Signals
      <4>1. waiting' = waiting /\ wpc' = [wpc EXCEPT ![w] = "put"]
        BY <1>4, <3>1 DEF produce_counts
      <4> QED BY <1>0, <4>1 DEF CondTypeOK, Workers
    <3>2. CASE Signals
      <4>1. PICK c \in waiting : /\ waiting' = waiting \ {c}
                                 /\ wpc' = [wpc EXCEPT ![w] = "put", ![c] = "woken"]
        BY <1>4, <3>2 DEF produce_counts
      <4> QED BY <1>0, <4>1 DEF CondTypeOK, Workers
    <3> QED BY <3>1, <3>2
  <2>3. CondTypeOK'
    BY <1>0, <2>1, <2>2 DEF CondTypeOK
  <2>4. \A v \in Workers : wpc'[v] \notin {"counting", "check"}
    BY <2>1, <2>2 DEF Workers
  <2>5. \A c \in waiting' : wpc'[c] = "waiting"
    BY <1>0, <2>2 DEF CounterAlone
  <2>6. CounterAlone'
    BY <2>4, <2>5 DEF CounterAlone
  <2> QED BY <2>3, <2>6 DEF CondTypeInv
<1>5. ASSUME NEW w \in Consumers, consume_waits(w) \/ consume_takes(w) PROVE CondTypeInv'
  <2>1. /\ wpc[w] = "check" /\ cmutex' = Free
        /\ \/ wpc' = [wpc EXCEPT ![w] = "waiting"] /\ waiting' = waiting \cup {w} /\ nready' = nready
           \/ wpc' = [wpc EXCEPT ![w] = "taken"] /\ waiting' = waiting /\ nready # 0 /\ nready' = nready - 1
        /\ UNCHANGED <<pmutex, pbuf, nput, nval, cnt, printed>>
        /\ cmutex = w
        /\ \A v \in Workers \ {w} : wpc[v] \notin {"counting", "check"}
    BY <1>0, <1>5 DEF consume_waits, consume_takes, CounterAlone, Workers
  <2>2. CondTypeOK'
    <3>1. waiting' \in SUBSET Consumers
      BY <1>0, <2>1 DEF CondTypeOK
    <3>2. nready' \in 0 .. MaxReady
      BY <1>0, <2>1 DEF CondTypeOK
    <3>3. wpc' \in [Workers -> Places]
      BY <1>0, <2>1 DEF CondTypeOK
    <3> QED BY <1>0, <2>1, <3>1, <3>2, <3>3 DEF CondTypeOK
  <2>3. CounterAlone'
    BY ZenonT(40), <1>0, <2>1 DEF CondTypeOK, CounterAlone, Workers
  <2> QED BY <2>2, <2>3 DEF CondTypeInv
<1>6. ASSUME NEW w \in Consumers, SpuriousWakeup(w) PROVE CondTypeInv'
  <2>1. /\ w \in waiting /\ waiting' = waiting \ {w} /\ wpc' = [wpc EXCEPT ![w] = "woken"]
        /\ UNCHANGED <<pmutex, cmutex, pbuf, nput, nval, nready, cnt, printed>>
    BY <1>6 DEF SpuriousWakeup
  <2>2. CondTypeOK'
    BY <1>0, <2>1 DEF CondTypeOK, Workers
  <2>3. CounterAlone'
    BY <1>0, <2>1 DEF CondTypeOK, CounterAlone, Workers
  <2> QED BY <2>2, <2>3 DEF CondTypeInv
<1>7. ASSUME NEW w \in Consumers, consume_prints_item(w) \/ consume_returns(w) PROVE CondTypeInv'
  <2>1. /\ wpc[w] = "print" /\ cnt' = cnt + 1 /\ pmutex' = Free
        /\ wpc' \in {[wpc EXCEPT ![w] = "take"], [wpc EXCEPT ![w] = "returned"]}
        /\ pbuf' \in {pbuf, [pbuf EXCEPT ![cnt'] = 0]}
        /\ printed' = printed \/ (cnt' < nitems /\ printed' = <<cnt', pbuf[cnt']>>)
        /\ UNCHANGED <<cmutex, waiting, nput, nval, nready>>
    BY <1>7 DEF consume_prints_item, consume_returns
  <2>2. printed' \in Nat \X Nat
    <3>1. CASE printed' = printed
      BY <1>0, <3>1 DEF CondTypeOK
    <3>2. CASE cnt' < nitems /\ printed' = <<cnt', pbuf[cnt']>>
      <4>1. cnt' \in Nat /\ pbuf[cnt'] \in Nat
        BY <1>0, <2>1, <3>2 DEF CondTypeOK
      <4> QED BY <3>2, <4>1
    <3> QED BY <2>1, <3>1, <3>2
  <2>3. pbuf' \in [0 .. nitems - 1 -> Nat] /\ wpc' \in [Workers -> Places]
    <3>1. pbuf \in [0 .. nitems - 1 -> Nat] /\ wpc \in [Workers -> Places] /\ 0 \in Nat
      BY <1>0 DEF CondTypeOK
    <3>2. pbuf' \in [0 .. nitems - 1 -> Nat]
      BY <2>1, <3>1
    <3>3. wpc' \in [Workers -> Places]
      BY <2>1, <3>1
    <3> QED BY <3>2, <3>3
  <2>4. CondTypeOK'
    BY <1>0, <2>1, <2>2, <2>3 DEF CondTypeOK
  <2>5. CounterAlone'
    BY <1>0, <2>1 DEF CondTypeOK, CounterAlone, Workers
  <2> QED BY <2>4, <2>5 DEF CondTypeInv
<1>8. CASE UNCHANGED condVars
  BY <1>0, <1>8 DEF condVars, CondTypeInv, CondTypeOK, CounterAlone
<1>9. ASSUME NEW w \in Producers, produce(w) PROVE CondTypeInv'
  BY <1>1, <1>2, <1>3, <1>4, <1>9 DEF produce, Workers
<1>10. ASSUME NEW w \in Consumers, consume(w) PROVE CondTypeInv'
  BY <1>1, <1>2, <1>5, <1>7, <1>10 DEF consume, Workers
<1> QED BY <1>6, <1>8, <1>9, <1>10 DEF CondNext

LEMMA CondTypeInit == CondInit => CondTypeInv
BY NitemsAssumption, ReadyAssumption, WorkersAssumption
   DEF CondInit, CondTypeInv, CondTypeOK, CounterAlone, Workers

LEMMA CondTypeAlways == Spec => []CondTypeInv
<1>1. Init => CondTypeInv
  BY CondTypeInit DEF Init
<1>2. CondTypeInv /\ [Next]_vars => CondTypeInv'
  BY CondTypeStepInv, OneProgram
<1> QED BY <1>1, <1>2, PTL DEF Spec

-----------------------------------------------------------------------------
(* mqueue.c *)

MqType ==
  /\ queued \in Nat
  /\ armed \in Listeners \cup {Nobody}
  /\ lpc \in [Listeners -> {"off", "sleep", "notify", "receive", "blocked"}]
  /\ told \in [Listeners -> BOOLEAN]
  /\ backlog \in BOOLEAN

(* A second message lies on a first one, and nobody waits in mq_receive    *)
(* while there is one.                                                     *)
QueueShape ==
  /\ queued > 1 => backlog
  /\ queued > 0 => \A s \in Listeners : lpc[s] # "blocked"

MqInv == MqType /\ QueueShape /\ UnheardNeedsBacklog

(* A message that leaves one behind leaves a backlog. *)
LEMMA DequeueKeeps ==
  ASSUME MqType, QueueShape, Dequeue
  PROVE  /\ queued' \in Nat /\ backlog' \in BOOLEAN /\ queued > 0
         /\ queued' > 0 => backlog'
<1>1. queued > 0 /\ queued' = queued - 1
  BY DEF Dequeue
<1>2. backlog' \in BOOLEAN
  BY Zenon DEF Dequeue
<1>3. queued > 1 => backlog'
  BY Zenon DEF Dequeue, QueueShape
<1> QED BY <1>1, <1>2, <1>3 DEF MqType

(* The queue, the registration and the servers as they were. *)
LEMMA MqQuiet ==
  ASSUME MqInv, UNCHANGED <<queued, armed, lpc, told, backlog>>
  PROVE  MqInv'
<1>1. MqType' /\ QueueShape'
  BY DEF MqInv, MqType, QueueShape
<1>2. UnheardNeedsBacklog'
  BY Zenon DEF MqInv, UnheardNeedsBacklog, Asleep
<1> QED BY <1>1, <1>2 DEF MqInv

LEMMA MqStepInv == MqInv /\ [MqNext]_mqVars => MqInv'
<1> SUFFICES ASSUME MqInv, [MqNext]_mqVars PROVE MqInv'
  OBVIOUS
<1> USE NobodyAssumption
<1>0. MqType /\ QueueShape /\ UnheardNeedsBacklog
  BY DEF MqInv
<1>1. ASSUME NEW s \in Listeners, mq_notify_first(s) \/ StopListener(s) PROVE MqInv'
  <2>1. /\ queued' = queued /\ backlog' = (backlog \/ queued > 0)
        /\ armed' \in {armed, s, Nobody}
        /\ lpc' \in {[lpc EXCEPT ![s] = "sleep"], [lpc EXCEPT ![s] = "off"]}
        /\ told' = [told EXCEPT ![s] = FALSE]
    BY <1>1 DEF mq_notify_first, StopListener
  <2>2. MqType'
    BY <1>0, <2>1 DEF MqType
  <2>3. QueueShape' /\ UnheardNeedsBacklog'
    BY <1>0, <2>1 DEF MqType, QueueShape, UnheardNeedsBacklog
  <2> QED BY <2>2, <2>3 DEF MqInv
<1>2. ASSUME NEW s \in Listeners, wakes(s, "notify") PROVE MqInv'
  <2>1. /\ UNCHANGED <<queued, armed, backlog>>
        /\ lpc' = [lpc EXCEPT ![s] = "notify"] /\ told' = [told EXCEPT ![s] = FALSE]
    BY <1>2 DEF wakes
  <2>2. MqType' /\ QueueShape'
    BY <1>0, <2>1 DEF MqType, QueueShape
  <2>3. UnheardNeedsBacklog'
    BY <1>0, <2>1 DEF MqType, UnheardNeedsBacklog, Asleep
  <2> QED BY <2>2, <2>3 DEF MqInv
<1>3. ASSUME NEW s \in Listeners, mq_notify_again(s, "notify", "receive") PROVE MqInv'
  <2>1. /\ UNCHANGED <<queued, told, backlog>> /\ armed' \in {armed, s}
        /\ lpc' = [lpc EXCEPT ![s] = "receive"]
    BY <1>3 DEF mq_notify_again
  <2>2. MqType' /\ QueueShape'
    BY <1>0, <2>1 DEF MqType, QueueShape
  <2>3. UnheardNeedsBacklog'
    BY <1>0, <2>1 DEF MqType, UnheardNeedsBacklog, Asleep
  <2> QED BY <2>2, <2>3 DEF MqInv
<1>4. ASSUME NEW s \in Listeners, mq_receive(s, "receive", "sleep") PROVE MqInv'
  <2>1. CASE Dequeue /\ lpc' = [lpc EXCEPT ![s] = "sleep"] /\ UNCHANGED <<armed, told, emain, ethread>>
    <3>1. /\ queued' \in Nat /\ backlog' \in BOOLEAN /\ queued > 0
          /\ queued' > 0 => backlog'
      BY <1>0, <2>1, DequeueKeeps
    <3>2. MqType' /\ QueueShape'
      BY <1>0, <2>1, <3>1 DEF MqType, QueueShape
    <3>3. UnheardNeedsBacklog'
      BY <3>1 DEF UnheardNeedsBacklog
    <3> QED BY <3>2, <3>3 DEF MqInv
  <2>2. CASE /\ queued = 0 /\ lpc' = [lpc EXCEPT ![s] = "blocked"]
             /\ UNCHANGED <<queued, armed, told, emain, ethread, backlog>>
    <3>1. MqType' /\ QueueShape'
      BY <1>0, <2>2 DEF MqType, QueueShape
    <3>2. UnheardNeedsBacklog'
      BY <2>2 DEF UnheardNeedsBacklog
    <3> QED BY <3>1, <3>2 DEF MqInv
  <2> QED BY <1>4, <2>1, <2>2, Zenon DEF mq_receive
<1>5. ASSUME NEW e \in Echoers, mq_send(e) PROVE MqInv'
  <2>1. CASE \E s \in Listeners : /\ lpc[s] = "blocked"
                                  /\ lpc' = [lpc EXCEPT ![s] = "sleep"]
                                  /\ UNCHANGED <<queued, armed, told, backlog>>
    <3>1. queued = 0
      BY <1>0, <2>1 DEF MqType, QueueShape
    <3>2. MqType' /\ QueueShape'
      BY <1>0, <2>1, <3>1 DEF MqType, QueueShape
    <3>3. UnheardNeedsBacklog'
      BY <2>1, <3>1 DEF UnheardNeedsBacklog
    <3> QED BY <3>2, <3>3 DEF MqInv
  <2>2. CASE /\ \A s \in Listeners : lpc[s] # "blocked"
             /\ queued' = queued + 1
             /\ backlog' = (backlog \/ queued > 0)
             /\ told' = [s \in Listeners |-> told[s] \/ (queued = 0 /\ armed = s)]
             /\ armed' = IF queued = 0 THEN Nobody ELSE armed
             /\ UNCHANGED lpc
    <3>1. told' \in [Listeners -> BOOLEAN]
      BY <2>2, Zenon
    <3>2. backlog' \in BOOLEAN /\ (queued > 0 => backlog')
      BY <1>0, <2>2, Zenon DEF MqType
    <3>3. MqType'
      BY <1>0, <2>2, <3>1, <3>2 DEF MqType
    <3>4. QueueShape'
      BY <1>0, <2>2, <3>2 DEF MqType, QueueShape
    <3>5. UnheardNeedsBacklog'
      BY <1>0, <2>2, <3>2 DEF MqType, UnheardNeedsBacklog
    <3> QED BY <3>3, <3>4, <3>5 DEF MqInv
  <2> QED BY <1>5, <2>1, <2>2 DEF mq_send
<1>6. ASSUME NEW e \in Echoers, handle_receivemsg(e) PROVE MqInv'
  <2>1. CASE Dequeue /\ UNCHANGED <<armed, lpc, told>>
    <3>1. /\ queued' \in Nat /\ backlog' \in BOOLEAN /\ queued > 0
          /\ queued' > 0 => backlog'
      BY <1>0, <2>1, DequeueKeeps
    <3>2. MqType' /\ QueueShape'
      BY <1>0, <2>1, <3>1 DEF MqType, QueueShape
    <3>3. UnheardNeedsBacklog'
      BY <3>1 DEF UnheardNeedsBacklog
    <3> QED BY <3>2, <3>3 DEF MqInv
  <2>2. CASE queued = 0 /\ UNCHANGED <<queued, backlog>> /\ UNCHANGED <<armed, lpc, told>>
    BY <2>2, MqQuiet
  <2> QED BY <1>6, <2>1, <2>2, Zenon DEF handle_receivemsg
<1>7. ASSUME NEW e \in Echoers, echo_starts(e) \/ pthread_join_echo(e) PROVE MqInv'
  BY <1>7, MqQuiet DEF echo_starts, pthread_join_echo
<1>8. CASE UNCHANGED mqVars
  BY <1>8, MqQuiet DEF mqVars
<1> QED BY <1>1, <1>2, <1>3, <1>4, <1>5, <1>6, <1>7, <1>8 DEF MqNext, listen

(* listen: renewing the registration before the receive leaves no gap, for *)
(* any number of servers and senders.                                      *)
THEOREM UnheardNeedsBacklogAlways == Spec => []UnheardNeedsBacklog
<1>1. Init => MqInv
  <2> SUFFICES ASSUME MqInit PROVE MqInv
    BY DEF Init
  <2>1. MqType /\ queued = 0
    BY DEF MqInit, MqType
  <2> QED BY <2>1 DEF MqInv, QueueShape, UnheardNeedsBacklog
<1>2. MqInv /\ [Next]_vars => MqInv'
  BY MqStepInv, OneProgram
<1>3. MqInv => UnheardNeedsBacklog
  BY DEF MqInv
<1> QED BY <1>1, <1>2, <1>3, PTL DEF Spec

LEMMA MqTypeStep == MqTypeOK /\ [MqNext]_mqVars => MqTypeOK'
<1> SUFFICES ASSUME MqTypeOK, [MqNext]_mqVars PROVE MqTypeOK'
  OBVIOUS
<1> USE MaxMsgAssumption
<1>1. ASSUME Dequeue PROVE queued' \in 0 .. MaxMsg /\ backlog' \in BOOLEAN
  <2>1. queued > 0 /\ queued' = queued - 1
    BY <1>1 DEF Dequeue
  <2>2. backlog' \in BOOLEAN
    BY <1>1, Zenon DEF Dequeue
  <2> QED BY <2>1, <2>2 DEF MqTypeOK
<1>2. ASSUME NEW s \in Listeners, mq_notify_first(s) \/ StopListener(s) PROVE MqTypeOK'
  <2>1. backlog' \in BOOLEAN
    BY <1>2, Zenon DEF mq_notify_first, StopListener
  <2> QED BY <1>2, <2>1 DEF mq_notify_first, StopListener, MqTypeOK
<1>3. ASSUME NEW s \in Listeners, wakes(s, "notify") \/ mq_notify_again(s, "notify", "receive")
      PROVE  MqTypeOK'
  BY <1>3 DEF wakes, mq_notify_again, MqTypeOK
<1>4. ASSUME NEW s \in Listeners, mq_receive(s, "receive", "sleep") PROVE MqTypeOK'
  <2>1. CASE Dequeue /\ lpc' = [lpc EXCEPT ![s] = "sleep"] /\ UNCHANGED <<armed, told, emain, ethread>>
    BY <1>1, <2>1 DEF MqTypeOK
  <2>2. CASE /\ lpc' = [lpc EXCEPT ![s] = "blocked"]
             /\ UNCHANGED <<queued, armed, told, emain, ethread, backlog>>
    BY <2>2 DEF MqTypeOK
  <2> QED BY <1>4, <2>1, <2>2, Zenon DEF mq_receive
<1>5. ASSUME NEW e \in Echoers, mq_send(e) PROVE MqTypeOK'
  <2>1. emain' = [emain EXCEPT ![e] = "join"] /\ ethread' = ethread
    BY <1>5 DEF mq_send
  <2>2. CASE \E s \in Listeners : /\ lpc' = [lpc EXCEPT ![s] = "sleep"]
                                  /\ UNCHANGED <<queued, armed, told, backlog>>
    BY <2>1, <2>2 DEF MqTypeOK
  <2>3. CASE /\ queued < MaxMsg /\ queued' = queued + 1
             /\ backlog' = (backlog \/ queued > 0)
             /\ told' = [s \in Listeners |-> told[s] \/ (queued = 0 /\ armed = s)]
             /\ armed' = IF queued = 0 THEN Nobody ELSE armed
             /\ UNCHANGED lpc
    <3>1. told' \in [Listeners -> BOOLEAN] /\ backlog' \in BOOLEAN
      BY <2>3, Zenon
    <3> QED BY <2>1, <2>3, <3>1 DEF MqTypeOK
  <2> QED BY <1>5, <2>2, <2>3 DEF mq_send
<1>6. ASSUME NEW e \in Echoers, handle_receivemsg(e) PROVE MqTypeOK'
  <2>1. CASE Dequeue /\ ethread' = [ethread EXCEPT ![e] = "done"] /\ UNCHANGED <<emain, armed, lpc, told>>
    BY <1>1, <2>1 DEF MqTypeOK
  <2>2. CASE /\ ethread' = [ethread EXCEPT ![e] = "none"] /\ emain' = [emain EXCEPT ![e] = "off"]
             /\ UNCHANGED <<queued, backlog, armed, lpc, told>>
    BY <2>2 DEF MqTypeOK
  <2> QED BY <1>6, <2>1, <2>2, Zenon DEF handle_receivemsg
<1>7. ASSUME NEW e \in Echoers, echo_starts(e) \/ pthread_join_echo(e) PROVE MqTypeOK'
  BY <1>7 DEF echo_starts, pthread_join_echo, MqTypeOK
<1>8. CASE UNCHANGED mqVars
  BY <1>8 DEF mqVars, MqTypeOK
<1> QED BY <1>2, <1>3, <1>4, <1>5, <1>6, <1>7, <1>8 DEF MqNext, listen

LEMMA MqTypeInit == MqInit => MqTypeOK
<1> SUFFICES ASSUME MqInit PROVE MqTypeOK
  OBVIOUS
<1>1. told \in [Listeners -> BOOLEAN] /\ backlog \in BOOLEAN
  BY Zenon DEF MqInit
<1> QED BY <1>1, MaxMsgAssumption DEF MqInit, MqTypeOK

LEMMA MqTypeAlways == Spec => []MqTypeOK
<1>1. Init => MqTypeOK
  BY MqTypeInit DEF Init
<1>2. MqTypeOK /\ [Next]_vars => MqTypeOK'
  BY MqTypeStep, OneProgram
<1> QED BY <1>1, <1>2, PTL DEF Spec

-----------------------------------------------------------------------------
(* fifo.c and pipe.c *)

(* The files a process holds go with where it stands.  Only the second one *)
(* removes names: it never misses a FIFO, nor holds one that lost its name.*)
Holding ==
  /\ \A p \in Ends :
       /\ at[p] \in {"off", "make1", "make2", "open1", "unlink1", "unlink2"} => \A c \in Names : fd[p][c] = NotOpen
       /\ at[p] \in {"wait1", "open2"} => fd[p]["FIFO1"] # NotOpen /\ fd[p]["FIFO2"] = NotOpen
       /\ at[p] \in {"wait2", "turn1", "turn2", "end"} => \A c \in Names : fd[p][c] # NotOpen
  /\ at["first"] \notin {"end", "unlink1", "unlink2"}
  /\ at["second"] \in {"make2", "open1", "wait1", "open2", "wait2", "turn1", "turn2", "end", "unlink1"} =>
       name["FIFO1"] # NotOpen
  /\ at["second"] \in {"open1", "wait1", "open2", "wait2", "turn1", "turn2", "end", "unlink1"} =>
       name["FIFO2"] # NotOpen
  /\ \A c \in Names : fd["second"][c] \in {NotOpen, name[c]}

(* A file has one of the two names, and nothing lies in one nobody holds. *)
OneName ==
  /\ \A c \in Names : name[c] <= made /\ \A p \in Ends : fd[p][c] <= made
  /\ \A p \in Ends : \A c, d \in Names : c # d =>
       /\ fd[p][c] > 0 => fd[p][c] # name[d] /\ \A q \in Ends : fd[p][c] # fd[q][d]
       /\ name[c] > 0 => name[c] # name[d]
  /\ \A i \in 1 .. MaxFifos : bytes[i] => \E q \in Ends, c \in Names : fd[q][c] = i

(* Nobody waits in open() for somebody who has opened the same file. *)
OpensMeet ==
  \A p \in Ends :
    /\ at[p] = "wait1" => fd[p]["FIFO1"] # fd[Other(p)]["FIFO1"]
    /\ at[p] = "wait2" => fd[p]["FIFO2"] # fd[Other(p)]["FIFO2"]

Talking == {"turn1", "turn2"}
Met     == {"open2", "wait2"} \cup Talking   \* has met the other one on FIFO1

(* Two processes that met on FIFO1 stay together until the second one has  *)
(* answered, and a line that was typed lies where the other one reads.     *)
SecondMeets == at["second"] \in Met => fd["first"]["FIFO1"] = name["FIFO1"]
FirstMeets  ==
  at["first"] \in Met /\ name["FIFO1"] # NotOpen /\ fd["first"]["FIFO1"] = name["FIFO1"] =>
    at["second"] \in Met \cup {"end", "unlink1"}
BothTalk ==
  at["first"] \in Talking /\ at["second"] \in Met =>
    fd["first"]["FIFO2"] = name["FIFO2"] /\ fd["second"]["FIFO2"] = name["FIFO2"]
Answered ==
  name["FIFO1"] > 0 /\ bytes[name["FIFO1"]] => at["second"] \in {"end", "unlink1"}
Asked ==
  at["first"] = "turn2" /\ at["second"] = "turn1" /\ ~silent["first"] => bytes[name["FIFO2"]]

(* Nothing is promised once one was stopped while the other one stayed.    *)
Together == ~stopped => SecondMeets /\ FirstMeets /\ BothTalk /\ Answered /\ Asked

FifoInv == Holding /\ OneName /\ OpensMeet /\ Together

(* Over pipes the two are together from the start. *)
PipeInv ==
  /\ at["first"] \in {"turn1", "turn2", "off"} /\ at["second"] \in {"turn1", "turn2", "end", "off"}
  /\ \A p \in Ends : \A c \in Names :
       fd[p][c] = IF at[p] = "off" THEN NotOpen ELSE IF c = "FIFO1" THEN 1 ELSE 2
  /\ at["first"] = "turn1" => at["second"] = "turn1" /\ \A i \in 1 .. MaxFifos : ~bytes[i]
  /\ at["first"] = "turn2" /\ at["second"] = "turn1" /\ ~silent["first"] => bytes[2]
  /\ at["first"] = "turn2" /\ at["second"] = "end" /\ ~silent["second"] => bytes[1]

TalkInv == TalkTypeOK /\ IF overPipe THEN PipeInv ELSE FifoInv


(* The two processes and the two names by name. *)
LEMMA EndsAndNames ==
  /\ Ends = {"first", "second"} /\ Names = {"FIFO1", "FIFO2"}
  /\ Other("first") = "second" /\ Other("second") = "first"
  /\ In("first") = "FIFO1" /\ Out("first") = "FIFO2"
  /\ In("second") = "FIFO2" /\ Out("second") = "FIFO1"
BY DEF Ends, Names, Other, In, Out

LEMMA TalkInitInv == TalkInit => TalkInv
<1> SUFFICES ASSUME TalkInit PROVE TalkInv
  OBVIOUS
<1>0. MaxFifos \in Nat /\ MaxFifos >= 2
  BY FifosAssumption
<1>1. overPipe \in BOOLEAN /\ silent \in [Ends -> BOOLEAN] /\ stopped \in BOOLEAN
      /\ bytes \in [1 .. MaxFifos -> BOOLEAN] /\ (\A i \in 1 .. MaxFifos : ~bytes[i])
  BY Zenon DEF TalkInit
<1>2. TalkTypeOK
  BY <1>0, <1>1 DEF TalkInit, TalkTypeOK, NotOpen
<1>3. CASE overPipe
  BY <1>1, <1>2, <1>3, EndsAndNames DEF TalkInit, TalkInv, PipeInv
<1>4. CASE ~overPipe
  <2>1. /\ at = [p \in Ends |-> "off"] /\ fd = [p \in Ends |-> [c \in Names |-> 0]]
        /\ name = [c \in Names |-> 0] /\ made = 0
    BY <1>4 DEF TalkInit, NotOpen
  <2>2. Holding /\ OneName /\ OpensMeet /\ Together
    BY <1>1, <2>1, EndsAndNames DEF Holding, OneName, OpensMeet, Together, Met, Talking, NotOpen,
              SecondMeets, FirstMeets, BothTalk, Answered, Asked
  <2> QED BY <1>2, <1>4, <2>2 DEF TalkInv, FifoInv
<1> QED BY <1>3, <1>4

LEMMA TalkTypeStep ==
  ASSUME TalkTypeOK, [TalkNext]_talkVars
  PROVE  TalkTypeOK'
<1> USE FifosAssumption, EndsAndNames
<1> DEFINE Places == {"off", "make1", "make2", "open1", "wait1", "open2", "wait2",
                      "turn1", "turn2", "end", "unlink1", "unlink2"}
<1>0. \A n \in Int : bytes' = Unread(n) => bytes' \in [1 .. MaxFifos -> BOOLEAN]
  BY Zenon DEF Unread
<1>1. \A p \in Ends : Drop(p) => fd' \in [Ends -> [Names -> -1 .. MaxFifos]]
  BY DEF Drop, TalkTypeOK, NotOpen
<1>2. ASSUME NEW p \in Ends, start(p) PROVE TalkTypeOK'
  <2>1. stopped' \in BOOLEAN
    BY <1>2, Zenon DEF start
  <2> QED BY <1>2, <2>1 DEF start, Goto, TalkTypeOK
<1>3. ASSUME NEW p \in Ends, NEW c \in Names, NEW from, NEW to \in Places, mkfifo(p, from, c, to)
      PROVE  TalkTypeOK'
  BY <1>3 DEF mkfifo, Goto, TalkTypeOK
<1>4. ASSUME NEW p \in Ends, NEW c \in Names, NEW from, NEW to \in Places, NEW waits \in Places,
             open(p, from, c, waits, to)
      PROVE  TalkTypeOK'
  <2>1. fd' \in [Ends -> [Names -> -1 .. MaxFifos]]
    <3>1. PICK n \in -1 .. MaxFifos : fd' = [fd EXCEPT ![p][c] = n]
      BY <1>4 DEF open, TalkTypeOK, Failed
    <3> QED BY <3>1 DEF TalkTypeOK
  <2>2. at' \in [Ends -> Places]
    BY <1>4 DEF open, Goto, TalkTypeOK
  <2> QED BY <1>4, <2>1, <2>2 DEF open, TalkTypeOK
<1>5. ASSUME NEW p \in Ends, NEW from, NEW to \in Places, reads(p, from, to) PROVE TalkTypeOK'
  <2>1. bytes' = Unread(fd[p][In(p)]) /\ fd[p][In(p)] \in Int
    BY <1>5 DEF reads, TalkTypeOK
  <2>2. bytes' \in [1 .. MaxFifos -> BOOLEAN]
    BY <1>0, <2>1
  <2>3. fd' \in [Ends -> [Names -> -1 .. MaxFifos]]
    BY <1>1, <1>5 DEF reads, TalkTypeOK
  <2> QED BY <1>5, <2>2, <2>3 DEF reads, Goto, TalkTypeOK
<1>6. ASSUME NEW p \in Ends, NEW from, NEW to \in Places, writes(p, from, to) PROVE TalkTypeOK'
  <2>1. bytes' \in [1 .. MaxFifos -> BOOLEAN]
    <3>1. \/ bytes' = bytes \/ bytes' = Unread(NotOpen)
          \/ bytes' = [bytes EXCEPT ![fd[p][Out(p)]] = TRUE]
      BY <1>6, Zenon DEF writes
    <3>2. NotOpen \in Int
      BY DEF NotOpen
    <3> QED BY <1>0, <3>1, <3>2 DEF TalkTypeOK
  <2>2. fd' \in [Ends -> [Names -> -1 .. MaxFifos]]
    BY <1>1, <1>6 DEF writes, TalkTypeOK
  <2>3. at' \in [Ends -> Places] /\ silent' \in [Ends -> BOOLEAN]
    BY <1>6 DEF writes, Goto, TalkTypeOK
  <2> QED BY <1>6, <2>1, <2>2, <2>3 DEF writes, TalkTypeOK
<1>7. ASSUME close_both \/ waitpid PROVE TalkTypeOK'
  <2>1. bytes' = Unread(NotOpen) /\ NotOpen \in Int /\ Drop("second")
    BY <1>7 DEF close_both, waitpid, NotOpen
  <2>2. bytes' \in [1 .. MaxFifos -> BOOLEAN]
    BY <1>0, <2>1
  <2>3. fd' \in [Ends -> [Names -> -1 .. MaxFifos]]
    BY <1>1, <2>1
  <2> QED BY <1>7, <2>2, <2>3 DEF close_both, waitpid, Goto, TalkTypeOK
<1>8. ASSUME NEW from, NEW c \in Names, NEW to \in Places, unlink(from, c, to) PROVE TalkTypeOK'
  BY <1>8 DEF unlink, Goto, TalkTypeOK, NotOpen
<1>9. ASSUME NEW p \in Ends, Interrupt(p) PROVE TalkTypeOK'
  <2>1. bytes' = Unread(NotOpen) /\ NotOpen \in Int /\ stopped' = TRUE
        /\ UNCHANGED <<overPipe, name, made, silent>>
    BY <1>9 DEF Interrupt, NotOpen
  <2>2. bytes' \in [1 .. MaxFifos -> BOOLEAN] /\ stopped' \in BOOLEAN
    BY <1>0, <2>1
  <2>3. at' \in [Ends -> Places]
    BY <1>9 DEF Interrupt, TalkTypeOK
  <2>4. fd' \in [Ends -> [Names -> -1 .. MaxFifos]]
    BY <1>9 DEF Interrupt, TalkTypeOK, NotOpen
  <2> QED BY <2>1, <2>2, <2>3, <2>4 DEF TalkTypeOK
<1>10. CASE UNCHANGED talkVars
  BY <1>10 DEF talkVars, TalkTypeOK
<1>11. ASSUME NEW p \in Ends, opens(p) \/ converse(p) PROVE TalkTypeOK'
  BY <1>4, <1>5, <1>6, <1>11 DEF opens, converse
<1> QED BY <1>2, <1>3, <1>7, <1>8, <1>9, <1>10, <1>11 DEF TalkNext

(* What is left of bytes when p lets go of its files. *)
LEMMA DropEach ==
  ASSUME TalkTypeOK, NEW p \in Ends, Drop(p)
  PROVE  /\ \A c \in Names : fd'[p][c] = NotOpen
         /\ \A q \in Ends \ {p} : fd'[q] = fd[q]
BY DEF Drop, TalkTypeOK

LEMMA UnreadEach ==
  ASSUME NEW read, bytes' = Unread(read), NEW i \in 1 .. MaxFifos
  PROVE  /\ bytes'[i] => bytes[i] /\ i # read /\ \E q \in Ends, c \in Names : fd'[q][c] = i
         /\ bytes[i] /\ i # read /\ (\E q \in Ends, c \in Names : fd'[q][c] = i) => bytes'[i]
BY Zenon DEF Unread

(* A write sends a line, or sends nothing, or ends a process nobody hears. *)
LEMMA WritesEach ==
  ASSUME TalkTypeOK, NEW p \in Ends, NEW from, NEW to, writes(p, from, to),
         NEW i, NEW j, i = fd[p][Out(p)], j = fd[Other(p)][Out(p)]
  PROVE  /\ at[p] = from /\ UNCHANGED <<overPipe, name, made, stopped>>
         /\ \A q \in Ends \ {p} : silent'[q] = silent[q]
         /\ \/ /\ at' = [at EXCEPT ![p] = to] /\ fd' = fd /\ bytes' = bytes
               /\ silent'[p] \/ i = Failed
            \/ /\ at' = [at EXCEPT ![p] = to] /\ fd' = fd
               /\ i # Failed /\ j = i /\ bytes' = [bytes EXCEPT ![i] = TRUE]
            \/ /\ at' = [at EXCEPT ![p] = "off"] /\ Drop(p) /\ bytes' = Unread(NotOpen)
               /\ i # Failed /\ j # i
<1>1. PICK empty \in BOOLEAN :
        /\ silent' = [silent EXCEPT ![p] = empty]
        /\ IF i = Failed \/ empty
           THEN Goto(p, to) /\ UNCHANGED <<bytes, fd>>
           ELSE IF j = i
           THEN Goto(p, to) /\ bytes' = [bytes EXCEPT ![i] = TRUE] /\ UNCHANGED fd
           ELSE Goto(p, "off") /\ Drop(p) /\ bytes' = Unread(NotOpen)
  BY DEF writes
<1>2. silent'[p] = empty /\ \A q \in Ends \ {p} : silent'[q] = silent[q]
  BY <1>1 DEF TalkTypeOK
<1>3. at[p] = from /\ UNCHANGED <<overPipe, name, made, stopped>>
  BY DEF writes
<1>4. CASE i = Failed \/ empty
  BY <1>1, <1>2, <1>3, <1>4, Zenon DEF Goto
<1>5. CASE ~(i = Failed \/ empty)
  BY <1>1, <1>2, <1>3, <1>5, Zenon DEF Goto
<1> QED BY <1>4, <1>5

LEMMA FirstWrites ==
  ASSUME TalkTypeOK, writes("first", "turn1", "turn2"), NEW i, i = fd["first"]["FIFO2"]
  PROVE  /\ at["first"] = "turn1" /\ name' = name /\ made' = made /\ stopped' = stopped
         /\ silent'["second"] = silent["second"]
         /\ \/ /\ at' = [at EXCEPT !["first"] = "turn2"] /\ fd' = fd /\ bytes' = bytes
               /\ silent'["first"] \/ i = Failed
            \/ /\ at' = [at EXCEPT !["first"] = "turn2"] /\ fd' = fd
               /\ i # Failed /\ fd["second"]["FIFO2"] = i /\ bytes' = [bytes EXCEPT ![i] = TRUE]
            \/ /\ at' = [at EXCEPT !["first"] = "off"] /\ Drop("first") /\ bytes' = Unread(NotOpen)
               /\ i # Failed /\ fd["second"]["FIFO2"] # i
<1>1. "first" \in Ends /\ "second" \in Ends \ {"first"} /\ Out("first") = "FIFO2" /\ Other("first") = "second"
  BY EndsAndNames
<1>2. i = fd["first"][Out("first")] /\ fd["second"]["FIFO2"] = fd[Other("first")][Out("first")]
  BY <1>1
<1> QED BY <1>1, <1>2, WritesEach

LEMMA SecondWrites ==
  ASSUME TalkTypeOK, writes("second", "turn2", "end"), NEW i, i = fd["second"]["FIFO1"]
  PROVE  /\ at["second"] = "turn2" /\ name' = name /\ made' = made /\ stopped' = stopped
         /\ silent'["first"] = silent["first"]
         /\ \/ /\ at' = [at EXCEPT !["second"] = "end"] /\ fd' = fd /\ bytes' = bytes
               /\ silent'["second"] \/ i = Failed
            \/ /\ at' = [at EXCEPT !["second"] = "end"] /\ fd' = fd
               /\ i # Failed /\ fd["first"]["FIFO1"] = i /\ bytes' = [bytes EXCEPT ![i] = TRUE]
            \/ /\ at' = [at EXCEPT !["second"] = "off"] /\ Drop("second") /\ bytes' = Unread(NotOpen)
               /\ i # Failed /\ fd["first"]["FIFO1"] # i
<1>1. "second" \in Ends /\ "first" \in Ends \ {"second"} /\ Out("second") = "FIFO1" /\ Other("second") = "first"
  BY EndsAndNames
<1>2. i = fd["second"][Out("second")] /\ fd["first"]["FIFO1"] = fd[Other("second")][Out("second")]
  BY <1>1
<1> QED BY <1>1, <1>2, WritesEach

-----------------------------------------------------------------------------
LEMMA PipeStepInv ==
  ASSUME TalkTypeOK, PipeInv, overPipe, [TalkNext]_talkVars
  PROVE  PipeInv'
<1> USE FifosAssumption, EndsAndNames
<1>a. 1 \in 1 .. MaxFifos /\ 2 \in 1 .. MaxFifos /\ NotOpen = 0
  BY DEF NotOpen
<1>1. CASE converse("first")
  <2>1. CASE writes("first", "turn1", "turn2")
    <3>1. /\ at["first"] = "turn1" /\ at["second"] = "turn1"
          /\ fd["first"]["FIFO2"] = 2 /\ fd["second"]["FIFO2"] = 2
      BY <2>1 DEF writes, PipeInv
    <3>2. /\ at' = [at EXCEPT !["first"] = "turn2"] /\ fd' = fd
          /\ silent'["first"] \/ bytes' = [bytes EXCEPT ![2] = TRUE]
      <4>1. 2 = fd["first"]["FIFO2"] /\ 2 # Failed /\ fd["second"]["FIFO2"] = 2
        BY <3>1 DEF Failed
      <4> QED BY <2>1, <4>1, FirstWrites
    <3>3. silent'["first"] \/ bytes'[2]
      BY <1>a, <3>2 DEF TalkTypeOK
    <3> QED BY <3>1, <3>2, <3>3 DEF PipeInv, TalkTypeOK
  <2>2. CASE reads("first", "turn2", "off")
    <3>1. /\ at["first"] = "turn2" /\ at' = [at EXCEPT !["first"] = "off"] /\ Drop("first")
      BY <2>2 DEF reads, Goto
    <3> QED BY <3>1, DropEach DEF PipeInv, TalkTypeOK
  <2> QED BY <1>1, <2>1, <2>2 DEF converse
<1>2. CASE converse("second")
  <2>1. CASE reads("second", "turn1", "turn2")
    <3>1. /\ at["second"] = "turn1" /\ at' = [at EXCEPT !["second"] = "turn2"] /\ UNCHANGED fd
          /\ CanRead("second")
      BY <2>1 DEF reads, Goto
    <3>2. at["first"] # "turn1"
      BY <1>a, <3>1 DEF CanRead, PipeInv, Failed
    <3> QED BY <3>1, <3>2 DEF PipeInv, TalkTypeOK
  <2>2. CASE writes("second", "turn2", "end")
    <3>1. at["second"] = "turn2" /\ at["first"] # "turn1" /\ fd["second"]["FIFO1"] = 1
      BY <2>2 DEF writes, PipeInv
    <3>2. CASE /\ at' = [at EXCEPT !["second"] = "off"] /\ Drop("second") /\ fd["first"]["FIFO1"] # 1
      <4>1. at["first"] = "off"
        BY <3>1, <3>2 DEF PipeInv
      <4>2. at'["first"] = "off" /\ at'["second"] = "off"
        BY <3>2, <4>1 DEF TalkTypeOK
      <4>3. \A p \in Ends, c \in Names : fd'[p][c] = 0
        BY <1>a, <3>2, <4>1, DropEach DEF PipeInv
      <4>4. /\ at'["first"] \in {"turn1", "turn2", "off"}
            /\ at'["second"] \in {"turn1", "turn2", "end", "off"}
            /\ \A p \in Ends : at'[p] = "off"
        BY <4>2
      <4>5. \A p \in Ends : \A c \in Names :
              fd'[p][c] = IF at'[p] = "off" THEN NotOpen ELSE IF c = "FIFO1" THEN 1 ELSE 2
        BY <1>a, <4>3, <4>4
      <4> QED BY <4>2, <4>4, <4>5 DEF PipeInv
    <3>3. CASE /\ at' = [at EXCEPT !["second"] = "end"] /\ fd' = fd
               /\ silent'["second"] \/ bytes' = [bytes EXCEPT ![1] = TRUE]
      <4>1. silent'["second"] \/ bytes'[1]
        BY <1>a, <3>3 DEF TalkTypeOK
      <4> QED BY <3>1, <3>3, <4>1 DEF PipeInv, TalkTypeOK
    <3>4. 1 = fd["second"]["FIFO1"] /\ 1 # Failed
      BY <3>1 DEF Failed
    <3> QED BY <2>2, <3>2, <3>3, <3>4, SecondWrites
  <2> QED BY <1>2, <2>1, <2>2 DEF converse
<1>3. CASE waitpid
  <2>1. at["first"] = "off" /\ at' = [at EXCEPT !["second"] = "off"] /\ Drop("second")
    BY <1>3 DEF waitpid, Goto
  <2> QED BY <2>1, DropEach DEF PipeInv, TalkTypeOK
<1>4. ASSUME NEW p \in Ends, Interrupt(p) PROVE PipeInv'
  <2>1. at' = [q \in Ends |-> "off"] /\ fd' = [q \in Ends |-> [c \in Names |-> NotOpen]]
    BY <1>4 DEF Interrupt
  <2> QED BY <2>1 DEF PipeInv
<1>5. CASE UNCHANGED talkVars
  BY <1>5 DEF talkVars, PipeInv
<1>6. ASSUME NEW p \in Ends, \/ start(p) \/ opens(p)
                             \/ mkfifo(p, "make1", "FIFO1", "make2") \/ mkfifo(p, "make2", "FIFO2", "open1")
      PROVE  FALSE
  BY <1>6 DEF start, opens, open, mkfifo, PipeInv
<1>7. ~close_both /\ ~unlink("unlink1", "FIFO1", "unlink2") /\ ~unlink("unlink2", "FIFO2", "off")
  BY DEF close_both, unlink, PipeInv
<1> QED BY <1>1, <1>2, <1>3, <1>4, <1>5, <1>6, <1>7 DEF TalkNext

-----------------------------------------------------------------------------
(* Who holds nothing at all leaves no line behind. *)
LEMMA FifoStart ==
  ASSUME TalkTypeOK, FifoInv, NEW p \in Ends, start(p)
  PROVE  FifoInv'
<1> USE FifosAssumption, EndsAndNames
<1>1. /\ at[p] = "off" /\ at' = [at EXCEPT ![p] = "make1"]
      /\ name' = name /\ made' = made /\ bytes' = bytes /\ fd' = fd
      /\ silent' = [silent EXCEPT ![p] = FALSE]
      /\ stopped' <=> stopped /\ at[Other(p)] # "off"
  BY DEF start, Goto
<1>2. \A q \in Ends : at'[q] = at[q] \/ (at[q] = "off" /\ at'[q] = "make1")
  <2>1. at[p] = "off" /\ at' = [at EXCEPT ![p] = "make1"]
    BY <1>1
  <2> QED BY <2>1 DEF TalkTypeOK
<1>3. Holding'
  BY <1>1, <1>2 DEF FifoInv, Holding, NotOpen
<1>4. OneName' /\ OpensMeet'
  BY <1>1, <1>2 DEF FifoInv, OneName, OpensMeet
<1>5. at'["first"] \in Met => at["first"] \in Met /\ at'["first"] = at["first"]
  BY <1>2 DEF Met, Talking
<1>6. at'["second"] \in Met => at["second"] \in Met /\ at'["second"] = at["second"]
  BY <1>2 DEF Met, Talking
<1>7. ASSUME ~stopped
      PROVE  SecondMeets' /\ FirstMeets' /\ BothTalk' /\ Answered' /\ Asked'
  <2>1. SecondMeets /\ FirstMeets /\ BothTalk /\ Answered /\ Asked
    BY <1>7 DEF FifoInv, Together
  <2>2. SecondMeets' /\ FirstMeets' /\ BothTalk' /\ Answered'
    BY <1>1, <1>2, <1>5, <1>6, <2>1 DEF SecondMeets, FirstMeets, BothTalk, Answered, Met, Talking
  <2>3. Asked'
    <3>1. at'["first"] = "turn2" => silent'["first"] = silent["first"]
      BY <1>1, <1>2 DEF TalkTypeOK
    <3> QED BY <1>1, <1>2, <2>1, <3>1 DEF Asked
  <2> QED BY <2>2, <2>3
<1>8. ASSUME stopped, ~stopped'
      PROVE  SecondMeets' /\ FirstMeets' /\ BothTalk' /\ Answered' /\ Asked'
  <2>1. at["first"] = "off" /\ at["second"] = "off"
    BY <1>1, <1>8
  <2>2. \A q \in Ends, c \in Names : fd[q][c] = 0
    BY <2>1 DEF FifoInv, Holding, NotOpen
  <2>3. \A i \in 1 .. MaxFifos : ~bytes[i]
    BY <2>2 DEF FifoInv, OneName
  <2>4. Answered'
    BY <1>1, <2>3 DEF Answered, TalkTypeOK
  <2> QED BY <1>2, <2>1, <2>4 DEF SecondMeets, FirstMeets, BothTalk, Asked, Met, Talking
<1>9. Together'
  BY <1>7, <1>8, Zenon DEF Together
<1> QED BY <1>3, <1>4, <1>9 DEF FifoInv

LEMMA FifoMake ==
  ASSUME TalkTypeOK, FifoInv, NEW p \in Ends, NEW c \in Names, NEW from, NEW to, mkfifo(p, from, c, to),
         <<from, to>> \in {<<"make1", "make2">>, <<"make2", "open1">>},
         c = IF from = "make1" THEN "FIFO1" ELSE "FIFO2"
  PROVE  FifoInv'
<1> USE FifosAssumption, EndsAndNames
<1>1. /\ at[p] = from /\ at' = [at EXCEPT ![p] = to]
      /\ bytes' = bytes /\ fd' = fd /\ silent' = silent /\ stopped' = stopped
      /\ \/ name[c] # 0 /\ name' = name /\ made' = made
         \/ name[c] = 0 /\ made' = made + 1 /\ made' <= MaxFifos /\ name' = [name EXCEPT ![c] = made']
  BY DEF mkfifo, Goto, NotOpen, TalkTypeOK
<1>2. name'[c] # 0 /\ \A d \in Names : name[d] # 0 => name'[d] = name[d]
  BY <1>1 DEF TalkTypeOK
<1>3. /\ at'[p] = to /\ from \in {"make1", "make2"} /\ to \in {"make2", "open1"}
      /\ \A q \in Ends : q # p => at'[q] = at[q]
      /\ \A d \in Names : d # c => name'[d] = name[d]
  BY <1>1 DEF TalkTypeOK
<1>4. Holding'
  BY <1>1, <1>2, <1>3 DEF FifoInv, Holding, NotOpen
<1>5. OneName'
  BY <1>1, <1>2 DEF FifoInv, OneName, TalkTypeOK
<1>6. OpensMeet'
  BY <1>1, <1>3 DEF FifoInv, OpensMeet
<1>7. \A q \in Ends : at'[q] \in Met => at'[q] = at[q]
  BY <1>3 DEF Met, Talking
<1>8. \A q \in Ends : at[q] \in Met \cup {"end", "unlink1"} => at'[q] = at[q]
  BY <1>1, <1>3 DEF Met, Talking
<1>9. at["second"] \in Met => name'["FIFO1"] = name["FIFO1"] /\ name'["FIFO2"] = name["FIFO2"]
  BY <1>2 DEF FifoInv, Holding, Met, Talking, NotOpen
<1>10. name'["FIFO1"] = name["FIFO1"]
       \/ /\ name'["FIFO1"] \in 1 .. MaxFifos /\ ~bytes[name'["FIFO1"]]
          /\ \A q \in Ends : fd[q]["FIFO1"] # name'["FIFO1"]
  <2>1. CASE name'["FIFO1"] # name["FIFO1"]
    <3>1. name'["FIFO1"] = made + 1 /\ made + 1 \in 1 .. MaxFifos
      BY <1>1, <2>1 DEF TalkTypeOK
    <3>2. \A q \in Ends, d \in Names : fd[q][d] # made + 1
      BY DEF FifoInv, OneName, TalkTypeOK
    <3>3. ~bytes[made + 1]
      BY <3>1, <3>2 DEF FifoInv, OneName
    <3> QED BY <3>1, <3>2, <3>3
  <2> QED BY <2>1
<1>11. ASSUME ~stopped
       PROVE  SecondMeets' /\ FirstMeets' /\ BothTalk' /\ Answered' /\ Asked'
  <2>1. SecondMeets /\ FirstMeets /\ BothTalk /\ Answered /\ Asked
    BY <1>11 DEF FifoInv, Together
  <2>2. SecondMeets' /\ FirstMeets' /\ Answered'
    BY <1>1, <1>7, <1>8, <1>9, <1>10, <2>1 DEF SecondMeets, FirstMeets, Answered, NotOpen
  <2>3. BothTalk' /\ Asked'
    BY <1>1, <1>7, <1>9, <2>1 DEF BothTalk, Asked, Met, Talking
  <2> QED BY <2>2, <2>3
<1>12. Together'
  BY <1>1, <1>11, Zenon DEF Together
<1> QED BY <1>4, <1>5, <1>6, <1>12 DEF FifoInv

(* Only open() changes who holds what, and only one file at a time. *)
LEMMA FifoOpen ==
  ASSUME TalkTypeOK, FifoInv, NEW p \in Ends, opens(p)
  PROVE  FifoInv'
<1> USE FifosAssumption, EndsAndNames
<1>1. PICK c \in Names, from \in {"open1", "open2"}, waits \in {"wait1", "wait2"},
           to \in {"open2", "turn1"} :
        /\ open(p, from, c, waits, to)
        /\ <<c, from, waits, to>> \in {<<"FIFO1", "open1", "wait1", "open2">>,
                                      <<"FIFO2", "open2", "wait2", "turn1">>}
  <2>1. CASE open(p, "open1", "FIFO1", "wait1", "open2")
    BY <2>1
  <2>2. CASE open(p, "open2", "FIFO2", "wait2", "turn1")
    BY <2>2
  <2> QED BY <2>1, <2>2 DEF opens
<1>2. /\ c = "FIFO1" => from = "open1" /\ waits = "wait1" /\ to = "open2"
      /\ c = "FIFO2" => from = "open2" /\ waits = "wait2" /\ to = "turn1"
  BY <1>1
<1>3. /\ at[p] = from /\ name' = name /\ made' = made /\ bytes' = bytes
      /\ silent' = silent /\ stopped' = stopped
  BY <1>1 DEF open
<1>4. \/ /\ name[c] = 0 /\ fd' = [fd EXCEPT ![p][c] = -1]
         /\ at' = [at EXCEPT ![p] = to]
      \/ /\ name[c] # 0 /\ fd' = [fd EXCEPT ![p][c] = name[c]]
         /\ fd[Other(p)][c] # name[c] /\ at' = [at EXCEPT ![p] = waits]
      \/ /\ name[c] # 0 /\ fd' = [fd EXCEPT ![p][c] = name[c]]
         /\ fd[Other(p)][c] = name[c]
         /\ at' = [q \in Ends |-> IF q = p \/ at[q] = waits THEN to ELSE at[q]]
  BY <1>1, Zenon DEF open, Goto, NotOpen, Failed
<1>5. /\ fd'[p][c] = IF name[c] = 0 THEN -1 ELSE name[c]
      /\ \A q \in Ends, d \in Names : (q # p \/ d # c) => fd'[q][d] = fd[q][d]
      /\ fd[p][c] = 0
  <2>1. \E n \in Int : fd' = [fd EXCEPT ![p][c] = n] /\ n = IF name[c] = 0 THEN -1 ELSE name[c]
    BY <1>4 DEF TalkTypeOK
  <2>2. fd[p][c] = 0
    BY <1>2, <1>3 DEF FifoInv, Holding, NotOpen
  <2> QED BY <2>1, <2>2 DEF TalkTypeOK
<1>6. /\ at'[p] \in {waits, to} /\ (at'[p] = waits => fd[Other(p)][c] # name[c])
      /\ at'[Other(p)] # at[Other(p)] =>
           /\ at[Other(p)] = waits /\ at'[Other(p)] = to /\ name[c] # 0
           /\ fd[Other(p)][c] = name[c] /\ at'[p] = to
      /\ at'[p] = to /\ name[c] # 0 => fd[Other(p)][c] = name[c] /\ at'[Other(p)] # waits
  BY <1>2, <1>4 DEF TalkTypeOK
<1>7. OneName'
  <2>1. \A d \in Names : d # c /\ fd'[p][c] > 0 => fd'[p][c] # name[d]
    BY <1>5 DEF FifoInv, OneName, TalkTypeOK
  <2>2. \A d \in Names, q \in Ends : d # c /\ fd'[p][c] > 0 => fd'[p][c] # fd[q][d]
    BY <1>5 DEF FifoInv, OneName, TalkTypeOK
  <2>3. \A i \in 1 .. MaxFifos : bytes'[i] => \E q \in Ends, d \in Names : fd'[q][d] = i
    BY <1>3, <1>5 DEF FifoInv, OneName
  <2>4. \A q \in Ends, d \in Names : fd'[q][d] <= made
    BY <1>5 DEF FifoInv, OneName, TalkTypeOK
  <2> QED BY <1>3, <1>5, <2>1, <2>2, <2>3, <2>4 DEF FifoInv, OneName, TalkTypeOK
<1>8. Holding'
  BY <1>2, <1>3, <1>5, <1>6 DEF FifoInv, Holding, NotOpen, TalkTypeOK
<1>9. OpensMeet'
  <2>1. at[Other(p)] = waits => name[c] # 0 \/ fd[Other(p)][c] # -1
    BY <1>2, <1>3 DEF FifoInv, Holding, NotOpen, TalkTypeOK
  <2>2. name[c] = 0 => at'[p] = to
    BY <1>2, <1>4 DEF TalkTypeOK
  <2>3. at'[p] = waits => fd'[p][c] # fd'[Other(p)][c]
    BY <1>2, <1>5, <1>6, <2>2
  <2>4. at'[Other(p)] = waits => fd'[Other(p)][c] # fd'[p][c]
    BY <1>2, <1>5, <1>6, <2>1
  <2> QED BY <1>2, <1>3, <1>5, <1>6, <2>3, <2>4 DEF FifoInv, OpensMeet, TalkTypeOK
<1>10. ASSUME ~stopped
       PROVE  SecondMeets' /\ FirstMeets' /\ BothTalk' /\ Answered' /\ Asked'
  <2>1. SecondMeets /\ FirstMeets /\ BothTalk /\ Answered /\ Asked
    BY <1>10 DEF FifoInv, Together
  <2>2. /\ at["second"] \in {"open1", "open2"} => name["FIFO1"] # 0 /\ name["FIFO2"] # 0
        /\ at["second"] \in Met => name["FIFO1"] # 0 /\ name["FIFO2"] # 0
        /\ at["second"] \notin Met \cup {"wait1", "end"} => fd["second"]["FIFO1"] = 0
        /\ \A q \in Ends : /\ at[q] = "open1" => fd[q]["FIFO1"] = 0
                          /\ at[q] = "open2" => fd[q]["FIFO2"] = 0
    BY DEF FifoInv, Holding, Met, Talking, NotOpen, TalkTypeOK
  <2>3. CASE p = "second" /\ c = "FIFO1"
    <3>1. /\ at["second"] = "open1" /\ at'["second"] \in {"wait1", "open2"} /\ name["FIFO1"] # 0
          /\ at'["second"] = "wait1" => fd["first"]["FIFO1"] # name["FIFO1"]
          /\ at'["second"] = "open2" => fd["first"]["FIFO1"] = name["FIFO1"]
          /\ at'["first"] = at["first"] \/ (at["first"] = "wait1" /\ at'["first"] = "open2")
          /\ (\A d \in Names : fd'["first"][d] = fd["first"][d])
      BY <1>2, <1>3, <1>5, <1>6, <2>2, <2>3 DEF TalkTypeOK
    <3>2. SecondMeets' /\ FirstMeets' /\ Answered' /\ Asked'
      BY <1>3, <2>1, <3>1 DEF SecondMeets, FirstMeets, Answered, Asked, Met, Talking
    <3>3. BothTalk'
      BY <1>3, <2>1, <3>1 DEF FirstMeets, BothTalk, Met, Talking, NotOpen
    <3> QED BY <3>2, <3>3
  <2>4. CASE p = "second" /\ c = "FIFO2"
    <3>1. /\ at["second"] = "open2" /\ at'["second"] \in {"wait2", "turn1"} /\ name["FIFO2"] # 0
          /\ \/ at'["first"] = at["first"]
             \/ at["first"] = "wait2" /\ at'["first"] = "turn1" /\ fd["first"]["FIFO2"] = name["FIFO2"]
          /\ (\A d \in Names : fd'["first"][d] = fd["first"][d]) /\ fd["second"]["FIFO2"] = 0
          /\ fd'["second"]["FIFO2"] = name["FIFO2"]
      BY <1>2, <1>3, <1>5, <1>6, <2>2, <2>4 DEF TalkTypeOK
    <3>2. SecondMeets' /\ FirstMeets' /\ Answered'
      BY <1>3, <2>1, <3>1 DEF SecondMeets, FirstMeets, Answered, Met, Talking
    <3>3. at["first"] \notin Talking
      BY <2>1, <3>1 DEF BothTalk, Met, Talking
    <3>4. BothTalk' /\ Asked'
      BY <1>3, <3>1, <3>3 DEF BothTalk, Asked, Met, Talking
    <3> QED BY <3>2, <3>4
  <2>5. CASE p = "first" /\ c = "FIFO1"
    <3>1. /\ at["first"] = "open1" /\ at'["first"] \in {"wait1", "open2"} /\ fd["first"]["FIFO1"] = 0
          /\ \/ at'["second"] = at["second"]
             \/ at["second"] = "wait1" /\ at'["second"] = "open2" /\ name["FIFO1"] # 0
          /\ fd'["first"]["FIFO1"] = IF name["FIFO1"] = 0 THEN -1 ELSE name["FIFO1"]
          /\ at'["first"] = "open2" /\ name["FIFO1"] # 0 =>
               fd["second"]["FIFO1"] = name["FIFO1"] /\ at'["second"] # "wait1"
      BY <1>2, <1>3, <1>5, <1>6, <2>2, <2>5 DEF TalkTypeOK
    <3>2. at["second"] \notin Met
      BY <2>1, <2>2, <3>1 DEF SecondMeets
    <3>3. SecondMeets' /\ Answered' /\ Asked' /\ BothTalk'
      BY <1>3, <2>1, <3>1, <3>2 DEF SecondMeets, Answered, Asked, BothTalk, Met, Talking
    <3>4. FirstMeets'
      BY <1>3, <2>1, <2>2, <3>1, <3>2 DEF FirstMeets, Met, Talking, NotOpen
    <3> QED BY <3>3, <3>4
  <2>6. CASE p = "first" /\ c = "FIFO2"
    <3>1. /\ at["first"] = "open2" /\ at'["first"] \in {"wait2", "turn1"}
          /\ at'["second"] = at["second"] \/ (at["second"] = "wait2" /\ at'["second"] = "turn1")
          /\ fd'["first"]["FIFO1"] = fd["first"]["FIFO1"] /\ (\A d \in Names : fd'["second"][d] = fd["second"][d])
          /\ name["FIFO2"] # 0 => fd'["first"]["FIFO2"] = name["FIFO2"]
          /\ at'["first"] = "turn1" /\ name["FIFO2"] # 0 => fd["second"]["FIFO2"] = name["FIFO2"]
      BY <1>2, <1>3, <1>5, <1>6, <2>2, <2>6 DEF TalkTypeOK
    <3>2. SecondMeets' /\ FirstMeets' /\ Answered' /\ Asked'
      BY <1>3, <2>1, <3>1 DEF SecondMeets, FirstMeets, Answered, Asked, Met, Talking
    <3>3. BothTalk'
      BY <1>3, <2>2, <3>1 DEF BothTalk, Met, Talking
    <3> QED BY <3>2, <3>3
  <2> QED BY <1>2, <2>3, <2>4, <2>5, <2>6
<1>11. Together'
  BY <1>3, <1>10, Zenon DEF Together
<1> QED BY <1>7, <1>8, <1>9, <1>11 DEF FifoInv

(* A process that lets go of its files, or ends, leaves the three parts    *)
(* that hold of interrupted processes too as they were.                    *)
LEMMA FifoLetGo ==
  ASSUME TalkTypeOK, FifoInv, NEW p \in Ends, NEW to,
         at' = [at EXCEPT ![p] = to], Drop(p), bytes' = Unread(NotOpen) \/ bytes' = Unread(fd[p][In(p)]),
         name' = name, made' = made,
         to = "off" \/ (p = "second" /\ at[p] = "end" /\ to = "unlink1")
  PROVE  /\ Holding' /\ OneName' /\ OpensMeet'
         /\ \A q \in Ends : q # p => at'[q] = at[q]
         /\ \A i \in 1 .. MaxFifos : bytes'[i] => bytes[i]
<1> USE FifosAssumption, EndsAndNames
<1>1. /\ \A c \in Names : fd'[p][c] = 0
      /\ \A q \in Ends : q # p => at'[q] = at[q] /\ \A c \in Names : fd'[q][c] = fd[q][c]
      /\ at'[p] = to
  BY DropEach DEF NotOpen, TalkTypeOK
<1>2. \A i \in 1 .. MaxFifos : bytes'[i] => bytes[i] /\ \E q \in Ends, c \in Names : fd'[q][c] = i
  BY UnreadEach
<1>3. Holding'
  BY <1>1 DEF FifoInv, Holding, NotOpen
<1>4. OneName'
  BY <1>1, <1>2 DEF FifoInv, OneName, TalkTypeOK
<1>5. OpensMeet'
  BY <1>1 DEF FifoInv, OpensMeet, Holding, NotOpen
<1> QED BY <1>1, <1>2, <1>3, <1>4, <1>5

LEMMA FifoReads ==
  ASSUME TalkTypeOK, FifoInv, reads("first", "turn2", "off") \/ reads("second", "turn1", "turn2")
  PROVE  FifoInv'
<1> USE FifosAssumption, EndsAndNames
<1>1. CASE reads("second", "turn1", "turn2")
  <2>1. /\ at["second"] = "turn1" /\ at' = [at EXCEPT !["second"] = "turn2"] /\ fd' = fd
        /\ name' = name /\ made' = made /\ silent' = silent /\ stopped' = stopped
        /\ bytes' = Unread(fd["second"][In("second")])
    BY <1>1 DEF reads, Goto
  <2>2. \A i \in 1 .. MaxFifos : bytes'[i] => bytes[i]
    BY <2>1, UnreadEach
  <2>3. at'["second"] = "turn2" /\ at'["first"] = at["first"]
    BY <2>1 DEF TalkTypeOK
  <2>4. Holding' /\ OpensMeet'
    BY <2>1, <2>3 DEF FifoInv, Holding, OpensMeet
  <2>5. OneName'
    BY <2>1, <2>2 DEF FifoInv, OneName
  <2>6. ASSUME ~stopped
        PROVE  SecondMeets' /\ FirstMeets' /\ BothTalk' /\ Answered' /\ Asked'
    <3>1. SecondMeets /\ FirstMeets /\ BothTalk /\ Answered
      BY <2>6 DEF FifoInv, Together
    <3>2. name["FIFO1"] > 0 => name["FIFO1"] \in 1 .. MaxFifos
      BY DEF TalkTypeOK
    <3> QED BY <2>1, <2>2, <2>3, <3>1, <3>2
            DEF SecondMeets, FirstMeets, BothTalk, Answered, Asked, Met, Talking
  <2>7. Together'
    BY <2>1, <2>6, Zenon DEF Together
  <2> QED BY <2>4, <2>5, <2>7 DEF FifoInv
<1>2. CASE reads("first", "turn2", "off")
  <2>1. /\ at["first"] = "turn2" /\ at' = [at EXCEPT !["first"] = "off"] /\ Drop("first")
        /\ name' = name /\ made' = made /\ silent' = silent /\ stopped' = stopped
        /\ bytes' = Unread(fd["first"][In("first")]) /\ CanRead("first")
    BY <1>2 DEF reads, Goto
  <2>2. /\ Holding' /\ OneName' /\ OpensMeet' /\ at'["second"] = at["second"]
        /\ \A i \in 1 .. MaxFifos : bytes'[i] => bytes[i]
    BY <2>1, FifoLetGo
  <2>3. at'["first"] = "off"
    BY <2>1 DEF TalkTypeOK
  <2>4. ASSUME ~stopped
        PROVE  SecondMeets' /\ FirstMeets' /\ BothTalk' /\ Answered' /\ Asked'
    <3>1. SecondMeets /\ Answered
      BY <2>4 DEF FifoInv, Together
    <3>2. name["FIFO1"] > 0 => name["FIFO1"] \in 1 .. MaxFifos
      BY DEF TalkTypeOK
    <3>3. at["second"] \notin Met
      <4>1. SUFFICES ASSUME at["second"] \in Met PROVE FALSE
        OBVIOUS
      <4>2. /\ fd["first"]["FIFO1"] = name["FIFO1"] /\ name["FIFO1"] > 0
            /\ fd["second"]["FIFO1"] = name["FIFO1"]
        BY <3>1, <4>1 DEF SecondMeets, FifoInv, Holding, Met, Talking, NotOpen, TalkTypeOK
      <4>3. bytes[name["FIFO1"]]
        BY <2>1, <4>2 DEF CanRead, Failed
      <4> QED BY <3>1, <4>1, <4>2, <4>3 DEF Answered, Met, Talking
    <3> QED BY <2>1, <2>2, <2>3, <3>1, <3>2, <3>3
            DEF SecondMeets, FirstMeets, BothTalk, Answered, Asked, Met, Talking
  <2>5. Together'
    BY <2>1, <2>4, Zenon DEF Together
  <2> QED BY <2>2, <2>5 DEF FifoInv
<1> QED BY <1>1, <1>2

LEMMA FifoRemoves ==
  ASSUME TalkTypeOK, FifoInv, ~overPipe,
         \/ close_both \/ unlink("unlink1", "FIFO1", "unlink2") \/ unlink("unlink2", "FIFO2", "off")
         \/ \E p \in Ends : Interrupt(p)
  PROVE  FifoInv'
<1> USE FifosAssumption, EndsAndNames
<1>1. CASE close_both
  <2>1. /\ at["second"] = "end" /\ at' = [at EXCEPT !["second"] = "unlink1"] /\ Drop("second")
        /\ name' = name /\ made' = made /\ silent' = silent /\ stopped' = stopped
        /\ bytes' = Unread(NotOpen)
    BY <1>1 DEF close_both, Goto
  <2>2. /\ Holding' /\ OneName' /\ OpensMeet' /\ at'["first"] = at["first"]
        /\ \A i \in 1 .. MaxFifos : bytes'[i] => bytes[i]
    BY <2>1, FifoLetGo
  <2>3. at'["second"] = "unlink1" /\ \A c \in Names : fd'["first"][c] = fd["first"][c]
    BY <2>1, DropEach DEF TalkTypeOK
  <2>4. SecondMeets' /\ FirstMeets' /\ BothTalk' /\ Answered' /\ Asked'
    BY <2>3 DEF SecondMeets, FirstMeets, BothTalk, Answered, Asked, Met, Talking
  <2> QED BY <2>2, <2>4 DEF FifoInv, Together
<1>2. CASE unlink("unlink1", "FIFO1", "unlink2")
  <2>1. /\ at["second"] = "unlink1" /\ at' = [at EXCEPT !["second"] = "unlink2"]
        /\ name' = [name EXCEPT !["FIFO1"] = 0] /\ made' = made /\ bytes' = bytes /\ fd' = fd
    BY <1>2 DEF unlink, Goto, NotOpen
  <2>2. /\ at'["second"] = "unlink2" /\ at'["first"] = at["first"]
        /\ name'["FIFO1"] = 0 /\ name'["FIFO2"] = name["FIFO2"]
    BY <2>1 DEF TalkTypeOK
  <2>3. Holding' /\ OpensMeet'
    BY <2>1, <2>2 DEF FifoInv, Holding, OpensMeet, NotOpen
  <2>4. OneName'
    BY <2>1, <2>2 DEF FifoInv, OneName, TalkTypeOK
  <2>5. SecondMeets' /\ FirstMeets' /\ BothTalk' /\ Answered' /\ Asked'
    BY <2>2 DEF SecondMeets, FirstMeets, BothTalk, Answered, Asked, Met, Talking, NotOpen
  <2> QED BY <2>3, <2>4, <2>5 DEF FifoInv, Together
<1>3. CASE unlink("unlink2", "FIFO2", "off")
  <2>1. /\ at["second"] = "unlink2" /\ at' = [at EXCEPT !["second"] = "off"]
        /\ name' = [name EXCEPT !["FIFO2"] = 0] /\ made' = made /\ bytes' = bytes /\ fd' = fd
        /\ silent' = silent /\ stopped' = stopped
    BY <1>3 DEF unlink, Goto, NotOpen
  <2>2. /\ at'["second"] = "off" /\ at'["first"] = at["first"]
        /\ name'["FIFO2"] = 0 /\ name'["FIFO1"] = name["FIFO1"]
    BY <2>1 DEF TalkTypeOK
  <2>3. Holding' /\ OpensMeet'
    BY <2>1, <2>2 DEF FifoInv, Holding, OpensMeet, NotOpen
  <2>4. OneName'
    BY <2>1, <2>2 DEF FifoInv, OneName, TalkTypeOK
  <2>5. ASSUME ~stopped
        PROVE  SecondMeets' /\ FirstMeets' /\ BothTalk' /\ Answered' /\ Asked'
    <3>1. FirstMeets /\ Answered
      BY <2>5 DEF FifoInv, Together
    <3> QED BY <2>1, <2>2, <3>1 DEF SecondMeets, FirstMeets, BothTalk, Answered, Asked, Met, Talking
  <2>6. Together'
    BY <2>1, <2>5, Zenon DEF Together
  <2> QED BY <2>3, <2>4, <2>6 DEF FifoInv
<1>4. ASSUME NEW p \in Ends, Interrupt(p) PROVE FifoInv'
  <2>1. /\ at' = [at EXCEPT ![p] = "off"] /\ Drop(p) /\ bytes' = Unread(NotOpen)
        /\ name' = name /\ made' = made /\ stopped' = TRUE
    <3>1. at' = [at EXCEPT ![p] = "off"]
      BY <1>4 DEF Interrupt, TalkTypeOK
    <3>2. \A q \in Ends : q # p => at[q] # "off" \/ fd[q] = [c \in Names |-> NotOpen]
      BY DEF FifoInv, Holding, TalkTypeOK
    <3>3. Drop(p)
      BY ZenonT(40), <1>4, <3>1, <3>2 DEF Interrupt, Drop, TalkTypeOK
    <3> QED BY <1>4, <3>1, <3>3 DEF Interrupt
  <2>2. Holding' /\ OneName' /\ OpensMeet'
    BY <2>1, FifoLetGo
  <2> QED BY <2>1, <2>2 DEF FifoInv, Together
<1> QED BY <1>1, <1>2, <1>3, <1>4

LEMMA FifoWrites ==
  ASSUME TalkTypeOK, FifoInv, writes("first", "turn1", "turn2") \/ writes("second", "turn2", "end")
  PROVE  FifoInv'
<1> USE FifosAssumption, EndsAndNames
<1>1. CASE writes("first", "turn1", "turn2")
  <2> DEFINE i == fd["first"]["FIFO2"]
  <2>1. /\ at["first"] = "turn1" /\ name' = name /\ made' = made /\ stopped' = stopped
        /\ silent'["second"] = silent["second"]
        /\ \/ /\ at' = [at EXCEPT !["first"] = "turn2"] /\ fd' = fd /\ bytes' = bytes
              /\ silent'["first"] \/ i = Failed
           \/ /\ at' = [at EXCEPT !["first"] = "turn2"] /\ fd' = fd
              /\ i # Failed /\ fd["second"]["FIFO2"] = i /\ bytes' = [bytes EXCEPT ![i] = TRUE]
           \/ /\ at' = [at EXCEPT !["first"] = "off"] /\ Drop("first") /\ bytes' = Unread(NotOpen)
              /\ i # Failed /\ fd["second"]["FIFO2"] # i
    BY <1>1, FirstWrites
  <2>2. i # 0 /\ i \in -1 .. MaxFifos /\ (i > 0 => i # name["FIFO1"])
    BY <2>1 DEF FifoInv, Holding, OneName, NotOpen, TalkTypeOK
  <2>3. ~stopped => SecondMeets /\ FirstMeets /\ BothTalk /\ Answered
    BY DEF FifoInv, Together
  <2>4. name["FIFO1"] > 0 => name["FIFO1"] \in 1 .. MaxFifos
    BY DEF TalkTypeOK
  <2>5. at["second"] = "turn1" => name["FIFO2"] \in 1 .. MaxFifos
    BY DEF FifoInv, Holding, NotOpen, TalkTypeOK
  <2> HIDE DEF i
  <2>6. CASE at' = [at EXCEPT !["first"] = "turn2"]
    <3>1. /\ at'["first"] = "turn2" /\ at'["second"] = at["second"] /\ fd' = fd
      BY <2>1, <2>6 DEF TalkTypeOK
    <3>2. \A n \in 1 .. MaxFifos : bytes'[n] => bytes[n] \/ (n = i /\ i # Failed)
      BY <2>1, <2>2, <3>1 DEF TalkTypeOK
    <3>3. Holding' /\ OpensMeet'
      BY <2>1, <3>1 DEF FifoInv, Holding, OpensMeet
    <3>4. OneName'
      BY <2>1, <3>1, <3>2 DEF FifoInv, OneName, i
    <3>5. ASSUME ~stopped
          PROVE  SecondMeets' /\ FirstMeets' /\ BothTalk' /\ Answered' /\ Asked'
      <4>1. SecondMeets' /\ FirstMeets' /\ BothTalk'
        BY <2>1, <2>3, <3>1, <3>5 DEF SecondMeets, FirstMeets, BothTalk, Met, Talking
      <4>2. Answered'
        BY <2>1, <2>2, <2>3, <2>4, <3>1, <3>2, <3>5 DEF Answered
      <4>3. ASSUME at["second"] = "turn1" PROVE silent'["first"] \/ bytes'[name["FIFO2"]]
        <5>1. i = name["FIFO2"] /\ i \in 1 .. MaxFifos /\ i # Failed
          BY <2>1, <2>3, <2>5, <3>5, <4>3 DEF BothTalk, Met, Talking, Failed, i
        <5>2. silent'["first"] \/ bytes' = [bytes EXCEPT ![i] = TRUE]
          BY <2>1, <2>6, <5>1 DEF TalkTypeOK
        <5> QED BY <5>1, <5>2 DEF TalkTypeOK
      <4> QED BY <2>1, <3>1, <4>1, <4>2, <4>3 DEF Asked
    <3>6. Together'
      BY <2>1, <3>5, Zenon DEF Together
    <3> QED BY <3>3, <3>4, <3>6 DEF FifoInv
  <2>7. CASE /\ at' = [at EXCEPT !["first"] = "off"] /\ Drop("first") /\ bytes' = Unread(NotOpen)
             /\ fd["second"]["FIFO2"] # i
    <3>1. /\ Holding' /\ OneName' /\ OpensMeet' /\ at'["second"] = at["second"]
          /\ \A n \in 1 .. MaxFifos : bytes'[n] => bytes[n]
      BY <2>1, <2>7, FifoLetGo
    <3>2. at'["first"] = "off"
      BY <2>7 DEF TalkTypeOK
    <3>3. ASSUME ~stopped
          PROVE  SecondMeets' /\ FirstMeets' /\ BothTalk' /\ Answered' /\ Asked'
      <4>1. at["second"] \notin Met
        BY <2>1, <2>3, <2>7, <3>3 DEF BothTalk, Talking, i
      <4> QED BY <2>1, <2>3, <2>4, <3>1, <3>2, <3>3, <4>1
              DEF SecondMeets, FirstMeets, BothTalk, Answered, Asked, Met, Talking
    <3>4. Together'
      BY <2>1, <3>3, Zenon DEF Together
    <3> QED BY <3>1, <3>4 DEF FifoInv
  <2> QED BY <2>1, <2>6, <2>7
<1>2. CASE writes("second", "turn2", "end")
  <2> DEFINE i == fd["second"]["FIFO1"]
  <2>1. /\ at["second"] = "turn2" /\ name' = name /\ made' = made /\ stopped' = stopped
        /\ silent'["first"] = silent["first"]
        /\ \/ /\ at' = [at EXCEPT !["second"] = "end"] /\ fd' = fd /\ bytes' = bytes
           \/ /\ at' = [at EXCEPT !["second"] = "end"] /\ fd' = fd
              /\ i # Failed /\ bytes' = [bytes EXCEPT ![i] = TRUE]
           \/ /\ at' = [at EXCEPT !["second"] = "off"] /\ Drop("second") /\ bytes' = Unread(NotOpen)
              /\ fd["first"]["FIFO1"] # i
    BY <1>2, SecondWrites
  <2>2. i = name["FIFO1"] /\ i \in 1 .. MaxFifos
    BY <2>1 DEF FifoInv, Holding, NotOpen, TalkTypeOK
  <2>3. ~stopped => SecondMeets
    BY DEF FifoInv, Together
  <2> HIDE DEF i
  <2>4. CASE at' = [at EXCEPT !["second"] = "end"]
    <3>1. at'["second"] = "end" /\ at'["first"] = at["first"] /\ fd' = fd
      BY <2>1, <2>4 DEF TalkTypeOK
    <3>2. \A n \in 1 .. MaxFifos : bytes'[n] => bytes[n] \/ n = i
      BY <2>1, <2>2, <3>1 DEF TalkTypeOK
    <3>3. Holding' /\ OpensMeet'
      BY <2>1, <3>1 DEF FifoInv, Holding, OpensMeet
    <3>4. OneName'
      BY <2>1, <3>1, <3>2 DEF FifoInv, OneName, i
    <3>5. SecondMeets' /\ FirstMeets' /\ BothTalk' /\ Answered' /\ Asked'
      BY <3>1 DEF SecondMeets, FirstMeets, BothTalk, Answered, Asked, Met, Talking
    <3> QED BY <3>3, <3>4, <3>5 DEF FifoInv, Together
  <2>5. CASE /\ at' = [at EXCEPT !["second"] = "off"] /\ Drop("second") /\ bytes' = Unread(NotOpen)
             /\ fd["first"]["FIFO1"] # i
    <3>1. Holding' /\ OneName' /\ OpensMeet'
      BY <2>1, <2>5, FifoLetGo
    <3>2. stopped
      BY <2>1, <2>2, <2>3, <2>5 DEF SecondMeets, Met, Talking
    <3> QED BY <2>1, <3>1, <3>2 DEF FifoInv, Together
  <2> QED BY <2>1, <2>4, <2>5
<1> QED BY <1>1, <1>2

LEMMA TalkStepInv ==
  ASSUME TalkInv, [TalkNext]_talkVars
  PROVE  TalkInv'
<1>1. TalkTypeOK /\ TalkTypeOK' /\ overPipe \in BOOLEAN
  BY TalkTypeStep DEF TalkInv, TalkTypeOK
<1>2. overPipe' = overPipe
  BY DEF TalkNext, start, opens, open, converse, reads, writes, Interrupt, mkfifo, close_both, waitpid,
         unlink, talkVars
<1>3. CASE overPipe
  BY <1>1, <1>2, <1>3, PipeStepInv DEF TalkInv
<1>4. CASE ~overPipe
  <2>1. FifoInv
    BY <1>4 DEF TalkInv
  <2>2. FifoInv'
    <3>1. ASSUME NEW p \in Ends, start(p) \/ opens(p) \/ converse(p) \/ Interrupt(p) PROVE FifoInv'
      BY <1>1, <1>4, <2>1, <3>1, FifoStart, FifoOpen, FifoReads, FifoWrites, FifoRemoves DEF converse
    <3>2. ASSUME NEW p \in Ends, \/ mkfifo(p, "make1", "FIFO1", "make2")
                                 \/ mkfifo(p, "make2", "FIFO2", "open1")
          PROVE  FifoInv'
      BY <1>1, <2>1, <3>2, FifoMake DEF Names
    <3>3. CASE UNCHANGED talkVars
      BY <2>1, <3>3 DEF talkVars, FifoInv, Holding, OneName, OpensMeet, Together,
                        SecondMeets, FirstMeets, BothTalk, Answered, Asked
    <3>4. ~waitpid
      BY <1>4 DEF waitpid
    <3> QED BY <1>1, <1>4, <2>1, <3>1, <3>2, <3>3, <3>4, FifoRemoves DEF TalkNext
  <2> QED BY <1>1, <1>2, <1>4, <2>2 DEF TalkInv
<1> QED BY <1>1, <1>3, <1>4

(* No two places where the two could block fit together. *)
LEMMA TalkInvKeeps ==
  ASSUME TalkInv
  PROVE  TalkTypeOK /\ HungNeedsCause
<1> USE FifosAssumption, EndsAndNames
<1>1. TalkTypeOK
  BY DEF TalkInv
<1>2. SUFFICES ASSUME Blocked("first"), Blocked("second"), ~stopped, ~silent["first"], ~silent["second"],
                      overPipe \/ \A p \in Ends, c \in Names : fd[p][c] \in {NotOpen, name[c]}
               PROVE  FALSE
  BY <1>1 DEF HungNeedsCause
<1>3. /\ at["first"] \in {"wait1", "wait2", "turn2"} /\ at["second"] \in {"wait1", "wait2", "turn1", "end"}
      /\ at["first"] = "turn2" => ~CanRead("first")
      /\ at["second"] = "turn1" => ~CanRead("second")
      /\ at["second"] = "end" => overPipe
  BY <1>2 DEF Blocked
<1>4. CASE overPipe
  <2>1. PipeInv /\ 1 \in 1 .. MaxFifos /\ 2 \in 1 .. MaxFifos
    BY <1>4 DEF TalkInv
  <2> QED BY <1>2, <1>3, <2>1 DEF PipeInv, CanRead
<1>5. CASE ~overPipe
  <2>1. FifoInv /\ \A p \in Ends, c \in Names : fd[p][c] \in {0, name[c]}
    BY <1>2, <1>5 DEF TalkInv, NotOpen
  <2>2. /\ fd["first"]["FIFO1"] # 0 /\ fd["second"]["FIFO1"] # 0
        /\ at["first"] # "wait1" => fd["first"]["FIFO2"] # 0
        /\ at["second"] # "wait1" => fd["second"]["FIFO2"] # 0
    BY <1>3, <1>5, <2>1 DEF FifoInv, Holding, NotOpen
  <2>3. /\ at["first"] # "wait1" /\ at["second"] # "wait1"
    BY <2>1, <2>2 DEF FifoInv, OpensMeet
  <2>4. /\ at["first"] # "wait2" /\ at["second"] # "wait2"
    BY <2>1, <2>2, <2>3 DEF FifoInv, OpensMeet
  <2>5. bytes[name["FIFO2"]]
    BY <1>2, <1>3, <1>5, <2>1, <2>3, <2>4 DEF FifoInv, Together, Asked
  <2>6. fd["second"]["FIFO2"] = name["FIFO2"] /\ name["FIFO2"] > 0
    BY <1>1, <2>1, <2>2, <2>3 DEF TalkTypeOK
  <2> QED BY <1>3, <1>5, <2>3, <2>4, <2>5, <2>6 DEF CanRead
<1> QED BY <1>1, <1>4, <1>5 DEF TalkTypeOK

LEMMA TalkAlways == Spec => []TalkInv
<1>1. Init => TalkInv
  BY TalkInitInv DEF Init
<1>2. TalkInv /\ [Next]_vars => TalkInv'
  BY TalkStepInv, OneProgram
<1> QED BY <1>1, <1>2, PTL DEF Spec

(* fifo_sev, fifo_cli and pipe.c: two processes that wait for each other   *)
(* have been stopped, have sent an empty line or hold a file whose name    *)
(* has gone, however often they are started and FIFOs are made.            *)
THEOREM HungNeedsCauseAlways == Spec => []HungNeedsCause
<1>1. TalkInv => HungNeedsCause
  BY TalkInvKeeps
<1> QED BY <1>1, TalkAlways, PTL

-----------------------------------------------------------------------------
(* sharemem.c *)

ShmType ==
  /\ newShm \in 0 .. MaxSegs /\ shm \in 0 .. newShm
  /\ newSem \in 0 .. MaxSegs /\ sem0 \in 0 .. newSem
  /\ stored \in [1 .. MaxSegs -> BOOLEAN] /\ value \in [1 .. MaxSegs -> 0 .. 1]
  /\ spc \in [Procs -> {"off", "shm_open", "sem_unlink", "sem_open", "wait", "turn", "post"}]
  /\ map \in [Procs -> 0 .. newShm] /\ mutex \in [Procs -> 0 .. newSem]
  /\ calm \subseteq Printers /\ cut \in BOOLEAN

(* A process uses a segment and a semaphore once it has opened them, and   *)
(* has the semaphore's only token while it reads or stores.                *)
Opened ==
  \A p \in Procs :
    /\ spc[p] = "sem_unlink" => p \in Storers
    /\ spc[p] \notin {"off", "shm_open"} => map[p] # 0
    /\ spc[p] \in {"wait", "turn", "post"} => mutex[p] # 0
    /\ spc[p] \in {"turn", "post"} =>
         /\ value[mutex[p]] = 0
         /\ \A q \in Procs \ {p} : spc[q] \in {"turn", "post"} => mutex[q] # mutex[p]

(* While no storer has ended early, somebody is on the way to give each    *)
(* missing name an object, and the segment that has the name its count.    *)
Settling ==
  cut = FALSE =>
    /\ shm = 0 => \E p \in Storers : spc[p] = "shm_open"
    /\ shm # 0 => \/ stored[shm]
                  \/ \E p \in Storers : /\ spc[p] \in {"sem_unlink", "sem_open", "wait", "turn"}
                                        /\ map[p] = shm
    /\ sem0 = 0 => \E p \in Storers : spc[p] \in {"shm_open", "sem_unlink", "sem_open"}

(* A calm printer is alone with what the storers before it have left. *)
CalmAlone ==
  \A p \in calm :
    /\ cut = FALSE /\ \A q \in Storers : spc[q] = "off"
    /\ spc[p] \in {"sem_open", "wait", "turn"} => map[p] = shm

ShmInv == ShmType /\ Opened /\ Settling /\ CalmAlone /\ disappointed = FALSE

LEMMA ShmInitInv == ShmInit => ShmInv
<1> SUFFICES ASSUME ShmInit PROVE ShmInv
  OBVIOUS
<1>1. cut = TRUE /\ disappointed = FALSE /\ calm = {}
  BY DEF ShmInit
<1>2. ShmType
  BY SegsAssumption DEF ShmInit, ShmType
<1>3. Opened
  BY DEF ShmInit, Opened
<1> QED BY <1>1, <1>2, <1>3, Zenon DEF ShmInv, Settling, CalmAlone

(* A process that ends, and a storer before its time. *)
LEMMA QuitsInv ==
  ASSUME ShmInv, NEW p \in Procs, spc[p] # "off", Quits(p),
         UNCHANGED <<shm, sem0, newShm, newSem, stored, value, disappointed>>, calm' \subseteq calm
  PROVE  ShmInv'
<1> USE SegsAssumption, ProcsAssumption
<1>0. ShmType /\ Opened /\ Settling /\ CalmAlone /\ disappointed = FALSE
  BY DEF ShmInv
<1>1. /\ spc' = [spc EXCEPT ![p] = "off"]
      /\ map' = [map EXCEPT ![p] = 0] /\ mutex' = [mutex EXCEPT ![p] = 0]
      /\ p \in Storers => cut' = TRUE
      /\ p \notin Storers => cut' = cut
      /\ cut' \in BOOLEAN
  <2>1. cut \in BOOLEAN
    BY <1>0 DEF ShmType
  <2>2. cut' = (cut \/ p \in Storers)
    BY DEF Quits
  <2>3. cut' \in BOOLEAN /\ (p \in Storers => cut' = TRUE) /\ (p \notin Storers => cut' = cut)
    BY <2>1, <2>2, Zenon
  <2> QED BY <2>3 DEF Quits, Leaves, To
<1>2. ShmType'
  BY <1>0, <1>1 DEF ShmType
<1>3. Opened'
  BY <1>0, <1>1 DEF ShmType, Opened
<1>4. Settling'
  BY <1>0, <1>1 DEF ShmType, Settling, Procs
<1>5. CalmAlone'
  BY <1>0, <1>1 DEF ShmType, CalmAlone, Procs
<1> QED BY <1>0, <1>2, <1>3, <1>4, <1>5 DEF ShmInv

(* What a process does on its way; the names and the segments stay. *)
LEMMA OnTheWayInv ==
  ASSUME ShmInv, NEW p \in Procs, shm_open(p) \/ sem_open_named(p), disappointed' = FALSE,
         ~Quits(p)
  PROVE  ShmInv'
<1> USE SegsAssumption, ProcsAssumption
<1>0. ShmType /\ Opened /\ Settling /\ CalmAlone /\ disappointed = FALSE
  BY DEF ShmInv
<1>1. CASE shm_open(p) /\ p \in Storers
  <2>1. /\ spc[p] = "shm_open" /\ spc' = [spc EXCEPT ![p] = "sem_unlink"]
        /\ newShm < MaxSegs /\ newShm' = newShm + 1 /\ shm' = newShm'
        /\ map' = [map EXCEPT ![p] = shm']
        /\ UNCHANGED <<mutex, cut, sem0, newSem, stored, value, calm>>
    BY <1>1, ~Quits(p) DEF shm_open, To
  <2>2. ShmType'
    BY <1>0, <2>1 DEF ShmType
  <2>3. Opened'
    BY <1>0, <1>1, <2>1 DEF ShmType, Opened
  <2>4. Settling'
    BY <1>0, <1>1, <2>1 DEF ShmType, Settling
  <2>5. CalmAlone'
    BY <1>0, <1>1, <2>1 DEF CalmAlone
  <2> QED BY <2>2, <2>3, <2>4, <2>5 DEF ShmInv
<1>2. CASE shm_open(p) /\ p \notin Storers
  <2>1. /\ spc[p] = "shm_open" /\ spc' = [spc EXCEPT ![p] = "sem_open"]
        /\ map' = [map EXCEPT ![p] = shm] /\ shm # 0
        /\ UNCHANGED <<shm, newShm, mutex, cut, sem0, newSem, stored, value, calm>>
    BY <1>2, ~Quits(p) DEF shm_open, To, Procs
  <2>2. ShmType'
    BY <1>0, <2>1 DEF ShmType
  <2>3. Opened'
    BY <1>0, <1>2, <2>1 DEF ShmType, Opened
  <2>4. Settling'
    BY <1>0, <1>2, <2>1 DEF ShmType, Settling, Procs
  <2>5. CalmAlone'
    BY <1>0, <1>2, <2>1 DEF ShmType, CalmAlone, Procs
  <2> QED BY <2>2, <2>3, <2>4, <2>5 DEF ShmInv
<1>3. CASE sem_open_named(p)
  <2>1. /\ spc[p] = "sem_open" /\ spc' = [spc EXCEPT ![p] = "wait"]
        /\ mutex' = [mutex EXCEPT ![p] = sem0'] /\ sem0' # 0
        /\ newSem' \in 0 .. MaxSegs /\ newSem <= newSem' /\ sem0' \in 0 .. newSem'
        /\ sem0' # sem0 => p \in Storers
        /\ UNCHANGED <<map, cut, shm, newShm, stored, value, calm>>
    BY <1>0, <1>3, ~Quits(p) DEF sem_open_named, To, Procs, ShmType
  <2>2. ShmType'
    BY <1>0, <2>1 DEF ShmType
  <2>3. Opened'
    BY <1>0, <2>1 DEF ShmType, Opened
  <2>4. Settling'
    BY <1>0, <2>1 DEF ShmType, Settling, Procs
  <2>5. CalmAlone'
    BY <1>0, <2>1 DEF ShmType, CalmAlone, Procs
  <2> QED BY <2>2, <2>3, <2>4, <2>5 DEF ShmInv
<1> QED BY <1>1, <1>2, <1>3

LEMMA ShmStepInv == ShmInv /\ [ShmNext]_shmVars => ShmInv'
<1> SUFFICES ASSUME ShmInv, [ShmNext]_shmVars PROVE ShmInv'
  OBVIOUS
<1> USE SegsAssumption, ProcsAssumption
<1>0. ShmType /\ Opened /\ Settling /\ CalmAlone /\ disappointed = FALSE
  BY DEF ShmInv
<1>1. ASSUME NEW p \in Procs, print_starts(p) PROVE ShmInv'
  <2>1. /\ p \in Printers /\ p \notin Storers /\ spc[p] = "off"
        /\ spc' = [spc EXCEPT ![p] = "shm_open"]
        /\ UNCHANGED <<shm, sem0, newShm, newSem, stored, value, map, mutex, cut, disappointed>>
    BY <1>1 DEF print_starts, To
  <2>2. /\ calm' \subseteq calm \cup {p}
        /\ p \in calm' => cut = FALSE /\ \A q \in Storers : spc[q] = "off"
    <3>1. cut \in BOOLEAN
      BY <1>0 DEF ShmType
    <3> QED BY <1>1, <3>1 DEF print_starts, StorersActive
  <2>3. ShmType'
    BY <1>0, <2>1, <2>2 DEF ShmType
  <2>4. Opened'
    BY <1>0, <2>1 DEF ShmType, Opened
  <2>5. Settling'
    BY <1>0, <2>1 DEF ShmType, Settling, Procs
  <2>6. CalmAlone'
    BY <1>0, <2>1, <2>2 DEF ShmType, CalmAlone, Procs
  <2> QED BY <1>0, <2>1, <2>3, <2>4, <2>5, <2>6 DEF ShmInv
<1>2. ASSUME NEW p \in Procs, shm_unlink(p) PROVE ShmInv'
  <2>1. /\ p \in Storers /\ spc[p] = "off" /\ shm' = 0 /\ calm' = {}
        /\ spc' = [spc EXCEPT ![p] = "shm_open"]
        /\ UNCHANGED <<sem0, newShm, newSem, stored, value, map, mutex, disappointed>>
    BY <1>2 DEF shm_unlink, To
  <2>2. cut' \in BOOLEAN /\ (cut' = FALSE => cut = FALSE \/ StorersActive = {})
    <3>1. cut \in BOOLEAN
      BY <1>0 DEF ShmType
    <3> QED BY <1>2, <3>1, Zenon DEF shm_unlink
  <2>3. ShmType'
    BY <1>0, <2>1, <2>2 DEF ShmType
  <2>4. Opened'
    BY <1>0, <2>1 DEF ShmType, Opened
  <2>5. Settling'
    BY <1>0, <2>1 DEF ShmType, Settling
  <2>6. CalmAlone'
    BY <2>1 DEF CalmAlone
  <2> QED BY <1>0, <2>1, <2>3, <2>4, <2>5, <2>6 DEF ShmInv
<1>3. ASSUME NEW p \in Procs, shm_open(p) \/ sem_open_named(p) PROVE ShmInv'
  <2>1. CASE Quits(p)
    <3>1. /\ spc[p] # "off" /\ UNCHANGED <<stored, value, calm>>
          /\ UNCHANGED <<shm, newShm, sem0, newSem>>
      <4>1. spc[p] # "off" /\ spc'[p] = "off"
        BY <1>0, <1>3, <2>1 DEF shm_open, sem_open_named, Quits, Leaves, To, ShmType
      <4> QED BY <1>0, <1>3, <4>1 DEF shm_open, sem_open_named, To, ShmType
    <3>2. disappointed' = FALSE
      <4>1. p \notin calm
        <5> SUFFICES ASSUME p \in calm PROVE FALSE
          OBVIOUS
        <5>1. p \in Printers /\ p \notin Storers /\ shm # 0 /\ sem0 # 0 /\ spc'[p] = "off"
          BY <1>0, <2>1 DEF ShmType, CalmAlone, Settling, Quits, Leaves, To
        <5> QED BY <1>0, <1>3, <5>1 DEF shm_open, sem_open_named, To, ShmType
      <4>2. disappointed' = (disappointed \/ p \in calm) \/ disappointed' = disappointed
        BY <1>3, Zenon DEF shm_open, sem_open_named
      <4> QED BY <1>0, <4>1, <4>2, Zenon
    <3> QED BY <1>0, <2>1, <3>1, <3>2, QuitsInv
  <2>2. CASE ~Quits(p)
    <3>1. disappointed' = disappointed
      BY <1>3, <2>2, Zenon DEF shm_open, sem_open_named
    <3> QED BY <1>0, <1>3, <2>2, <3>1, OnTheWayInv
  <2> QED BY <2>1, <2>2
<1>4. ASSUME NEW p \in Procs, sem_unlink_old(p) PROVE ShmInv'
  <2>1. /\ spc[p] = "sem_unlink" /\ spc' = [spc EXCEPT ![p] = "sem_open"] /\ sem0' = 0 /\ p \in Storers
        /\ UNCHANGED <<shm, newShm, newSem, stored, value, map, mutex, cut, calm, disappointed>>
    BY <1>0, <1>4 DEF sem_unlink_old, To, Opened
  <2>3. ShmType'
    BY <1>0, <2>1 DEF ShmType
  <2>4. Opened'
    BY <1>0, <2>1 DEF ShmType, Opened
  <2>5. Settling'
    BY <1>0, <2>1 DEF ShmType, Settling, Procs
  <2>6. CalmAlone'
    BY <1>0, <2>1 DEF CalmAlone
  <2> QED BY <1>0, <2>1, <2>3, <2>4, <2>5, <2>6 DEF ShmInv
<1>5. ASSUME NEW p \in Procs, sem_wait_named(p) PROVE ShmInv'
  <2>1. /\ spc[p] = "wait" /\ spc' = [spc EXCEPT ![p] = "turn"] /\ value[mutex[p]] > 0
        /\ value' = [value EXCEPT ![mutex[p]] = @ - 1]
        /\ UNCHANGED <<shm, sem0, newShm, newSem, stored, map, mutex, cut, calm, disappointed>>
    BY <1>5 DEF sem_wait_named, To
  <2>2. mutex[p] \in 1 .. MaxSegs /\ value[mutex[p]] = 1
    BY <1>0, <2>1 DEF ShmType, Opened
  <2>3. ShmType'
    BY <1>0, <2>1, <2>2 DEF ShmType
  <2>4. Opened'
    BY <1>0, <2>1, <2>2 DEF ShmType, Opened
  <2>5. Settling'
    BY <1>0, <2>1 DEF ShmType, Settling, Procs
  <2>6. CalmAlone'
    BY <1>0, <2>1 DEF ShmType, CalmAlone, Procs
  <2> QED BY <1>0, <2>1, <2>3, <2>4, <2>5, <2>6 DEF ShmInv
<1>6. ASSUME NEW p \in Procs, turn(p) PROVE ShmInv'
  <2>1. /\ spc[p] = "turn" /\ spc' = [spc EXCEPT ![p] = "post"]
        /\ UNCHANGED <<shm, sem0, newShm, newSem, value, map, mutex, cut, calm>>
    BY <1>6 DEF turn, To
  <2>2. map[p] \in 1 .. MaxSegs
    <3>1. map[p] # 0 /\ map[p] \in 0 .. newShm
      BY <1>0, <2>1 DEF ShmType, Opened
    <3> QED BY <1>0, <3>1 DEF ShmType
  <2>3. /\ p \in Storers => stored' = [stored EXCEPT ![map[p]] = TRUE]
        /\ p \notin Storers => stored' = stored
    BY <1>6 DEF turn
  <2>4. disappointed' = FALSE
    <3>1. CASE p \in Storers
      BY <1>0, <1>6, <3>1 DEF turn
    <3>2. CASE p \notin Storers
      <4>1. disappointed' = (disappointed \/ (p \in calm /\ ~stored[map[p]]))
        BY <1>6, <3>2 DEF turn
      <4>2. p \in calm => stored[map[p]]
        BY <1>0, <2>1, <2>2 DEF CalmAlone, Settling, ShmType
      <4> QED BY <1>0, <4>1, <4>2, Zenon
    <3> QED BY <3>1, <3>2
  <2>5. ShmType'
    BY <1>0, <2>1, <2>2, <2>3 DEF ShmType
  <2>6. Opened'
    BY <1>0, <2>1 DEF ShmType, Opened
  <2>7. Settling'
    BY <1>0, <2>1, <2>2, <2>3 DEF ShmType, Settling, Procs
  <2>8. CalmAlone'
    BY <1>0, <2>1 DEF ShmType, CalmAlone, Procs
  <2> QED BY <2>4, <2>5, <2>6, <2>7, <2>8 DEF ShmInv
<1>7. ASSUME NEW p \in Procs, sem_post_named(p) PROVE ShmInv'
  <2>1. /\ spc[p] = "post" /\ spc' = [spc EXCEPT ![p] = "off"]
        /\ value' = [value EXCEPT ![mutex[p]] = @ + 1]
        /\ map' = [map EXCEPT ![p] = 0] /\ mutex' = [mutex EXCEPT ![p] = 0]
        /\ UNCHANGED <<shm, sem0, newShm, newSem, stored, cut, calm, disappointed>>
    BY <1>7 DEF sem_post_named, Leaves, To
  <2>2. /\ mutex[p] \in 1 .. MaxSegs /\ value[mutex[p]] = 0
        /\ \A q \in Procs \ {p} : spc[q] \in {"turn", "post"} => mutex[q] # mutex[p]
    BY <1>0, <2>1 DEF ShmType, Opened
  <2>3. ShmType'
    BY <1>0, <2>1, <2>2 DEF ShmType
  <2>4. Opened'
    BY <1>0, <2>1, <2>2 DEF ShmType, Opened
  <2>5. Settling'
    BY <1>0, <2>1 DEF ShmType, Settling, Procs
  <2>6. CalmAlone'
    BY <1>0, <2>1 DEF ShmType, CalmAlone, Procs
  <2> QED BY <1>0, <2>1, <2>3, <2>4, <2>5, <2>6 DEF ShmInv
<1>8. ASSUME NEW p \in Procs, KillProc(p) PROVE ShmInv'
  BY <1>8, QuitsInv DEF KillProc
<1>9. CASE UNCHANGED shmVars
  <2>1. ShmType' /\ Opened' /\ Settling' /\ CalmAlone' /\ disappointed' = FALSE
    BY <1>0, <1>9 DEF shmVars, ShmType, Opened, Settling, CalmAlone
  <2> QED BY <2>1 DEF ShmInv
<1> QED BY <1>1, <1>2, <1>3, <1>4, <1>5, <1>6, <1>7, <1>8, <1>9 DEF ShmNext

LEMMA ShmInvKeeps == ShmInv => ShmTypeOK /\ CalmPrinterPrints
<1> SUFFICES ASSUME ShmInv PROVE ShmTypeOK /\ CalmPrinterPrints
  OBVIOUS
<1>1. ShmType /\ disappointed = FALSE
  BY DEF ShmInv
<1>2. /\ {shm, sem0, newShm, newSem} \subseteq 0 .. MaxSegs
      /\ map \in [Procs -> 0 .. MaxSegs] /\ mutex \in [Procs -> 0 .. MaxSegs]
  BY <1>1, SegsAssumption DEF ShmType
<1>3. {cut, disappointed} \subseteq BOOLEAN
  BY <1>1, Zenon DEF ShmType
<1> QED BY <1>1, <1>2, <1>3 DEF ShmTypeOK, ShmType, CalmPrinterPrints

LEMMA ShmAlways == Spec => []ShmInv
<1>1. Init => ShmInv
  BY ShmInitInv DEF Init
<1>2. ShmInv /\ [Next]_vars => ShmInv'
  BY ShmStepInv, OneProgram
<1> QED BY <1>1, <1>2, PTL DEF Spec

(* sharemem.c: a printer that started while everything was calm finds what *)
(* it looks for, for any number of printers, storers and segments.         *)
THEOREM CalmPrinterPrintsAlways == Spec => []CalmPrinterPrints
<1>1. ShmInv => CalmPrinterPrints
  BY ShmInvKeeps
<1> QED BY <1>1, ShmAlways, PTL

-----------------------------------------------------------------------------
(* rwlock.c *)

RwType ==
  /\ rwpc \in [RwThreads -> {"new", "in", "append", "done"}]
  /\ \A r \in RwReaders : rwpc[r] # "append"
  /\ data \in Seq(RwWriters)
  /\ strend \in [RwWriters -> 0 .. Len(data)]
  /\ shown \in [RwReaders -> Seq(RwWriters)]

(* A writer that is inside is alone, and found the end that still is one. *)
WriterAlone ==
  \A w \in RwWriters :
    /\ rwpc[w] \in {"in", "append"} => ~Inside(RwThreads \ {w})
    /\ rwpc[w] = "append" => strend[w] = Len(data)

(* The text names the writers that are done, each once. *)
TextIsDone ==
  /\ \A k \in 1 .. Len(data) : rwpc[data[k]] = "done"
  /\ \A w \in RwWriters : rwpc[w] = "done" => \E k \in 1 .. Len(data) : data[k] = w
  /\ \A j, k \in 1 .. Len(data) : data[j] = data[k] => j = k

ShownBegins ==
  \A r \in RwReaders :
    /\ Len(shown[r]) <= Len(data)
    /\ \A k \in 1 .. Len(shown[r]) : shown[r][k] = data[k]

RwInv == RwType /\ WriterAlone /\ TextIsDone /\ ShownBegins

LEMMA RwInitInv == RwInit => RwInv
BY DEF RwInit, RwInv, RwType, WriterAlone, TextIsDone, ShownBegins, RwThreads, Inside

LEMMA RwStepInv == RwInv /\ [RwNext]_rwVars => RwInv'
<1> SUFFICES ASSUME RwInv, [RwNext]_rwVars PROVE RwInv'
  OBVIOUS
<1> USE ThreadsAssumption
<1>0. RwType /\ WriterAlone /\ TextIsDone /\ ShownBegins
  BY DEF RwInv
<1>1. ASSUME NEW t \in RwThreads, rdlock(t) \/ (t \in RwWriters /\ wrlock(t)),
             t \in RwWriters => wrlock(t)
      PROVE  RwInv'
  <2>1. /\ rwpc[t] = "new" /\ rwpc' = [rwpc EXCEPT ![t] = "in"]
        /\ UNCHANGED <<data, strend, shown>>
        /\ ~Inside(RwWriters)
        /\ t \in RwWriters => ~Inside(RwThreads)
    BY <1>1 DEF rdlock, wrlock, Inside, RwThreads
  <2>2. RwType'
    BY <1>0, <2>1 DEF RwType
  <2>3. WriterAlone'
    BY <1>0, <2>1 DEF RwType, WriterAlone, Inside, RwThreads
  <2>4. TextIsDone' /\ ShownBegins'
    BY <1>0, <2>1 DEF RwType, TextIsDone, ShownBegins, RwThreads
  <2> QED BY <2>2, <2>3, <2>4 DEF RwInv
<1>2. ASSUME NEW w \in RwWriters, strcat_finds(w) PROVE RwInv'
  <2>1. /\ rwpc[w] = "in" /\ rwpc' = [rwpc EXCEPT ![w] = "append"]
        /\ strend' = [strend EXCEPT ![w] = Len(data)]
        /\ UNCHANGED <<data, shown>>
    BY <1>2 DEF strcat_finds
  <2>2. RwType'
    BY <1>0, <2>1 DEF RwType, RwThreads
  <2>3. WriterAlone'
    BY <1>0, <2>1 DEF RwType, WriterAlone, Inside, RwThreads
  <2>4. TextIsDone' /\ ShownBegins'
    BY <1>0, <2>1 DEF RwType, TextIsDone, ShownBegins, RwThreads
  <2> QED BY <2>2, <2>3, <2>4 DEF RwInv
<1>3. ASSUME NEW w \in RwWriters, strcat_copies(w) PROVE RwInv'
  <2>1. /\ rwpc[w] = "append" /\ rwpc' = [rwpc EXCEPT ![w] = "done"]
        /\ data' = Append(SubSeq(data, 1, strend[w]), w)
        /\ UNCHANGED <<strend, shown>>
    BY <1>3 DEF strcat_copies
  <2>2. data' = Append(data, w) /\ data \in Seq(RwWriters)
    <3>1. strend[w] = Len(data) /\ data \in Seq(RwWriters)
      BY <1>0, <2>1 DEF WriterAlone, RwType
    <3>2. SubSeq(data, 1, Len(data)) = data
      BY <3>1
    <3> QED BY <2>1, <3>1, <3>2
  <2>3. /\ Len(data') = Len(data) + 1 /\ data' \in Seq(RwWriters)
        /\ data'[Len(data) + 1] = w
        /\ \A k \in 1 .. Len(data) : data'[k] = data[k]
    BY <2>2
  <2>4. Len(data) \in Nat /\ \A k \in 1 .. Len(data) : data[k] \in RwWriters
    BY <2>2
  <2>5. RwType'
    BY <1>0, <2>1, <2>3, <2>4 DEF RwType, RwThreads
  <2>6. WriterAlone'
    BY <1>0, <2>1 DEF RwType, WriterAlone, Inside, RwThreads
  <2>7. TextIsDone'
    <3>1. \A k \in 1 .. Len(data) : data[k] # w
      BY <1>0, <2>1 DEF TextIsDone
    <3>2. \A k \in 1 .. Len(data') : rwpc'[data'[k]] = "done"
      BY <1>0, <2>1, <2>3, <2>4 DEF TextIsDone, RwType, RwThreads
    <3>3. ASSUME NEW v \in RwWriters, rwpc'[v] = "done"
          PROVE  \E k \in 1 .. Len(data') : data'[k] = v
      <4>1. CASE v = w
        BY <2>3, <2>4, <4>1
      <4>2. CASE v # w
        <5>1. PICK k \in 1 .. Len(data) : data[k] = v
          BY <1>0, <2>1, <3>3, <4>2 DEF TextIsDone, RwType, RwThreads
        <5> QED BY <2>3, <2>4, <5>1
      <4> QED BY <4>1, <4>2
    <3>4. \A j, k \in 1 .. Len(data') : data'[j] = data'[k] => j = k
      BY <1>0, <2>3, <2>4, <3>1 DEF TextIsDone
    <3> QED BY <3>2, <3>3, <3>4 DEF TextIsDone
  <2>8. ShownBegins'
    <3> SUFFICES ASSUME NEW r \in RwReaders
                 PROVE  /\ Len(shown[r]) <= Len(data')
                        /\ \A k \in 1 .. Len(shown[r]) : shown[r][k] = data'[k]
      BY <2>1 DEF ShownBegins
    <3>1. Len(shown[r]) \in Nat
      BY <1>0 DEF RwType
    <3> QED BY <1>0, <2>3, <2>4, <3>1 DEF ShownBegins
  <2> QED BY <2>5, <2>6, <2>7, <2>8 DEF RwInv
<1>4. ASSUME NEW r \in RwReaders, reader(r), ~rdlock(r) PROVE RwInv'
  <2>1. /\ rwpc[r] = "in" /\ rwpc' = [rwpc EXCEPT ![r] = "done"]
        /\ shown' = [shown EXCEPT ![r] = data]
        /\ UNCHANGED <<data, strend>>
    BY <1>4 DEF reader
  <2>2. RwType'
    BY <1>0, <2>1 DEF RwType, RwThreads
  <2>3. WriterAlone'
    BY <1>0, <2>1 DEF RwType, WriterAlone, Inside, RwThreads
  <2>4. TextIsDone'
    BY <1>0, <2>1 DEF RwType, TextIsDone, RwThreads
  <2>5. ShownBegins'
    BY <1>0, <2>1 DEF RwType, ShownBegins
  <2> QED BY <2>2, <2>3, <2>4, <2>5 DEF RwInv
<1>5. CASE UNCHANGED rwVars
  BY <1>0, <1>5 DEF rwVars, RwInv, RwType, WriterAlone, TextIsDone, ShownBegins, Inside
<1>6. ASSUME NEW r \in RwReaders, rdlock(r) PROVE RwInv'
  BY <1>1, <1>6 DEF RwThreads
<1>7. ASSUME NEW w \in RwWriters, wrlock(w) PROVE RwInv'
  BY <1>1, <1>7 DEF RwThreads
<1> QED BY <1>2, <1>3, <1>4, <1>5, <1>6, <1>7 DEF RwNext, writer

(* A sequence without repetition is as long as the set of its elements. *)
LEMMA DistinctCount ==
  ASSUME NEW S, NEW s \in Seq(S), \A j, k \in 1 .. Len(s) : s[j] = s[k] => j = k
  PROVE  Cardinality({s[k] : k \in 1 .. Len(s)}) = Len(s)
<1> DEFINE T == {s[k] : k \in 1 .. Len(s)}
<1>1. Len(s) \in Nat /\ s \in [1 .. Len(s) -> T]
  OBVIOUS
<1>2. s \in Bijection(1 .. Len(s), T)
  BY <1>1 DEF Bijection, Injection, Surjection, IsInjective
<1>3. ExistsBijection(1 .. Len(s), T)
  BY <1>2 DEF ExistsBijection
<1>4. \A n \in Nat : IsFiniteSet(1 .. n) /\ Cardinality(1 .. n) = n
  BY FS_Interval
<1>5. IsFiniteSet(1 .. Len(s)) /\ Cardinality(1 .. Len(s)) = Len(s)
  BY <1>1, <1>4
<1> QED BY <1>3, <1>5, FS_Bijection

LEMMA RwInvKeeps == RwInv => MessagesKept /\ RwTypeOK
<1> SUFFICES ASSUME RwInv PROVE MessagesKept /\ RwTypeOK
  OBVIOUS
<1>0. RwType /\ TextIsDone /\ ShownBegins
  BY DEF RwInv
<1>1. Range(data) = {data[k] : k \in 1 .. Len(data)}
  BY <1>0 DEF Range, RwType
<1>2. Range(data) = {w \in RwWriters : rwpc[w] = "done"}
  <2>1. \A k \in 1 .. Len(data) : data[k] \in RwWriters
    BY <1>0 DEF RwType
  <2> QED BY <1>0, <1>1, <2>1 DEF TextIsDone
<1>3. Len(data) = Cardinality(Range(data))
  BY <1>0, <1>1, DistinctCount DEF RwType, TextIsDone
<1>4. ASSUME NEW r \in RwReaders
      PROVE  Len(shown[r]) <= Len(data) /\ shown[r] = SubSeq(data, 1, Len(shown[r]))
  <2>1. shown[r] \in Seq(RwWriters) /\ data \in Seq(RwWriters) /\ Len(shown[r]) \in Nat
    BY <1>0 DEF RwType
  <2>2. Len(shown[r]) <= Len(data) /\ \A k \in 1 .. Len(shown[r]) : shown[r][k] = data[k]
    BY <1>0 DEF ShownBegins
  <2> QED BY <2>1, <2>2
<1> QED BY <1>0, <1>2, <1>3, <1>4 DEF MessagesKept, RwTypeOK, RwType

LEMMA RwAlways == Spec => []RwInv
<1>1. Init => RwInv
  BY RwInitInv DEF Init
<1>2. RwInv /\ [Next]_vars => RwInv'
  BY RwStepInv, OneProgram
<1> QED BY <1>1, <1>2, PTL DEF Spec

(* rwlock.c: no message is torn or lost, and what a reader shows is a      *)
(* beginning of the text, for any number of readers and writers.           *)
THEOREM MessagesKeptAlways == Spec => []MessagesKept
<1>1. RwInv => MessagesKept
  BY RwInvKeeps
<1> QED BY <1>1, RwAlways, PTL

-----------------------------------------------------------------------------
(* systemV_shm.c *)

SegMade == SegSize \in Nat /\ SegSize > 0 /\ seg \in [1 .. SegSize -> 0 .. 255]

SegType ==
  /\ seg = <<>> \/ SegMade
  /\ index \in [Setters -> -1 .. SegSize]
  /\ filled \/ (\E p \in Setters : index[p] # -1) => SegMade

(* What a process has gone through is as it wrote it. *)
BytesWritten ==
  \A p \in Setters : \A k \in 0 .. SegSize - 1 : k < index[p] => seg[k + 1] = k % 256

SegInv == SegType /\ BytesWritten /\ SegmentFilled

LEMMA MadeNotEmpty == SegMade => seg # <<>>
<1>1. SegMade => 1 \in DOMAIN seg
  BY DEF SegMade
<1>2. DOMAIN <<>> = {}
  OBVIOUS
<1> QED BY <1>1, <1>2

LEMMA SegStepInv == SegInv /\ [SvNext]_svVars => SegInv'
<1> SUFFICES ASSUME SegInv, [SvNext]_svVars PROVE SegInv'
  OBVIOUS
<1>0. SegType /\ BytesWritten /\ SegmentFilled /\ SegSize \in Nat
  BY SizesAssumption DEF SegInv
<1>1. CASE UNCHANGED <<seg, index, filled>>
  BY SMTT(30), <1>0, <1>1 DEF SegInv, SegType, SegMade, BytesWritten, SegmentFilled
<1>2. CASE shmget_create
  <2>1. CASE SegMade
    <3>1. seg' = seg
      BY <1>2, <2>1, MadeNotEmpty DEF shmget_create
    <3> QED BY <1>1, <1>2, <3>1 DEF shmget_create
  <2>2. CASE ~SegMade
    <3>1. ~filled /\ (\A p \in Setters : index[p] = -1) /\ seg = <<>>
      BY <1>0, <2>2 DEF SegType
    <3>2. seg' = [i \in 1 .. SegSize |-> 0] /\ UNCHANGED <<index, filled>>
      BY <1>2, <3>1 DEF shmget_create
    <3>3. seg' = <<>> \/ SegMade'
      <4>1. CASE SegSize = 0
        BY <3>2, <4>1
      <4>2. CASE SegSize > 0
        BY <1>0, <3>2, <4>2 DEF SegMade
      <4> QED BY <1>0, <4>1, <4>2
    <3>4. SegType'
      BY <1>0, <3>1, <3>2, <3>3 DEF SegType
    <3>5. BytesWritten' /\ SegmentFilled'
      BY <1>0, <3>1, <3>2 DEF BytesWritten, SegmentFilled
    <3> QED BY <3>4, <3>5 DEF SegInv
  <2> QED BY <2>1, <2>2
<1>3. ASSUME NEW p \in Setters, shmat_set(p) PROVE SegInv'
  <2>1. seg # <<>> /\ index' = [index EXCEPT ![p] = 0] /\ UNCHANGED <<seg, filled>>
    BY <1>3 DEF shmat_set
  <2>2. SegType'
    BY SMTT(30), <1>0, <2>1 DEF SegType, SegMade
  <2>3. BytesWritten' /\ SegmentFilled'
    BY <1>0, <2>1 DEF SegType, BytesWritten, SegmentFilled
  <2> QED BY <2>2, <2>3 DEF SegInv
<1>4. ASSUME NEW p \in Setters, set_byte(p) PROVE SegInv'
  <2>1. /\ index[p] \in 0 .. SegSize - 1
        /\ seg' = [seg EXCEPT ![index[p] + 1] = index[p] % 256]
        /\ index' = [index EXCEPT ![p] = @ + 1] /\ filled' = filled
    BY <1>4 DEF set_byte, stores
  <2> DEFINE n == index[p]
  <2>2. SegMade
    <3>1. index[p] # -1
      BY <1>0, <2>1
    <3> QED BY <1>0, <3>1 DEF SegType
  <2>3. n \in 0 .. SegSize - 1 /\ n % 256 \in 0 .. 255
    BY <1>0, <2>1
  <2> HIDE DEF n
  <2>4. seg' = [seg EXCEPT ![n + 1] = n % 256] /\ index' = [index EXCEPT ![p] = n + 1]
    BY <2>1 DEF n
  <2>5. SegMade'
    BY <2>2, <2>3, <2>4 DEF SegMade
  <2>6. \A k \in 0 .. SegSize - 1 : seg'[k + 1] = k % 256 \/ (k # n /\ seg'[k + 1] = seg[k + 1])
    <3> TAKE k \in 0 .. SegSize - 1
    <3>1. n + 1 \in 1 .. SegSize /\ k + 1 \in 1 .. SegSize /\ (k # n => k + 1 # n + 1)
      BY <1>0, <2>3
    <3> QED BY <2>2, <2>4, <3>1 DEF SegMade
  <2>7. SegType'
    BY <1>0, <2>1, <2>3, <2>4, <2>5 DEF SegType
  <2>8. BytesWritten'
    <3> SUFFICES ASSUME NEW q \in Setters, NEW k \in 0 .. SegSize - 1, k < index'[q], k # n
                 PROVE  k < index[q]
      BY <1>0, <2>6 DEF BytesWritten
    <3> QED BY <1>0, <2>1, <2>3, <2>4 DEF SegType, n
  <2>9. SegmentFilled'
    BY <1>0, <2>1, <2>6 DEF SegmentFilled
  <2> QED BY <2>7, <2>8, <2>9 DEF SegInv
<1>5. ASSUME NEW p \in Setters, set_ends(p) \/ StopSetter(p) PROVE SegInv'
  <2>1. /\ index[p] # -1 /\ index' = [index EXCEPT ![p] = -1] /\ seg' = seg
        /\ filled' = filled \/ (filled' = TRUE /\ index[p] = SegSize)
    BY <1>0, <1>5 DEF set_ends, StopSetter
  <2>2. SegMade /\ SegMade'
    BY <1>0, <2>1 DEF SegType, SegMade
  <2>3. SegType'
    BY <1>0, <2>1, <2>2 DEF SegType
  <2>4. BytesWritten'
    BY <1>0, <2>1 DEF SegType, BytesWritten
  <2>5. SegmentFilled'
    <3>1. CASE filled' = filled
      BY <1>0, <2>1, <3>1 DEF SegmentFilled
    <3>2. CASE index[p] = SegSize
      <4> SUFFICES ASSUME NEW k \in 0 .. SegSize - 1 PROVE seg[k + 1] = k % 256
        BY <2>1 DEF SegmentFilled
      <4>1. k < index[p]
        BY <1>0, <3>2
      <4> QED BY <1>0, <4>1 DEF BytesWritten
    <3> QED BY <2>1, <3>1, <3>2
  <2> QED BY <2>3, <2>4, <2>5 DEF SegInv
<1>6. ASSUME NEW len \in MsgLens, msgsnd(len) \/ msgrcv(len) PROVE SegInv'
  BY <1>1, <1>6 DEF msgsnd, msgrcv
<1>7. CASE UNCHANGED svVars
  BY <1>1, <1>7 DEF svVars
<1> QED BY <1>2, <1>3, <1>4, <1>5, <1>6, <1>7 DEF SvNext

LEMMA SegInitInv == SvInit => SegInv
BY SizesAssumption DEF SvInit, SegInv, SegType, BytesWritten, SegmentFilled

LEMMA SegAlways == Spec => []SegInv
<1>1. Init => SegInv
  BY SegInitInv DEF Init
<1>2. SegInv /\ [Next]_vars => SegInv'
  BY SegStepInv, OneProgram
<1> QED BY <1>1, <1>2, PTL DEF Spec

(* systemV_shm -s: once the segment was written through, every byte stays  *)
(* its index, for any size and any number of processes that write it.      *)
THEOREM SegmentFilledAlways == Spec => []SegmentFilled
<1>1. SegInv => SegmentFilled
  BY DEF SegInv
<1> QED BY <1>1, SegAlways, PTL

-----------------------------------------------------------------------------
(* systemV_msgque.c *)

Messages == [number : Nat, len : MsgLens]

QueueType ==
  /\ msgs \in Seq(Messages)
  /\ received \in Seq(Nat)
  /\ sent \in 0 .. MaxSent
  /\ exists \in BOOLEAN
  /\ Len(msgs) <= QueueMax

(* What was received and then what waits is numbered as it was sent. *)
Numbered ==
  /\ Len(received) + Len(msgs) = sent
  /\ \A k \in 1 .. Len(received) : received[k] = k
  /\ \A k \in 1 .. Len(msgs) : msgs[k].number = Len(received) + k

QueueInv == QueueType /\ Numbered

(* Sequences by their elements. *)
LEMMA ElementsOf ==
  ASSUME NEW S, NEW s \in Seq(S)
  PROVE  Len(s) \in Nat /\ \A k \in 1 .. Len(s) : s[k] \in S
OBVIOUS

LEMMA AppendElements ==
  ASSUME NEW S, NEW s \in Seq(S), NEW e \in S
  PROVE  /\ Append(s, e) \in Seq(S) /\ Len(Append(s, e)) = Len(s) + 1
         /\ Append(s, e)[Len(s) + 1] = e
         /\ \A k \in 1 .. Len(s) : Append(s, e)[k] = s[k]
OBVIOUS

LEMMA TailElements ==
  ASSUME NEW S, NEW s \in Seq(S), s # <<>>
  PROVE  /\ Len(s) > 0 /\ Head(s) = s[1]
         /\ Tail(s) \in Seq(S) /\ Len(Tail(s)) = Len(s) - 1
         /\ \A k \in 1 .. Len(s) - 1 : Tail(s)[k] = s[k + 1]
OBVIOUS

LEMMA ConcatElements ==
  ASSUME NEW S, NEW s \in Seq(S), NEW t \in Seq(S)
  PROVE  /\ s \o t \in Seq(S) /\ Len(s \o t) = Len(s) + Len(t)
         /\ \A k \in 1 .. Len(s) : (s \o t)[k] = s[k]
         /\ \A k \in 1 .. Len(t) : (s \o t)[Len(s) + k] = t[k]
OBVIOUS

LEMMA QueueStepInv == QueueInv /\ [SvNext]_svVars => QueueInv'
<1> SUFFICES ASSUME QueueInv, [SvNext]_svVars PROVE QueueInv'
  OBVIOUS
<1>0. QueueType /\ Numbered /\ MaxSent \in Nat /\ QueueMax \in Nat
  BY SizesAssumption DEF QueueInv
<1>a. Len(msgs) \in Nat /\ Len(received) \in Nat
  BY <1>0 DEF QueueType
<1>1. ASSUME NEW len \in MsgLens, msgsnd(len) PROVE QueueInv'
  <2> DEFINE m == [number |-> sent', len |-> len]
  <2>1. /\ sent < MaxSent /\ Len(msgs) < QueueMax /\ sent' = sent + 1 /\ exists' = TRUE
        /\ msgs' = Append(msgs, m) /\ received' = received
    BY <1>1 DEF msgsnd
  <2>2. m \in Messages /\ m.number = sent + 1
    BY <1>0, <2>1 DEF QueueType, Messages
  <2> HIDE DEF m
  <2>3. /\ msgs' \in Seq(Messages)
        /\ Len(msgs') = Len(msgs) + 1
        /\ msgs'[Len(msgs) + 1] = m
        /\ \A k \in 1 .. Len(msgs) : msgs'[k] = msgs[k]
    BY <1>0, <2>1, <2>2, AppendElements DEF QueueType
  <2>4. QueueType'
    BY <1>0, <1>a, <2>1, <2>3 DEF QueueType
  <2>5. Numbered'
    <3>1. Len(received') + Len(msgs') = sent' /\ \A k \in 1 .. Len(received') : received'[k] = k
      BY <1>0, <1>a, <2>1, <2>3 DEF Numbered
    <3>2. ASSUME NEW k \in 1 .. Len(msgs') PROVE msgs'[k].number = Len(received') + k
      <4>1. CASE k \in 1 .. Len(msgs)
        BY <1>0, <2>1, <2>3, <4>1 DEF Numbered
      <4>2. CASE k = Len(msgs) + 1
        BY <1>0, <1>a, <2>1, <2>2, <2>3, <4>2 DEF Numbered
      <4> QED BY <1>a, <2>3, <4>1, <4>2
    <3> QED BY <3>1, <3>2 DEF Numbered
  <2> QED BY <2>4, <2>5 DEF QueueInv
<1>2. ASSUME NEW len \in MsgLens, msgrcv(len) PROVE QueueInv'
  <2>1. /\ msgs # <<>> /\ received' = Append(received, Head(msgs).number)
        /\ msgs' = Tail(msgs) /\ UNCHANGED <<sent, exists>>
    BY <1>2 DEF msgrcv
  <2>2. Len(msgs) > 0 /\ Head(msgs) = msgs[1]
    BY <1>0, <2>1, TailElements DEF QueueType
  <2>3. Head(msgs).number = Len(received) + 1
    BY <1>0, <1>a, <2>2 DEF Numbered
  <2>4. /\ msgs' \in Seq(Messages)
        /\ Len(msgs') = Len(msgs) - 1
        /\ \A k \in 1 .. Len(msgs') : msgs'[k] = msgs[k + 1]
    BY <1>0, <2>1, TailElements DEF QueueType
  <2>5. /\ received' \in Seq(Nat) /\ Len(received') = Len(received) + 1
        /\ received'[Len(received) + 1] = Len(received) + 1
        /\ \A k \in 1 .. Len(received) : received'[k] = received[k]
    <3>1. received \in Seq(Nat) /\ Len(received) + 1 \in Nat
          /\ received' = Append(received, Len(received) + 1)
      BY <1>0, <1>a, <2>1, <2>3 DEF QueueType
    <3> QED BY <3>1
  <2>6. QueueType'
    BY <1>0, <1>a, <2>1, <2>4, <2>5 DEF QueueType
  <2>7. Numbered'
    <3>1. Len(received') + Len(msgs') = sent'
      BY <1>0, <1>a, <2>1, <2>4, <2>5 DEF Numbered
    <3>2. ASSUME NEW k \in 1 .. Len(received') PROVE received'[k] = k
      <4>1. k \in 1 .. Len(received) \/ k = Len(received) + 1
        BY <1>a, <2>5
      <4>2. CASE k \in 1 .. Len(received)
        BY <1>0, <2>5, <4>2 DEF Numbered
      <4> QED BY <2>5, <4>1, <4>2
    <3>3. ASSUME NEW k \in 1 .. Len(msgs') PROVE msgs'[k].number = Len(received') + k
      <4>1. k + 1 \in 1 .. Len(msgs) /\ msgs'[k] = msgs[k + 1]
        BY <1>a, <2>4
      <4>2. msgs[k + 1].number = Len(received) + (k + 1)
        BY <1>0, <4>1 DEF Numbered
      <4> QED BY <1>a, <2>5, <4>1, <4>2
    <3> QED BY <3>1, <3>2, <3>3 DEF Numbered
  <2> QED BY <2>6, <2>7 DEF QueueInv
<1>3. CASE UNCHANGED <<msgs, exists, sent, received>>
  BY <1>0, <1>3 DEF QueueInv, QueueType, Numbered
<1>4. ASSUME NEW p \in Setters, shmat_set(p) \/ set_byte(p) \/ set_ends(p) \/ StopSetter(p)
      PROVE  UNCHANGED <<msgs, exists, sent, received>>
  BY <1>4 DEF shmat_set, set_byte, set_ends, StopSetter
<1> QED BY <1>1, <1>2, <1>3, <1>4 DEF SvNext, svVars, shmget_create

LEMMA QueueInitInv == SvInit => QueueInv
<1> SUFFICES ASSUME SvInit PROVE QueueInv
  OBVIOUS
<1>1. msgs = <<>> /\ received = <<>> /\ sent = 0 /\ exists = FALSE
  BY DEF SvInit
<1>2. \A S : <<>> \in Seq(S)
  OBVIOUS
<1>3. Len(msgs) = 0 /\ Len(received) = 0
  BY <1>1
<1>4. QueueType
  <2>1. QueueMax \in Nat /\ MaxSent \in Nat
    BY SizesAssumption
  <2>2. msgs \in Seq(Messages) /\ received \in Seq(Nat)
    BY <1>1, <1>2, Zenon
  <2>3. sent = 0 /\ exists \in BOOLEAN
    BY <1>1, Zenon
  <2> QED BY <1>3, <2>1, <2>2, <2>3 DEF QueueType
<1> QED BY <1>1, <1>3, <1>4 DEF QueueInv, Numbered

LEMMA QueueInOrder == QueueInv => ReceivedInOrder
<1> SUFFICES ASSUME QueueInv PROVE ReceivedInOrder
  OBVIOUS
<1> DEFINE waits == [k \in 1 .. Len(msgs) |-> msgs[k].number]
           all == [k \in 1 .. sent |-> k]
           both == received \o waits
<1>1. /\ msgs \in Seq(Messages) /\ received \in Seq(Nat) /\ sent \in Nat
      /\ Len(msgs) \in Nat /\ Len(received) \in Nat
      /\ Len(received) + Len(msgs) = sent
  BY SizesAssumption DEF QueueInv, QueueType, Numbered
<1>2. waits \in Seq(Nat) /\ Len(waits) = Len(msgs)
      /\ \A k \in 1 .. Len(msgs) : waits[k] = Len(received) + k
  <2>1. \A k \in 1 .. Len(msgs) : msgs[k].number = Len(received) + k
    BY DEF QueueInv, Numbered
  <2>2. waits \in [1 .. Len(msgs) -> Nat]
    BY <1>1, <2>1
  <2>3. \A n \in Nat : \A f \in [1 .. n -> Nat] : f \in Seq(Nat) /\ Len(f) = n
    OBVIOUS
  <2> QED BY <1>1, <2>1, <2>2, <2>3
<1>3. all \in [1 .. sent -> Nat] /\ \A k \in 1 .. sent : all[k] = k
  BY <1>1
<1>4. /\ both \in Seq(Nat) /\ Len(both) = sent
      /\ \A k \in 1 .. Len(received) : both[k] = k
      /\ \A k \in 1 .. Len(msgs) : both[Len(received) + k] = Len(received) + k
  <2> HIDE DEF waits
  <2>1. /\ both \in Seq(Nat) /\ Len(both) = Len(received) + Len(waits)
        /\ \A k \in 1 .. Len(received) : both[k] = received[k]
        /\ \A k \in 1 .. Len(waits) : both[Len(received) + k] = waits[k]
    BY <1>1, <1>2, ConcatElements
  <2>2. \A k \in 1 .. Len(received) : received[k] = k
    BY DEF QueueInv, Numbered
  <2> HIDE DEF both
  <2> QED BY <1>1, <1>2, <2>1, <2>2
<1> HIDE DEF waits, all, both
<1>5. \A k \in 1 .. sent : both[k] = k
  <2> TAKE k \in 1 .. sent
  <2>1. CASE k <= Len(received)
    BY <1>1, <1>4, <2>1
  <2>2. CASE k > Len(received)
    <3>1. k - Len(received) \in 1 .. Len(msgs) /\ Len(received) + (k - Len(received)) = k
      BY <1>1, <2>2
    <3> QED BY <1>4, <3>1
  <2> QED BY <1>1, <2>1, <2>2
<1>6. both = all
  <2>1. both \in [1 .. sent -> Nat]
    BY <1>4
  <2>2. both = [k \in 1 .. sent |-> both[k]]
    BY <2>1
  <2> QED BY <1>5, <2>2 DEF all
<1> QED BY <1>6 DEF ReceivedInOrder, waits, all, both

LEMMA SvTyped ==
  ASSUME QueueInv,
         seg = <<>> \/ seg \in [1 .. SegSize -> 0 .. 255], index \in [Setters -> -1 .. SegSize],
         filled \in BOOLEAN
  PROVE  SvTypeOK
<1>1. /\ msgs \in Seq(Messages) /\ received \in Seq(Nat) /\ MaxSent \in Nat
      /\ sent \in Nat /\ sent <= MaxSent
      /\ Len(msgs) \in Nat /\ Len(received) \in Nat /\ Len(received) + Len(msgs) = sent
  BY SizesAssumption DEF QueueInv, QueueType, Numbered
<1>2. ASSUME NEW k \in 1 .. Len(msgs) PROVE msgs[k] \in [number : 1 .. MaxSent, len : MsgLens]
  <2>1. msgs[k] \in Messages
    BY <1>1, ElementsOf
  <2>2. msgs[k].number = Len(received) + k
    BY DEF QueueInv, Numbered
  <2>3. Len(received) + k \in 1 .. MaxSent
    BY <1>1
  <2> QED BY <2>1, <2>2, <2>3 DEF Messages
<1>3. ASSUME NEW k \in 1 .. Len(received) PROVE received[k] \in 1 .. MaxSent
  BY <1>1 DEF QueueInv, Numbered
<1> QED BY <1>1, <1>2, <1>3 DEF SvTypeOK, QueueInv, QueueType

LEMMA QueueAlways == Spec => []QueueInv
<1>1. Init => QueueInv
  BY QueueInitInv DEF Init
<1>2. QueueInv /\ [Next]_vars => QueueInv'
  BY QueueStepInv, OneProgram
<1> QED BY <1>1, <1>2, PTL DEF Spec

(* msgsnd and msgrcv: what is received are the first messages sent, in     *)
(* their order, for queues of any size.                                    *)
THEOREM ReceivedInOrderAlways == Spec => []ReceivedInOrder
<1>1. QueueInv => ReceivedInOrder
  BY QueueInOrder
<1> QED BY <1>1, QueueAlways, PTL

-----------------------------------------------------------------------------
(* All of them *)

(* A flag stays a flag. *)
FilledType == filled \in BOOLEAN

LEMMA FilledAlways == Spec => []FilledType
<1>1. Init => FilledType
  BY Zenon DEF Init, SvInit, FilledType
<1>2. FilledType /\ [Next]_vars => FilledType'
  <2> SUFFICES ASSUME FilledType, [Next]_vars PROVE FilledType'
    BY Zenon
  <2>1. [SvNext]_svVars
    BY OneProgram
  <2>2. filled' = filled \/ filled' = TRUE
    BY <2>1, Zenon DEF SvNext, svVars, shmget_create, shmat_set, set_byte, set_ends, StopSetter,
           msgsnd, msgrcv
  <2> QED BY <2>2, Zenon DEF FilledType
<1> QED BY <1>1, <1>2, PTL DEF Spec

(* The variables of every program keep their types.                        *)
THEOREM TypeOKAlways == Spec => []TypeOK
<1>1. SemInv => SemTypeOK
  BY SemInvKeeps
<1>2. CondTypeInv => CondTypeOK
  BY DEF CondTypeInv
<1>3. TalkInv => TalkTypeOK
  BY TalkInvKeeps
<1>4. ShmInv => ShmTypeOK
  BY ShmInvKeeps
<1>5. RwInv => RwTypeOK
  BY RwInvKeeps
<1>6. QueueInv /\ SegInv /\ FilledType => SvTypeOK
  <2> SUFFICES ASSUME QueueInv, SegInv, FilledType PROVE SvTypeOK
    OBVIOUS
  <2> QED BY SvTyped DEF SegInv, SegType, SegMade, FilledType
<1>7. SemTypeOK /\ CondTypeOK /\ MqTypeOK /\ TalkTypeOK /\ ShmTypeOK /\ RwTypeOK /\ SvTypeOK => TypeOK
  BY DEF TypeOK
<1> QED BY <1>1, <1>2, <1>3, <1>4, <1>5, <1>6, <1>7, SemAlways, CondTypeAlways, MqTypeAlways, TalkAlways,
           ShmAlways, RwAlways, QueueAlways, SegAlways, FilledAlways, PTL
=============================================================================
