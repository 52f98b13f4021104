---------------------------- MODULE SemProdCons ----------------------------
(***************************************************************************)
(* Application/ipc/sem: a producer and a consumer thread pass nitems items *)
(* through a ring of NBUFF places, guarded by three named semaphores.  The *)
(* semaphores live in the kernel until they are unlinked: a run that is    *)
(* killed leaves them behind, and the next run opens them with the values  *)
(* they have.  All three are created with the value 1.                     *)
(***************************************************************************)
EXTENDS Integers

CONSTANTS NBUFF,
          SemItems,   \* nitems, the argument of the program
          MaxKills    \* times the program is killed

ASSUME NbuffAssumption == NBUFF \in Nat /\ NBUFF >= 2   \* sem.c has 10
ASSUME ItemsAssumption == SemItems \in Nat
ASSUME KillsAssumption == MaxKills \in Nat

Sems    == {"mutex", "nempty", "nstored"}
Threads == {"produce", "consume"}
Absent  == -1

VARIABLES
  sem,     \* the value of each named semaphore, or Absent
  run,     \* "off", "threads" or the next semaphore to be unlinked
  tpc,     \* where each thread stands
  item,    \* i of each thread
  ring,    \* shared_t.buf
  lost,    \* history: an item was overwritten before it was read
  kills

semVars == <<sem, run, tpc, item, ring, lost, kills>>

SemInit ==
  /\ sem = [s \in Sems |-> Absent]
  /\ run = "off"
  /\ tpc = [t \in Threads |-> "done"]
  /\ item = [t \in Threads |-> 0]
  /\ ring = [k \in 0 .. NBUFF - 1 |-> 0]
  /\ lost = FALSE
  /\ kills = 0

(* Mutant: the consumer posts what it waits for. *)
LastStored(t) == "nstored"

(* What a thread waits for before its turn, and posts after it. *)
First(t) == IF t = "produce" THEN "nempty" ELSE "nstored"
Last(t)  == IF t = "produce" THEN "nstored" ELSE "nempty"

(* Mutant: the ring counts its empty places once more than it has. *)
SemOpenAll(s) == IF sem[s] = Absent THEN (IF s = "nempty" THEN NBUFF + 1 ELSE 1) ELSE sem[s]

(* sem_open with O_CREAT: the initial value is for a new semaphore only. *)
sem_open(s) == IF sem[s] = Absent THEN 1 ELSE sem[s]

LoopTop(n) == IF n < SemItems THEN "first" ELSE "done"

main_starts ==
  /\ run = "off"
  /\ sem' = [s \in Sems |-> sem_open(s)]
  /\ run' = "threads"
  /\ tpc' = [t \in Threads |-> LoopTop(0)]
  /\ item' = [t \in Threads |-> 0]
  /\ ring' = [k \in 0 .. NBUFF - 1 |-> 0]
  /\ lost' = FALSE
  /\ UNCHANGED kills

sem_wait(t, from, s, to) ==
  /\ run = "threads"
  /\ tpc[t] = from
  /\ sem[s] > 0
  /\ sem' = [sem EXCEPT ![s] = @ - 1]
  /\ tpc' = [tpc EXCEPT ![t] = to]
  /\ UNCHANGED <<run, item, ring, lost, kills>>

(* Item i goes to its place.  It is lost if the consumer has yet to read   *)
(* the item of NBUFF turns ago, which lies there.                          *)
produce_stores ==
  /\ run = "threads"
  /\ tpc["produce"] = "turn"
  /\ ring' = [ring EXCEPT ![item["produce"] % NBUFF] = item["produce"]]
  /\ lost' = (lost \/ item["consume"] <= item["produce"] - NBUFF)
  /\ tpc' = [tpc EXCEPT !["produce"] = "post"]
  /\ UNCHANGED <<sem, run, item, kills>>

(* The consumer only prints what it finds. *)
consume_prints ==
  /\ run = "threads"
  /\ tpc["consume"] = "turn"
  /\ tpc' = [tpc EXCEPT !["consume"] = "post"]
  /\ UNCHANGED <<sem, run, item, ring, lost, kills>>

post_mutex(t) ==
  /\ run = "threads"
  /\ tpc[t] = "post"
  /\ sem' = [sem EXCEPT !["mutex"] = @ + 1]
  /\ tpc' = [tpc EXCEPT ![t] = "last"]
  /\ UNCHANGED <<run, item, ring, lost, kills>>

post_last(t) ==
  /\ run = "threads"
  /\ tpc[t] = "last"
  /\ sem' = [sem EXCEPT ![Last(t)] = @ + 1]
  /\ item' = [item EXCEPT ![t] = @ + 1]
  /\ tpc' = [tpc EXCEPT ![t] = LoopTop(item'[t])]
  /\ UNCHANGED <<run, ring, lost, kills>>

(* Both threads are joined. *)
main_joins ==
  /\ run = "threads"
  /\ \A t \in Threads : tpc[t] = "done"
  /\ run' = "mutex"
  /\ UNCHANGED <<sem, tpc, item, ring, lost, kills>>

sem_unlink ==
  /\ run \in Sems
  /\ sem' = [sem EXCEPT ![run] = Absent]
  /\ run' = CASE run = "mutex" -> "nempty" [] run = "nempty" -> "nstored"
              [] run = "nstored" -> "off"
  /\ UNCHANGED <<tpc, item, ring, lost, kills>>

Kill ==
  /\ run # "off"
  /\ kills < MaxKills
  /\ kills' = kills + 1
  /\ run' = "off"
  /\ tpc' = [t \in Threads |-> "done"]
  /\ UNCHANGED <<sem, item, ring, lost>>

thread_step(t) ==
  \/ sem_wait(t, "first", First(t), "second")
  \/ sem_wait(t, "second", "mutex", "turn")
  \/ t = "produce" /\ produce_stores
  \/ t = "consume" /\ consume_prints
  \/ post_mutex(t) \/ post_last(t)

SemNext ==
  \/ main_starts \/ main_joins \/ sem_unlink \/ Kill
  \/ \E t \in Threads : thread_step(t)

-----------------------------------------------------------------------------
(* Every variable has its type: semaphores stay small and never negative. *)
SemTypeOK ==
  /\ sem \in [Sems -> {Absent} \cup 0 .. 3 + MaxKills]
  /\ run \in {"off", "threads"} \cup Sems
  /\ tpc \in [Threads -> {"first", "second", "turn", "post", "last", "done"}]
  /\ item \in [Threads -> 0 .. SemItems]
  /\ ring \in [0 .. NBUFF - 1 -> 0 .. SemItems]
  /\ lost \in BOOLEAN
  /\ kills \in 0 .. MaxKills

(* No item is overwritten before it is read: nempty and nstored never hold *)
(* more than two tokens together, even when the program was killed once    *)
(* and they have shifted, so the producer is never more than two items     *)
(* ahead, which the ring has room for.  Every later killed run may leave   *)
(* one token too many, so a ring is overrun only after as many kills as it *)
(* has places.                                                             *)
NoneOverwritten == lost => kills >= NBUFF
=============================================================================
