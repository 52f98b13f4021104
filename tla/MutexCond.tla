----------------------------- MODULE MutexCond -----------------------------
(***************************************************************************)
(* Application/ipc/mutex_cond: producers fill producer.buf round and round *)
(* under producer.mutex and count what is ready under consumer.mutex;      *)
(* consumers wait on consumer.cond for something ready.  A producer        *)
(* signals only when nready was 0.  A consumer returns once cnt reaches    *)
(* nitems; the producers never do.                                         *)
(***************************************************************************)
EXTENDS Integers

CONSTANTS Producers, Consumers,
          nitems,
          MaxReady    \* the producers pause at this value of nready

ASSUME NitemsAssumption  == nitems \in Nat \ {0}
ASSUME ReadyAssumption   == MaxReady \in Nat \ {0}
ASSUME WorkersAssumption == Producers \cap Consumers = {}

Workers == Producers \cup Consumers
Free    == "free"

ASSUME FreeAssumption == Free \notin Workers

VARIABLES
  wpc,       \* where each thread stands
  pmutex,    \* producer.mutex: its owner, or Free
  cmutex,    \* consumer.mutex
  waiting,   \* the threads in pthread_cond_wait
  pbuf,      \* producer.buf
  nput,
  nval,
  nready,
  cnt,
  printed    \* history: the index and the value that was printed last

condVars == <<wpc, pmutex, cmutex, waiting, pbuf, nput, nval, nready, cnt, printed>>

CondInit ==
  /\ wpc = [w \in Workers |-> IF w \in Producers THEN "put" ELSE "take"]
  /\ pmutex = Free
  /\ cmutex = Free
  /\ waiting = {}
  /\ pbuf = [k \in 0 .. nitems - 1 |-> 0]
  /\ nput = 0
  /\ nval = 0
  /\ nready = 0
  /\ cnt = 0
  /\ printed = <<0, 0>>

-----------------------------------------------------------------------------
lock_pmutex(w, from, to) ==
  /\ wpc[w] = from
  /\ pmutex = Free
  /\ pmutex' = w
  /\ wpc' = [wpc EXCEPT ![w] = to]
  /\ UNCHANGED <<cmutex, waiting, pbuf, nput, nval, nready, cnt, printed>>

lock_cmutex(w, from, to) ==
  /\ wpc[w] = from
  /\ cmutex = Free
  /\ cmutex' = w
  /\ wpc' = [wpc EXCEPT ![w] = to]
  /\ UNCHANGED <<pmutex, waiting, pbuf, nput, nval, nready, cnt, printed>>

(* Mutant: only the place is reset when the producers start over. *)
WrapPlaceOnly ==
  IF nput >= nitems THEN [put |-> 0, val |-> nval] ELSE [put |-> nput, val |-> nval]

(* The place and the value of the next item. *)
Wrap == IF nput >= nitems THEN [put |-> 0, val |-> 0] ELSE [put |-> nput, val |-> nval]

produce_puts(w) ==
  /\ wpc[w] = "putting"
  /\ pbuf' = [pbuf EXCEPT ![Wrap.put] = Wrap.val]
  /\ nput' = Wrap.put + 1
  /\ nval' = Wrap.val + 1
  /\ pmutex' = Free
  /\ wpc' = [wpc EXCEPT ![w] = "count"]
  /\ UNCHANGED <<cmutex, waiting, nready, cnt, printed>>

(* Mutant: nready is counted first and is never 0 when it is looked at. *)
SignalsNever == FALSE

(* pthread_cond_signal wakes one of the threads that wait, if any. *)
Signals == nready = 0 /\ waiting # {}

produce_counts(w) ==
  /\ wpc[w] = "counting"
  /\ nready' = nready + 1
  /\ cmutex' = Free
  /\ \/ /\ Signals
        /\ \E c \in waiting :
             /\ waiting' = waiting \ {c}
             /\ wpc' = [wpc EXCEPT ![w] = "put", ![c] = "woken"]
     \/ /\ ~Signals
        /\ waiting' = waiting
        /\ wpc' = [wpc EXCEPT ![w] = "put"]
  /\ UNCHANGED <<pmutex, pbuf, nput, nval, cnt, printed>>

(* pthread_cond_wait releases consumer.mutex and sleeps. *)
consume_waits(w) ==
  /\ wpc[w] = "check"
  /\ nready = 0
  /\ cmutex' = Free
  /\ waiting' = waiting \cup {w}
  /\ wpc' = [wpc EXCEPT ![w] = "waiting"]
  /\ UNCHANGED <<pmutex, pbuf, nput, nval, nready, cnt, printed>>

(* A wakeup nobody signalled, which POSIX allows. *)
SpuriousWakeup(w) ==
  /\ w \in waiting
  /\ waiting' = waiting \ {w}
  /\ wpc' = [wpc EXCEPT ![w] = "woken"]
  /\ UNCHANGED <<pmutex, cmutex, pbuf, nput, nval, nready, cnt, printed>>

consume_takes(w) ==
  /\ wpc[w] = "check"
  /\ nready # 0
  /\ nready' = nready - 1
  /\ cmutex' = Free
  /\ wpc' = [wpc EXCEPT ![w] = "taken"]
  /\ UNCHANGED <<pmutex, waiting, pbuf, nput, nval, cnt, printed>>

(* Mutant: producer.mutex is not unlocked after the item. *)
PrintsItemLocked(w) ==
  /\ wpc[w] = "print"
  /\ cnt + 1 < nitems
  /\ cnt' = cnt + 1
  /\ printed' = IF pbuf[cnt'] # 0 THEN <<cnt', pbuf[cnt']>> ELSE printed
  /\ pbuf' = [pbuf EXCEPT ![cnt'] = 0]
  /\ wpc' = [wpc EXCEPT ![w] = "take"]
  /\ UNCHANGED <<pmutex, cmutex, waiting, nput, nval, nready>>

consume_prints_item(w) ==
  /\ wpc[w] = "print"
  /\ cnt + 1 < nitems
  /\ cnt' = cnt + 1
  /\ printed' = IF pbuf[cnt'] # 0 THEN <<cnt', pbuf[cnt']>> ELSE printed
  /\ pbuf' = [pbuf EXCEPT ![cnt'] = 0]
  /\ pmutex' = Free
  /\ wpc' = [wpc EXCEPT ![w] = "take"]
  /\ UNCHANGED <<cmutex, waiting, nput, nval, nready>>

consume_returns(w) ==
  /\ wpc[w] = "print"
  /\ cnt + 1 >= nitems
  /\ cnt' = cnt + 1
  /\ pmutex' = Free
  /\ wpc' = [wpc EXCEPT ![w] = "returned"]
  /\ UNCHANGED <<cmutex, waiting, pbuf, nput, nval, nready, printed>>

produce(w) ==
  \/ lock_pmutex(w, "put", "putting") \/ produce_puts(w)
  \/ nready < MaxReady /\ lock_cmutex(w, "count", "counting")
  \/ produce_counts(w)

(* Mutant: nready is not looked at again after the wait. *)
ConsumeIf(w) ==
  \/ lock_cmutex(w, "take", "check") \/ consume_waits(w) \/ consume_takes(w)
  \/ /\ wpc[w] = "woken" /\ cmutex = Free
     /\ nready' = nready - 1
     /\ wpc' = [wpc EXCEPT ![w] = "taken"]
     /\ UNCHANGED <<pmutex, cmutex, waiting, pbuf, nput, nval, cnt, printed>>
  \/ lock_pmutex(w, "taken", "print") \/ consume_prints_item(w) \/ consume_returns(w)

consume(w) ==
  \/ lock_cmutex(w, "take", "check") \/ consume_waits(w) \/ consume_takes(w)
  \/ lock_cmutex(w, "woken", "check")
  \/ lock_pmutex(w, "taken", "print") \/ consume_prints_item(w) \/ consume_returns(w)

CondNext ==
  \/ \E w \in Producers : produce(w)
  \/ \E w \in Consumers : consume(w) \/ SpuriousWakeup(w)

-----------------------------------------------------------------------------
(* Every variable has its type: in particular nready never goes below 0,   *)
(* whoever takes what a consumer was woken for.                            *)
CondTypeOK ==
  /\ wpc \in [Workers -> {"put", "putting", "count", "counting", "take", "check",
                          "waiting", "woken", "taken", "print", "returned"}]
  /\ pmutex \in Workers \cup {Free}
  /\ cmutex \in Workers \cup {Free}
  /\ waiting \in SUBSET Consumers
  /\ pbuf \in [0 .. nitems - 1 -> Nat]
  /\ nput \in 0 .. nitems
  /\ nval \in Nat
  /\ nready \in 0 .. MaxReady
  /\ cnt \in Nat
  /\ printed \in Nat \X Nat

(* The producers signal only when nready was 0, so of several consumers    *)
(* that wait only one is woken for several items.  Until cnt reaches       *)
(* nitems that is enough: while something is ready, some consumer is awake *)
(* to take it.  (Afterwards the consumer that was woken may return and     *)
(* leave the others asleep for ever.)                                      *)
ReadyIsTaken ==
  nready > 0 /\ waiting # {} /\ cnt < nitems - 1
    => \E w \in Consumers \ waiting : wpc[w] # "returned"

(* What is printed as buf[k] is k, however often the ring is refilled      *)
(* while it is emptied.                                                    *)
PrintsIndex == printed[1] = printed[2]
=============================================================================
