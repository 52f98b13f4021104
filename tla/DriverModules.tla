----------------------------- MODULE DriverModules ----------------------------
(***************************************************************************)
(* Loading, probing, running and unloading the kernel modules under        *)
(* device_driver: one module per behaviour (drv), an insmod/rmmod thread,  *)
(* the timer interrupt and the work queue it feeds on other CPUs, and      *)
(* programs that use the character device.  Once freed memory is in use    *)
(* (Dangling) nothing more is said about what the timer does.              *)
(***************************************************************************)
EXTENDS DriverTables

CONSTANT Progs    \* runs of the userland program of the character device

VARIABLES
  drv,     \* the kernel module under test
  mod,     \* where the insmod / rmmod thread stands
  step,    \* the next acquisition of the probe
  bound,   \* the probe succeeded and remove has not finished
  held,    \* the resources acquired and not released
  stale,   \* a driver of a module that is gone is still on the bus
  timer,   \* the timer is armed
  isr,     \* where the timer handler stands on its CPU
  work,    \* SUBSET {"pending", "running"}: the work item
  raced,   \* history: remove stopped the timer while its handler or work was active
  prog,    \* where each program stands
  num,     \* the private data of each program's open file
  info     \* what each program printed as kernel information

life == <<drv, mod, step, bound, held, stale>>
tick == <<timer, isr, work, raced>>
user == <<prog, num, info>>
vars == <<life, tick, user>>

NoInfo == "none"

Open(p) == prog[p] \in {"read", "write", "close"}

(* The timer or the work is still to run and its memory (the module, or    *)
(* the private data that embeds timer and work) is gone.                   *)
Dangling ==
  \/ mod = "out" /\ (timer \/ isr # "none" \/ work # {})
  \/ /\ drv = "workqueue_demo" /\ "private" \notin held
     /\ timer \/ isr # "none" \/ "pending" \in work

Init ==
  /\ drv \in Drivers
  /\ mod = "out" /\ step = 1 /\ bound = FALSE /\ held = {} /\ stale = FALSE
  /\ timer = FALSE /\ isr = "none" /\ work = {} /\ raced = FALSE
  /\ prog = [p \in Progs |-> "start"]
  /\ num = [p \in Progs |-> "free"]
  /\ info = [p \in Progs |-> NoInfo]

-------------------------------------------------------------------------------
(* insmod *)

(* The init function up to the first step of the probe.  (A driver         *)
(* registration that fails leaves nothing behind.)                         *)
insmod ==
  /\ mod = "out" /\ ~stale /\ ~Dangling
  /\ \A p \in Progs : ~Open(p)
  /\ mod' = IF OwnDevice(drv) THEN "register" ELSE "probe"
  /\ step' = 1
  /\ raced' = FALSE
  /\ UNCHANGED <<drv, bound, held, stale, timer, isr, work, prog, num, info>>

(* The device registration: when it fails, init returns an error without   *)
(* unregistering the driver, whose structure goes with the module.         *)
register_device ==
  /\ mod = "register"
  /\ \/ mod' = "probe" /\ UNCHANGED stale
     \/ mod' = "out" /\ stale' = TRUE
  /\ UNCHANGED <<drv, step, bound, held, tick, user>>

ProbeStep == ProbeSteps[drv][step]
Probing   == mod = "probe" /\ step <= Len(ProbeSteps[drv])

AcquireGood ==
  /\ Probing
  /\ ProbeStep \notin held
  /\ held' = held \cup ({ProbeStep} \cap Resources)
  /\ step' = step + 1
  /\ UNCHANGED <<drv, mod, bound, stale, tick, user>>

(* A failing step.  devm_ioremap reports failure as NULL, which IS_ERR     *)
(* lets pass and the probe dereferences; a failing device_create is not    *)
(* noticed at all, because it is KERN_ERR that is tested.  Otherwise the   *)
(* labels are run; a failed probe does not fail the registration, a failed *)
(* init does.                                                              *)
AcquireFails ==
  /\ Probing
  /\ \/ /\ ProbeStep = "map"
        /\ mod' = "oops"
        /\ UNCHANGED <<held, step>>
     \/ /\ ProbeStep = "device"
        /\ step' = step + 1
        /\ UNCHANGED <<held, mod>>
     \/ /\ ProbeStep \notin {"map", "device"}
        /\ held' = (held \ Unwind(drv, step)) \ Devres(drv)
        /\ mod' = IF OnBus(drv) THEN "in" ELSE "out"
        /\ UNCHANGED step
  /\ UNCHANGED <<drv, bound, stale, tick, user>>

(* The rest of the probe; the three timed drivers arm their timer. *)
ProbeDone ==
  /\ mod = "probe" /\ step > Len(ProbeSteps[drv])
  /\ mod' = "in" /\ bound' = TRUE
  /\ timer' = Timed(drv)
  /\ UNCHANGED <<drv, step, held, stale, isr, work, raced, user>>

-------------------------------------------------------------------------------
(* rmmod *)

(* Open files hold a reference to fops.owner. *)
rmmod ==
  /\ mod = "in" /\ \A p \in Progs : ~Open(p)
  /\ mod' = IF bound THEN "remove" ELSE "unregister"
  /\ UNCHANGED <<drv, step, bound, held, stale, tick, user>>

(* timer_demo_remove, wq_demo_remove: del_timer takes the timer off the    *)
(* wheel and waits for nobody.                                             *)
del_timer ==
  /\ mod = "remove" /\ drv \in {"timer_demo", "workqueue_demo"}
  /\ timer' = FALSE
  /\ raced' = (isr # "none" \/ work # {})
  /\ mod' = IF drv = "workqueue_demo" THEN "free" ELSE "unregister"
  /\ UNCHANGED <<drv, step, bound, held, stale, isr, work, user>>

kfree_pdata ==
  /\ mod = "free"
  /\ held' = held \ Removes(drv)
  /\ mod' = "unregister"
  /\ UNCHANGED <<drv, step, bound, stale, tick, user>>

(* Mutant: the handler is not waited for. *)
CancelWithoutWait ==
  /\ mod = "remove" /\ drv = "load_monitor"
  /\ timer' = FALSE
  /\ mod' = "out" /\ bound' = FALSE
  /\ UNCHANGED <<drv, step, held, stale, isr, work, raced, user>>

(* load_monitor_exit: hrtimer_cancel returns once the handler is not       *)
(* running and the timer is not queued.                                    *)
hrtimer_cancel ==
  /\ mod = "remove" /\ drv = "load_monitor"
  /\ isr = "none"
  /\ timer' = FALSE
  /\ mod' = "out" /\ bound' = FALSE
  /\ UNCHANGED <<drv, step, held, stale, isr, work, raced, user>>

(* The other removes release what they acquired. *)
remove ==
  /\ mod = "remove" /\ ~Timed(drv)
  /\ held' = held \ Removes(drv)
  /\ mod' = "unregister"
  /\ UNCHANGED <<drv, step, bound, stale, tick, user>>

(* The core releases the devm_ resources, and the device (when it is the   *)
(* module's) and the driver leave the bus.                                 *)
unregister ==
  /\ mod = "unregister"
  /\ held' = held \ Devres(drv)
  /\ bound' = FALSE
  /\ mod' = "out"
  /\ UNCHANGED <<drv, step, stale, tick, user>>

-------------------------------------------------------------------------------
(* Timer and work, on other CPUs. *)

Expire ==
  /\ ~Dangling
  /\ timer /\ isr = "none"
  /\ timer' = FALSE /\ isr' = "entry"
  /\ UNCHANGED <<life, work, raced, user>>

(* Mutant: the work is not scheduled. *)
InterruptWithoutWork ==
  /\ ~Dangling /\ isr = "entry" /\ drv = "workqueue_demo"
  /\ isr' = "rearm"
  /\ UNCHANGED <<life, timer, work, raced, user>>

(* timer_isr of workqueue.c, first half. *)
schedule_work ==
  /\ ~Dangling /\ isr = "entry" /\ drv = "workqueue_demo"
  /\ work' = work \cup {"pending"}
  /\ isr' = "rearm"
  /\ UNCHANGED <<life, timer, raced, user>>

(* The end of timer_demo_handler, timer_isr and monitor_handler: the timer *)
(* is armed for the next period, whatever rmmod is doing.                  *)
rearm ==
  /\ ~Dangling
  /\ isr = "rearm" \/ (isr = "entry" /\ drv # "workqueue_demo")
  /\ timer' = TRUE /\ isr' = "none"
  /\ UNCHANGED <<life, work, raced, user>>

(* wq_isr on a worker thread. *)
wq_isr ==
  /\ ~Dangling
  /\ \/ "pending" \in work /\ "running" \notin work /\ work' = {"running"}
     \/ "running" \in work /\ work' = work \ {"running"}
  /\ UNCHANGED <<life, timer, isr, raced, user>>

-------------------------------------------------------------------------------
(* The character device's program. *)

(* Mutant: open does not allocate the private data. *)
OpenUnset(p) ==
  /\ drv = "char_demo" /\ prog[p] = "start"
  /\ mod \in {"probe", "in"} /\ {"chrdev", "device"} \subseteq held
  /\ prog' = [prog EXCEPT ![p] = "read"]
  /\ UNCHANGED <<life, tick, num, info>>

(* open: possible as soon as the driver is registered and a node exists,   *)
(* be it one that an earlier load left behind (register_chrdev hands out   *)
(* the same major number again), until the module is going.                *)
char_demo_open(p) ==
  /\ drv = "char_demo" /\ prog[p] = "start"
  /\ mod \in {"probe", "in"} /\ {"chrdev", "device"} \subseteq held
  /\ prog' = [prog EXCEPT ![p] = "read"]
  /\ num' = [num EXCEPT ![p] = "0x91"]
  /\ UNCHANGED <<life, tick, info>>

(* A program with a file of a module that is gone is not followed further. *)
char_demo_read(p) ==
  /\ prog[p] = "read" /\ mod # "out"
  /\ info' = [info EXCEPT ![p] = num[p]]
  /\ prog' = [prog EXCEPT ![p] = "write"]
  /\ UNCHANGED <<life, tick, num>>

(* char_demo_write returns nothing, so that the program may or may not     *)
(* report "bad writing"; it closes the file all the same.                  *)
char_demo_write(p) ==
  /\ prog[p] = "write" /\ mod # "out"
  /\ num' = [num EXCEPT ![p] = "0xaa"]
  /\ prog' = [prog EXCEPT ![p] = "close"]
  /\ UNCHANGED <<life, tick, info>>

char_demo_release(p) ==
  /\ prog[p] = "close" /\ mod # "out"
  /\ num' = [num EXCEPT ![p] = "free"]
  /\ info' = [info EXCEPT ![p] = NoInfo]
  /\ prog' = [prog EXCEPT ![p] = "start"]
  /\ UNCHANGED <<life, tick>>

-------------------------------------------------------------------------------
Kernel == \/ insmod \/ register_device \/ AcquireGood \/ AcquireFails \/ ProbeDone
          \/ rmmod \/ del_timer \/ kfree_pdata \/ hrtimer_cancel \/ remove \/ unregister

Interrupt == Expire \/ schedule_work \/ rearm

Next == \/ Kernel \/ Interrupt \/ wq_isr
        \/ \E p \in Progs : \/ char_demo_open(p) \/ char_demo_read(p)
                            \/ char_demo_write(p) \/ char_demo_release(p)

(* A timer that is due fires, its handler runs to its end and a queued     *)
(* work item gets its worker; nobody has to load or unload a module.       *)
Spec == Init /\ [][Next]_vars /\ WF_vars(Interrupt) /\ WF_vars(wq_isr)

-------------------------------------------------------------------------------
(* Properties. *)

(* Every variable has its type. *)
TypeOK ==
  /\ drv \in Drivers
  /\ mod \in {"out", "register", "probe", "in", "remove", "free", "unregister", "oops"}
  /\ step \in 1..5 /\ bound \in BOOLEAN /\ held \subseteq Resources
  /\ stale \in BOOLEAN
  /\ timer \in BOOLEAN /\ isr \in {"none", "entry", "rearm"}
  /\ work \subseteq {"pending", "running"} /\ raced \in BOOLEAN
  /\ prog \in [Progs -> {"start", "read", "write", "close"}]
  /\ num \in [Progs -> {"free", "0x91", "0xaa"}]
  /\ info \in [Progs -> {NoInfo, "0x91", "0xaa"}]

(* A timer handler or work item outlives the module or the data it belongs *)
(* to only when remove caught it in the act: del_timer (timer.c,           *)
(* workqueue.c) has no other window, and hrtimer_cancel (load_monitor.c)   *)
(* has none.                                                               *)
DanglingNeedsRace == Dangling => raced

(* A module that is out, and one whose probe failed, holds nothing: every  *)
(* error label and remove handler gives back all that was acquired, except *)
(* for the device char_demo_exit asks for by the wrong number; and none    *)
(* of them releases what was not acquired.                                 *)
ReleasesWhatItHolds ==
  /\ mod = "out" \/ (mod = "in" /\ ~bound)
       => held \subseteq (IF drv = "char_demo" THEN {"device"} ELSE {})
  /\ Probing => Unwind(drv, step) \subseteq held
  /\ mod \in {"remove", "free"} => Removes(drv) \subseteq held

(* A file outlives char.c in one way only: an earlier load has come and    *)
(* gone and its exit asked for another device number, so that its node is  *)
(* still there; a program opens it once register_chrdev is done; and       *)
(* class_create, the second step, fails.  No rmmod and no first load       *)
(* leaves a program with a file whose code is gone, nor does a later       *)
(* failure of init: the one of device_create goes unnoticed.               *)
FileOutlivesOneWay ==
  mod = "out" /\ (\E p \in Progs : Open(p)) => step = 2 /\ "device" \in held

(* "wakeup interrupt bottom": after every timer interrupt of workqueue.c   *)
(* the work runs, unless remove has freed it.                              *)
WorkFollowsInterrupt ==
  (drv = "workqueue_demo" /\ isr = "entry") ~> ("running" \in work \/ Dangling)
===============================================================================
