-------------------------- MODULE DriverModulesProofs -------------------------
(***************************************************************************)
(* Theorems about DriverModules for any set of programs.                   *)
(***************************************************************************)
EXTENDS DriverModules, TLAPS

Active == timer \/ isr # "none" \/ work # {}

(* The timer or its work is under way only while the driver is bound and   *)
(* del_timer has not returned, or because it was when del_timer ran.       *)
ActiveWhileBound ==
  Active => \/ bound /\ mod \in {"in", "remove"}
            \/ raced /\ mod \in {"free", "unregister", "out"}

(* The private data of workqueue.c is there from the probe to kfree. *)
DataWhileBound ==
  drv = "workqueue_demo" =>
    /\ mod = "probe" /\ step > 1 => "private" \in held
    /\ mod \in {"in", "remove"} /\ bound => "private" \in held
    /\ mod = "free" => "private" \in held

(* Only the timed drivers have a timer, and only workqueue.c has work. *)
OwnTick == /\ Active => Timed(drv)
           /\ drv # "workqueue_demo" => work = {}

(* The thread starts a load at the first step, with nothing bound, and     *)
(* calls remove only when bound.                                           *)
LoadStart == /\ mod = "register" => step = 1
             /\ mod \in {"out", "register", "probe"} => ~bound
             /\ mod = "remove" => bound

TickInv == ActiveWhileBound /\ DataWhileBound /\ OwnTick /\ LoadStart

LEMMA Tables ==
  /\ Drivers = {"timer_demo", "workqueue_demo", "platform_resource", "gpio_demo",
                "char_demo", "load_monitor"}
  /\ ProbeSteps["workqueue_demo"] = <<"private">>
  /\ Len(ProbeSteps["workqueue_demo"]) = 1
  BY DEF Drivers, ProbeSteps, wq_demo_probe

(* The steps of the insmod / rmmod thread. *)
LEMMA KernelKeepsTick ==
  ASSUME TypeOK, TickInv, Kernel
  PROVE  TickInv'
<1> USE DEF TypeOK, TickInv, ActiveWhileBound, DataWhileBound, OwnTick, LoadStart, Active,
            Timed, life, tick, user
<1>1. CASE insmod BY <1>1 DEF insmod, Dangling
<1>2. CASE register_device BY <1>2 DEF register_device
<1>3. CASE AcquireGood
  <2>1. drv = "workqueue_demo" => "private" \in held'
    <3>1. SUFFICES ASSUME drv = "workqueue_demo" PROVE ProbeStep = "private"
      BY <1>3 DEF AcquireGood, Resources
    <3>2. step = 1 BY <1>3, <3>1, Tables DEF AcquireGood, Probing
    <3> QED BY <3>1, <3>2, Tables DEF ProbeStep
  <2>2. DataWhileBound' BY <1>3, <2>1 DEF AcquireGood
  <2> QED BY <1>3, <2>2 DEF AcquireGood, Probing
<1>4. CASE AcquireFails
  BY <1>4, Tables DEF AcquireFails, Probing, ProbeStep, Unwind, Devres, OnBus
<1>5. CASE ProbeDone BY <1>5, Tables DEF ProbeDone
<1>6. CASE rmmod BY <1>6 DEF rmmod
<1>7. CASE del_timer
  <2>1. raced' <=> isr # "none" \/ work # {} BY <1>7 DEF del_timer
  <2>2. Active' => raced' BY <1>7, <2>1 DEF del_timer
  <2>3. ActiveWhileBound' BY <1>7, <2>2 DEF del_timer
  <2>4. DataWhileBound' BY <1>7 DEF del_timer
  <2>5. OwnTick' BY <1>7 DEF del_timer
  <2>6. LoadStart' BY <1>7 DEF del_timer
  <2> QED BY <2>3, <2>4, <2>5, <2>6
<1>8. CASE kfree_pdata BY <1>8 DEF kfree_pdata
<1>9. CASE hrtimer_cancel BY <1>9 DEF hrtimer_cancel
<1>10. CASE remove BY <1>10 DEF remove
<1>11. CASE unregister BY <1>11 DEF unregister
<1> QED BY <1>1, <1>2, <1>3, <1>4, <1>5, <1>6, <1>7, <1>8, <1>9, <1>10, <1>11 DEF Kernel

(* The timer interrupt and the work leave the thread where it is, and are  *)
(* not the first to be active.                                             *)
LEMMA InterruptKeepsTick ==
  ASSUME TypeOK, TickInv, Interrupt \/ wq_isr
  PROVE  TickInv'
<1>1. UNCHANGED <<drv, mod, step, bound, held, raced>> /\ Active
  BY DEF Interrupt, Expire, schedule_work, rearm, wq_isr, life, Active
<1>2. drv # "workqueue_demo" => work' = work
  BY DEF Interrupt, Expire, schedule_work, rearm, wq_isr, TickInv, OwnTick
<1> QED BY <1>1, <1>2 DEF TickInv, ActiveWhileBound, DataWhileBound, OwnTick, LoadStart,
                          Active, Timed

Program(p) == \/ char_demo_open(p) \/ char_demo_read(p)
              \/ char_demo_write(p) \/ char_demo_release(p)

LEMMA NextSplit ==
  ASSUME [Next]_vars
  PROVE  \/ Kernel \/ Interrupt \/ wq_isr \/ UNCHANGED vars
         \/ \E p \in Progs : Program(p)
  BY DEF Next, Program

LEMMA TickInductive ==
  ASSUME TypeOK, TickInv, [Next]_vars
  PROVE  TickInv'
<1>1. ASSUME UNCHANGED <<life, tick>> PROVE TickInv'
  BY <1>1 DEF life, tick, TickInv, ActiveWhileBound, DataWhileBound, OwnTick, LoadStart,
              Active, Timed
<1>2. ASSUME NEW p \in Progs, Program(p) PROVE UNCHANGED <<life, tick>>
  BY <1>2 DEF Program, char_demo_open, char_demo_read, char_demo_write, char_demo_release
<1> QED BY <1>1, <1>2, NextSplit, KernelKeepsTick, InterruptKeepsTick DEF vars

(* A handler or work item is left without its memory only by a remove that *)
(* caught it in the act.                                                   *)
LEMMA TickInvSafe ==
  ASSUME TypeOK, TickInv
  PROVE  DanglingNeedsRace
  BY DEF TypeOK, TickInv, ActiveWhileBound, DataWhileBound, LoadStart, Active,
         DanglingNeedsRace, Dangling

-------------------------------------------------------------------------------
(* Types. *)

LEMMA FewSteps == \A d \in Drivers : Len(ProbeSteps[d]) \in 0..4
<1>1. Len(ProbeSteps["timer_demo"]) \in 0..4 BY DEF ProbeSteps, timer_demo_probe
<1>2. Len(ProbeSteps["workqueue_demo"]) \in 0..4 BY DEF ProbeSteps, wq_demo_probe
<1>3. Len(ProbeSteps["platform_resource"]) \in 0..4 BY DEF ProbeSteps, platform_demo_probe
<1>4. Len(ProbeSteps["gpio_demo"]) \in 0..4 BY DEF ProbeSteps, gpio_demo_probe
<1>5. Len(ProbeSteps["char_demo"]) \in 0..4 BY DEF ProbeSteps, char_demo_init
<1>6. Len(ProbeSteps["load_monitor"]) \in 0..4 BY DEF ProbeSteps, load_monitor_init
<1> QED BY <1>1, <1>2, <1>3, <1>4, <1>5, <1>6, Tables

LEMMA StepBound ==
  ASSUME NEW s \in 1..5, NEW n \in 0..4, s <= n
  PROVE  s \in 1..4
  OBVIOUS

LEMMA KernelTyped ==
  ASSUME TypeOK, Kernel
  PROVE  TypeOK'
<1> USE DEF TypeOK, life, tick, user
<1>1. CASE insmod
  <2>1. mod' \in {"register", "probe"} /\ step' = 1 BY <1>1 DEF insmod
  <2>2. step' \in 1..5 BY <2>1
  <2> QED BY <1>1, <2>1, <2>2 DEF insmod
<1>2. CASE register_device BY <1>2 DEF register_device
<1>3. CASE AcquireGood
  <2>1. step \in 1..4
    <3>1. PICK n \in 0..4 : n = Len(ProbeSteps[drv]) BY FewSteps
    <3>2. step \in 1..5 /\ step <= n BY <1>3, <3>1 DEF AcquireGood, Probing
    <3> QED BY <3>1, <3>2, StepBound
  <2> QED BY <1>3, <2>1 DEF AcquireGood
<1>4. CASE AcquireFails
  <2>1. step \in 1..4
    <3>1. PICK n \in 0..4 : n = Len(ProbeSteps[drv]) BY FewSteps
    <3>2. step \in 1..5 /\ step <= n BY <1>4, <3>1 DEF AcquireFails, Probing
    <3> QED BY <3>1, <3>2, StepBound
  <2> QED BY <1>4, <2>1 DEF AcquireFails
<1>5. CASE ProbeDone BY <1>5 DEF ProbeDone, Timed
<1>6. CASE rmmod BY <1>6 DEF rmmod
<1>7. CASE del_timer BY <1>7 DEF del_timer
<1>8. CASE kfree_pdata BY <1>8 DEF kfree_pdata
<1>9. CASE hrtimer_cancel BY <1>9 DEF hrtimer_cancel
<1>10. CASE remove BY <1>10 DEF remove
<1>11. CASE unregister BY <1>11 DEF unregister
<1> QED BY <1>1, <1>2, <1>3, <1>4, <1>5, <1>6, <1>7, <1>8, <1>9, <1>10, <1>11 DEF Kernel

LEMMA InterruptTyped ==
  ASSUME TypeOK, Interrupt \/ wq_isr
  PROVE  TypeOK'
<1> USE DEF TypeOK, life, tick, user
<1>1. CASE Expire BY <1>1 DEF Expire
<1>2. CASE schedule_work BY <1>2 DEF schedule_work
<1>3. CASE rearm BY <1>3 DEF rearm
<1>4. CASE wq_isr BY ZenonT(40), <1>4 DEF wq_isr
<1> QED BY <1>1, <1>2, <1>3, <1>4 DEF Interrupt

(* A file that has not been read yet holds what open put there.            *)
FreshFile ==
  \A p \in Progs : /\ prog[p] = "read" => num[p] = "0x91"
                   /\ info[p] \in {NoInfo, "0x91"}

LEMMA ProgramTyped ==
  ASSUME TypeOK, FreshFile, NEW p \in Progs, Program(p)
  PROVE  TypeOK' /\ FreshFile'
<1> USE DEF TypeOK, FreshFile, life, tick
<1>1. CASE char_demo_open(p)
  <2>1. FreshFile' BY <1>1 DEF char_demo_open
  <2> QED BY <1>1, <2>1 DEF char_demo_open
<1>2. CASE char_demo_read(p) BY <1>2 DEF char_demo_read
<1>3. CASE char_demo_write(p) BY <1>3 DEF char_demo_write
<1>4. CASE char_demo_release(p) BY <1>4 DEF char_demo_release, NoInfo
<1> QED BY <1>1, <1>2, <1>3, <1>4 DEF Program

LEMMA KernelLeavesFiles ==
  ASSUME Kernel \/ Interrupt \/ wq_isr
  PROVE  UNCHANGED <<prog, num, info>>
  BY DEF Kernel, insmod, register_device, AcquireGood, AcquireFails, ProbeDone, rmmod,
         del_timer, kfree_pdata, hrtimer_cancel, remove, unregister, Interrupt, Expire,
         schedule_work, rearm, wq_isr, user

LEMMA TypeInductive ==
  ASSUME TypeOK, FreshFile, [Next]_vars
  PROVE  TypeOK' /\ FreshFile'
<1>1. CASE UNCHANGED vars BY <1>1 DEF vars, life, tick, user, TypeOK, FreshFile
<1>2. CASE Kernel \/ Interrupt \/ wq_isr
  <2>1. FreshFile' BY <1>2, KernelLeavesFiles DEF FreshFile
  <2> QED BY <1>2, <2>1, KernelTyped, InterruptTyped
<1> QED BY <1>1, <1>2, NextSplit, ProgramTyped

LEMMA InitInv ==
  ASSUME Init
  PROVE  TypeOK /\ FreshFile /\ TickInv
<1>1. TypeOK
  <2>1. step = 1 /\ 1 \in 1..5 BY DEF Init
  <2>2. /\ prog \in [Progs -> {"start", "read", "write", "close"}]
        /\ num \in [Progs -> {"free", "0x91", "0xaa"}]
        /\ info \in [Progs -> {NoInfo, "0x91", "0xaa"}]
    BY DEF Init
  <2> QED BY <2>1, <2>2 DEF Init, TypeOK
<1>2. FreshFile BY DEF Init, FreshFile
<1>3. TickInv BY DEF Init, TickInv, ActiveWhileBound, DataWhileBound, OwnTick, LoadStart, Active
<1> QED BY <1>1, <1>2, <1>3

-------------------------------------------------------------------------------
(* Resources. *)

(* What a load certainly holds before step k. *)
Base(d, k) ==
  CASE d = "workqueue_demo"    -> IF k > 1 THEN {"private"} ELSE {}
    [] d = "platform_resource" -> (IF k > 1 THEN {"private"} ELSE {}) \cup (IF k > 2 THEN {"region"} ELSE {})
                                  \cup (IF k > 3 THEN {"map"} ELSE {}) \cup (IF k > 4 THEN {"irq"} ELSE {})
    [] d = "gpio_demo"         -> (IF k > 1 THEN {"private"} ELSE {}) \cup (IF k > 3 THEN {"irq"} ELSE {})
    [] d = "char_demo"         -> (IF k > 1 THEN {"chrdev"} ELSE {}) \cup (IF k > 2 THEN {"class"} ELSE {})
    [] OTHER                   -> {}

(* What earlier loads may have left. *)
Left(d) == IF d = "char_demo" THEN {"device"} ELSE {}

Last(d) == Len(ProbeSteps[d]) + 1

HoldInv ==
  /\ mod \in {"out", "register"} \/ (mod = "in" /\ ~bound) => held \subseteq Left(drv)
  /\ mod = "probe" =>
       Base(drv, step) \subseteq held /\ held \subseteq Base(drv, step) \cup Left(drv) /\ step <= Last(drv)
  /\ (mod = "in" /\ bound) \/ mod \in {"remove", "free"} =>
       Base(drv, Last(drv)) \subseteq held /\ held \subseteq Base(drv, Last(drv)) \cup Left(drv)
  /\ mod = "free" => drv = "workqueue_demo"
  /\ mod = "unregister" => held \subseteq Left(drv) \cup Devres(drv)

(* Each acquisition in turn. *)
LEMMA AcquireTable ==
  ASSUME NEW d \in Drivers, NEW k \in 1..4, k <= Len(ProbeSteps[d])
  PROVE  /\ Base(d, k + 1) = Base(d, k) \cup ({ProbeSteps[d][k]} \cap (Resources \ {"device"}))
         /\ ProbeSteps[d][k] \notin {"map", "device"} =>
              ((Base(d, k) \cup Left(d)) \ Unwind(d, k)) \ Devres(d) \subseteq Left(d)
         /\ Unwind(d, k) \subseteq Base(d, k)
         /\ ProbeSteps[d][k] = "device" => d = "char_demo"
<1> USE DEF Base, Left, Unwind, Devres, Resources
<1>1. CASE d = "workqueue_demo"
  <2>1. k = 1 /\ ProbeSteps[d][1] = "private" BY <1>1, Tables DEF ProbeSteps, wq_demo_probe
  <2> QED BY <1>1, <2>1
<1>2. CASE d = "platform_resource"
  <2>1. /\ ProbeSteps[d][1] = "private" /\ ProbeSteps[d][2] = "region"
        /\ ProbeSteps[d][3] = "map" /\ ProbeSteps[d][4] = "irq"
    BY <1>2 DEF ProbeSteps, platform_demo_probe
  <2>2. k = 1 \/ k = 2 \/ k = 3 \/ k = 4 OBVIOUS
  <2> QED BY <1>2, <2>1, <2>2 DEF platform_demo_unwind
<1>3. CASE d = "gpio_demo"
  <2>1. /\ ProbeSteps[d][1] = "private" /\ ProbeSteps[d][2] = "lookup" /\ ProbeSteps[d][3] = "irq"
        /\ Len(ProbeSteps[d]) = 3
    BY <1>3 DEF ProbeSteps, gpio_demo_probe
  <2>2. k = 1 \/ k = 2 \/ k = 3 BY <2>1
  <2> QED BY <1>3, <2>1, <2>2 DEF gpio_demo_unwind
<1>4. CASE d = "char_demo"
  <2>1. /\ ProbeSteps[d][1] = "chrdev" /\ ProbeSteps[d][2] = "class" /\ ProbeSteps[d][3] = "device"
        /\ Len(ProbeSteps[d]) = 3
    BY <1>4 DEF ProbeSteps, char_demo_init
  <2>2. k = 1 \/ k = 2 \/ k = 3 BY <2>1
  <2> QED BY <1>4, <2>1, <2>2 DEF char_demo_unwind
<1>5. CASE d = "load_monitor"
  <2>1. k = 1 /\ ProbeSteps[d][1] = "lookup" BY <1>5 DEF ProbeSteps, load_monitor_init
  <2> QED BY <1>5, <2>1
<1>6. CASE d = "timer_demo"
  <2>1. Len(ProbeSteps[d]) = 0 BY <1>6 DEF ProbeSteps, timer_demo_probe
  <2> QED BY <2>1
<1> QED BY <1>1, <1>2, <1>3, <1>4, <1>5, <1>6, Tables

(* The whole load, and what its remove handler gives back. *)
LEMMA RemoveTable ==
  ASSUME NEW d \in Drivers
  PROVE  /\ Base(d, 1) = {}
         /\ Removes(d) \subseteq Base(d, Last(d))
         /\ Base(d, Last(d)) \ Removes(d) \subseteq Devres(d)
         /\ d \in {"timer_demo", "load_monitor"} => Base(d, Last(d)) = {}
<1> USE DEF Base, Removes, Devres, Resources, Last
<1>1. CASE d = "workqueue_demo" BY <1>1, Tables
<1>2. CASE d = "platform_resource"
  <2>1. Len(ProbeSteps[d]) = 4 BY <1>2 DEF ProbeSteps, platform_demo_probe
  <2> QED BY <1>2, <2>1 DEF platform_demo_remove
<1>3. CASE d = "gpio_demo"
  <2>1. Len(ProbeSteps[d]) = 3 BY <1>3 DEF ProbeSteps, gpio_demo_probe
  <2> QED BY <1>3, <2>1 DEF gpio_demo_remove
<1>4. CASE d = "char_demo"
  <2>1. Len(ProbeSteps[d]) = 3 BY <1>4 DEF ProbeSteps, char_demo_init
  <2> QED BY <1>4, <2>1 DEF char_demo_exit
<1>5. CASE d \in {"load_monitor", "timer_demo"} BY <1>5
<1> QED BY <1>1, <1>2, <1>3, <1>4, <1>5, Tables

LEMMA HoldInductive ==
  ASSUME TypeOK, TickInv, HoldInv, [Next]_vars
  PROVE  HoldInv'
<1>0. drv \in Drivers /\ step \in 1..5 /\ bound \in BOOLEAN BY DEF TypeOK
<1>1. ASSUME UNCHANGED <<drv, mod, step, bound, held>> PROVE HoldInv'
  BY <1>1 DEF HoldInv
<1>2. CASE Interrupt \/ wq_isr \/ (\E p \in Progs : Program(p)) \/ UNCHANGED vars
  BY <1>1, <1>2 DEF Interrupt, Expire, schedule_work, rearm, wq_isr, Program, char_demo_open, char_demo_read,
     char_demo_write, char_demo_release, vars, life
<1>3. CASE insmod \/ register_device
  <2>1. /\ mod \in {"out", "register"} /\ mod' \in {"out", "register", "probe"}
        /\ step' = 1 /\ UNCHANGED <<drv, bound, held>>
    BY <1>3 DEF insmod, register_device, TickInv, LoadStart
  <2>2. 1 <= Last(drv)
    <3>1. PICK n \in 0..4 : n = Len(ProbeSteps[drv]) BY <1>0, FewSteps
    <3> QED BY <3>1 DEF Last
  <2> QED BY <1>0, <2>1, <2>2, RemoveTable DEF HoldInv
<1>4. CASE AcquireGood \/ AcquireFails
  <2>1. mod = "probe" /\ ~bound /\ step \in 1..4 /\ step <= Len(ProbeSteps[drv]) /\ drv' = drv /\ bound' = bound
    <3>1. PICK n \in 0..4 : n = Len(ProbeSteps[drv]) BY <1>0, FewSteps
    <3>2. /\ mod = "probe" /\ step <= Len(ProbeSteps[drv]) /\ drv' = drv /\ bound' = bound
      BY <1>4 DEF AcquireGood, AcquireFails, Probing
    <3>3. step \in 1..4 BY <1>0, <3>1, <3>2, StepBound
    <3> QED BY <3>2, <3>3 DEF TickInv, LoadStart
  <2>2. Base(drv, step) \subseteq held /\ held \subseteq Base(drv, step) \cup Left(drv)
    BY <2>1 DEF HoldInv
  <2>3. step + 1 <= Last(drv)
    <3>1. PICK n \in 0..4 : n = Len(ProbeSteps[drv]) BY <1>0, FewSteps
    <3> QED BY <2>1, <3>1 DEF Last
  <2>4. Base(drv, step + 1) = Base(drv, step) \cup ({ProbeStep} \cap (Resources \ {"device"}))
    BY <1>0, <2>1, AcquireTable DEF ProbeStep
  <2>5. CASE AcquireGood
    <3>1. /\ mod' = mod /\ step' = step + 1 /\ held' = held \cup ({ProbeStep} \cap Resources)
      BY <2>5 DEF AcquireGood
    <3>2. ProbeStep = "device" => Left(drv) = {"device"}
      BY <1>0, <2>1, AcquireTable DEF ProbeStep, Left
    <3> QED BY <2>1, <2>2, <2>3, <2>4, <3>1, <3>2 DEF HoldInv
  <2>6. CASE AcquireFails
    <3>1. CASE mod' = "oops"
      BY <3>1 DEF HoldInv
    <3>2. CASE ProbeStep = "device" /\ step' = step + 1 /\ UNCHANGED <<held, mod>>
      BY <2>1, <2>2, <2>3, <2>4, <3>2 DEF HoldInv
    <3>3. CASE /\ ProbeStep \notin {"map", "device"}
               /\ held' = (held \ Unwind(drv, step)) \ Devres(drv)
               /\ mod' \in {"in", "out"}
      <4>1. ((Base(drv, step) \cup Left(drv)) \ Unwind(drv, step)) \ Devres(drv) \subseteq Left(drv)
        BY <1>0, <2>1, <3>3, AcquireTable DEF ProbeStep
      <4>2. held' \subseteq Left(drv)
        BY <2>2, <3>3, <4>1
      <4> QED BY <2>1, <3>3, <4>2 DEF HoldInv
    <3> QED BY <2>6, <3>1, <3>2, <3>3 DEF AcquireFails
  <2> QED BY <1>4, <2>5, <2>6
<1>5. CASE ProbeDone
  <2>1. /\ mod = "probe" /\ step > Len(ProbeSteps[drv]) /\ mod' = "in" /\ bound' = TRUE
        /\ UNCHANGED <<drv, step, held>>
    BY <1>5 DEF ProbeDone
  <2>2. step = Last(drv)
    <3>1. PICK n \in 0..4 : n = Len(ProbeSteps[drv]) BY <1>0, FewSteps
    <3>2. step <= Last(drv) BY <2>1 DEF HoldInv
    <3> QED BY <1>0, <2>1, <3>1, <3>2 DEF Last
  <2> QED BY <2>1, <2>2 DEF HoldInv
<1>6. CASE rmmod
  BY <1>6 DEF rmmod, HoldInv
<1>7. CASE del_timer \/ hrtimer_cancel
  <2>1. /\ mod = "remove" /\ UNCHANGED <<drv, held>>
        /\ \/ drv = "workqueue_demo" /\ mod' = "free" /\ bound' = bound
           \/ drv = "timer_demo" /\ mod' = "unregister"
           \/ drv = "load_monitor" /\ mod' = "out"
    BY <1>7 DEF del_timer, hrtimer_cancel
  <2>2. drv \in {"timer_demo", "load_monitor"} => held \subseteq Left(drv)
    BY <1>0, <2>1, RemoveTable DEF HoldInv
  <2> QED BY <2>1, <2>2 DEF HoldInv
<1>8. CASE kfree_pdata \/ remove
  <2>1. /\ mod \in {"remove", "free"} /\ mod' = "unregister" /\ drv' = drv
        /\ held' = held \ Removes(drv)
    BY <1>8 DEF kfree_pdata, remove
  <2>2. held' \subseteq Left(drv) \cup Devres(drv)
    BY <1>0, <2>1, RemoveTable DEF HoldInv
  <2> QED BY <2>1, <2>2 DEF HoldInv
<1>9. CASE unregister
  BY <1>9 DEF unregister, HoldInv
<1> QED BY <1>2, <1>3, <1>4, <1>5, <1>6, <1>7, <1>8, <1>9, NextSplit DEF Kernel

-------------------------------------------------------------------------------
(* Open files. *)

(* A file is open only through a node, and only while char.c is loaded, is *)
(* being loaded and has its number, or has failed at class_create.         *)
FilesNeedNode ==
  (\E p \in Progs : Open(p)) =>
    /\ drv = "char_demo" /\ "device" \in held
    /\ \/ mod = "in"
       \/ mod = "probe" /\ step > 1
       \/ mod = "out" /\ step = 2

LEMMA FilesInductive ==
  ASSUME TypeOK, HoldInv, FilesNeedNode, [Next]_vars
  PROVE  FilesNeedNode'
<1>0. drv \in Drivers /\ step \in 1..5 BY DEF TypeOK
<1>1. ASSUME UNCHANGED <<drv, mod, step, held, prog>> PROVE FilesNeedNode'
  BY <1>1 DEF FilesNeedNode, Open
<1>2. CASE Interrupt \/ wq_isr \/ UNCHANGED vars
  BY <1>1, <1>2 DEF Interrupt, Expire, schedule_work, rearm, wq_isr, vars, life, user
<1>3. CASE insmod \/ rmmod
  <2>1. ~(\E p \in Progs : Open(p)) /\ UNCHANGED prog BY <1>3 DEF insmod, rmmod, user
  <2> QED BY <2>1 DEF FilesNeedNode, Open
<1>4. CASE \/ register_device \/ del_timer \/ kfree_pdata \/ hrtimer_cancel \/ remove
           \/ unregister
  <2>1. mod \in {"register", "remove", "free", "unregister"} /\ UNCHANGED prog
    BY <1>4 DEF register_device, del_timer, kfree_pdata, hrtimer_cancel, remove, unregister, user
  <2> QED BY <2>1 DEF FilesNeedNode, Open
<1>5. CASE AcquireGood \/ AcquireFails
  <2> SUFFICES ASSUME \E p \in Progs : Open(p)
               PROVE  /\ drv' = "char_demo" /\ "device" \in held'
                      /\ \/ mod' = "probe" /\ step' > 1
                         \/ mod' = "out" /\ step' = 2
    BY <1>5 DEF FilesNeedNode, Open, AcquireGood, AcquireFails, user
  <2>1. drv = "char_demo" /\ "device" \in held /\ mod = "probe" /\ step > 1 /\ drv' = drv
    BY <1>5 DEF FilesNeedNode, AcquireGood, AcquireFails, Probing
  <2>2. /\ ProbeSteps[drv][2] = "class" /\ ProbeSteps[drv][3] = "device"
        /\ Len(ProbeSteps[drv]) = 3
    BY <2>1 DEF ProbeSteps, char_demo_init
  <2>3. step = 2 \/ step = 3
    <3>1. step <= Len(ProbeSteps[drv]) BY <1>5 DEF AcquireGood, AcquireFails, Probing
    <3>2. \A k \in 1..5 : k > 1 /\ k <= 3 => k = 2 \/ k = 3 OBVIOUS
    <3>3. step \in 1..5 /\ step > 1 /\ step <= 3 BY <1>0, <2>1, <2>2, <3>1
    <3> QED BY <3>2, <3>3
  <2>4. CASE AcquireGood
    <3>1. mod' = mod /\ step' = step + 1 /\ held \subseteq held' BY <2>4 DEF AcquireGood
    <3>2. step' > 1 BY <2>3, <3>1
    <3> QED BY <2>1, <3>1, <3>2
  <2>5. CASE AcquireFails
    <3>1. CASE step = 2
      BY <2>1, <2>2, <2>5, <3>1 DEF AcquireFails, ProbeStep, Unwind, char_demo_unwind, Devres, OnBus
    <3>2. CASE step = 3
      <4>1. ProbeStep = "device" BY <2>2, <3>2 DEF ProbeStep
      <4>2. step' = step + 1 /\ held' = held /\ mod' = mod BY <2>5, <4>1 DEF AcquireFails
      <4>3. step' > 1 BY <3>2, <4>2
      <4> QED BY <2>1, <4>2, <4>3
    <3> QED BY <2>3, <3>1, <3>2
  <2> QED BY <1>5, <2>4, <2>5
<1>6. CASE ProbeDone
  BY <1>6 DEF ProbeDone, FilesNeedNode, Open, user
<1>7. ASSUME NEW q \in Progs, char_demo_open(q) PROVE FilesNeedNode'
  <2>1. /\ drv = "char_demo" /\ mod \in {"probe", "in"} /\ {"chrdev", "device"} \subseteq held
        /\ UNCHANGED <<drv, mod, step, held>>
    BY <1>7 DEF char_demo_open, life
  <2>2. mod = "probe" => step > 1
    BY <1>0, <2>1 DEF HoldInv, Base, Left, TypeOK
  <2> QED BY <2>1, <2>2 DEF FilesNeedNode
<1>8. ASSUME NEW q \in Progs, char_demo_read(q) \/ char_demo_write(q) \/ char_demo_release(q)
      PROVE  FilesNeedNode'
  <2>1. Open(q) /\ UNCHANGED <<drv, mod, step, held>>
    BY <1>8 DEF char_demo_read, char_demo_write, char_demo_release, Open, life
  <2> QED BY <2>1 DEF FilesNeedNode
<1> QED BY <1>2, <1>3, <1>4, <1>5, <1>6, <1>7, <1>8, NextSplit DEF Kernel, Program

-------------------------------------------------------------------------------
(* The theorems. *)

(* Every variable keeps its type, for any set of programs: in particular   *)
(* no program ever reads private data that was not allocated.              *)
THEOREM TypeCorrect == Spec => []TypeOK
<1>1. Init => TypeOK /\ FreshFile BY InitInv
<1>2. TypeOK /\ FreshFile /\ [Next]_vars => TypeOK' /\ FreshFile' BY TypeInductive
<1> QED BY <1>1, <1>2, PTL DEF Spec

(* del_timer has one window and hrtimer_cancel none: a timer handler or    *)
(* work item is left without its memory only by a remove that stopped the  *)
(* timer while one of them was active.                                     *)
THEOREM DanglingNeedsRaceAlways == Spec => []DanglingNeedsRace
<1>1. Init => TypeOK /\ FreshFile /\ TickInv BY InitInv
<1>2. TypeOK /\ FreshFile /\ TickInv /\ [Next]_vars => (TypeOK /\ FreshFile /\ TickInv)'
  BY TypeInductive, TickInductive
<1>3. TypeOK /\ TickInv => DanglingNeedsRace BY TickInvSafe
<1> QED BY <1>1, <1>2, <1>3, PTL DEF Spec

(* Every error label and remove handler gives back all that was acquired   *)
(* and nothing else, whichever acquisition fails and however often the     *)
(* module is loaded and removed.                                           *)
THEOREM ReleasesWhatItHoldsAlways == Spec => []ReleasesWhatItHolds
<1> DEFINE Inv == TypeOK /\ FreshFile /\ TickInv /\ HoldInv
<1>1. Init => Inv
  <2>1. Init => HoldInv BY DEF Init, HoldInv
  <2> QED BY <2>1, InitInv
<1>2. Inv /\ [Next]_vars => Inv'
  BY TypeInductive, TickInductive, HoldInductive
<1>3. Inv => ReleasesWhatItHolds
  <2> SUFFICES ASSUME Inv PROVE ReleasesWhatItHolds
    OBVIOUS
  <2>0. drv \in Drivers /\ step \in 1..5 BY DEF TypeOK
  <2>1. mod = "out" \/ (mod = "in" /\ ~bound) => held \subseteq (IF drv = "char_demo" THEN {"device"} ELSE {})
    BY DEF HoldInv, Left
  <2>2. ASSUME Probing PROVE Unwind(drv, step) \subseteq held
    <3>1. PICK n \in 0..4 : n = Len(ProbeSteps[drv]) BY <2>0, FewSteps
    <3>2. mod = "probe" /\ step <= Len(ProbeSteps[drv]) BY <2>2 DEF Probing
    <3>3. step \in 1..4 BY <2>0, <3>1, <3>2, StepBound
    <3> QED BY <2>0, <3>2, <3>3, AcquireTable DEF HoldInv
  <2>3. mod \in {"remove", "free"} => Removes(drv) \subseteq held
    BY <2>0, RemoveTable DEF HoldInv
  <2> QED BY <2>1, <2>2, <2>3 DEF ReleasesWhatItHolds
<1> QED BY <1>1, <1>2, <1>3, PTL DEF Spec

(* However many programs open it and however often it is loaded, a file    *)
(* outlives char.c only through the node an earlier load left, when        *)
(* class_create fails.                                                     *)
THEOREM FileOutlivesOneWayAlways == Spec => []FileOutlivesOneWay
<1> DEFINE Inv == TypeOK /\ FreshFile /\ TickInv /\ HoldInv /\ FilesNeedNode
<1>1. Init => Inv
  <2>1. Init => HoldInv /\ FilesNeedNode BY DEF Init, HoldInv, FilesNeedNode, Open
  <2> QED BY <2>1, InitInv
<1>2. Inv /\ [Next]_vars => Inv'
  BY TypeInductive, TickInductive, HoldInductive, FilesInductive
<1>3. Inv => FileOutlivesOneWay BY DEF FilesNeedNode, FileOutlivesOneWay
<1> QED BY <1>1, <1>2, <1>3, PTL DEF Spec
===============================================================================
