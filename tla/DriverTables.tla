----------------------------- MODULE DriverTables -----------------------------
(***************************************************************************)
(* What the six small kernel modules under device_driver acquire, in which *)
(* order, and what their error labels and remove handlers give back.  A    *)
(* probe (or an init that plays that part) is the sequence of its          *)
(* acquisitions that can fail; "lookup" is a check that acquires nothing.  *)
(* A probe that finds its static resources missing cannot happen: the      *)
(* resource table of platform.c always has two regions and two IRQs.       *)
(***************************************************************************)
EXTENDS Naturals, Sequences

(* Mutant: the node is made before the class's own failure is known. *)
NodeFirst == <<"chrdev", "device", "class">>

timer_demo_probe    == << >>
wq_demo_probe       == <<"private">>
platform_demo_probe == <<"private", "region", "map", "irq">>
gpio_demo_probe     == <<"private", "lookup", "irq">>
char_demo_init      == <<"chrdev", "class", "device">>
load_monitor_init   == <<"lookup">>

ProbeSteps ==
  [timer_demo        |-> timer_demo_probe,
   workqueue_demo    |-> wq_demo_probe,
   platform_resource |-> platform_demo_probe,
   gpio_demo         |-> gpio_demo_probe,
   char_demo         |-> char_demo_init,
   load_monitor      |-> load_monitor_init]

Drivers   == DOMAIN ProbeSteps
Resources == {"private", "region", "map", "irq", "chrdev", "class", "device"}

(* What the labels behind a failing step k release. *)
platform_demo_unwind(k) == CASE k = 2 -> {"private"}
                             [] k = 4 -> {"map", "private"}
                             [] OTHER -> {}

(* Mutant: the label err_gpio returns without kfree. *)
GpioUnwindLeaks(k) == {}

gpio_demo_unwind(k) == IF k \in {2, 3} THEN {"private"} ELSE {}
char_demo_unwind(k) == IF k = 2 THEN {"chrdev"} ELSE {}

Unwind(d, k) == CASE d = "platform_resource" -> platform_demo_unwind(k)
                  [] d = "gpio_demo"         -> gpio_demo_unwind(k)
                  [] d = "char_demo"         -> char_demo_unwind(k)
                  [] OTHER                   -> {}

(* What the remove (or exit) handlers release themselves.  The device that *)
(* char_demo_init created as (char_demo_major, 2) is asked for as (0, 2):  *)
(* nothing is found and it stays.                                          *)
platform_demo_remove == {"irq", "map", "private"}
gpio_demo_remove     == {"irq", "private"}
char_demo_exit       == {"class", "chrdev"}

Removes(d) == CASE d = "platform_resource" -> platform_demo_remove
                [] d = "gpio_demo"         -> gpio_demo_remove
                [] d = "char_demo"         -> char_demo_exit
                [] d = "workqueue_demo"    -> {"private"}
                [] OTHER                   -> {}

(* devm_ resources, which the driver core releases after a failed probe    *)
(* and after remove.                                                       *)
Devres(d) == IF d = "platform_resource" THEN Resources ELSE {}

(* Drivers on the platform bus, and those that register their own device;  *)
(* the gpio device comes from the device tree.                             *)
OnBus(d)         == d \notin {"char_demo", "load_monitor"}
OwnDevice(d)     == d \in {"timer_demo", "workqueue_demo", "platform_resource"}
Timed(d)         == d \in {"timer_demo", "workqueue_demo", "load_monitor"}
===============================================================================
