------------------------------ MODULE KernelDemos ------------------------------
(***************************************************************************)
(* Three modules that show a kernel interface and are driven by the module *)
(* parameter cmd: kobject.c, klist.c and device_tree.c with the device     *)
(* tree DTS_demo.dts.  One of them is loaded and unloaded again and again. *)
(* kobject_create_and_add, kobject_put, the klist functions and of_* are   *)
(* the kernel's.                                                           *)
(***************************************************************************)
EXTENDS Integers, Sequences, SequencesExt

CONSTANT MaxDrift   \* bound: the module is loaded again while no count of a
                    \* node has drifted further

ASSUME DriftAssumption == MaxDrift \in Nat

VARIABLES
  demo,                 \* the module, "none" when another program runs
  cmd,                  \* its parameter
  kmod,                 \* "out", "init", "in", "oops", "stuck"
  kobj,                 \* kobject.c: "NULL" or "VirOs"
  bdev,                 \* kobject.c: bdev is allocated
  refs,                 \* reference counts of VirOs, bdev->kobj and the nodes of klist
  at,                   \* klist.c: the node of iter; what klist_remove is at
  probes,               \* device_tree.c: the devices still to be probed
  attached,             \* device_tree.c: the devices that are bound
  drift,                \* device_tree.c: how far the count of each node is from what
                        \* the tree and its devices hold
  again                 \* device_tree.c: a device was bound through sysfs

kobjVars  == <<kobj, bdev>>
dtVars    == <<probes, attached, drift, again>>
demoVars  == <<demo, cmd, kmod, kobj, bdev, refs, at, probes, attached, drift, again>>

KNodes == <<"node0", "node1", "node2", "node3", "node4", "node5">>
Objs   == {"VirOs", "bdev"} \cup ToSet(KNodes)

(* The devices that the driver matches, in the order of DTS_demo.dts.  The *)
(* match table has no last empty entry; what the linker puts behind it is  *)
(* taken to match nothing.                                                 *)
Devices == <<"DTS_demo", "DTS_demoX", "virnode_0", "mdio">>

(* The nodes that some command takes a reference of, a CPU's among them,   *)
(* and the platform device of DTS_demo.                                    *)
Nodes == ToSet(Devices) \cup {"child0", "gpio0", "phy0", "phy1", "cpu0", "pdev"}

Commands == [kobject     |-> {"CREATE_AND_ADD", "GET", "GET_PATH", "INIT", "nothing"},
             klist       |-> {"SAMPLE", "nothing"},
             device_tree |-> {"CHILD_NODE", "MATCHING_NODE", "ADDR_RESOURCE", "PROPERTY_ATTR",
                              "FIND_OPERATION", "GET_OPERATION", "NODE_OPERATION",
                              "PROPERTY_OPERATION", "nothing"}]

NoRefs  == [o \in Objs |-> 0]
NoDrift == [n \in Nodes |-> 0]

DemoInit ==
  /\ demo \in DOMAIN Commands
  /\ cmd = "nothing" /\ kmod = "out"
  /\ kobj = "NULL" /\ bdev = FALSE /\ refs = NoRefs
  /\ at = 0
  /\ probes = <<>> /\ attached = {} /\ drift = NoDrift /\ again = FALSE

DemoIdle ==
  /\ demo = "none" /\ cmd = "nothing" /\ kmod = "out"
  /\ kobj = "NULL" /\ bdev = FALSE /\ refs = NoRefs
  /\ at = 0 /\ probes = <<>> /\ attached = {} /\ drift = NoDrift /\ again = FALSE

(* insmod: the static variables are those of the file. *)
insmod_demo(d, c) ==
  /\ demo = d /\ kmod = "out" /\ c \in Commands[d]
  /\ \A n \in Nodes : drift[n] \in -MaxDrift .. MaxDrift
  /\ cmd' = c /\ kmod' = "init"
  /\ kobj' = "NULL" /\ bdev' = FALSE /\ refs' = [refs EXCEPT !["bdev"] = 0]
  /\ at' = 0
  /\ probes' = (IF demo = "device_tree" THEN Devices ELSE <<>>)
  /\ UNCHANGED <<demo, attached, drift, again>>

-------------------------------------------------------------------------------
(* kobject.c *)

Put(n) == refs' = [refs EXCEPT !["VirOs"] = n - 1]

(* CREATE_AND_ADD breaks out of the switch into err_get, as all cases do,  *)
(* and gives back the only reference.                                      *)
kobject_create_and_add ==
  /\ demo = "kobject" /\ kmod = "init" /\ cmd = "CREATE_AND_ADD"
  /\ kobj' = "VirOs" /\ Put(1)
  /\ kmod' = "in"
  /\ UNCHANGED <<demo, cmd, bdev, at, dtVars>>

(* Mutant: a path that cannot be made gives back both references. *)
KobjectGetUnwindsBoth ==
  /\ demo = "kobject" /\ kmod = "init" /\ cmd \in {"GET", "GET_PATH"}
  /\ kobj' = "VirOs" /\ (Put(2) \/ (cmd = "GET_PATH" /\ Put(1)))
  /\ kmod' = "in"
  /\ UNCHANGED <<demo, cmd, bdev, at, dtVars>>

(* GET and GET_PATH take a second reference before err_get gives one back, *)
(* whether or not kobject_get_path finds memory; init returns 0.           *)
kobject_get ==
  /\ demo = "kobject" /\ kmod = "init" /\ cmd \in {"GET", "GET_PATH"}
  /\ kobj' = "VirOs" /\ Put(2)
  /\ kmod' = "in"
  /\ UNCHANGED <<demo, cmd, bdev, at, dtVars>>

(* INIT takes the first reference of bdev->kobj; it and a command that     *)
(* does nothing leave kobj NULL for err_get.                               *)
kobject_init ==
  /\ demo = "kobject" /\ kmod = "init" /\ cmd \in {"INIT", "nothing"}
  /\ bdev' = (cmd = "INIT")
  /\ refs' = [refs EXCEPT !["bdev"] = IF cmd = "INIT" THEN 1 ELSE 0]
  /\ kmod' = "in"
  /\ UNCHANGED <<demo, cmd, kobj, at, dtVars>>

kobject_init_fails ==
  /\ demo = "kobject" /\ kmod = "init" /\ cmd # "nothing"
  /\ kmod' = "out"
  /\ UNCHANGED <<demo, cmd, kobj, bdev, refs, at, dtVars>>

(* bdev is freed without a kobject_put, whatever the count of bdev->kobj;  *)
(* a reference to an object that is no more is given back by using it      *)
(* after it was freed.                                                     *)
kobject_demo_exit ==
  /\ demo = "kobject" /\ kmod = "in"
  /\ IF bdev \/ kobj = "NULL" THEN kmod' = "out" /\ UNCHANGED refs
     ELSE IF refs["VirOs"] = 0 THEN kmod' = "oops" /\ UNCHANGED refs
     ELSE kmod' = "out" /\ Put(refs["VirOs"])
  /\ bdev' = FALSE
  /\ UNCHANGED <<demo, cmd, kobj, at, dtVars>>

-------------------------------------------------------------------------------
(* klist.c: init adds node0 at the head and the others behind it, walks    *)
(* the list with an iterator that starts at node0, and removes all nodes.  *)
(* It may find no memory for the list.                                     *)

klist_add ==
  /\ demo = "klist" /\ kmod = "init" /\ at = 0
  /\ \/ /\ cmd = "SAMPLE"
        /\ refs' = [o \in Objs |-> CASE o = "node0" -> 2 [] o \in {"VirOs", "bdev"} -> 0 [] OTHER -> 1]
        /\ at' = 1 /\ UNCHANGED kmod
     \/ cmd = "SAMPLE" /\ kmod' = "out" /\ UNCHANGED <<refs, at>>
     \/ cmd = "nothing" /\ kmod' = "in" /\ UNCHANGED <<refs, at>>
  /\ UNCHANGED <<demo, cmd, kobjVars, dtVars>>

(* klist_next moves the iterator's reference to the next node; behind the  *)
(* last one it holds none, and klist_iter_exit has nothing to give back.   *)
klist_next ==
  /\ demo = "klist" /\ kmod = "init" /\ at \in 1..Len(KNodes)
  /\ refs' = [o \in Objs |-> CASE o = KNodes[at] -> refs[o] - 1
                               [] at < Len(KNodes) /\ o = KNodes[at + 1] -> refs[o] + 1
                               [] OTHER -> refs[o]]
  /\ at' = at + 1
  /\ UNCHANGED <<demo, cmd, kmod, kobjVars, dtVars>>

(* klist_remove gives back the list's reference and sleeps until the node  *)
(* has no other.                                                           *)
klist_remove ==
  /\ demo = "klist" /\ kmod = "init" /\ at > Len(KNodes)
  /\ LET n == KNodes[at - Len(KNodes)] IN
       /\ refs' = [refs EXCEPT ![n] = @ - 1]
       /\ kmod' = (IF refs[n] > 1 THEN "stuck"
                   ELSE IF at = 2 * Len(KNodes) THEN "in" ELSE "init")
  /\ at' = at + 1
  /\ UNCHANGED <<demo, cmd, kobjVars, dtVars>>

klist_demo_exit ==
  /\ demo = "klist" /\ kmod = "in" /\ kmod' = "out"
  /\ UNCHANGED <<demo, cmd, kobj, bdev, refs, at, dtVars>>

-------------------------------------------------------------------------------
(* device_tree.c *)

(* The properties of each device node, and the node behind it in the tree, *)
(* which is its first child when it has children.                          *)
dts(d) ==
  CASE d = "DTS_demo"  -> {"compatible", "viros_int", "viros_mult", "viros_name", "reg",
                           "phy-hanlde", "reset-gpio", "viros-data", "viros-data-array"}
    [] d = "DTS_demoX" -> {"compatible", "name-space"}
    [] d = "virnode_0" -> {"compatible", "reg"}
    [] d = "mdio"      -> {"compatible"}

Behind(d) == CASE d = "DTS_demo"  -> "child0"
               [] d = "DTS_demoX" -> "virnode_0"
               [] d = "virnode_0" -> "gpio0"
               [] d = "mdio"      -> "phy1"

HasChildren(d) == d \in {"DTS_demo", "mdio"}

(* What a command of the probe uses without looking whether it is there;   *)
(* every other lookup is tested or handed to a function that tests it.  No *)
(* node is called child0: that is the label of child@0.                    *)
property_attr_uses      == {"compatible"}
find_operation_uses     == {"phy-hanlde", "viros_int", "viros_name"}
node_operation_uses     == {"compatible", "reset-gpio"}
property_operation_uses == {"viros-data", "child0"}

Uses(c) == CASE c = "PROPERTY_ATTR"      -> property_attr_uses
             [] c = "FIND_OPERATION"     -> find_operation_uses
             [] c = "NODE_OPERATION"     -> node_operation_uses
             [] c = "PROPERTY_OPERATION" -> property_operation_uses
             [] OTHER                    -> {}

(* Without reset-gpio the arguments of NODE_OPERATION are not initialised: *)
(* what stands there may be a null pointer, which nothing follows.         *)
MayMiss(c) == IF c = "NODE_OPERATION" THEN {"reset-gpio"} ELSE {}

(* Mutant: the node that of_find_all_nodes returns is put. *)
PropertyAttrPutsNext(d, n) == IF n = d THEN -1 ELSE 0

(* How far a probe moves the count of node n.  of_find_all_nodes(node)     *)
(* puts node, which is the device's own and was never taken, and takes the *)
(* one behind it.  The others take and put nothing: the first compatible   *)
(* node (three times) with its device, the PHY and the node with a         *)
(* name-space; a CPU, the first child and the child's parent; the PHY and  *)
(* the GPIO controller.  Loops over children and matching nodes put all    *)
(* they take.  The path /DTS_demo is not that of dts_demo@0.               *)
property_attr_drift(d, n) ==
  (IF n = Behind(d) THEN 1 ELSE 0) - (IF n = d THEN 1 ELSE 0)

find_operation_drift(n) ==
  CASE n = "DTS_demo" -> 3 [] n \in {"pdev", "phy0", "DTS_demoX"} -> 1 [] OTHER -> 0

get_operation_drift(d, n) ==
  IF n = "cpu0" \/ (HasChildren(d) /\ n \in {d, Behind(d)}) THEN 1 ELSE 0

node_operation_drift(d, n) ==
  IF n \in {"phy0", "gpio0"} /\ "reset-gpio" \in dts(d) THEN 1 ELSE 0

Drift(c, d, n) == CASE c = "PROPERTY_ATTR"  -> property_attr_drift(d, n)
                    [] c = "FIND_OPERATION" -> find_operation_drift(n)
                    [] c = "GET_OPERATION"  -> get_operation_drift(d, n)
                    [] c = "NODE_OPERATION" -> node_operation_drift(d, n)
                    [] OTHER                -> 0

(* A probe of the next device comes to its end, or the region of some      *)
(* address is missing or taken, or a missing property is used; the counts  *)
(* are not followed behind an oops.                                        *)
devicetree_demo_probe ==
  /\ demo = "device_tree" /\ kmod = "init" /\ probes # <<>>
  /\ LET d == Head(probes) IN
       \/ /\ ~(Uses(cmd) \subseteq dts(d))
          /\ kmod' = "oops" /\ UNCHANGED <<attached, drift>>
       \/ /\ Uses(cmd) \ MayMiss(cmd) \subseteq dts(d)
          /\ cmd = "ADDR_RESOURCE" => "reg" \in dts(d)
          /\ attached' = attached \cup {d}
          /\ drift' = [n \in Nodes |-> drift[n] + Drift(cmd, d, n)]
          /\ UNCHANGED kmod
       \/ cmd = "ADDR_RESOURCE" /\ UNCHANGED <<attached, drift, kmod>>
  /\ probes' = Tail(probes)
  /\ UNCHANGED <<demo, cmd, refs, at, kobjVars, again>>

devicetree_init_ends ==
  /\ demo = "device_tree" /\ kmod = "init" /\ probes = <<>>
  /\ kmod' = "in"
  /\ UNCHANGED <<demo, cmd, refs, at, kobjVars, dtVars>>

(* Through sysfs a device is unbound and bound again: the probe is __init  *)
(* and its memory was freed when the module had been loaded.               *)
unbind(d) ==
  /\ demo = "device_tree" /\ kmod = "in" /\ d \in attached
  /\ attached' = attached \ {d}
  /\ UNCHANGED <<demo, cmd, kmod, refs, at, kobjVars, probes, drift, again>>

bind(d) ==
  /\ demo = "device_tree" /\ kmod = "in" /\ d \notin attached
  /\ kmod' = "oops" /\ again' = TRUE
  /\ UNCHANGED <<demo, cmd, refs, at, kobjVars, probes, attached, drift>>

devicetree_demo_remove ==
  /\ demo = "device_tree" /\ kmod = "in"
  /\ attached' = {} /\ kmod' = "out"
  /\ UNCHANGED <<demo, cmd, refs, at, kobjVars, probes, drift, again>>

-------------------------------------------------------------------------------
DemoNext ==
  \/ \E d \in DOMAIN Commands : \E c \in Commands[d] : insmod_demo(d, c)
  \/ kobject_create_and_add \/ kobject_get \/ kobject_init \/ kobject_init_fails
  \/ kobject_demo_exit
  \/ klist_add \/ klist_next \/ klist_remove \/ klist_demo_exit
  \/ devicetree_demo_probe \/ devicetree_init_ends \/ devicetree_demo_remove
  \/ \E d \in ToSet(Devices) : unbind(d) \/ bind(d)

-------------------------------------------------------------------------------
(* kobject.c and klist.c: once the module is out, VirOs and the nodes of   *)
(* the list are as often given back as taken; klist_remove never waits for *)
(* a reference of the module's own iterator; and bdev->kobj alone goes     *)
(* with a reference, the first one, which INIT takes and exit never puts   *)
(* before it frees bdev.  device_tree.c: no device stays bound (for its    *)
(* references see PutsAreCovered).  Memory that is not there is used in    *)
(* three cases only: unloading kobject.c after CREATE_AND_ADD, which has   *)
(* given back the same reference before; a device tree command other than  *)
(* the four that test all they look up, or PROPERTY_ATTR, on DTS_demo.dts; *)
(* and a device bound again.                                               *)
DemosEndWell ==
  /\ kmod = "out" =>
       /\ \A o \in Objs : refs[o] # 0 => o = "bdev" /\ refs[o] = 1 /\ cmd = "INIT"
       /\ attached = {}
  /\ kmod # "stuck"
  /\ kmod = "oops" =>
       \/ demo = "kobject" /\ cmd = "CREATE_AND_ADD"
       \/ demo = "device_tree" /\ (again \/ cmd \in {"FIND_OPERATION", "NODE_OPERATION",
                                                     "PROPERTY_OPERATION"})

(* device_tree.c puts references it never took, one at every PROPERTY_ATTR *)
(* of a device, on the device's own node.  Whatever is loaded how often,   *)
(* only the nodes of DTS_demo, DTS_demoX and mdio lose references in that  *)
(* way, because virnode_0 gets back from DTS_demoX what it loses; and each *)
(* of them is still held by another node of the same stretch of the tree,  *)
(* so that no stretch has fewer references in all than before.             *)
PutsAreCovered ==
  /\ \A n \in Nodes : drift[n] < 0 => n \in {"DTS_demo", "DTS_demoX", "mdio"}
  /\ drift["DTS_demo"] + drift["child0"] >= 0
  /\ drift["DTS_demoX"] + drift["virnode_0"] + drift["gpio0"] >= 0
  /\ drift["mdio"] + drift["phy1"] >= 0
===============================================================================
