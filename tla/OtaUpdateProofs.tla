--------------------------- MODULE OtaUpdateProofs ---------------------------
(***************************************************************************)
(* What up_partition.sh does to partitions and says about them, for every  *)
(* choice of arguments, archives, missing partitions and sizes.            *)
(***************************************************************************)
EXTENDS OtaUpdate, TLAPS

Upgrading == pc \in {"dd", "copying"}

(* What dd may still have to write in an update of t. *)
TodoOf(t) ==
  CASE t = "boot"            -> {<<"vbmeta", "boot">>, <<"boot">>, <<>>}
    [] strip_zip(t) = "all"  -> {<<"disk">>, <<>>}
    [] t = "uboot"           -> {<<"uboot">>, <<>>}
    [] t = "system"          -> {<<"system">>, <<>>}
    [] OTHER                 -> {<<>>}

(* The part of the type that the argument needs. *)
UpdateType ==
  /\ pc \in {"idle", "space", "verify", "flag", "update_img", "dd", "copying", "done"}
  /\ files \in [Members -> {"none", "image", "hole"}]
  /\ missing \in SUBSET {"uboot", "boot", "system"}
  /\ part \in [Partitions -> States]
  /\ failed \in BOOLEAN
  /\ toolfail \in BOOLEAN
  /\ todo = <<>> \/ Upgrading

Flagged == pc \in {"update_img", "dd", "copying"} => flag = status_of(target) \/ toolfail

(* The upgrade that runs passed the checks of its function. *)
Passed ==
  Upgrading =>
    /\ todo \in TodoOf(target)
    /\ target \in {"boot", "uboot", "system", "all", "all.zip"}
    /\ target \notin missing
    /\ target = "boot" => "none" \notin {files["vbmeta"], files["boot"]}
    /\ pc = "copying" => todo # <<>>

(* Only upgrade_uboot makes a file out of a hole. *)
HolesInUboot == \A m \in Members : files[m] = "hole" => m = "uboot"

(* What is not left for dd is written, or a dd failed. *)
Written ==
  /\ Upgrading /\ checks_dd /\ ~failed =>
       \A p \in Scope(target) :
         part[p] = "new" \/ \E k \in 1 .. Len(todo) : todo[k] = p
  /\ log = "success" =>
       pc = "done" /\ (checks_dd => \A p \in Scope(target) : part[p] = "new")

UpdateInv == UpdateType /\ Flagged /\ Passed /\ HolesInUboot /\ Written

-----------------------------------------------------------------------------
(* What is left after the first dd of a list. *)
LEMMA TodoTail ==
  ASSUME NEW t, NEW q \in TodoOf(t), q # <<>>
  PROVE  /\ Tail(q) \in TodoOf(t)
         /\ Head(q) \in Scope(t) \/ (Head(q) = "disk" /\ strip_zip(t) = "all")
         /\ \A k \in 1 .. Len(q) : q[k] = Head(q) \/ \E l \in 1 .. Len(Tail(q)) : Tail(q)[l] = q[k]
<1>1. CASE q = <<"vbmeta", "boot">>
  <2>1. Head(q) = "vbmeta" /\ Tail(q) = <<"boot">> /\ Len(q) = 2 /\ q[1] = "vbmeta" /\ q[2] = "boot"
    BY <1>1
  <2>2. t = "boot"
    BY <1>1 DEF TodoOf
  <2> QED BY <2>1, <2>2 DEF TodoOf, Scope, strip_zip
<1>2. ASSUME NEW m, q = <<m>> PROVE Head(q) = m /\ Tail(q) = <<>> /\ Len(q) = 1 /\ q[1] = m
  BY <1>2
<1>3. <<>> \in TodoOf(t)
  BY DEF TodoOf
<1>4. CASE q = <<"boot">>
  <2>1. t = "boot"
    BY <1>4 DEF TodoOf
  <2> QED BY <1>2, <1>3, <1>4, <2>1 DEF Scope, strip_zip
<1>5. CASE q = <<"disk">>
  <2>1. strip_zip(t) = "all"
    BY <1>5 DEF TodoOf
  <2> QED BY <1>2, <1>3, <1>5, <2>1
<1>6. CASE q = <<"uboot">> \/ q = <<"system">>
  <2>1. t \in {"uboot", "system"} /\ q = <<t>>
    BY <1>6 DEF TodoOf
  <2> QED BY <1>2, <1>3, <2>1 DEF Scope, strip_zip
<1> QED BY <1>1, <1>4, <1>5, <1>6 DEF TodoOf

-----------------------------------------------------------------------------
(* Steps that begin no upgrade and leave files, partitions and missing alone. *)
LEMMA NoUpgrade ==
  ASSUME UpdateInv, pc' \in {"idle", "space", "verify", "flag", "update_img", "done"},
         UNCHANGED <<files, missing, part, flag, failed, toolfail>>, todo' = <<>>,
         pc' = "update_img" => UNCHANGED <<pc, target>>,
         log' = "success" => pc' = "done" /\ pc = "done" /\ UNCHANGED <<log, target, recovery>>
  PROVE  UpdateInv'
BY DEF UpdateInv, UpdateType, Flagged, Passed, HolesInUboot, Written, Upgrading, checks_dd

LEMMA UpdateStepInv == UpdateInv /\ [Next]_vars => UpdateInv'
<1> SUFFICES ASSUME UpdateInv, [Next]_vars PROVE UpdateInv'
  OBVIOUS
<1>0. UpdateType /\ Flagged /\ Passed /\ HolesInUboot /\ Written
  BY DEF UpdateInv
<1>1. CASE \E t \in Targets, rec \in BOOLEAN : Start(t, rec)
  <2>1. pc = "idle" /\ todo = <<>>
    BY <1>0, <1>1 DEF Start, UpdateType, Upgrading
  <2> QED BY <1>0, <1>1, <2>1, NoUpgrade DEF Start, Written
<1>2. CASE \E need, userdata, tmp \in Spaces : check_sys_free_space(need, userdata, tmp)
  <2>1. pc = "space" /\ todo = <<>> /\ log # "success"
    BY <1>0, <1>2 DEF check_sys_free_space, UpdateType, Upgrading, Written
  <2> QED BY <1>2, <2>1, NoUpgrade DEF check_sys_free_space, ExitError
<1>3. ASSUME NEW at, NEW has, verify_rsa_signature(at, has) PROVE UpdateInv'
  <2>1. pc = "verify" /\ pc' = "flag" /\ todo = <<>> /\ log # "success"
    BY <1>0, <1>3 DEF verify_rsa_signature, UpdateType, Upgrading, Written
  <2>2. /\ files' \in [Members -> {"none", "image", "hole"}]
        /\ \A m \in Members : files'[m] # "hole"
    BY <1>3 DEF verify_rsa_signature
  <2> QED BY <1>0, <1>3, <2>1, <2>2 DEF verify_rsa_signature, UpdateInv, UpdateType, Flagged, Passed,
             HolesInUboot, Written, Upgrading
<1>4. CASE ota_update_flag
  <2>1. pc = "flag" /\ pc' = "update_img" /\ todo = <<>> /\ log # "success"
    BY <1>0, <1>4 DEF ota_update_flag, UpdateType, Upgrading, Written
  <2>2. Flagged' /\ toolfail' \in BOOLEAN
    BY <1>0, <1>4, <2>1 DEF ota_update_flag, Flagged, UpdateType
  <2> QED BY <1>0, <1>4, <2>1, <2>2 DEF ota_update_flag, UpdateInv, UpdateType, Passed, HolesInUboot,
             Written, Upgrading
<1>5. CASE update_img_rejects
  <2>1. pc = "update_img" /\ todo = <<>>
    BY <1>0, <1>5 DEF update_img_rejects, UpdateType, Upgrading
  <2> QED BY <1>5, <2>1, NoUpgrade DEF update_img_rejects, ExitError
<1>6. CASE upgrade_kernel \/ upgrade_uboot \/ upgrade_system \/ upgrade_all
  <2>1. pc = "update_img" /\ pc' = "dd" /\ log # "success"
    BY <1>0, <1>6 DEF upgrade_kernel, upgrade_uboot, upgrade_system, upgrade_all, Written
  <2>2. UNCHANGED <<target, recovery, missing, flag, part, failed, toolfail, log>>
    BY <1>6 DEF upgrade_kernel, upgrade_uboot, upgrade_system, upgrade_all
  <2>3. UpdateType' /\ HolesInUboot'
    <3>1. \/ UNCHANGED files
          \/ files' = [files EXCEPT !["uboot"] = IF @ = "none" THEN "hole" ELSE @]
      BY <1>6 DEF upgrade_kernel, upgrade_uboot, upgrade_system, upgrade_all
    <3> QED BY <1>0, <2>1, <2>2, <3>1 DEF UpdateType, HolesInUboot, Upgrading, Members, Partitions
  <2>4. Passed'
    <3>1. CASE upgrade_all
      <4>1. target \in {"all", "all.zip"}
        BY <3>1 DEF upgrade_all, strip_zip
      <4>2. target \notin missing /\ todo' \in TodoOf(target)
        BY <1>0, <3>1, <4>1 DEF upgrade_all, UpdateType, TodoOf, strip_zip
      <4> QED BY <2>1, <2>2, <4>1, <4>2 DEF Passed, Upgrading
    <3>2. CASE upgrade_kernel
      <4>1. target = "boot" /\ target \notin missing /\ todo' = <<"vbmeta", "boot">>
        BY <3>2 DEF upgrade_kernel
      <4>2. "none" \notin {files'["vbmeta"], files'["boot"]}
        BY <3>2 DEF upgrade_kernel
      <4>3. TodoOf(target) = {<<"vbmeta", "boot">>, <<"boot">>, <<>>}
        BY <4>1 DEF TodoOf, strip_zip
      <4>4. todo' \in TodoOf(target')
        BY <2>2, <4>1, <4>3
      <4> QED BY <2>1, <2>2, <4>1, <4>2, <4>4 DEF Passed
    <3>3. CASE upgrade_uboot
      BY <2>1, <2>2, <3>3 DEF upgrade_uboot, Passed, Upgrading, TodoOf, strip_zip
    <3>4. CASE upgrade_system
      BY <2>1, <2>2, <3>4 DEF upgrade_system, Passed, Upgrading, TodoOf, strip_zip
    <3> QED BY <1>6, <3>1, <3>2, <3>3, <3>4
  <2>5. Flagged'
    BY <1>0, <2>1, <2>2 DEF Flagged, status_of
  <2>6. Written'
    <3>1. CASE upgrade_kernel
      <4>1. todo' = <<"vbmeta", "boot">> /\ target = "boot"
        BY <3>1 DEF upgrade_kernel
      <4>2. Len(todo') = 2 /\ todo'[1] = "vbmeta" /\ todo'[2] = "boot"
        BY <4>1
      <4> QED BY <2>1, <2>2, <4>1, <4>2 DEF Written, Upgrading, Scope, strip_zip
    <3>2. CASE upgrade_system
      <4>1. todo' = <<"system">> /\ target = "system"
        BY <3>2 DEF upgrade_system
      <4>2. Len(todo') = 1 /\ todo'[1] = "system"
        BY <4>1
      <4> QED BY <2>1, <2>2, <4>1, <4>2 DEF Written, Upgrading, Scope, strip_zip
    <3>3. CASE upgrade_uboot \/ upgrade_all
      <4>1. ~checks_dd'
        BY <2>2, <3>3 DEF upgrade_uboot, upgrade_all, checks_dd, strip_zip
      <4> QED BY <2>1, <2>2, <4>1 DEF Written
    <3> QED BY <1>6, <3>1, <3>2, <3>3
  <2> QED BY <2>3, <2>4, <2>5, <2>6 DEF UpdateInv
<1>7. CASE DdNoInput \/ DdEnds
  <2>1. pc' = "dd" /\ Upgrading /\ todo # <<>> /\ todo' = Tail(todo) /\ log # "success"
    BY <1>0, <1>7 DEF DdNoInput, DdEnds, Upgrading, Passed, Written
  <2>2. UNCHANGED <<target, recovery, missing, files, flag, toolfail, log>>
    BY <1>7 DEF DdNoInput, DdEnds
  <2>3. todo \in TodoOf(target)
    BY <1>0, <2>1 DEF Passed
  <2>4. UpdateType'
    <3>1. failed' \in BOOLEAN /\ part' \in [Partitions -> States]
      BY <1>0, <1>7 DEF DdNoInput, DdEnds, UpdateType, Overwrite, States
    <3> QED BY <1>0, <2>1, <2>2, <3>1 DEF UpdateType, Upgrading
  <2>5. Passed' /\ HolesInUboot'
    BY <1>0, <2>1, <2>2, <2>3, TodoTail DEF Passed, HolesInUboot, Upgrading
  <2>6. Flagged'
    BY <1>0, <2>1, <2>2 DEF Flagged, status_of, Upgrading
  <2>7. Written'
    <3> SUFFICES ASSUME checks_dd, ~failed', NEW p \in Scope(target)
                 PROVE  part'[p] = "new" \/ \E k \in 1 .. Len(Tail(todo)) : Tail(todo)[k] = p
      BY <2>1, <2>2 DEF Written, checks_dd, Scope
    <3>1. ~failed /\ DdEnds /\ p \in Partitions
      <4>1. p \in Partitions
        BY DEF checks_dd, Scope, strip_zip, Partitions
      <4>2. DdEnds /\ failed' # TRUE
        BY <1>7 DEF DdNoInput
      <4> QED BY <1>0, <4>1, <4>2 DEF DdEnds, UpdateType
    <3>2. part' = Overwrite(Head(todo), "new")
      <4>1. Head(todo) \in Members /\ Head(todo) # "uboot"
        BY <2>1, <2>3, TodoTail DEF checks_dd, Scope, strip_zip, Members, Partitions
      <4>2. files[Head(todo)] # "hole"
        BY <1>0, <4>1 DEF HolesInUboot
      <4> QED BY <3>1, <4>2 DEF DdEnds
    <3>3. part'[p] = IF Head(todo) \in {p, "disk"} THEN "new" ELSE part[p]
      BY <3>1, <3>2 DEF Overwrite
    <3>4. part[p] = "new" \/ p = Head(todo) \/ \E k \in 1 .. Len(Tail(todo)) : Tail(todo)[k] = p
      BY <1>0, <2>1, <2>3, <3>1, TodoTail DEF Written
    <3> QED BY <3>3, <3>4
  <2> QED BY <2>4, <2>5, <2>6, <2>7 DEF UpdateInv
<1>8. CASE DdBegins
  <2>1. /\ pc = "dd" /\ pc' = "copying" /\ todo # <<>> /\ log # "success"
        /\ UNCHANGED <<target, recovery, missing, files, flag, toolfail, log, todo, failed>>
        /\ part' = Overwrite(Head(todo), "torn")
    BY <1>0, <1>8 DEF DdBegins, Written
  <2>2. UpdateType' /\ Flagged' /\ Passed' /\ HolesInUboot'
    BY <1>0, <2>1 DEF UpdateType, Flagged, Passed, HolesInUboot, Upgrading, Overwrite, States, status_of
  <2>3. Written'
    <3> SUFFICES ASSUME checks_dd, ~failed, NEW p \in Scope(target)
                 PROVE  part'[p] = "new" \/ \E k \in 1 .. Len(todo) : todo[k] = p
      BY <2>1 DEF Written, checks_dd, Scope
    <3>1. p \in Partitions /\ strip_zip(target) # "all" /\ todo \in TodoOf(target)
      BY <1>0, <2>1 DEF checks_dd, Scope, strip_zip, Partitions, Passed, Upgrading
    <3>2. Head(todo) # "disk"
      BY <2>1, <3>1, TodoTail DEF checks_dd, Scope, strip_zip
    <3>3. todo[1] = Head(todo) /\ 1 \in 1 .. Len(todo)
      BY <2>1, <3>1 DEF TodoOf
    <3>4. part[p] = "new" \/ \E k \in 1 .. Len(todo) : todo[k] = p
      BY <1>0, <2>1 DEF Written, Upgrading
    <3>5. part'[p] = part[p] \/ p = Head(todo)
      BY <2>1, <3>1, <3>2 DEF Overwrite
    <3> QED BY <3>3, <3>4, <3>5
  <2> QED BY <2>2, <2>3 DEF UpdateInv
<1>9. CASE UpgradeFails
  BY <1>9, NoUpgrade DEF UpgradeFails, ExitError
<1>10. CASE UpgradeReturns
  <2>1. /\ pc = "dd" /\ pc' = "done" /\ todo = <<>> /\ ~(failed /\ checks_dd) /\ log' = "success"
        /\ UNCHANGED <<target, recovery, missing, files, flag, toolfail, todo, failed, part>>
    BY <1>10 DEF UpgradeReturns
  <2>2. checks_dd => \A p \in Scope(target) : part[p] = "new"
    <3>1. Len(todo) = 0
      BY <2>1
    <3> QED BY <1>0, <2>1, <3>1 DEF Written, Upgrading
  <2>3. Written'
    BY <2>1, <2>2 DEF Written, Upgrading, checks_dd, Scope
  <2> QED BY <1>0, <2>1, <2>3 DEF UpdateInv, UpdateType, Flagged, Passed, HolesInUboot, Upgrading
<1>11. CASE Leave \/ PowerLoss
  <2>1. /\ pc' = "idle" /\ todo' = <<>> /\ log' = "none" /\ failed' = FALSE /\ toolfail' = FALSE
        /\ files' = [m \in Members |-> "none"] /\ UNCHANGED <<missing, part>>
    BY <1>11 DEF Leave, PowerLoss, Forget, NoFiles
  <2>2. ~Upgrading'
    BY <2>1 DEF Upgrading
  <2>3. UpdateType' /\ HolesInUboot'
    BY <1>0, <2>1 DEF UpdateType, HolesInUboot
  <2> QED BY <2>1, <2>2, <2>3 DEF UpdateInv, Flagged, Passed, Written
<1>12. CASE UNCHANGED vars
  BY <1>0, <1>12 DEF vars, UpdateInv, UpdateType, Flagged, Passed, HolesInUboot, Written, Upgrading, checks_dd,
     status_of, Scope
<1> QED BY <1>1, <1>2, <1>3, <1>4, <1>5, <1>6, <1>7, <1>8, <1>9, <1>10, <1>11, <1>12 DEF Next, ScriptStep

LEMMA UpdateAlways == Spec => []UpdateInv
<1>1. Init => UpdateInv
  <2> SUFFICES ASSUME Init PROVE UpdateInv
    OBVIOUS
  <2>1. ~Upgrading
    BY DEF Init, Upgrading
  <2>2. UpdateType /\ HolesInUboot
    BY AbsentAssumption DEF Init, UpdateType, HolesInUboot, NoFiles, States
  <2> QED BY <2>1, <2>2 DEF Init, UpdateInv, Flagged, Passed, Written
<1> QED BY <1>1, UpdateStepInv, PTL DEF Spec

-----------------------------------------------------------------------------
(* What the script and its other variables may hold. *)
OtherType ==
  /\ target \in Targets \cup {"other"}
  /\ path \in {"", "/tmp", "/userdata/upgrade"}
  /\ recovery \in BOOLEAN
  /\ flag \in {0, 1, 2, 4, 30} /\ abstatus \in {0, 1, 2, 4, 30}
  /\ log \in {"none", "error", "success"}

LEMMA OtherStepType == OtherType /\ [Next]_vars => OtherType'
<1> SUFFICES ASSUME OtherType, [Next]_vars PROVE OtherType'
  OBVIOUS
<1>1. CASE ota_update_flag
  <2>1. status_of(target) \in {1, 2, 4, 30}
    <3>1. 2 ^ 0 = 1 /\ 2 ^ 1 = 2 /\ 2 ^ 2 = 4
      OBVIOUS
    <3>2. CASE target = "all"
      BY <3>2 DEF status_of
    <3>3. CASE target # "all"
      <4>1. status_of(target) = 2 ^ partition_to_number(target)
        BY <3>3 DEF status_of
      <4>2. CASE partition_to_number(target) = 0
        BY <3>1, <4>1, <4>2
      <4>3. CASE partition_to_number(target) = 1
        BY <3>1, <4>1, <4>3
      <4>4. CASE partition_to_number(target) = 2
        BY <3>1, <4>1, <4>4
      <4>5. partition_to_number(target) \in {0, 1, 2}
        BY DEF partition_to_number
      <4> QED BY <4>2, <4>3, <4>4, <4>5
    <3> QED BY <3>2, <3>3
  <2>2. flag' = status_of(target) \/ flag' = flag
    BY <1>1 DEF ota_update_flag
  <2>3. UNCHANGED <<target, path, recovery, abstatus, log>>
    BY <1>1 DEF ota_update_flag
  <2>4. flag' \in {0, 1, 2, 4, 30}
    BY <2>1, <2>2 DEF OtherType
  <2> QED BY <2>3, <2>4 DEF OtherType
<1>2. ASSUME NEW t \in Targets, NEW rec \in BOOLEAN, Start(t, rec) PROVE OtherType'
  BY <1>2 DEF OtherType, Start
<1>3. ASSUME NEW need, NEW userdata, NEW tmp, check_sys_free_space(need, userdata, tmp) PROVE OtherType'
  BY <1>3 DEF OtherType, check_sys_free_space, upgrade_file_path, ExitError
<1>4. ASSUME NEW at, NEW has, verify_rsa_signature(at, has) PROVE OtherType'
  BY <1>4 DEF OtherType, verify_rsa_signature
<1>5. CASE \/ update_img_rejects \/ upgrade_kernel \/ upgrade_uboot \/ upgrade_system \/ upgrade_all
           \/ DdNoInput \/ DdBegins \/ DdEnds \/ UpgradeFails \/ UpgradeReturns
  <2>1. /\ UNCHANGED <<target, path, recovery, flag, abstatus>>
        /\ log' \in {log, "error", "success"}
    BY <1>5 DEF update_img_rejects, upgrade_kernel, upgrade_uboot, upgrade_system, upgrade_all,
       DdNoInput, DdBegins, DdEnds, UpgradeFails, UpgradeReturns, ExitError
  <2> QED BY <2>1 DEF OtherType
<1>6. CASE Leave \/ PowerLoss
  BY <1>6 DEF OtherType, Leave, PowerLoss, Forget
<1>7. CASE UNCHANGED vars
  BY <1>7 DEF OtherType, vars
<1> QED BY <1>1, <1>2, <1>3, <1>4, <1>5, <1>6, <1>7 DEF Next, ScriptStep

(* Every variable keeps its type, whatever the script is given. *)
THEOREM TypeCorrect == Spec => []TypeOK
<1>1. Init => OtherType
  BY DEF Init, OtherType
<1>2. UpdateInv /\ OtherType => TypeOK
  <2> SUFFICES ASSUME UpdateInv, OtherType PROVE TypeOK
    OBVIOUS
  <2>1. todo \in Seq(Members)
    <3>1. Upgrading => todo \in TodoOf(target)
      BY DEF UpdateInv, Passed
    <3>2. TodoOf(target) \subseteq {<<"vbmeta", "boot">>, <<"boot">>, <<"disk">>, <<"uboot">>, <<"system">>, <<>>}
      BY DEF TodoOf
    <3>3. {<<"vbmeta", "boot">>, <<"boot">>, <<"disk">>, <<"uboot">>, <<"system">>, <<>>} \subseteq Seq(Members)
      BY DEF Members, Partitions
    <3> QED BY <3>1, <3>2, <3>3 DEF UpdateInv, UpdateType
  <2> QED BY <2>1 DEF UpdateInv, UpdateType, OtherType, TypeOK
<1> QED BY <1>1, <1>2, UpdateAlways, OtherStepType, PTL DEF Spec

(* What the status of an update stands for, by the bits of its value. *)
LEMMA StatusRecords ==
  ASSUME NEW t \in {"boot", "uboot", "system", "all", "all.zip"}
  PROVE  Recorded(status_of(t)) = IF t = "all.zip" THEN {"uboot"} ELSE Scope(t)
<1>0. 2 ^ 0 = 1 /\ 2 ^ 1 = 2 /\ 2 ^ 2 = 4
  OBVIOUS
<1>1. /\ Recorded(1) = {"uboot"} /\ Recorded(2) = {"vbmeta", "boot"}
      /\ Recorded(4) = {"system"} /\ Recorded(30) = Partitions
  BY DEF Recorded
<1>2. CASE t = "all"
  BY <1>1, <1>2 DEF status_of, Scope, strip_zip
<1>3. CASE t \in {"uboot", "all.zip"}
  <2>1. status_of(t) = 2 ^ 0
    BY <1>3 DEF status_of, partition_to_number
  <2> QED BY <1>0, <1>1, <1>3, <2>1 DEF Scope, strip_zip
<1>4. CASE t = "boot"
  <2>1. status_of(t) = 2 ^ 1
    BY <1>4 DEF status_of, partition_to_number
  <2> QED BY <1>0, <1>1, <1>4, <2>1 DEF Scope, strip_zip
<1>5. CASE t = "system"
  <2>1. status_of(t) = 2 ^ 2
    BY <1>5 DEF status_of, partition_to_number
  <2> QED BY <1>0, <1>1, <1>5, <2>1 DEF Scope, strip_zip
<1> QED BY <1>2, <1>3, <1>4, <1>5

(* main and ota_update_flag: while partitions are overwritten, the EEPROM  *)
(* records exactly the partitions of the update (for all.zip: uboot        *)
(* alone), unless ota_tool itself failed.                                  *)
THEOREM StatusBeforeWriteAlways == Spec => []StatusBeforeWrite
<1>1. ASSUME UpdateInv PROVE StatusBeforeWrite
  <2> SUFFICES ASSUME pc \in {"dd", "copying"}, ~toolfail
               PROVE  Recorded(flag) = IF target = "all.zip" THEN {"uboot"} ELSE Scope(target)
    BY DEF StatusBeforeWrite
  <2>1. flag = status_of(target)
    BY <1>1 DEF UpdateInv, Flagged
  <2>2. target \in {"boot", "uboot", "system", "all", "all.zip"}
    BY <1>1 DEF UpdateInv, Passed, Upgrading
  <2> QED BY <2>1, <2>2, StatusRecords
<1> QED BY <1>1, UpdateAlways, PTL

(* upgrade_kernel, and upgrade_system in recovery: the message of success  *)
(* means that every partition of the update holds its image.               *)
THEOREM SuccessMeansWrittenAlways == Spec => []SuccessMeansWritten
<1>1. UpdateInv => SuccessMeansWritten
  BY DEF UpdateInv, Written, SuccessMeansWritten, checks_dd
<1> QED BY <1>1, UpdateAlways, PTL

(* A partition changes only in an update that names it and that passed the *)
(* checks of its upgrade function; power losses and restarts included.     *)
THEOREM WritesJustifiedAlways == Spec => WritesJustified
<1> DEFINE Justified(p) == /\ p \in Scope(target)
                           /\ target \notin missing
                           /\ target = "boot" => "none" \notin {files["vbmeta"], files["boot"]}
<1>1. ASSUME UpdateInv, [Next]_vars, NEW p \in Partitions, part'[p] # part[p] PROVE Justified(p)
  <2>1. DdBegins \/ DdEnds
    BY <1>1 DEF Next, ScriptStep, Start, check_sys_free_space, verify_rsa_signature, ota_update_flag,
       update_img_rejects, upgrade_kernel, upgrade_uboot, upgrade_system, upgrade_all, DdNoInput,
       UpgradeFails, UpgradeReturns, Leave, PowerLoss, Forget, vars
  <2>2. Upgrading /\ todo # <<>>
    BY <1>1, <2>1 DEF DdBegins, DdEnds, Upgrading, UpdateInv, Passed
  <2>3. /\ todo \in TodoOf(target) /\ target \notin missing
        /\ target = "boot" => "none" \notin {files["vbmeta"], files["boot"]}
    BY <1>1, <2>2 DEF UpdateInv, Passed
  <2>4. Head(todo) \in {p, "disk"}
    <3>1. ASSUME NEW s, part' = Overwrite(Head(todo), s) PROVE Head(todo) \in {p, "disk"}
      <4>1. part'[p] = IF Head(todo) \in {p, "disk"} THEN s ELSE part[p]
        BY <3>1 DEF Overwrite
      <4> QED BY <1>1, <4>1
    <3>2. (\E s : part' = Overwrite(Head(todo), s)) \/ part' = part
      BY <2>1 DEF DdBegins, DdEnds
    <3> QED BY <1>1, <3>1, <3>2
  <2>5. p \in Scope(target)
    <3>1. CASE Head(todo) = p
      BY <1>1, <2>2, <2>3, <3>1, TodoTail DEF Partitions
    <3>2. CASE Head(todo) = "disk"
      <4>1. strip_zip(target) = "all"
        BY <2>2, <2>3, <3>2, TodoTail DEF Scope, strip_zip, Partitions
      <4>2. Scope(target) = Partitions
        BY <4>1 DEF Scope, strip_zip
      <4> QED BY <1>1, <4>2
    <3> QED BY <2>4, <3>1, <3>2
  <2> QED BY <2>3, <2>5
<1>2. UpdateInv /\ [Next]_vars => [\A p \in Partitions : part'[p] # part[p] => Justified(p)]_vars
  BY <1>1
<1> QED BY <1>2, UpdateAlways, PTL DEF Spec, WritesJustified
=============================================================================
