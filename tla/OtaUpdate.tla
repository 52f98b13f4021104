------------------------------ MODULE OtaUpdate ------------------------------
(***************************************************************************)
(* Languge/shell/ota/up_partition.sh as it is shipped: ota_bootmode emmc,  *)
(* ota_upmode single (lines 565, 569).  One run checks the free space,     *)
(* unpacks the image, records what it is about to do through ota_tool and  *)
(* overwrites partitions with dd.  Power may fail at any moment and the    *)
(* script may be started again afterwards.                                 *)
(*                                                                         *)
(* ota_tool is used through what Veeprom proves of it on eMMC: a call      *)
(* takes effect at once or not at all.                                     *)
(***************************************************************************)
EXTENDS Naturals, Sequences

CONSTANTS Targets,    \* first arguments the script is started with
          Archives,   \* sets of members of an archive, {} if it cannot be read
          Absent,     \* sets of partitions that fdisk does not list
          Spaces      \* sizes, in units that tell more, less and equal apart

Partitions == {"uboot", "vbmeta", "boot", "system"}
Members    == Partitions \cup {"disk"}
States     == {"old", "new", "torn", "zeroed"}

ASSUME TargetsAssumption ==
  Targets \subseteq {"uboot", "boot", "system", "all", "all.zip", "other"}
ASSUME ArchivesAssumption == Archives \subseteq SUBSET Members
ASSUME AbsentAssumption == Absent \subseteq SUBSET {"uboot", "boot", "system"}
ASSUME SpacesAssumption == Spaces \subseteq Nat

VARIABLES
  pc,        \* the function the script is in
  target,    \* $partition
  path,      \* $upgrade_file_path
  files,     \* member -> what the unpacked file holds, or "none"
  recovery,  \* the root file system is not mounted from /dev/root
  missing,   \* partitions that fdisk does not list
  flag,      \* update flag in the virtual EEPROM
  abstatus,  \* A/B partition status in the virtual EEPROM
  todo,      \* partitions left for dd to overwrite
  part,      \* what each partition holds
  failed,    \* some dd of this run returned an error
  toolfail,  \* some ota_tool call of this run failed
  log        \* the last verdict printed to $ota_info: "none", "error" or "success"

vars == <<pc, target, path, files, recovery, missing, flag, abstatus,
          todo, part, failed, toolfail, log>>

NoFiles == [m \in Members |-> "none"]

Init ==
  /\ pc = "idle"
  /\ target = "other"
  /\ path = ""
  /\ files = NoFiles
  /\ recovery = FALSE
  /\ missing \in Absent
  /\ flag = 0
  /\ abstatus = 0
  /\ todo = <<>>
  /\ part = [p \in Partitions |-> "old"]
  /\ failed = FALSE
  /\ toolfail = FALSE
  /\ log = "none"

(* exit 1, with the error printed and "2" appended to $update_result. *)
ExitError == pc' = "done" /\ log' = "error"

Start(t, rec) ==
  /\ pc = "idle"
  /\ pc' = "space"
  /\ target' = t
  /\ recovery' = rec
  /\ UNCHANGED <<path, files, missing, flag, abstatus, todo, part, failed, toolfail, log>>

(* The directory to unpack in: none when the archive exactly fills the     *)
(* larger of the two file systems.                                         *)
upgrade_file_path(need, userdata, tmp) ==
  IF userdata > need THEN "/userdata/upgrade"
  ELSE IF tmp > need THEN "/tmp" ELSE ""

check_sys_free_space(need, userdata, tmp) ==
  /\ pc = "space"
  /\ IF need > userdata /\ need > tmp
     THEN ExitError /\ UNCHANGED path
     ELSE /\ path' = upgrade_file_path(need, userdata, tmp)
          /\ pc' = "verify"
          /\ UNCHANGED log
  /\ UNCHANGED <<target, files, recovery, missing, flag, abstatus,
                 todo, part, failed, toolfail>>

(* The directory is removed, made anew and filled from the archive, which  *)
(* is lost if it lay there itself.  The verdict on signatures is printed   *)
(* and changes nothing.                                                    *)
Unpacked(at, has) == IF path \in {"", at} THEN {} ELSE has

verify_rsa_signature(at, has) ==
  /\ pc = "verify"
  /\ LET got == Unpacked(at, has)
     IN  files' = [m \in Members |-> IF m \in got THEN "image" ELSE "none"]
  /\ pc' = "flag"
  /\ UNCHANGED <<target, path, recovery, missing, flag, abstatus,
                 todo, part, failed, toolfail, log>>

(* Mutant: an unknown name yields the counter after the loop. *)
PartitionCounter(t) ==
  CASE t = "uboot" -> 0 [] t = "boot" -> 1 [] t = "system" -> 2 [] OTHER -> 3

partition_to_number(t) ==
  CASE t = "uboot" -> 0 [] t = "boot" -> 1 [] t = "system" -> 2 [] OTHER -> 0

(* ab_partition_status starts at 0 and has the target's bits flipped. *)
status_of(t) == IF t = "all" THEN 30 ELSE 2 ^ partition_to_number(t)

(* Mutant: only the bare update_flag is called. *)
UpdateFlagAlone ==
  /\ pc = "flag"
  /\ pc' = "update_img"
  /\ UNCHANGED <<target, path, files, recovery, missing, flag, abstatus,
                 todo, part, failed, toolfail, log>>

(* ota_update_flag.  update_flag is called without an argument: getopt     *)
(* refuses the bare -s, ota_tool falls back to reading the flag, and       *)
(* nothing is set.  --partstatus is no option of ota_tool, so the new      *)
(* status is stored in the update flag.                                    *)
ota_update_flag ==
  /\ pc = "flag"
  /\ \/ flag' = status_of(target) /\ UNCHANGED toolfail
     \/ toolfail' = TRUE /\ UNCHANGED flag
  /\ pc' = "update_img"
  /\ UNCHANGED <<target, path, files, recovery, missing, abstatus,
                 todo, part, failed, log>>

(* update_img: ${partition%%.zip} selects the upgrade function.  The       *)
(* mmc_part_number in $(...) can only record its error, not stop.          *)
strip_zip(t) == IF t = "all.zip" THEN "all" ELSE t

Scope(t) ==
  CASE strip_zip(t) = "all" -> Partitions
    [] t = "boot"           -> {"vbmeta", "boot"}
    [] t \in {"uboot", "system"} -> {t}
    [] OTHER                -> {}

update_img_rejects ==
  /\ pc = "update_img"
  /\ \/ Scope(target) = {}
     \/ strip_zip(target) # "all" /\ target \in missing
     \/ target = "boot" /\ "none" \in {files["vbmeta"], files["boot"]}
  /\ ExitError
  /\ UNCHANGED <<target, path, files, recovery, missing, flag, abstatus,
                 todo, part, failed, toolfail>>

(* Mutant: upgrade_kernel checks for boot.img only. *)
UpgradeKernelBootOnly ==
  /\ pc = "update_img"
  /\ target = "boot"
  /\ "boot" \notin missing
  /\ files["boot"] # "none"
  /\ todo' = <<"vbmeta", "boot">>
  /\ pc' = "dd"
  /\ UNCHANGED <<target, path, files, recovery, missing, flag, abstatus,
                 part, failed, toolfail, log>>

upgrade_kernel ==
  /\ pc = "update_img"
  /\ target = "boot"
  /\ "boot" \notin missing
  /\ "none" \notin {files["vbmeta"], files["boot"]}
  /\ todo' = <<"vbmeta", "boot">>
  /\ pc' = "dd"
  /\ UNCHANGED <<target, path, files, recovery, missing, flag, abstatus,
                 part, failed, toolfail, log>>

(* upgrade_uboot first copies the head of the partition behind the first   *)
(* megabyte of uboot.img; dd makes the file, with a hole in front, when    *)
(* it is not there.                                                        *)
upgrade_uboot ==
  /\ pc = "update_img"
  /\ target = "uboot"
  /\ "uboot" \notin missing
  /\ \/ files' = [files EXCEPT !["uboot"] = IF @ = "none" THEN "hole" ELSE @]
     \/ UNCHANGED files
  /\ todo' = <<"uboot">>
  /\ pc' = "dd"
  /\ UNCHANGED <<target, path, recovery, missing, flag, abstatus,
                 part, failed, toolfail, log>>

upgrade_system ==
  /\ pc = "update_img"
  /\ target = "system"
  /\ "system" \notin missing
  /\ todo' = <<"system">>
  /\ pc' = "dd"
  /\ UNCHANGED <<target, path, files, recovery, missing, flag, abstatus,
                 part, failed, toolfail, log>>

(* The whole disk, as one dd. *)
upgrade_all ==
  /\ pc = "update_img"
  /\ strip_zip(target) = "all"
  /\ todo' = <<"disk">>
  /\ pc' = "dd"
  /\ UNCHANGED <<target, path, files, recovery, missing, flag, abstatus,
                 part, failed, toolfail, log>>

(* dd: without its input file it fails before it touches the partition;    *)
(* otherwise the partition is torn until the copy is complete.             *)
Overwrite(p, s) ==
  [q \in Partitions |-> IF p \in {q, "disk"} THEN s ELSE part[q]]

DdNoInput ==
  /\ pc = "dd" /\ todo # <<>>
  /\ files[Head(todo)] = "none"
  /\ failed' = TRUE
  /\ todo' = Tail(todo)
  /\ UNCHANGED <<pc, target, path, files, recovery, missing, flag,
                 abstatus, part, toolfail, log>>

DdBegins ==
  /\ pc = "dd" /\ todo # <<>>
  /\ files[Head(todo)] # "none"
  /\ part' = Overwrite(Head(todo), "torn")
  /\ pc' = "copying"
  /\ UNCHANGED <<target, path, files, recovery, missing, flag, abstatus,
                 todo, failed, toolfail, log>>

DdEnds ==
  /\ pc = "copying"
  /\ \/ /\ part' = Overwrite(Head(todo), IF files[Head(todo)] = "hole" THEN "zeroed" ELSE "new")
        /\ UNCHANGED failed
     \/ failed' = TRUE /\ UNCHANGED part
  /\ todo' = Tail(todo)
  /\ pc' = "dd"
  /\ UNCHANGED <<target, path, files, recovery, missing, flag, abstatus,
                 toolfail, log>>

(* Mutant: ret1 and ret2 of upgrade_kernel are not looked at. *)
ChecksSystemOnly == target = "system" /\ recovery

(* Which upgrade function looks at what dd returned: upgrade_kernel, and   *)
(* upgrade_system in recovery.  upgrade_uboot tests $? of an assignment.   *)
checks_dd == target = "boot" \/ (target = "system" /\ recovery)

(* The end of the upgrade function and of update_img. *)
UpgradeFails ==
  /\ pc = "dd" /\ todo = <<>>
  /\ failed /\ checks_dd
  /\ ExitError
  /\ UNCHANGED <<target, path, files, recovery, missing, flag, abstatus,
                 todo, part, failed, toolfail>>

(* upgrade_all prints 100% and reboots; the others print success. *)
UpgradeReturns ==
  /\ pc = "dd" /\ todo = <<>>
  /\ ~(failed /\ checks_dd)
  /\ log' = "success"
  /\ pc' = "done"
  /\ UNCHANGED <<target, path, files, recovery, missing, flag, abstatus,
                 todo, part, failed, toolfail>>

(* The shell and all its variables are gone. *)
Forget ==
  /\ pc' = "idle"
  /\ target' = "other"
  /\ path' = ""
  /\ files' = NoFiles
  /\ recovery' = FALSE
  /\ todo' = <<>>
  /\ failed' = FALSE
  /\ toolfail' = FALSE
  /\ log' = "none"
  /\ UNCHANGED <<missing, flag, abstatus, part>>

Leave == pc = "done" /\ Forget

(* Power fails in the middle of the script. *)
PowerLoss == pc \notin {"idle", "done"} /\ Forget

ScriptStep ==
  \/ \E need, userdata, tmp \in Spaces : check_sys_free_space(need, userdata, tmp)
  \/ \E at \in {path, "elsewhere"}, has \in Archives : verify_rsa_signature(at, has)
  \/ ota_update_flag \/ update_img_rejects
  \/ upgrade_kernel \/ upgrade_uboot \/ upgrade_system \/ upgrade_all
  \/ DdNoInput \/ DdBegins \/ DdEnds \/ UpgradeFails \/ UpgradeReturns \/ Leave

Next ==
  \/ \E t \in Targets, rec \in BOOLEAN : Start(t, rec)
  \/ ScriptStep
  \/ PowerLoss

Spec == Init /\ [][Next]_vars

-----------------------------------------------------------------------------
(* Properties. *)

(* Every variable has its type. *)
TypeOK ==
  /\ pc \in {"idle", "space", "verify", "flag", "update_img", "dd", "copying", "done"}
  /\ target \in Targets \cup {"other"}
  /\ path \in {"", "/tmp", "/userdata/upgrade"}
  /\ files \in [Members -> {"none", "image", "hole"}]
  /\ recovery \in BOOLEAN
  /\ missing \in SUBSET {"uboot", "boot", "system"}
  /\ flag \in {0, 1, 2, 4, 30}
  /\ abstatus \in {0, 1, 2, 4, 30}
  /\ todo \in Seq(Members)
  /\ part \in [Partitions -> States]
  /\ failed \in BOOLEAN
  /\ toolfail \in BOOLEAN
  /\ log \in {"none", "error", "success"}

(* "update_img success!" after an update of the kernel, or of the system   *)
(* in recovery, means that every partition of the update holds the image.  *)
SuccessMeansWritten ==
  log = "success" /\ (target = "boot" \/ (target = "system" /\ recovery))
    => \A p \in Scope(target) : part[p] = "new"

(* The partitions that a status in the EEPROM stands for, read without the *)
(* script's help: one bit for each of uboot, boot and system (a boot       *)
(* update is vbmeta and boot), 0x1E for the whole disk.                    *)
Recorded(f) ==
  CASE f = 1  -> {"uboot"}
    [] f = 2  -> {"vbmeta", "boot"}
    [] f = 4  -> {"system"}
    [] f = 30 -> Partitions
    [] OTHER  -> {}

(* Before the first partition is opened for writing, and until the script  *)
(* ends, the EEPROM records exactly the partitions that this update will   *)
(* overwrite, so that they can be told after a power loss, unless ota_tool *)
(* itself failed.  An update started as all.zip is the exception: it       *)
(* overwrites the disk while the EEPROM records an update of uboot.        *)
StatusBeforeWrite ==
  pc \in {"dd", "copying"} /\ ~toolfail =>
    Recorded(flag) = IF target = "all.zip" THEN {"uboot"} ELSE Scope(target)

(* A partition changes only in an update that names it, only after that    *)
(* update passed its own checks, and a kernel update never starts with     *)
(* half of its images.                                                     *)
WritesJustified ==
  [][\A p \in Partitions : part'[p] # part[p] =>
       /\ p \in Scope(target)
       /\ target \notin missing
       /\ target = "boot" => "none" \notin {files["vbmeta"], files["boot"]}]_vars

(* "Error: write partition error": an update of uboot whose dd failed does *)
(* not end in "update_img success!" (up_partition.sh:384).                 *)
UbootErrorReported ==
  target = "uboot" /\ failed => log # "success"
=============================================================================
