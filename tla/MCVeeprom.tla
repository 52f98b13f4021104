------------------------------ MODULE MCVeeprom ------------------------------
(* Instances of Veeprom for TLC: two ota_tool processes, the flags 0 and   *)
(* 13, a short and an 8 byte reset reason.                                 *)
EXTENDS Veeprom

MCFlagVals    == {"0", "13"}
MCReasonVals  == {"normal", "recovery"}
MCLongReasons == {"recovery"}
(* A board that boots from eMMC whatever its pins say, one that does so    *)
(* because its pins name no other medium, and the two flash boards.        *)
MCEmmcPinSocs == {[board_id |-> "other", boot_mode |-> "other"]}
MCAllSocs     == {[board_id |-> "300", boot_mode |-> "1"]}
                   \cup {[board_id |-> "other", boot_mode |-> m] : m \in {"1", "5"}}
MCRecords     == {[other |-> "13", update_flag |-> "0", reset_reason |-> "normal"]}
=============================================================================
