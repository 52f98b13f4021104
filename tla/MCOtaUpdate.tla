----------------------------- MODULE MCOtaUpdate -----------------------------
(* up_partition.sh started with every kind of first argument, on file      *)
(* systems with less, just enough and more room than the archive needs.    *)
EXTENDS OtaUpdate

MCTargets  == {"uboot", "boot", "system", "all", "all.zip", "other"}
MCArchives == {{}, {"boot"}, {"vbmeta", "boot"}, {"uboot"}, {"system", "disk"}}
MCAbsent   == {{}, {"boot"}, {"uboot", "system"}}
MCSpaces   == 0..1
=============================================================================
