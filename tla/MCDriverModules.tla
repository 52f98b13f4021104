---------------------------- MODULE MCDriverModules ---------------------------
(* All six modules, and two runs of the character device's program.         *)
EXTENDS DriverModules
===============================================================================
