------------------------------- MODULE OtaBoot -------------------------------
(***************************************************************************)
(* The boot side of the OTA scripts: S9updatecheck.sh, run at boot, and    *)
(* ota_utility, the daemon it starts, which is meant to run                *)
(* up_partition.sh commands that arrive through a named pipe.              *)
(*                                                                         *)
(* Other programs write to the pipe and set the reset reason; a boot may   *)
(* follow at any time.                                                     *)
(***************************************************************************)
EXTENDS Naturals, Sequences

CONSTANTS MaxBurst,   \* lines one writer puts in the pipe at once
          MaxBoots    \* boots considered

ASSUME MaxBurstAssumption == MaxBurst \in Nat \ {0}
ASSUME MaxBootsAssumption == MaxBoots \in Nat \ {0}

Reasons  == {"normal", "recovery", "all"}
Commands == {"up_partition.sh", "noise"}

VARIABLES
  boots,      \* how often the system has booted
  reason,     \* reset reason in the virtual EEPROM
  s9,         \* where S9updatecheck.sh stands
  seen,       \* its $resetreason
  upmode,     \* its $ota_upmode
  daemon,     \* where ota_utility stands
  fifo,       \* the pipe exists
  pipe,       \* lines written by the writer the pipe is open for
  line,       \* $line of ota_utility
  awaited,    \* an up_partition.sh line was read and has not been started
  started     \* the last line read was executed

vars == <<boots, reason, s9, seen, upmode, daemon, fifo, pipe, line, awaited, started>>

Init ==
  /\ boots = 0
  /\ reason \in Reasons
  /\ s9 = "off"
  /\ seen = "normal"
  /\ upmode = "AB"
  /\ daemon = "off"
  /\ fifo = FALSE
  /\ pipe = <<>>
  /\ line = "none"
  /\ awaited = FALSE
  /\ started = FALSE

(* A boot, the first or after a reset: /tmp, and the pipe with it, is new. *)
Boot ==
  /\ boots < MaxBoots
  /\ boots' = boots + 1
  /\ s9' = "count"
  /\ seen' = "normal"
  /\ upmode' = "AB"
  /\ daemon' = "off"
  /\ fifo' = FALSE
  /\ pipe' = <<>>
  /\ line' = "none"
  /\ awaited' = FALSE
  /\ started' = FALSE
  /\ UNCHANGED reason

(* Somebody uses ota_tool --resetreason -s. *)
SetReason(r) ==
  /\ s9 = "done"
  /\ reason' = r
  /\ UNCHANGED <<boots, s9, seen, upmode, daemon, fifo, pipe, line, awaited, started>>

-----------------------------------------------------------------------------
(* S9updatecheck.sh *)

(* --count is no option of ota_tool: the update flag is printed and lost.  *)
set_count ==
  /\ s9 = "count"
  /\ s9' = "reason"
  /\ UNCHANGED <<boots, reason, seen, upmode, daemon, fifo, pipe, line, awaited, started>>

(* What ota_tool --resetreason -g prints: eight bytes without a NUL run    *)
(* into whatever follows them; when the EEPROM cannot be opened or read    *)
(* there is a message or nothing.                                          *)
Printed(r) == {r, "", "veeprom_init error"} \cup (IF r = "recovery" THEN {"garbled"} ELSE {})

Branch(v) == IF v = "recovery" THEN "foreground" ELSE "background"

get_resetreason(from) ==
  /\ s9 = from
  /\ \E v \in Printed(reason) :
       /\ seen' = v
       /\ s9' = IF from = "reason" THEN Branch(v) ELSE "done"
  /\ UNCHANGED <<boots, reason, upmode, daemon, fifo, pipe, line, awaited, started>>

(* In recovery ota_utility runs in the foreground ... *)
StartForeground ==
  /\ s9 = "foreground"
  /\ daemon' = "init"
  /\ s9' = "wait"
  /\ UNCHANGED <<boots, reason, seen, upmode, fifo, pipe, line, awaited, started>>

WaitDaemon ==
  /\ s9 = "wait"
  /\ daemon = "exited"
  /\ s9' = "mode"
  /\ UNCHANGED <<boots, reason, seen, upmode, daemon, fifo, pipe, line, awaited, started>>

(* Mutant: the & is missing. *)
StartUnbackgrounded ==
  /\ s9 = "background"
  /\ daemon' = "init"
  /\ s9' = "wait"
  /\ UNCHANGED <<boots, reason, seen, upmode, fifo, pipe, line, awaited, started>>

(* ... otherwise in the background. *)
StartBackground ==
  /\ s9 = "background"
  /\ daemon' = "init"
  /\ s9' = "mode"
  /\ UNCHANGED <<boots, reason, seen, upmode, fifo, pipe, line, awaited, started>>

(* --updatemode is no option either: $ota_upmode becomes the update flag.  *)
get_updatemode ==
  /\ s9 = "mode"
  /\ upmode' = "flag"
  /\ s9' = "reason2"
  /\ UNCHANGED <<boots, reason, seen, daemon, fifo, pipe, line, awaited, started>>

S9Step == \/ set_count
          \/ get_resetreason("reason")
          \/ StartForeground \/ WaitDaemon \/ StartBackground
          \/ get_updatemode
          \/ get_resetreason("reason2")

-----------------------------------------------------------------------------
(* ota_utility: resetreason is the constant "normal", so the branch that   *)
(* would run the saved command in recovery is never taken.                 *)

MakeFifo ==
  /\ daemon = "init"
  /\ \/ fifo' = TRUE /\ daemon' = "read"
     \/ ~fifo /\ daemon' = "exited" /\ UNCHANGED fifo
  /\ UNCHANGED <<boots, reason, s9, seen, upmode, pipe, line, awaited, started>>

(* read line < $pipe: the pipe is opened, one line is read, the pipe is    *)
(* closed and what else was in it is gone.                                 *)
ReadLine ==
  /\ daemon = "read"
  /\ pipe # <<>>
  /\ line' = Head(pipe)
  /\ pipe' = <<>>
  /\ awaited' = (Head(pipe) = "up_partition.sh")
  /\ started' = FALSE
  /\ daemon' = "match"
  /\ UNCHANGED <<boots, reason, s9, seen, upmode, fifo>>

(* val=$(echo $line | awk '{pirnt $1}'): awk evaluates a concatenation and *)
(* prints nothing.                                                         *)
val(l) == ""

Execute ==
  /\ daemon = "match"
  /\ IF val(line) \in {"up_partition.sh", "/usr/bin/up_partition.sh"}
     THEN started' = TRUE /\ awaited' = FALSE
     ELSE UNCHANGED <<started, awaited>>
  /\ daemon' = "read"
  /\ UNCHANGED <<boots, reason, s9, seen, upmode, fifo, pipe, line>>

DaemonStep == MakeFifo \/ ReadLine \/ Execute

(* A program opens the pipe for writing and writes some lines. *)
WritePipe(ls) ==
  /\ fifo
  /\ pipe = <<>>
  /\ pipe' = ls
  /\ UNCHANGED <<boots, reason, s9, seen, upmode, daemon, fifo, line, awaited, started>>

Next == \/ Boot
        \/ \E r \in Reasons : SetReason(r)
        \/ S9Step
        \/ DaemonStep
        \/ \E n \in 1..MaxBurst : \E ls \in [1..n -> Commands] : WritePipe(ls)

(* Both scripts are ordinary processes that the kernel schedules. *)
Spec == Init /\ [][Next]_vars /\ WF_vars(S9Step) /\ WF_vars(DaemonStep)

-----------------------------------------------------------------------------
(* Properties. *)

(* A boot that does not come up in recovery completes S9updatecheck.sh,    *)
(* whatever the daemon it left in the background is doing.                 *)
NormalBootFinishes == (s9 = "background") ~> (s9 \in {"done", "count"})

(* "ota pipe get upgrade info": an up_partition.sh line that was read from *)
(* the pipe is executed (ota_utility:39-42).                               *)
CommandsRun == (awaited /\ boots = MaxBoots) ~> started
=============================================================================
