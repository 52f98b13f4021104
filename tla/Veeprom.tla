------------------------------- MODULE Veeprom -------------------------------
(***************************************************************************)
(* The virtual EEPROM of the OTA tool (Application/ota/ota_tool): a 2048   *)
(* byte record on eMMC, SPI NOR or SPI NAND that holds the update flag and *)
(* the reset reason next to board data the tool never writes.  Every       *)
(* update is a read-modify-write of the whole record by an ota_tool        *)
(* process; several processes may run at once (the boot script starts the  *)
(* update daemon in the background) and power may fail at any step.        *)
(*                                                                         *)
(* Data: all fields lie in sector 0, so the sector loops of veeprom.c run  *)
(* once and the record is one function Fields -> Values.  Values are       *)
(* strings; Zero, Erased and Corrupt stand for 0x00, 0xff and anything     *)
(* nobody asked for.                                                       *)
(***************************************************************************)
EXTENDS Naturals, FiniteSets

CONSTANTS Tools,        \* processes that may call the library
          Writers,      \* the ones that are asked to change something
          Socs,         \* the boards: what /sys/class/socinfo says of each
          FlagVals,     \* update flags that are asked for
          ReasonVals,   \* reset reasons that resetreason_para_check accepts
          LongReasons,  \* the reasons that fill all 8 bytes, with no NUL
          FormatMedia,  \* the media on which some caller uses veeprom_format
          Records       \* what the medium may hold at first

Zero    == "0"
Erased  == "ff"
Corrupt == "corrupt"
NoOut   == "none"
Garbled == "garbled"

Fields == {"other", "update_flag", "reset_reason"}
Values == FlagVals \cup ReasonVals \cup {Zero, Erased, Corrupt}

ASSUME WritersAssumption == Writers \subseteq Tools
ASSUME SocAssumption     == Socs \subseteq [board_id  : {"none", "300", "other"},
                                            boot_mode : {"none", "1", "5", "other"}]
ASSUME ReasonAssumption  == LongReasons \subseteq ReasonVals
ASSUME RecordAssumption  == Records \subseteq [Fields -> Values]
ASSUME IntactAssumption  == (FlagVals \cup ReasonVals) \cap {Erased, Corrupt} = {}

(* Arguments of -s: a legal value, a string that parameter_check lets      *)
(* through but atoi reads as 0 ("hex"), and one that it refuses.           *)
Args == FlagVals \cup ReasonVals \cup {"hex", "illegal"}

VARIABLES
  soc,      \* the board the tool runs on
  dev,      \* the record on the medium
  damaged,  \* NAND: the volume update was started and has not been completed
  pc,       \* where each process stands
  fd,       \* "open" or "closed", per process
  req,      \* what each process was asked to do
  buf,      \* the static buffer of each process
  verdict,  \* what updateflag_set / resetreason_write returned
  out,      \* what the process printed
  asked,    \* history: the values each field was ever asked to hold
  mishap    \* history: a power loss or I/O error hit an update half way

vars == <<soc, dev, damaged, pc, fd, req, buf, verdict, out, asked, mishap>>

-----------------------------------------------------------------------------
(* Which medium holds the record. *)

get_boot_mode ==
  IF soc.board_id \in {"none", "300"} THEN "EMMC"
  ELSE IF soc.boot_mode = "1" THEN "SPINAND"
  ELSE IF soc.boot_mode = "5" THEN "SPINOR"
  ELSE "EMMC"

Nand == get_boot_mode = "SPINAND"
Nor  == get_boot_mode = "SPINOR"

(* The options of one invocation, as main() reads them: anything but       *)
(* --resetreason and -s leaves function_index as it is.                    *)
Options == {"--updateflag", "--resetreason", "-g", "-s", "unknown"}

field_of(opts) == IF "--resetreason" \in opts THEN "reset_reason" ELSE "update_flag"

parameter_check(arg) == arg \in FlagVals \cup {"hex"}
resetreason_para_check(arg) == arg \in ReasonVals

(* Mutant: the argument is stored unconverted. *)
AtoiRaw(arg) == arg

atoi(arg) == IF arg = "hex" THEN Zero ELSE arg

(* What a call is asked to do.  A set carries the value that reaches the   *)
(* record; "refused" is a set whose argument fails its check.              *)
Get(f)    == [op |-> "get", field |-> f, val |-> Zero]
Set(f, v) == [op |-> "set", field |-> f, val |-> v]
Refused   == [op |-> "refused", field |-> "other", val |-> Zero]
Format    == [op |-> "format", field |-> "other", val |-> Zero]

Calls == [op : {"get", "set", "refused", "format"}, field : Fields, val : Values]

main_function(opts, arg) ==
  LET f == field_of(opts)
  IN  IF "-s" \notin opts THEN Get(f)
      ELSE IF f = "update_flag"
           THEN IF parameter_check(arg) THEN Set(f, atoi(arg)) ELSE Refused
           ELSE IF resetreason_para_check(arg) THEN Set(f, arg) ELSE Refused

Changes(r) == r.op \in {"set", "format"}

Blank(v) == [f \in Fields |-> v]

(* Mutant: the record is not read before it is patched. *)
PatchUnread(r, rec) ==
  IF r.op = "set" THEN [Blank(Zero) EXCEPT ![r.field] = r.val] ELSE Blank(Zero)

(* The record a set or a format means to leave, given the record it read.  *)
(* On NAND veeprom_clear hands veeprom_write a malloc'ed block of which    *)
(* only the first eight bytes (board id and MAC address) were zeroed.      *)
Patch(r, rec) ==
  IF r.op = "set" THEN [rec EXCEPT ![r.field] = r.val]
  ELSE [f \in Fields |-> IF Nand /\ f # "other" THEN Corrupt ELSE Zero]

Init ==
  /\ soc \in Socs
  /\ dev \in Records
  /\ damaged = FALSE
  /\ pc = [p \in Tools |-> "idle"]
  /\ fd = [p \in Tools |-> "closed"]
  /\ req = [p \in Tools |-> Get("update_flag")]
  /\ buf = [p \in Tools |-> Blank(Zero)]
  /\ verdict = [p \in Tools |-> "none"]
  /\ out = [p \in Tools |-> NoOut]
  /\ asked = [f \in Fields |-> {dev[f]}]
  /\ mishap = FALSE

-----------------------------------------------------------------------------
(* The medium. *)

(* A UBI volume has one reader-writer at a time; the other media do not    *)
(* exclude anyone.                                                         *)
CanOpen(p) == Nand => \A q \in Tools \ {p} : fd[q] = "closed"

(* NOR cells can only be cleared by a write: a cell that was not erased    *)
(* first ends up with some mixture of what it held and what was written.   *)
NorCell(old, new) ==
  IF old \in {Erased, new} \/ new = Zero THEN {new} ELSE {old, new, Corrupt}

(* What a power loss may leave of field f. *)
TornVals(f) ==
  {dev[f]} \cup
  (IF Nor THEN UNION {CASE pc[p] = "erase"   -> {Erased, Corrupt}
                        [] pc[p] = "program" -> {buf[p][f], Corrupt}
                        [] OTHER             -> {} : p \in Tools}
   ELSE {})

(* Process p is where an interruption costs more than its own update. *)
InWindow(p) == \/ Nor /\ pc[p] \in {"erase", "program"}
               \/ Nand /\ pc[p] = "program"

-----------------------------------------------------------------------------
(* Steps of a process. *)

Goto(p, l) == pc' = [pc EXCEPT ![p] = l]

(* An error return: the callers report it and fall through to main's       *)
(* veeprom_exit.                                                           *)
Fail(p) == /\ Goto(p, "exit")
           /\ verdict' = [verdict EXCEPT ![p] = "error"]

NewlyAsked(r) ==
  [f \in Fields |-> asked[f] \cup
     (IF r.op = "set" /\ r.field = f THEN {r.val}
      ELSE IF r.op = "format" THEN {Zero} ELSE {})]

(* veeprom_init succeeds and the call r begins.  (When the device cannot   *)
(* be opened main returns -1 and nothing has happened.)                    *)
Begin(p, r) ==
  /\ pc[p] = "idle"
  /\ Changes(r) => p \in Writers
  /\ CanOpen(p)
  /\ req' = [req EXCEPT ![p] = r]
  /\ fd' = [fd EXCEPT ![p] = "open"]
  /\ asked' = NewlyAsked(r)
  /\ verdict' = [verdict EXCEPT ![p] = IF r.op = "refused" THEN "error" ELSE "none"]
  /\ Goto(p, CASE r.op = "get"     -> "read"
               [] r.op = "refused" -> "exit"
               [] OTHER            -> "fetch")
  /\ UNCHANGED <<dev, damaged, buf, out, mishap>>

(* One ota_tool invocation; argc < 2 prints the help and ends. *)
Invocations == {main_function(opts, arg) : opts \in (SUBSET Options) \ {{}}, arg \in Args}

main(p) == \E r \in Invocations : Begin(p, r)

veeprom_format(p) == get_boot_mode \in FormatMedia /\ Begin(p, Format)

(* Mutant: NOR is written back without the erase. *)
FetchWithoutErase(p) ==
  /\ pc[p] = "fetch"
  /\ ~damaged
  /\ buf' = [buf EXCEPT ![p] = Patch(req[p], dev)]
  /\ Goto(p, IF Nand THEN "volup" ELSE "program")
  /\ UNCHANGED <<dev, damaged, fd, req, verdict, out, asked, mishap>>

(* The read of the read-modify-write, with the patch of the buffer.  On    *)
(* NAND the result of read() is ignored and the buffer, zeroed before, is  *)
(* patched and used all the same.                                          *)
FetchGood(p) ==
  /\ pc[p] = "fetch"
  /\ ~damaged
  /\ buf' = [buf EXCEPT ![p] = Patch(req[p], dev)]
  /\ Goto(p, IF Nand THEN "volup"
             ELSE IF Nor /\ req[p].op = "set" THEN "erase" ELSE "program")
  /\ UNCHANGED <<dev, damaged, fd, req, verdict, out, asked, mishap>>

FetchFails(p) ==
  /\ pc[p] = "fetch"
  /\ IF Nand
     THEN /\ buf' = [buf EXCEPT ![p] = Patch(req[p], Blank(Zero))]
          /\ Goto(p, "volup")
          /\ mishap' = TRUE
          /\ UNCHANGED verdict
     ELSE /\ Fail(p)
          /\ UNCHANGED <<buf, mishap>>
  /\ UNCHANGED <<dev, damaged, fd, req, out, asked>>

(* NOR: the erase block that holds the record is erased before it is       *)
(* written back; the result of the ioctl is ignored.                       *)
MemErase(p) ==
  /\ pc[p] = "erase"
  /\ \/ dev' = Blank(Erased) /\ UNCHANGED mishap
     \/ mishap' = TRUE /\ UNCHANGED dev
  /\ Goto(p, "program")
  /\ UNCHANGED <<damaged, fd, req, buf, verdict, out, asked>>

(* NAND: UBI_IOCVOLUP marks the volume as being updated. *)
StartVolumeUpdate(p) ==
  /\ pc[p] = "volup"
  /\ \/ /\ damaged' = TRUE
        /\ Goto(p, "program")
        /\ UNCHANGED verdict
     \/ /\ Fail(p)
        /\ UNCHANGED damaged
  /\ UNCHANGED <<dev, fd, req, buf, out, asked, mishap>>

(* veeprom_write / veeprom_clear return 0 to their caller. *)
WriteReturns(p) ==
  IF req[p].op = "set"
  THEN Goto(p, "verify") /\ UNCHANGED verdict
  ELSE /\ Goto(p, "exit")
       /\ verdict' = [verdict EXCEPT ![p] = "ok"]

(* The write of the whole buffer succeeds.  On NAND veeprom_exit follows.  *)
ProgramGood(p) ==
  /\ pc[p] = "program"
  /\ IF Nor THEN /\ dev' \in [Fields -> Values]
                 /\ \A f \in Fields : dev'[f] \in NorCell(dev[f], buf[p][f])
            ELSE dev' = buf[p]
  /\ damaged' = FALSE
  /\ fd' = IF Nand THEN [fd EXCEPT ![p] = "closed"] ELSE fd
  /\ WriteReturns(p)
  /\ UNCHANGED <<req, buf, out, asked, mishap>>

(* The write fails: reported on eMMC and NOR, ignored on NAND. *)
ProgramFails(p) ==
  /\ pc[p] = "program"
  /\ IF Nand THEN /\ WriteReturns(p)
                  /\ fd' = [fd EXCEPT ![p] = "closed"]
             ELSE Fail(p) /\ UNCHANGED fd
  /\ mishap' = (mishap \/ InWindow(p))
  /\ UNCHANGED <<dev, damaged, req, buf, out, asked>>

(* What veeprom_read may deliver for field f.  On NAND it reopens the      *)
(* volume if need be, ignores every failure, and delivers zeros then.      *)
ReadVals(p, f) ==
  IF ~Nand THEN {dev[f]}
  ELSE {Zero} \cup (IF ~damaged /\ (fd[p] = "open" \/ CanOpen(p)) THEN {dev[f]} ELSE {})

(* A string read back without its NUL runs into uninitialised stack. *)
Unterminated(f, v) == f = "reset_reason" /\ v \in LongReasons \cup {Erased}

AfterRead(p) == fd' = IF Nand THEN [fd EXCEPT ![p] = "closed"] ELSE fd

(* updateflag_get, resetreason_read. *)
ReadGood(p) ==
  /\ pc[p] = "read"
  /\ LET f == req[p].field
     IN  \E v \in ReadVals(p, f) :
           \/ out' = [out EXCEPT ![p] = v]
           \/ Unterminated(f, v) /\ out' = [out EXCEPT ![p] = Garbled]
  /\ AfterRead(p)
  /\ Goto(p, "exit")
  /\ UNCHANGED <<dev, damaged, req, buf, verdict, asked, mishap>>

(* Mutant: the value read back is not compared. *)
VerifyUncompared(p) ==
  /\ pc[p] = "verify"
  /\ verdict' = [verdict EXCEPT ![p] = "ok"]
  /\ AfterRead(p)
  /\ Goto(p, "exit")
  /\ UNCHANGED <<dev, damaged, req, buf, out, asked, mishap>>

(* The read back and comparison at the end of updateflag_set and           *)
(* resetreason_write.                                                      *)
Verify(p) ==
  /\ pc[p] = "verify"
  /\ LET f == req[p].field
     IN  \E v \in ReadVals(p, f) :
           \/ /\ v = req[p].val
              /\ verdict' = [verdict EXCEPT ![p] = "ok"]
           \/ /\ v # req[p].val \/ Unterminated(f, v)
              /\ verdict' = [verdict EXCEPT ![p] = "error"]
  /\ AfterRead(p)
  /\ Goto(p, "exit")
  /\ UNCHANGED <<dev, damaged, req, buf, out, asked, mishap>>

ReadFails(p) ==
  /\ pc[p] \in {"read", "verify"}
  /\ ~Nand
  /\ Fail(p)
  /\ UNCHANGED <<dev, damaged, fd, req, buf, out, asked, mishap>>

(* main's veeprom_exit; the process ends, with status 0 whatever happened, *)
(* and its memory is gone.                                                 *)
veeprom_exit(p) ==
  /\ pc[p] = "exit"
  /\ fd' = [fd EXCEPT ![p] = "closed"]
  /\ Goto(p, "idle")
  /\ req' = [req EXCEPT ![p] = Get("update_flag")]
  /\ buf' = [buf EXCEPT ![p] = Blank(Zero)]
  /\ verdict' = [verdict EXCEPT ![p] = "none"]
  /\ out' = [out EXCEPT ![p] = NoOut]
  /\ UNCHANGED <<dev, damaged, asked, mishap>>

(* Power fails: every process is gone, the medium keeps what it has. *)
PowerLoss ==
  /\ dev' \in [Fields -> Values]
  /\ \A f \in Fields : dev'[f] \in TornVals(f)
  /\ mishap' = (mishap \/ \E p \in Tools : InWindow(p))
  /\ pc' = [p \in Tools |-> "idle"]
  /\ fd' = [p \in Tools |-> "closed"]
  /\ req' = [p \in Tools |-> Get("update_flag")]
  /\ buf' = [p \in Tools |-> Blank(Zero)]
  /\ verdict' = [p \in Tools |-> "none"]
  /\ out' = [p \in Tools |-> NoOut]
  /\ UNCHANGED <<soc, damaged, asked>>

Step(p) == /\ \/ main(p) \/ veeprom_format(p)
              \/ FetchGood(p) \/ FetchFails(p) \/ MemErase(p) \/ StartVolumeUpdate(p)
              \/ ProgramGood(p) \/ ProgramFails(p)
              \/ ReadGood(p) \/ Verify(p) \/ ReadFails(p) \/ veeprom_exit(p)
           /\ UNCHANGED soc

Next == (\E p \in Tools : Step(p)) \/ PowerLoss

Spec == Init /\ [][Next]_vars

-----------------------------------------------------------------------------
(* Properties. *)

(* Every variable has its type. *)
TypeOK ==
  /\ soc \in Socs
  /\ dev \in [Fields -> Values]
  /\ damaged \in BOOLEAN
  /\ pc \in [Tools -> {"idle", "fetch", "erase", "volup", "program", "read", "verify", "exit"}]
  /\ fd \in [Tools -> {"open", "closed"}]
  /\ req \in [Tools -> Calls]
  /\ buf \in [Tools -> [Fields -> Values]]
  /\ verdict \in [Tools -> {"none", "ok", "error"}]
  /\ out \in [Tools -> Values \cup {NoOut, Garbled}]
  /\ asked \in [Fields -> SUBSET Values]
  /\ mishap \in BOOLEAN

(* Between updates the record holds, in every field, a value that somebody *)
(* asked for, and the volume is readable, unless a power loss or an I/O    *)
(* error hit an update in the window between the erase (or the start of    *)
(* the volume update) and the end of the write: veeprom_write's whole      *)
(* record read-modify-write never invents a value of its own.              *)
DamageNeedsMishap ==
  ~mishap /\ ((Nor \/ Nand) => \A p \in Tools : pc[p] # "program")
    => ~damaged /\ \A f \in Fields : dev[f] \in asked[f]

(* With one writer, a set whose read back agreed (and a format that        *)
(* returned 0) is on the medium and stays there whatever the readers do.   *)
(* On NAND a failed read delivers zeros, so a set of 0 proves nothing.     *)
StoredAsAsked ==
  \A p \in Writers :
    verdict[p] = "ok" =>
      CASE req[p].op = "set"    -> \/ Nand /\ req[p].val = Zero
                                   \/ dev[req[p].field] = req[p].val
        [] req[p].op = "format" -> dev = Blank(Zero)
        [] OTHER                -> FALSE

(* On eMMC a reader prints a value that some process asked for, or a reset *)
(* reason without a NUL (of eight bytes, or still erased) that runs on     *)
(* into its uninitialised buffer.                                          *)
PrintedWasAsked ==
  \A p \in Tools : out[p] # NoOut =>
    \/ out[p] \in asked[req[p].field]
    \/ out[p] = Garbled /\ asked["reset_reason"] \cap (LongReasons \cup {Erased}) # {}

(* The changes under way, as the abstract store sees them. *)
Request(r) == IF r.op = "set" THEN [f \in {r.field} |-> r.val] ELSE Blank(Zero)

Pending == {Request(req[p]) : p \in {q \in Tools : pc[q] # "idle" /\ Changes(req[q])}}

(* A board that boots from NOR or NAND shows the abstract store nothing.   *)
ShownRecord  == IF Nor \/ Nand THEN Blank(Zero) ELSE dev
ShownPending == IF Nor \/ Nand THEN {} ELSE Pending

Store == INSTANCE AtomicStore WITH Vals <- Values, store <- ShownRecord, pending <- ShownPending

(* On eMMC, with one writer at a time, veeprom_write is an atomic update   *)
(* of the requested fields, whatever calls fail and whenever power is      *)
(* lost: readers and interruptions never see or leave a partial change.    *)
RefinesStore == Store!Spec
=============================================================================
