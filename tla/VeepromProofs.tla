---------------------------- MODULE VeepromProofs ----------------------------
(***************************************************************************)
(* Theorems about Veeprom for any set of processes, values and initial     *)
(* records: type correctness on every medium; for eMMC with a single       *)
(* writer, that the read-modify-write of the whole record implements       *)
(* AtomicStore through I/O errors and power losses; for eMMC with any      *)
(* number of writers, that no value appears that nobody asked for.         *)
(***************************************************************************)
EXTENDS Veeprom, TLAPS

(* The board keeps the record on eMMC. *)
Emmc == ~Nor /\ ~Nand
SingleWriter == \A p, q \in Writers : p = q

(* The abstract store over the record itself. *)
Record == INSTANCE AtomicStore WITH Vals <- Values, store <- dev, pending <- Pending

LEMMA CallsTyped ==
  ASSUME NEW opts \in SUBSET Options, NEW arg \in Args
  PROVE  main_function(opts, arg) \in Calls
  BY DEF main_function, Args, Calls, Get, Set, Refused, field_of, parameter_check,
         resetreason_para_check, atoi, Values, Fields, Zero

LEMMA PatchTyped ==
  ASSUME NEW r \in Calls, NEW rec \in [Fields -> Values]
  PROVE  Patch(r, rec) \in [Fields -> Values]
  BY DEF Patch, Calls, Values, Blank

LEMMA BlankTyped == /\ Blank(Zero) \in [Fields -> Values]
                    /\ Blank(Erased) \in [Fields -> Values]
                    /\ Get("update_flag") \in Calls
  BY DEF Blank, Values, Get, Calls, Fields

(* Every step of a process keeps every variable in its type. *)
LEMMA StepTyped ==
  ASSUME TypeOK, NEW p \in Tools, Step(p)
  PROVE  TypeOK'
<1>0. UNCHANGED soc BY DEF Step
<1> USE <1>0 DEF TypeOK, Goto, Fail
<1>1. ASSUME NEW r \in Calls, Begin(p, r) PROVE TypeOK'
  BY <1>1 DEF Begin, NewlyAsked, Calls, Values
<1>2. CASE main(p)
  <2>1. PICK r \in Invocations : Begin(p, r) BY <1>2 DEF main
  <2>2. r \in Calls BY CallsTyped DEF Invocations
  <2> QED BY <2>1, <2>2, <1>1
<1>3. CASE veeprom_format(p)
  <2>1. Format \in Calls BY DEF Format, Calls, Fields, Values
  <2> QED BY <1>3, <2>1, <1>1 DEF veeprom_format
<1>4. CASE FetchGood(p)
  BY <1>4, PatchTyped DEF FetchGood
<1>5. CASE FetchFails(p)
  <2>1. Patch(req[p], Blank(Zero)) \in [Fields -> Values] BY PatchTyped, BlankTyped
  <2>2. CASE Nand BY <1>5, <2>1, <2>2 DEF FetchFails
  <2>3. CASE ~Nand BY <1>5, <2>3 DEF FetchFails
  <2> QED BY <2>2, <2>3
<1>6. CASE MemErase(p)
  BY <1>6, BlankTyped DEF MemErase
<1>7. CASE StartVolumeUpdate(p)
  BY <1>7 DEF StartVolumeUpdate
<1>8. CASE ProgramGood(p)
  <2>1. dev' \in [Fields -> Values] BY <1>8 DEF ProgramGood
  <2>2. damaged' \in BOOLEAN /\ mishap' \in BOOLEAN BY <1>8 DEF ProgramGood
  <2>3. fd' \in [Tools -> {"open", "closed"}] BY <1>8 DEF ProgramGood
  <2>4. /\ pc' \in [Tools -> {"idle", "fetch", "erase", "volup", "program", "read", "verify", "exit"}]
        /\ verdict' \in [Tools -> {"none", "ok", "error"}]
    BY <1>8 DEF ProgramGood, WriteReturns
  <2> QED BY <1>8, <2>1, <2>2, <2>3, <2>4 DEF ProgramGood
<1>9. CASE ProgramFails(p)
  <2>1. mishap' \in BOOLEAN BY <1>9 DEF ProgramFails, InWindow
  <2> QED BY <1>9, <2>1 DEF ProgramFails, WriteReturns
<1>10. CASE ReadGood(p)
  <2>1. \A v \in ReadVals(p, req[p].field) : v \in Values
    BY DEF ReadVals, Values, Calls
  <2> QED BY <1>10, <2>1 DEF ReadGood, AfterRead
<1>11. CASE Verify(p)
  BY <1>11 DEF Verify, AfterRead
<1>12. CASE ReadFails(p)
  BY <1>12 DEF ReadFails
<1>13. CASE veeprom_exit(p)
  BY <1>13, BlankTyped DEF veeprom_exit
<1> QED
  BY <1>2, <1>3, <1>4, <1>5, <1>6, <1>7, <1>8, <1>9, <1>10, <1>11, <1>12, <1>13 DEF Step

LEMMA PowerLossTyped ==
  ASSUME TypeOK, PowerLoss
  PROVE  TypeOK'
<1>1. mishap' \in BOOLEAN BY DEF PowerLoss, InWindow, TypeOK
<1> QED BY <1>1, BlankTyped DEF PowerLoss, TypeOK

(* On every medium, and for any number of concurrent processes, all state  *)
(* keeps its type: in particular whatever reaches the record is a value    *)
(* some caller, an erase or a tear can produce.                            *)
THEOREM TypeCorrect == Spec => []TypeOK
<1>1. ASSUME Init PROVE TypeOK
  <2>1. dev \in [Fields -> Values] BY <1>1, RecordAssumption DEF Init
  <2>2. asked \in [Fields -> SUBSET Values] BY <1>1, <2>1 DEF Init
  <2> QED BY <1>1, <2>1, <2>2, BlankTyped DEF Init, TypeOK
<1>2. TypeOK /\ [Next]_vars => TypeOK'
  <2>1. CASE UNCHANGED vars BY <2>1 DEF TypeOK, vars
  <2> QED BY <2>1, StepTyped, PowerLossTyped DEF Next
<1> QED BY <1>1, <1>2, PTL DEF Spec

-----------------------------------------------------------------------------
(* eMMC with one writer. *)

(* The strengthening: a process that is changing something is a writer,    *)
(* and the buffer it is about to write is the current record with its own  *)
(* change applied, i.e. what it read has not gone stale.                   *)
WriterOnly == \A p \in Tools :
  /\ Changes(req[p]) => p \in Writers
  /\ pc[p] \in {"fetch", "program"} => Changes(req[p])
  /\ pc[p] \notin {"erase", "volup"}

FreshBuffer == \A p \in Tools : pc[p] = "program" => buf[p] = Patch(req[p], dev)

EInv == Emmc /\ TypeOK /\ WriterOnly /\ FreshBuffer

(* The board, and so the medium, never changes. *)
LEMMA MediumKept ==
  ASSUME UNCHANGED soc
  PROVE  (Nor' <=> Nor) /\ (Nand' <=> Nand)
  BY DEF Nor, Nand, get_boot_mode

LEMMA EInvInit ==
  ASSUME Init
  PROVE  WriterOnly /\ FreshBuffer
  BY DEF Init, WriterOnly, FreshBuffer, Changes, Get

(* The steps that leave the medium alone. *)
LEMMA QuietStepKeepsInv ==
  ASSUME EInv, UNCHANGED soc, NEW p \in Tools,
         \/ \E r \in Calls : Begin(p, r)
         \/ FetchGood(p) \/ FetchFails(p) \/ ProgramFails(p)
         \/ ReadGood(p) \/ Verify(p) \/ ReadFails(p) \/ veeprom_exit(p)
  PROVE  WriterOnly' /\ FreshBuffer' /\ UNCHANGED dev
<1> USE MediumKept DEF EInv, TypeOK, WriterOnly, FreshBuffer, Emmc, Goto, Fail, Changes, Patch
<1>1. ASSUME NEW r \in Calls, Begin(p, r) PROVE WriterOnly' /\ FreshBuffer' /\ UNCHANGED dev
  <2>1. /\ pc' = [pc EXCEPT ![p] = pc'[p]] /\ req' = [req EXCEPT ![p] = r]
        /\ UNCHANGED <<dev, buf>>
    BY <1>1 DEF Begin
  <2>2. /\ pc'[p] \in {"read", "exit", "fetch"}
        /\ pc'[p] = "fetch" => r.op \in {"set", "format"}
        /\ r.op \in {"set", "format"} => p \in Writers
    BY <1>1 DEF Begin, Calls
  <2>3. WriterOnly' BY <2>1, <2>2
  <2>4. FreshBuffer' BY <2>1, <2>2
  <2> QED BY <2>1, <2>3, <2>4
<1>2. CASE FetchGood(p) BY ZenonT(40), <1>2 DEF FetchGood
<1>3. CASE FetchFails(p) BY <1>3 DEF FetchFails
<1>4. CASE ProgramFails(p) BY <1>4 DEF ProgramFails
<1>5. CASE ReadGood(p) BY <1>5 DEF ReadGood
<1>6. CASE Verify(p) BY <1>6 DEF Verify
<1>7. CASE ReadFails(p) BY <1>7 DEF ReadFails
<1>8. CASE veeprom_exit(p) BY <1>8 DEF veeprom_exit, Get
<1> QED BY <1>1, <1>2, <1>3, <1>4, <1>5, <1>6, <1>7, <1>8

(* The one step that changes the medium replaces it by the writer's view.  *)
LEMMA ProgramKeepsInv ==
  ASSUME EInv, SingleWriter, NEW p \in Tools, ProgramGood(p)
  PROVE  /\ WriterOnly' /\ FreshBuffer'
         /\ dev' = Patch(req[p], dev)
<1> USE DEF EInv, TypeOK, Emmc
<1>1. dev' = buf[p] /\ buf[p] = Patch(req[p], dev)
  BY DEF ProgramGood, FreshBuffer
<1>2. WriterOnly'
  BY DEF ProgramGood, WriterOnly, WriteReturns, Goto, Changes
<1>3. \A q \in Tools : pc'[q] # "program"
  BY DEF ProgramGood, WriterOnly, WriteReturns, Goto, SingleWriter
<1> QED BY <1>1, <1>2, <1>3 DEF FreshBuffer

LEMMA PowerLossKeepsInv ==
  ASSUME EInv, PowerLoss
  PROVE  WriterOnly' /\ FreshBuffer' /\ UNCHANGED dev
<1>1. \A f \in Fields : dev'[f] = dev[f]
  BY DEF PowerLoss, TornVals, EInv, Emmc
<1>2. dev' = dev
  BY <1>1 DEF PowerLoss, EInv, TypeOK
<1>3. WriterOnly' /\ FreshBuffer'
  BY DEF PowerLoss, WriterOnly, FreshBuffer, Changes, Get
<1> QED BY <1>2, <1>3

(* On eMMC a process takes no other step. *)
LEMMA EmmcSteps ==
  ASSUME EInv, NEW p \in Tools, Step(p)
  PROVE  \/ \E r \in Calls : Begin(p, r)
         \/ FetchGood(p) \/ FetchFails(p) \/ ProgramFails(p)
         \/ ReadGood(p) \/ Verify(p) \/ ReadFails(p) \/ veeprom_exit(p)
         \/ ProgramGood(p)
<1>1. main(p) => \E r \in Calls : Begin(p, r)
  BY CallsTyped DEF main, Invocations
<1>2. veeprom_format(p) => \E r \in Calls : Begin(p, r)
  <2>1. Format \in Calls BY DEF Format, Calls, Fields, Values
  <2> QED BY <2>1 DEF veeprom_format
<1>3. ~MemErase(p) /\ ~StartVolumeUpdate(p)
  BY DEF MemErase, StartVolumeUpdate, EInv, WriterOnly
<1> QED BY <1>1, <1>2, <1>3 DEF Step

LEMMA EInvInductive ==
  ASSUME SingleWriter, EInv, [Next]_vars
  PROVE  EInv'
<1>0. ASSUME UNCHANGED soc PROVE Emmc'
  BY <1>0, MediumKept DEF EInv, Emmc
<1>1. CASE UNCHANGED vars
  <2>1. UNCHANGED soc BY <1>1 DEF vars
  <2> QED BY <1>0, <1>1, <2>1, MediumKept
          DEF EInv, TypeOK, WriterOnly, FreshBuffer, vars, Patch, Changes
<1>2. ASSUME NEW p \in Tools, Step(p) PROVE EInv'
  <2>1. TypeOK' BY <1>2, StepTyped DEF EInv
  <2>2. UNCHANGED soc BY <1>2 DEF Step
  <2> QED BY <1>0, <1>2, <2>1, <2>2, EmmcSteps, QuietStepKeepsInv, ProgramKeepsInv DEF EInv
<1>3. CASE PowerLoss
  <2>1. UNCHANGED soc BY <1>3 DEF PowerLoss
  <2> QED BY <1>0, <1>3, <2>1, PowerLossTyped, PowerLossKeepsInv DEF EInv
<1> QED BY <1>1, <1>2, <1>3 DEF Next

LEMMA PatchApplies ==
  ASSUME Emmc, NEW r \in Calls, Changes(r), NEW rec \in [Fields -> Values]
  PROVE  Patch(r, rec) = Record!Apply(rec, Request(r))
<1>1. CASE r.op = "set"
  <2>1. DOMAIN Request(r) = {r.field} /\ Request(r)[r.field] = r.val
    BY <1>1 DEF Request
  <2> QED BY <1>1, <2>1 DEF Patch, Record!Apply, Calls
<1>2. CASE r.op = "format"
  <2>1. DOMAIN Request(r) = Fields /\ \A f \in Fields : Request(r)[f] = Zero
    BY <1>2 DEF Request, Blank
  <2> QED BY <1>2, <2>1 DEF Patch, Record!Apply, Emmc
<1> QED BY <1>1, <1>2 DEF Changes

LEMMA RequestTyped ==
  ASSUME NEW r \in Calls, Changes(r)
  PROVE  Request(r) \in Record!Requests
<1>1. CASE r.op = "set"
  <2>1. Request(r) \in [{r.field} -> Values] BY <1>1 DEF Request, Calls
  <2>2. {r.field} \in SUBSET Fields BY DEF Calls
  <2> QED BY <2>1, <2>2 DEF Record!Requests
<1>2. CASE r.op = "format"
  <2>1. Request(r) \in [Fields -> Values] BY <1>2, BlankTyped DEF Request
  <2> QED BY <2>1 DEF Record!Requests
<1> QED BY <1>1, <1>2 DEF Changes

(* A process becoming active adds at most its own request, and one that    *)
(* ends takes nothing but its own away.                                    *)
LEMMA BeginRefines ==
  ASSUME EInv, NEW p \in Tools, NEW r \in Calls, Begin(p, r)
  PROVE  Record!Begin \/ UNCHANGED <<dev, Pending>>
<1>1. /\ \A q \in Tools \ {p} : req'[q] = req[q] /\ pc'[q] = pc[q]
      /\ pc[p] = "idle" /\ pc'[p] # "idle" /\ req'[p] = r /\ UNCHANGED dev
  BY DEF Begin, Goto, EInv, TypeOK, Calls
<1> DEFINE Active == {q \in Tools : pc[q] # "idle" /\ Changes(req[q])}
<1>a. Pending = {Request(req[q]) : q \in Active} /\ p \notin Active
  BY <1>1 DEF Pending
<1>b. Pending' = {Request(req'[q]) : q \in Active'} BY DEF Pending, Request
<1>c. \A q \in Active : Request(req'[q]) = Request(req[q]) BY <1>1, <1>a
<1>2. CASE Changes(r)
  <2>0. Active' = Active \cup {p} BY <1>1, <1>2 DEF Changes
  <2>1. Pending' = Pending \cup {Request(r)}
    <3> HIDE DEF Active
    <3> QED BY <1>1, <1>a, <1>b, <1>c, <2>0
  <2> QED BY <1>1, <1>2, <2>1, RequestTyped DEF Record!Begin
<1>3. CASE ~Changes(r)
  <2>0. Active' = Active BY <1>1, <1>3 DEF Changes
  <2>1. Pending' = Pending
    <3> HIDE DEF Active
    <3> QED BY <1>a, <1>b, <1>c, <2>0
  <2> QED BY <1>1, <2>1
<1> QED BY <1>2, <1>3

LEMMA PendingKept ==
  ASSUME EInv, NEW p \in Tools,
         \/ FetchGood(p) \/ FetchFails(p) \/ ProgramFails(p)
         \/ ReadGood(p) \/ Verify(p) \/ ReadFails(p) \/ ProgramGood(p)
  PROVE  Pending' = Pending
<1>1. /\ req' = req
      /\ \A q \in Tools : pc'[q] = "idle" <=> pc[q] = "idle"
  BY DEF EInv, TypeOK, FetchGood, FetchFails, ProgramFails, ReadGood, Verify, ReadFails,
         ProgramGood, WriteReturns, Goto, Fail, Emmc
<1> QED BY <1>1 DEF Pending, Request, Changes

LEMMA ExitRefines ==
  ASSUME EInv, NEW p \in Tools, veeprom_exit(p)
  PROVE  Record!End
<1>1. /\ \A q \in Tools \ {p} : req'[q] = req[q] /\ pc'[q] = pc[q]
      /\ pc'[p] = "idle" /\ UNCHANGED dev
  BY DEF veeprom_exit, Goto, EInv, TypeOK
<1>2. Pending' \subseteq Pending BY <1>1 DEF Pending, Request, Changes
<1> QED BY <1>1, <1>2 DEF Record!End

LEMMA ProgramRefines ==
  ASSUME EInv, SingleWriter, NEW p \in Tools, ProgramGood(p)
  PROVE  Record!Commit
<1>1. req[p] \in Calls /\ Changes(req[p]) /\ pc[p] = "program" /\ dev \in [Fields -> Values]
  BY DEF EInv, TypeOK, WriterOnly, ProgramGood
<1>2. Request(req[p]) \in Pending BY <1>1 DEF Pending
<1>3. dev' = Record!Apply(dev, Request(req[p]))
  BY <1>1, ProgramKeepsInv, PatchApplies DEF EInv
<1>4. Pending' = Pending BY PendingKept
<1> QED BY <1>2, <1>3, <1>4 DEF Record!Commit

LEMMA PowerLossRefines ==
  ASSUME EInv, PowerLoss
  PROVE  Record!End
<1>1. dev' = dev BY PowerLossKeepsInv
<1>2. Pending' = {} BY DEF PowerLoss, Pending
<1> QED BY <1>1, <1>2 DEF Record!End

LEMMA StepRefines ==
  ASSUME SingleWriter, EInv, [Next]_vars
  PROVE  [Record!Next]_<<dev, Pending>>
<1>1. CASE UNCHANGED vars
  BY <1>1 DEF vars, Pending, Request, Changes
<1>2. ASSUME NEW p \in Tools, Step(p) PROVE [Record!Next]_<<dev, Pending>>
  <2>1. CASE \E r \in Calls : Begin(p, r)
    BY <2>1, BeginRefines DEF Record!Next
  <2>2. CASE \/ FetchGood(p) \/ FetchFails(p) \/ ProgramFails(p)
             \/ ReadGood(p) \/ Verify(p) \/ ReadFails(p)
    <3>1. UNCHANGED soc BY <1>2 DEF Step
    <3> QED BY <2>2, <3>1, PendingKept, QuietStepKeepsInv
  <2>3. CASE veeprom_exit(p) BY <2>3, ExitRefines DEF Record!Next
  <2>4. CASE ProgramGood(p) BY <2>4, ProgramRefines DEF Record!Next
  <2> QED BY <1>2, <2>1, <2>2, <2>3, <2>4, EmmcSteps
<1>3. CASE PowerLoss BY <1>3, PowerLossRefines DEF Record!Next
<1> QED BY <1>1, <1>2, <1>3 DEF Next

(* With an eMMC the abstract store of RefinesStore is the record itself.   *)
LEMMA StoreIsRecord ==
  ASSUME EInv, EInv', [Record!Next]_<<dev, Pending>>
  PROVE  [Store!Next]_<<ShownRecord, ShownPending>>
<1>1. ShownRecord = dev /\ ShownPending = Pending BY DEF EInv, Emmc, ShownRecord, ShownPending
<1>2. ShownRecord' = dev' /\ ShownPending' = Pending'
  BY DEF EInv, Emmc, ShownRecord, ShownPending
<1>3. Store!Requests = Record!Requests BY DEF Store!Requests, Record!Requests
<1>4. CASE Record!Begin
  BY <1>1, <1>2, <1>3, <1>4 DEF Record!Begin, Store!Begin, Store!Next
<1>5. CASE Record!Commit
  <2>1. \A r : Store!Apply(dev, r) = Record!Apply(dev, r) BY DEF Store!Apply, Record!Apply
  <2> QED BY <1>1, <1>2, <1>5, <2>1 DEF Record!Commit, Store!Commit, Store!Next
<1>6. CASE Record!End
  BY <1>1, <1>2, <1>6 DEF Record!End, Store!End, Store!Next
<1>7. CASE UNCHANGED <<dev, Pending>> BY <1>1, <1>2, <1>7
<1> QED BY <1>4, <1>5, <1>6, <1>7 DEF Record!Next

(* A board without eMMC shows the abstract store no change at all.         *)
LEMMA FlashShowsNothing ==
  ASSUME ~Emmc, [Next]_vars
  PROVE  ~Emmc' /\ UNCHANGED <<ShownRecord, ShownPending>>
<1>1. UNCHANGED soc BY DEF Next, Step, PowerLoss, vars
<1>2. (Nor' <=> Nor) /\ (Nand' <=> Nand) BY <1>1, MediumKept
<1> QED BY <1>2 DEF Emmc, ShownRecord, ShownPending, Blank, Fields, Zero

(* On eMMC, with at most one writer and any number of readers, veeprom.c   *)
(* and ota_tool.c implement the atomic store: every change of the record   *)
(* is exactly one request under way, applied whole, and neither I/O errors *)
(* nor power losses ever leave part of one.                                *)
THEOREM EmmcRefinesStore ==
  ASSUME SingleWriter
  PROVE  Spec => RefinesStore
<1> DEFINE RInv == Emmc => EInv
<1>1. Init => RInv /\ Store!Init
  <2>1. ASSUME Init PROVE dev \in [Fields -> Values] BY <2>1, RecordAssumption DEF Init
  <2>2. ASSUME Init PROVE Pending = {} BY <2>2 DEF Init, Pending
  <2>3. ASSUME Init PROVE TypeOK
    <3>1. asked \in [Fields -> SUBSET Values] BY <2>1, <2>3 DEF Init
    <3> QED BY <2>1, <2>3, <3>1, BlankTyped DEF Init, TypeOK
  <2>4. ASSUME Init, Emmc PROVE EInv BY <2>1, <2>3, <2>4, EInvInit DEF EInv
  <2>5. ASSUME Init PROVE ShownRecord \in [Fields -> Values] /\ ShownPending = {}
    BY <2>1, <2>2, <2>5, BlankTyped DEF ShownRecord, ShownPending
  <2> QED BY <2>4, <2>5 DEF Store!Init
<1>2. RInv /\ [Next]_vars => RInv'
  <2>1. CASE Emmc BY <2>1, EInvInductive
  <2>2. CASE ~Emmc BY <2>2, FlashShowsNothing
  <2> QED BY <2>1, <2>2
<1>3. RInv /\ [Next]_vars => [Store!Next]_<<ShownRecord, ShownPending>>
  <2>1. CASE Emmc
    <3>1. ASSUME EInv, [Next]_vars PROVE [Store!Next]_<<ShownRecord, ShownPending>>
      <4>1. EInv' BY <3>1, EInvInductive
      <4> QED BY <3>1, <4>1, StepRefines, StoreIsRecord
    <3> QED BY <2>1, <3>1
  <2>2. CASE ~Emmc BY <2>2, FlashShowsNothing
  <2> QED BY <2>1, <2>2
<1> QED BY <1>1, <1>2, <1>3, PTL DEF Spec, RefinesStore, Store!Spec, Store!vars

-----------------------------------------------------------------------------
(* eMMC with any number of writers. *)

(* Each process is about to write, in every field, what somebody asked     *)
(* for: its own request over a record that held nothing else.              *)
AskedInv ==
  /\ \A f \in Fields : dev[f] \in asked[f]
  /\ ~damaged
  /\ \A p \in Tools :
       /\ pc[p] \notin {"erase", "volup"}
       /\ pc[p] = "fetch" => \/ req[p].op = "set" /\ req[p].val \in asked[req[p].field]
                             \/ req[p].op = "format" /\ \A f \in Fields : Zero \in asked[f]
       /\ pc[p] = "program" => \A f \in Fields : buf[p][f] \in asked[f]

PrintedInv ==
  /\ \A p \in Tools : out[p] # NoOut => pc[p] = "exit"
  /\ PrintedWasAsked

LEMMA BeginAsks ==
  ASSUME TypeOK, AskedInv, PrintedInv, NEW p \in Tools, NEW r \in Calls, Begin(p, r)
  PROVE  AskedInv' /\ PrintedInv'
<1> USE DEF TypeOK, AskedInv, PrintedInv
<1>1. /\ pc' = [pc EXCEPT ![p] = pc'[p]] /\ req' = [req EXCEPT ![p] = r]
      /\ pc[p] = "idle" /\ asked' = NewlyAsked(r) /\ UNCHANGED <<dev, damaged, buf, out>>
      /\ pc'[p] \in {"read", "exit", "fetch"}
      /\ pc'[p] = "fetch" => r.op \in {"set", "format"}
  BY DEF Begin, Goto, Calls
<1>2. \A f \in Fields : asked[f] \subseteq asked'[f]
  BY <1>1 DEF NewlyAsked
<1>3. /\ r.op = "set" => r.val \in asked'[r.field]
      /\ r.op = "format" => \A f \in Fields : Zero \in asked'[f]
  BY <1>1 DEF NewlyAsked, Calls
<1>4. AskedInv'
  <2>1. \A f \in Fields : dev'[f] \in asked'[f]
    BY <1>1, <1>2
  <2> SUFFICES ASSUME NEW q \in Tools
               PROVE  /\ pc'[q] \notin {"erase", "volup"}
                      /\ pc'[q] = "fetch" =>
                           \/ req'[q].op = "set" /\ req'[q].val \in asked'[req'[q].field]
                           \/ req'[q].op = "format" /\ \A f \in Fields : Zero \in asked'[f]
                      /\ pc'[q] = "program" => \A f \in Fields : buf'[q][f] \in asked'[f]
    BY <1>1, <2>1
  <2>2. CASE q = p
    BY <1>1, <1>3, <2>2
  <2>3. CASE q # p
    <3>1. pc'[q] = pc[q] /\ req'[q] = req[q] /\ buf'[q] = buf[q] /\ req[q].field \in Fields
      BY <1>1, <2>3 DEF Calls
    <3> QED BY <1>2, <3>1
  <2> QED BY <2>2, <2>3
<1>5. out[p] = NoOut
  BY <1>1
<1>6. PrintedWasAsked'
  <2> SUFFICES ASSUME NEW q \in Tools, out'[q] # NoOut
               PROVE  \/ out'[q] \in asked'[req'[q].field]
                      \/ out'[q] = Garbled /\ asked'["reset_reason"] \cap (LongReasons \cup {Erased}) # {}
    BY DEF PrintedWasAsked
  <2>1. q # p /\ out'[q] = out[q] /\ req'[q] = req[q] /\ req[q].field \in Fields
    BY <1>1, <1>5 DEF Calls
  <2>2. "reset_reason" \in Fields
    BY DEF Fields
  <2> QED BY <1>2, <2>1, <2>2 DEF PrintedWasAsked
<1> QED BY <1>1, <1>4, <1>5, <1>6

LEMMA ReadPrintsAsked ==
  ASSUME TypeOK, AskedInv, PrintedInv, Emmc, NEW p \in Tools, ReadGood(p)
  PROVE  AskedInv' /\ PrintedInv'
<1> USE DEF TypeOK, AskedInv, PrintedInv, Emmc
<1>1. req[p].field \in Fields
  BY DEF Calls
<1>2. PICK v \in ReadVals(p, req[p].field) :
        \/ out' = [out EXCEPT ![p] = v]
        \/ Unterminated(req[p].field, v) /\ out' = [out EXCEPT ![p] = Garbled]
  BY DEF ReadGood
<1>3. v \in asked[req[p].field]
  BY <1>1, <1>2 DEF ReadVals
<1>4. UNCHANGED <<dev, damaged, buf, req, asked>> /\ pc' = [pc EXCEPT ![p] = "exit"]
  BY DEF ReadGood, Goto
<1>5. AskedInv'
  BY <1>4
<1>6. PrintedWasAsked'
  BY <1>2, <1>3, <1>4 DEF PrintedWasAsked, Unterminated
<1>7. (\A q \in Tools : out[q] # NoOut => pc[q] = "exit")'
  BY <1>2, <1>4
<1> QED BY <1>5, <1>6, <1>7

LEMMA AskedStep ==
  ASSUME TypeOK, AskedInv, PrintedInv, Emmc, NEW p \in Tools, Step(p)
  PROVE  AskedInv' /\ PrintedInv'
<1>1. CASE main(p)
  <2>1. PICK r \in Invocations : Begin(p, r) BY <1>1 DEF main
  <2>2. r \in Calls BY CallsTyped DEF Invocations
  <2> QED BY <2>1, <2>2, BeginAsks
<1>2. CASE veeprom_format(p)
  <2>1. Format \in Calls BY DEF Format, Calls, Fields, Values
  <2> QED BY <1>2, <2>1, BeginAsks DEF veeprom_format
<1> USE DEF TypeOK, AskedInv, PrintedInv, Emmc, Goto, Fail, PrintedWasAsked
<1>3. CASE FetchGood(p)
  <2>1. \A f \in Fields : Patch(req[p], dev)[f] \in asked[f]
    BY <1>3 DEF FetchGood, Patch
  <2> QED BY <1>3, <2>1 DEF FetchGood
<1>4. CASE FetchFails(p) BY <1>4 DEF FetchFails
<1>5. CASE MemErase(p) \/ StartVolumeUpdate(p) BY <1>5 DEF MemErase, StartVolumeUpdate
<1>6. CASE ProgramGood(p)
  <2>1. /\ dev' = buf[p] /\ pc[p] = "program" /\ ~damaged' /\ UNCHANGED <<req, buf, out, asked>>
        /\ pc' = [pc EXCEPT ![p] = pc'[p]] /\ pc'[p] \in {"verify", "exit"}
    BY <1>6 DEF ProgramGood, WriteReturns
  <2> QED BY <2>1
<1>7. CASE ProgramFails(p) BY <1>7 DEF ProgramFails
<1>8. CASE ReadGood(p) BY <1>8, ReadPrintsAsked
<1>9. CASE Verify(p) BY <1>9 DEF Verify
<1>10. CASE ReadFails(p) BY <1>10 DEF ReadFails
<1>11. CASE veeprom_exit(p) BY <1>11 DEF veeprom_exit
<1> QED BY <1>1, <1>2, <1>3, <1>4, <1>5, <1>6, <1>7, <1>8, <1>9, <1>10, <1>11 DEF Step

LEMMA PowerLossAsks ==
  ASSUME TypeOK, AskedInv, Emmc, PowerLoss
  PROVE  AskedInv' /\ PrintedInv'
<1>1. \A f \in Fields : dev'[f] = dev[f]
  BY DEF PowerLoss, TornVals, Emmc
<1> QED BY <1>1 DEF PowerLoss, AskedInv, PrintedInv, PrintedWasAsked

EmmcAsked == TypeOK /\ (Emmc => AskedInv /\ PrintedInv)

LEMMA AskedAlways == Spec => []EmmcAsked
<1>1. Init => AskedInv /\ PrintedInv
  BY DEF Init, AskedInv, PrintedInv, PrintedWasAsked, Get
<1>2. EmmcAsked /\ [Next]_vars => (Emmc => AskedInv /\ PrintedInv)'
  <2> SUFFICES ASSUME EmmcAsked, [Next]_vars, Emmc' PROVE AskedInv' /\ PrintedInv'
    OBVIOUS
  <2>1. UNCHANGED soc BY DEF Next, Step, PowerLoss, vars
  <2>2. Emmc /\ TypeOK /\ AskedInv /\ PrintedInv
    BY <2>1, MediumKept DEF Emmc, EmmcAsked
  <2>3. CASE UNCHANGED vars
    BY <2>2, <2>3 DEF vars, AskedInv, PrintedInv, PrintedWasAsked
  <2> QED BY <2>2, <2>3, AskedStep, PowerLossAsks DEF Next
<1>3. EmmcAsked /\ (Emmc => AskedInv /\ PrintedInv)' /\ TypeOK' => EmmcAsked'
  BY DEF EmmcAsked
<1>4. Init /\ TypeOK => EmmcAsked
  BY <1>1 DEF EmmcAsked
<1> QED BY <1>2, <1>3, <1>4, TypeCorrect, PTL DEF Spec

(* On eMMC, with any number of processes that read and write the whole     *)
(* record at once, updates may be lost, but ota_tool prints only values    *)
(* that some process asked for or that were there at first.                *)
THEOREM EmmcPrintsAsked == Spec => [](Emmc => PrintedWasAsked)
<1>1. EmmcAsked => (Emmc => PrintedWasAsked)
  BY DEF EmmcAsked, PrintedInv
<1> QED BY <1>1, AskedAlways, PTL

(* On eMMC no failing call and no power loss, and no two writers, ever     *)
(* leave a field with a value that nobody asked for.                       *)
THEOREM EmmcNeverDamaged == Spec => [](Emmc => DamageNeedsMishap)
<1>1. EmmcAsked => (Emmc => DamageNeedsMishap)
  BY DEF EmmcAsked, AskedInv, DamageNeedsMishap
<1> QED BY <1>1, AskedAlways, PTL

-----------------------------------------------------------------------------
(* All media with one writer that does not format NAND. *)

Working(p) == pc[p] \in {"fetch", "erase", "volup", "program"}

WriterInv == \A p \in Tools :
  /\ Changes(req[p]) => p \in Writers
  /\ Working(p) => Changes(req[p])
  /\ pc[p] = "erase" => Nor
  /\ pc[p] = "volup" => Nand
  /\ Nand => req[p].op # "format"

(* Until a mishap: only the writer's window hides a damaged volume or a    *)
(* record that is not what was asked for, and what it is about to program  *)
(* is, over cells that were erased or that it clears.                      *)
IntactInv ==
  /\ damaged => Nand /\ \E p \in Tools : pc[p] = "program"
  /\ (Nor /\ \E p \in Tools : pc[p] = "program") \/ \A f \in Fields : dev[f] \in asked[f]
  /\ \A p \in Tools :
       /\ pc[p] = "fetch" => \/ req[p].op = "set" /\ req[p].val \in asked[req[p].field]
                             \/ req[p].op = "format" /\ \A f \in Fields : Zero \in asked[f]
       /\ pc[p] \in {"erase", "volup", "program"} => \A f \in Fields : buf[p][f] \in asked[f]
       /\ Nor /\ pc[p] = "program" => \A f \in Fields : dev[f] = Erased \/ buf[p][f] = Zero

DamageInv == TypeOK /\ WriterInv /\ (~mishap => IntactInv)

LEMMA AloneAtWork ==
  ASSUME SingleWriter, WriterInv, NEW p \in Tools, NEW q \in Tools, Working(p), Working(q)
  PROVE  p = q
BY DEF SingleWriter, WriterInv

LEMMA OneMedium == ~(Nor /\ Nand)
BY DEF Nor, Nand

LEMMA BeginIntact ==
  ASSUME DamageInv, UNCHANGED soc, NEW p \in Tools, NEW r \in Calls, Begin(p, r),
         Nand => r.op # "format"
  PROVE  WriterInv' /\ (~mishap' => IntactInv')
<1>1. /\ pc' = [pc EXCEPT ![p] = pc'[p]] /\ req' = [req EXCEPT ![p] = r]
      /\ pc[p] = "idle" /\ asked' = NewlyAsked(r) /\ UNCHANGED <<dev, damaged, buf, mishap>>
      /\ pc'[p] \in {"read", "exit", "fetch"}
      /\ pc'[p] = "fetch" => r.op \in {"set", "format"}
      /\ Changes(r) => p \in Writers
  BY DEF Begin, Goto, Calls, DamageInv, TypeOK
<1>2. (Nor' <=> Nor) /\ (Nand' <=> Nand)
  BY MediumKept
<1>3. WriterInv'
  BY <1>1, <1>2 DEF DamageInv, TypeOK, WriterInv, Working, Changes
<1>4. ASSUME ~mishap' PROVE IntactInv'
  <2>1. IntactInv
    BY <1>1, <1>4 DEF DamageInv
  <2>2. \A f \in Fields : asked[f] \subseteq asked'[f]
    BY <1>1 DEF NewlyAsked, DamageInv, TypeOK
  <2>3. /\ r.op = "set" => r.val \in asked'[r.field]
        /\ r.op = "format" => \A f \in Fields : Zero \in asked'[f]
    BY <1>1 DEF NewlyAsked, Calls
  <2>4. /\ pc'[p] # "program" /\ pc[p] # "program" /\ req'[p] = r
        /\ \A q \in Tools \ {p} : pc'[q] = pc[q] /\ req'[q] = req[q] /\ req[q].field \in Fields
    BY <1>1 DEF DamageInv, TypeOK, Calls
  <2>5. \A q \in Tools : pc'[q] = "program" <=> pc[q] = "program"
    BY <2>4
  <2>6. /\ damaged' => Nand' /\ \E q \in Tools : pc'[q] = "program"
        /\ (Nor' /\ \E q \in Tools : pc'[q] = "program") \/ \A f \in Fields : dev'[f] \in asked'[f]
    BY <1>1, <1>2, <2>1, <2>2, <2>5 DEF IntactInv
  <2>7. ASSUME NEW q \in Tools
        PROVE  /\ pc'[q] = "fetch" =>
                    \/ req'[q].op = "set" /\ req'[q].val \in asked'[req'[q].field]
                    \/ req'[q].op = "format" /\ \A f \in Fields : Zero \in asked'[f]
               /\ pc'[q] \in {"erase", "volup", "program"} => \A f \in Fields : buf'[q][f] \in asked'[f]
               /\ Nor' /\ pc'[q] = "program" => \A f \in Fields : dev'[f] = Erased \/ buf'[q][f] = Zero
    <3>1. CASE q = p BY <1>1, <2>3, <2>4, <3>1
    <3>2. CASE q # p BY <1>1, <1>2, <2>1, <2>2, <2>4, <3>2 DEF IntactInv
    <3> QED BY <3>1, <3>2
  <2> QED BY <2>6, <2>7 DEF IntactInv
<1> QED BY <1>3, <1>4

LEMMA WorkIntact ==
  ASSUME SingleWriter, DamageInv, UNCHANGED soc, NEW p \in Tools,
         \/ FetchGood(p) \/ FetchFails(p) \/ MemErase(p) \/ StartVolumeUpdate(p)
         \/ ProgramGood(p) \/ ProgramFails(p)
  PROVE  WriterInv' /\ (~mishap' => IntactInv')
<1>1. (Nor' <=> Nor) /\ (Nand' <=> Nand)
  BY MediumKept
<1>2. /\ Working(p) /\ UNCHANGED <<req, asked>> /\ pc' = [pc EXCEPT ![p] = pc'[p]]
      /\ ~mishap' => ~mishap
      /\ pc'[p] \in {"erase", "volup", "program", "verify", "exit"}
      /\ pc'[p] = "erase" => Nor
      /\ pc'[p] = "volup" => Nand
  BY DEF FetchGood, FetchFails, MemErase, StartVolumeUpdate, ProgramGood, ProgramFails, WriteReturns,
         Goto, Fail, Working, DamageInv, TypeOK
<1>3. WriterInv'
  BY <1>1, <1>2 DEF DamageInv, TypeOK, WriterInv, Working, Changes
<1>4. \A q \in Tools \ {p} : pc[q] = pc'[q] /\ ~Working(q)
  BY <1>2, AloneAtWork DEF DamageInv, TypeOK
<1>5. ASSUME ~mishap' PROVE IntactInv'
  <2>1. IntactInv /\ TypeOK /\ WriterInv
    BY <1>2, <1>5 DEF DamageInv
  <2>2. SUFFICES /\ damaged' => Nand /\ pc'[p] = "program"
                 /\ (Nor /\ pc'[p] = "program") \/ \A f \in Fields : dev'[f] \in asked[f]
                 /\ pc'[p] \in {"erase", "volup", "program"} => \A f \in Fields : buf'[p][f] \in asked[f]
                 /\ Nor /\ pc'[p] = "program" => \A f \in Fields : dev'[f] = Erased \/ buf'[p][f] = Zero
    BY <1>1, <1>2, <1>4 DEF IntactInv, Working
  <2>3. /\ damaged => Nand /\ pc[p] = "program"
        /\ (Nor /\ pc[p] = "program") \/ \A f \in Fields : dev[f] \in asked[f]
    BY <1>4, <2>1 DEF IntactInv, Working
  <2> USE <2>1, <2>3, OneMedium DEF TypeOK, Goto, Fail
  <2>4. CASE FetchGood(p)
    <3>1. pc[p] = "fetch" /\ buf'[p] = Patch(req[p], dev) /\ UNCHANGED <<dev, damaged>>
      BY <2>4 DEF FetchGood
    <3>2. \A f \in Fields : Patch(req[p], dev)[f] \in asked[f]
      BY <3>1 DEF Patch, IntactInv, WriterInv
    <3>3. Nor /\ pc'[p] = "program" => req[p].op # "set"
      BY <2>4 DEF FetchGood
    <3>4. Nor /\ pc'[p] = "program" => \A f \in Fields : Patch(req[p], dev)[f] = Zero
      BY <3>3 DEF Patch
    <3> QED BY <3>1, <3>2, <3>4
  <2>5. CASE FetchFails(p)
    BY <1>5, <2>5 DEF FetchFails
  <2>6. CASE MemErase(p)
    <3>1. /\ dev' = Blank(Erased) /\ pc[p] = "erase" /\ pc'[p] = "program" /\ UNCHANGED <<damaged, buf>>
      BY <1>5, <2>6 DEF MemErase
    <3>2. Nor /\ \A f \in Fields : buf[p][f] \in asked[f]
      BY <3>1 DEF IntactInv, WriterInv
    <3> QED BY <3>1, <3>2 DEF Blank
  <2>7. CASE StartVolumeUpdate(p)
    <3>1. pc[p] = "volup" /\ UNCHANGED <<dev, buf>> /\ pc'[p] \in {"program", "exit"}
      BY <2>7 DEF StartVolumeUpdate
    <3>2. Nand /\ \A f \in Fields : buf[p][f] \in asked[f]
      BY <3>1 DEF IntactInv, WriterInv
    <3>3. damaged' => pc'[p] = "program"
      BY <2>7, <2>3 DEF StartVolumeUpdate
    <3> QED BY <3>1, <3>2, <3>3
  <2>8. CASE ProgramGood(p)
    <3>1. pc[p] = "program" /\ ~damaged' /\ pc'[p] \in {"verify", "exit"} /\ dev' \in [Fields -> Values]
      BY <2>8 DEF ProgramGood, WriteReturns
    <3>2. \A f \in Fields : buf[p][f] \in asked[f]
      BY <3>1 DEF IntactInv
    <3>3. CASE Nor
      <4>1. \A f \in Fields : dev[f] = Erased \/ buf[p][f] = Zero
        BY <3>1, <3>3 DEF IntactInv
      <4>2. \A f \in Fields : dev'[f] \in NorCell(dev[f], buf[p][f])
        BY <2>8, <3>3 DEF ProgramGood
      <4>3. \A f \in Fields : dev'[f] = buf[p][f]
        BY <4>1, <4>2 DEF NorCell
      <4> QED BY <3>1, <3>2, <4>3
    <3>4. CASE ~Nor
      <4>1. dev' = buf[p]
        BY <2>8, <3>4 DEF ProgramGood
      <4> QED BY <3>1, <3>2, <4>1
    <3> QED BY <3>3, <3>4
  <2>9. CASE ProgramFails(p)
    <3>1. ~Nor /\ ~Nand
      BY <1>5, <2>9 DEF ProgramFails, InWindow
    <3> QED BY <2>9, <3>1 DEF ProgramFails
  <2> QED BY <2>4, <2>5, <2>6, <2>7, <2>8, <2>9
<1> QED BY <1>3, <1>5

LEMMA RestIntact ==
  ASSUME DamageInv, UNCHANGED soc, NEW p \in Tools,
         ReadGood(p) \/ Verify(p) \/ ReadFails(p) \/ veeprom_exit(p)
  PROVE  WriterInv' /\ (~mishap' => IntactInv')
<1>1. (Nor' <=> Nor) /\ (Nand' <=> Nand)
  BY MediumKept
<1>2. /\ UNCHANGED <<dev, damaged, asked, mishap>> /\ pc' = [pc EXCEPT ![p] = pc'[p]]
      /\ ~Working(p) /\ pc'[p] \in {"exit", "idle"}
      /\ req'[p] = req[p] \/ req'[p] = Get("update_flag")
      /\ \A q \in Tools \ {p} : req'[q] = req[q] /\ buf'[q] = buf[q]
  BY DEF ReadGood, Verify, ReadFails, veeprom_exit, Goto, Fail, Working, DamageInv, TypeOK
<1>3. \A q \in Tools \ {p} : pc'[q] = pc[q] /\ pc[p] # "program" /\ pc'[p] # "program"
  BY <1>2 DEF DamageInv, TypeOK, Working
<1>4. WriterInv'
  BY <1>1, <1>2, <1>3 DEF DamageInv, WriterInv, Working, Changes, Get
<1>5. ASSUME IntactInv PROVE IntactInv'
  <2>1. \A q \in Tools : pc'[q] = "program" <=> pc[q] = "program"
    BY <1>2, <1>3 DEF Working, DamageInv, TypeOK
  <2>2. /\ damaged' => Nand' /\ \E q \in Tools : pc'[q] = "program"
        /\ (Nor' /\ \E q \in Tools : pc'[q] = "program") \/ \A f \in Fields : dev'[f] \in asked'[f]
    BY <1>1, <1>2, <1>5, <2>1 DEF IntactInv
  <2>3. pc'[p] \notin {"fetch", "erase", "volup", "program"}
    BY <1>2
  <2> QED BY <1>1, <1>2, <1>3, <1>5, <2>2, <2>3 DEF IntactInv
<1> QED BY <1>2, <1>4, <1>5 DEF DamageInv

LEMMA PowerLossIntact ==
  ASSUME DamageInv, PowerLoss
  PROVE  WriterInv' /\ (~mishap' => IntactInv')
<1>1. WriterInv'
  BY DEF PowerLoss, WriterInv, Working, Changes, Get
<1>2. ASSUME ~mishap' PROVE IntactInv'
  <2>1. IntactInv /\ \A p \in Tools : ~InWindow(p)
    BY <1>2 DEF PowerLoss, DamageInv
  <2>2. ~damaged
    BY <2>1 DEF IntactInv, InWindow
  <2>3. \A f \in Fields : dev'[f] = dev[f]
    BY <2>1 DEF PowerLoss, TornVals, InWindow
  <2>4. \A f \in Fields : dev[f] \in asked[f]
    BY <2>1 DEF IntactInv, InWindow
  <2> QED BY <2>2, <2>3, <2>4 DEF PowerLoss, IntactInv
<1> QED BY <1>1, <1>2

LEMMA DamageInvInductive ==
  ASSUME SingleWriter, "SPINAND" \notin FormatMedia, DamageInv, [Next]_vars
  PROVE  WriterInv' /\ (~mishap' => IntactInv')
<1>1. CASE UNCHANGED vars
  <2>1. (Nor' <=> Nor) /\ (Nand' <=> Nand) BY <1>1, MediumKept DEF vars
  <2> QED BY <1>1, <2>1 DEF vars, DamageInv, WriterInv, IntactInv, Working, Changes
<1>2. ASSUME NEW p \in Tools, Step(p) PROVE WriterInv' /\ (~mishap' => IntactInv')
  <2>0. UNCHANGED soc BY <1>2 DEF Step
  <2>1. CASE main(p)
    <3>1. PICK r \in Invocations : Begin(p, r) BY <2>1 DEF main
    <3>2. r \in Calls BY CallsTyped DEF Invocations
    <3>3. r.op # "format" BY DEF Invocations, main_function, Get, Set, Refused
    <3> QED BY <2>0, <3>1, <3>2, <3>3, BeginIntact
  <2>2. CASE veeprom_format(p)
    <3>1. Format \in Calls BY DEF Format, Calls, Fields, Values
    <3>2. ~Nand BY <2>2 DEF veeprom_format, Nand
    <3> QED BY <2>0, <2>2, <3>1, <3>2, BeginIntact DEF veeprom_format
  <2> QED BY <1>2, <2>0, <2>1, <2>2, WorkIntact, RestIntact DEF Step
<1> QED BY <1>1, <1>2, PowerLossIntact DEF Next

(* On every medium, with at most one writer and any number of readers: the *)
(* record in the window of an update apart, a field holds a value nobody   *)
(* asked for, or a volume is damaged, only after a power loss or a failed  *)
(* call in that window.  (A format of NAND writes uninitialised memory.)   *)
THEOREM DamageNeedsMishapAlways ==
  ASSUME SingleWriter, "SPINAND" \notin FormatMedia
  PROVE  Spec => []DamageNeedsMishap
<1>1. Init => WriterInv /\ IntactInv
  BY DEF Init, WriterInv, IntactInv, Working, Changes, Get
<1>2. Init /\ TypeOK => DamageInv
  BY <1>1 DEF DamageInv
<1>3. DamageInv /\ TypeOK' /\ [Next]_vars => DamageInv'
  BY DamageInvInductive DEF DamageInv
<1>4. DamageInv => DamageNeedsMishap
  BY DEF DamageInv, IntactInv, DamageNeedsMishap
<1> QED BY <1>2, <1>3, <1>4, TypeCorrect, PTL DEF Spec
-----------------------------------------------------------------------------
(* The read back, on all media, with one writer that does not format NAND. *)

(* What the verdict "ok" of process p claims.  StoredAsAsked is not        *)
(* inductive: a format claims success without a read back, so its buffer   *)
(* must be known before it is programmed; and an earlier claim survives    *)
(* because nobody else is a writer.                                        *)
Claimed(p) ==
  CASE req[p].op = "set"    -> \/ Nand /\ req[p].val = Zero
                               \/ dev[req[p].field] = req[p].val
    [] req[p].op = "format" -> dev = Blank(Zero)
    [] OTHER                -> FALSE

StoredInv == \A p \in Tools :
  /\ verdict[p] = "ok" => pc[p] = "exit" /\ Claimed(p)
  /\ pc[p] = "verify" => req[p].op = "set"
  /\ pc[p] \in {"erase", "program"} /\ req[p].op = "format" => buf[p] = Blank(Zero)

(* A process that changes the record is working; the others keep what they *)
(* claimed.                                                                *)
LEMMA StoredFrame ==
  ASSUME SingleWriter, DamageInv, StoredInv, UNCHANGED soc, NEW p \in Tools,
         \A q \in Tools \ {p} : /\ pc'[q] = pc[q] /\ req'[q] = req[q]
                                /\ buf'[q] = buf[q] /\ verdict'[q] = verdict[q],
         UNCHANGED dev \/ Working(p),
         /\ verdict'[p] = "ok" => pc'[p] = "exit" /\ Claimed(p)'
         /\ pc'[p] = "verify" => req'[p].op = "set"
         /\ pc'[p] \in {"erase", "program"} /\ req'[p].op = "format" => buf'[p] = Blank(Zero)
  PROVE  StoredInv'
<1>1. (Nor' <=> Nor) /\ (Nand' <=> Nand)
  BY MediumKept
<1>2. SUFFICES ASSUME NEW q \in Tools, q # p
               PROVE  /\ verdict'[q] = "ok" => pc'[q] = "exit" /\ Claimed(q)'
                      /\ pc'[q] = "verify" => req'[q].op = "set"
                      /\ pc'[q] \in {"erase", "program"} /\ req'[q].op = "format" => buf'[q] = Blank(Zero)
  BY DEF StoredInv, Blank
<1>3. /\ pc'[q] = pc[q] /\ req'[q] = req[q] /\ buf'[q] = buf[q] /\ verdict'[q] = verdict[q]
  BY <1>2
<1>4. /\ pc'[q] = "verify" => req'[q].op = "set"
      /\ pc'[q] \in {"erase", "program"} /\ req'[q].op = "format" => buf'[q] = Blank(Zero)
  BY <1>3 DEF StoredInv
<1>5. ASSUME verdict'[q] = "ok" PROVE pc'[q] = "exit" /\ Claimed(q)'
  <2>1. verdict[q] = "ok" /\ pc[q] = "exit" /\ Claimed(q)
    BY <1>3, <1>5 DEF StoredInv
  <2>2. Changes(req[q])
    BY <2>1 DEF Claimed, Changes
  <2>3. ~Working(p)
    BY <1>2, <2>2 DEF SingleWriter, DamageInv, WriterInv
  <2>4. dev' = dev
    BY <2>3
  <2> QED BY <1>1, <1>3, <2>1, <2>4 DEF Claimed, Blank
<1> QED BY <1>4, <1>5

LEMMA BeginStored ==
  ASSUME SingleWriter, DamageInv, StoredInv, UNCHANGED soc,
         NEW p \in Tools, NEW r \in Calls, Begin(p, r)
  PROVE  StoredInv'
<1>1. /\ \A q \in Tools \ {p} : /\ pc'[q] = pc[q] /\ req'[q] = req[q]
                                /\ buf'[q] = buf[q] /\ verdict'[q] = verdict[q]
      /\ UNCHANGED dev /\ verdict'[p] # "ok" /\ pc'[p] \in {"read", "exit", "fetch"}
  BY DEF Begin, Goto, DamageInv, TypeOK, Calls
<1> QED BY <1>1, StoredFrame

LEMMA StepStored ==
  ASSUME SingleWriter, DamageInv, StoredInv, NEW p \in Tools, Step(p)
  PROVE  StoredInv'
<1>0. UNCHANGED soc /\ (Nor' <=> Nor) /\ (Nand' <=> Nand)
  BY MediumKept DEF Step
<1>1. CASE main(p)
  <2>1. PICK r \in Invocations : Begin(p, r) BY <1>1 DEF main
  <2>2. r \in Calls BY CallsTyped DEF Invocations
  <2> QED BY <1>0, <2>1, <2>2, BeginStored
<1>2. CASE veeprom_format(p)
  <2>1. Format \in Calls BY DEF Format, Calls, Fields, Values
  <2> QED BY <1>0, <1>2, <2>1, BeginStored DEF veeprom_format
<1> DEFINE Others == \A q \in Tools \ {p} : /\ pc'[q] = pc[q] /\ req'[q] = req[q]
                                            /\ buf'[q] = buf[q] /\ verdict'[q] = verdict[q]
           Own == /\ verdict'[p] = "ok" => pc'[p] = "exit" /\ Claimed(p)'
                  /\ pc'[p] = "verify" => req'[p].op = "set"
                  /\ pc'[p] \in {"erase", "program"} /\ req'[p].op = "format" => buf'[p] = Blank(Zero)
<1>3. ASSUME Others, Own, UNCHANGED dev \/ Working(p) PROVE StoredInv'
  BY <1>0, <1>3, StoredFrame
<1> USE DEF DamageInv, TypeOK, Goto, Fail
<1>4. CASE FetchGood(p)
  <2>1. Others /\ UNCHANGED <<dev, req, verdict>> /\ pc[p] = "fetch"
        /\ pc'[p] \in {"volup", "erase", "program"} /\ buf'[p] = Patch(req[p], dev)
    BY <1>4 DEF FetchGood
  <2>2. verdict[p] # "ok"
    BY <2>1 DEF StoredInv
  <2>3. req[p].op = "format" => buf'[p] = Blank(Zero)
    BY <2>1 DEF Patch, Blank, WriterInv
  <2> QED BY <1>3, <2>1, <2>2, <2>3
<1>5. CASE FetchFails(p)
  <2>1. Others /\ UNCHANGED <<dev, req>> /\ pc[p] = "fetch" /\ pc'[p] \in {"volup", "exit"}
        /\ verdict'[p] \in {verdict[p], "error"}
    BY <1>5 DEF FetchFails
  <2>2. verdict[p] # "ok"
    BY <2>1 DEF StoredInv
  <2> QED BY <1>3, <2>1, <2>2
<1>6. CASE MemErase(p)
  <2>1. Others /\ UNCHANGED <<req, buf, verdict>> /\ pc[p] = "erase" /\ pc'[p] = "program" /\ Working(p)
    BY <1>6 DEF MemErase, Working
  <2>2. verdict[p] # "ok" /\ (req[p].op = "format" => buf'[p] = Blank(Zero))
    BY <2>1 DEF StoredInv
  <2> QED BY <1>3, <2>1, <2>2
<1>7. CASE StartVolumeUpdate(p)
  <2>1. Others /\ UNCHANGED <<dev, req, buf>> /\ pc[p] = "volup" /\ pc'[p] \in {"program", "exit"}
        /\ verdict'[p] \in {verdict[p], "error"}
    BY <1>7 DEF StartVolumeUpdate
  <2>2. verdict[p] # "ok" /\ req[p].op # "format"
    BY <2>1 DEF StoredInv, WriterInv
  <2> QED BY <1>3, <2>1, <2>2
<1>8. CASE ProgramGood(p)
  <2>1. Others /\ UNCHANGED <<req, buf>> /\ pc[p] = "program" /\ Working(p)
    BY <1>8 DEF ProgramGood, WriteReturns, Working
  <2>2. /\ req[p].op = "set" => pc'[p] = "verify" /\ verdict'[p] = verdict[p]
        /\ req[p].op # "set" => pc'[p] = "exit"
    BY <1>8 DEF ProgramGood, WriteReturns
  <2>3. verdict[p] # "ok" /\ req[p].op \in {"set", "format"}
    BY <2>1 DEF StoredInv, WriterInv, Changes
  <2>4. ASSUME req[p].op = "format" PROVE Claimed(p)'
    <3>1. ~Nand /\ buf[p] = Blank(Zero)
      BY <2>1, <2>4 DEF StoredInv, WriterInv
    <3>2. dev' \in [Fields -> Values]
      BY <1>8 DEF ProgramGood
    <3>3. \A f \in Fields : dev'[f] = Zero
      BY <1>8, <3>1 DEF ProgramGood, NorCell, Blank
    <3>4. dev' = Blank(Zero)
      BY <3>2, <3>3 DEF Blank
    <3> QED BY <2>1, <2>4, <3>4 DEF Claimed, Blank
  <2> QED BY <1>3, <2>1, <2>2, <2>3, <2>4
<1>9. CASE ProgramFails(p)
  <2>1. Others /\ UNCHANGED <<dev, req, buf>> /\ pc[p] = "program"
    BY <1>9 DEF ProgramFails, WriteReturns
  <2>2. verdict[p] # "ok" /\ (Nand => req[p].op = "set")
    BY <2>1 DEF StoredInv, WriterInv, Working, Changes
  <2>3. /\ Nand => pc'[p] = "verify" /\ verdict'[p] = verdict[p]
        /\ ~Nand => pc'[p] = "exit" /\ verdict'[p] = "error"
    BY <1>9, <2>2 DEF ProgramFails, WriteReturns
  <2> QED BY <1>3, <2>1, <2>2, <2>3
<1>10. CASE ReadGood(p)
  <2>1. Others /\ UNCHANGED <<dev, req, verdict>> /\ pc[p] = "read" /\ pc'[p] = "exit"
    BY <1>10 DEF ReadGood
  <2>2. verdict[p] # "ok"
    BY <2>1 DEF StoredInv
  <2> QED BY <1>3, <2>1, <2>2
<1>11. CASE Verify(p)
  <2>1. /\ Others /\ UNCHANGED <<dev, req>> /\ pc[p] = "verify" /\ pc'[p] = "exit"
        /\ verdict'[p] = "ok" => req[p].val \in ReadVals(p, req[p].field)
    BY <1>11 DEF Verify
  <2>2. req[p].op = "set"
    BY <2>1 DEF StoredInv
  <2>3. verdict'[p] = "ok" => Claimed(p)'
    BY <1>0, <2>1, <2>2 DEF Claimed, ReadVals
  <2> QED BY <1>3, <2>1, <2>3
<1>12. CASE ReadFails(p)
  <2>1. Others /\ UNCHANGED <<dev, req>> /\ pc'[p] = "exit" /\ verdict'[p] = "error"
    BY <1>12 DEF ReadFails
  <2> QED BY <1>3, <2>1
<1>13. CASE veeprom_exit(p)
  <2>1. Others /\ UNCHANGED dev /\ pc'[p] = "idle" /\ verdict'[p] = "none"
    BY <1>13 DEF veeprom_exit
  <2> QED BY <1>3, <2>1
<1> QED BY <1>1, <1>2, <1>4, <1>5, <1>6, <1>7, <1>8, <1>9, <1>10, <1>11, <1>12, <1>13 DEF Step

(* On every medium, with at most one writer that does not format NAND, and *)
(* any number of readers: what updateflag_set or resetreason_write         *)
(* reported as stored after its read back, or veeprom_format as done, is   *)
(* on the medium until the process ends, after any number of failed calls  *)
(* and power losses before it.                                             *)
THEOREM StoredAsAskedAlways ==
  ASSUME SingleWriter, "SPINAND" \notin FormatMedia
  PROVE  Spec => []StoredAsAsked
<1>1. Init /\ TypeOK => DamageInv /\ StoredInv
  BY DEF Init, DamageInv, WriterInv, IntactInv, StoredInv, Working, Changes, Get
<1>2. DamageInv /\ TypeOK' /\ [Next]_vars => DamageInv'
  BY DamageInvInductive DEF DamageInv
<1>3. DamageInv /\ StoredInv /\ [Next]_vars => StoredInv'
  <2> SUFFICES ASSUME DamageInv, StoredInv, [Next]_vars PROVE StoredInv'
    OBVIOUS
  <2>1. CASE UNCHANGED vars
    <3>1. (Nor' <=> Nor) /\ (Nand' <=> Nand) BY <2>1, MediumKept DEF vars
    <3> QED BY <2>1, <3>1 DEF vars, StoredInv, Claimed, Blank
  <2>2. CASE PowerLoss
    BY <2>2 DEF PowerLoss, StoredInv
  <2> QED BY <2>1, <2>2, StepStored DEF Next
<1>4. DamageInv /\ StoredInv => StoredAsAsked
  BY WritersAssumption DEF DamageInv, StoredInv, StoredAsAsked, Claimed
<1> QED BY <1>1, <1>2, <1>3, <1>4, TypeCorrect, PTL DEF Spec
=============================================================================
