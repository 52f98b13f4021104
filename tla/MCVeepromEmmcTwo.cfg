SPECIFICATION Spec
CONSTANTS
  Tools = {t1, t2}
  t1 = t1
  t2 = t2
  Writers = {t1, t2}
  Socs <- MCEmmcPinSocs
  FormatMedia = {"EMMC"}
  FlagVals <- MCFlagVals
  ReasonVals <- MCReasonVals
  LongReasons <- MCLongReasons
  Records <- MCRecords
INVARIANTS
  PrintedWasAsked
