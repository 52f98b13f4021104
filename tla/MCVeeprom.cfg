SPECIFICATION Spec
CONSTANTS
  Tools = {t1, t2}
  t1 = t1
  t2 = t2
  Writers = {t1}
  Socs <- MCAllSocs
  FormatMedia = {"EMMC", "SPINOR"}
  FlagVals <- MCFlagVals
  ReasonVals <- MCReasonVals
  LongReasons <- MCLongReasons
  Records <- MCRecords
INVARIANTS
  TypeOK
  StoredAsAsked
  DamageNeedsMishap
PROPERTIES
  RefinesStore
