CONSTANTS
  NAXSI_LOG_MAX = 64
  NGX_MAX_ERROR_STR = 66
  SizeBits = 16
  SizeT = 65536
  Rid = 6
  Key = 2
  Reports <- MCReports
SPECIFICATION Spec
INVARIANTS
  WithinBuffer
  FieldsAccounted
  LinesCarryRid
CHECK_DEADLOCK FALSE
