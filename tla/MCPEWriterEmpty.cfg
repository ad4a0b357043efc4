CONSTANTS
  Pool <- EmptyPool
  Absolutes <- NoAbsolutes
  SectionOrder <- Order
  ImportOrder <- Imported
  SectionAlign = 16
  FileAlign = 8
  HeadersSize = 48
  Bases = {64, 256}
  Max16 = 15
  Max32 = 1023
  Max64 = 4095
  MaxObjects = 1
  MaxLinks = 1
  PageSize = 16
  HeaderBytes = 10
  SectionHeaderBytes = 5
SPECIFICATION PESpec
INVARIANT SectionsTile
CHECK_DEADLOCK FALSE
