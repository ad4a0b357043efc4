CONSTANTS
  Pool <- ImagePool
  Absolutes <- NoAbsolutes
  SectionOrder <- Order
  ImportOrder <- Imported
  SectionAlign = 16
  FileAlign = 8
  HeadersSize = 48
  Bases = {64, 256, 1000}
  Max16 = 15
  Max32 = 1023
  Max64 = 4095
  MaxObjects = 3
  MaxLinks = 2
  PageSize = 16
  HeaderBytes = 10
  SectionHeaderBytes = 5
SPECIFICATION PESpec
INVARIANTS PETypeOK BytesApart AddressesHold RebaseIsRelink GlobalsUnique RawKept EntriesApart SectionsTile
CHECK_DEADLOCK FALSE
