SPECIFICATION StorageSpec
CONSTANTS
  Programs <- Texts
  WordSize <- SizeInWords
  DataWordSize <- DataSize
  ByteSize <- SizeInBytes
INVARIANTS
  OverflowsAgree
  LayoutFits
  SavingsReal
  SizesFit
CHECK_DEADLOCK FALSE
