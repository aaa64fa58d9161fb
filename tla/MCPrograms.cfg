SPECIFICATION SumSpec
INVARIANTS
       FilesIntact
    CrashLeavesFilesApart ArithmeticIsExact DecodersAgree
PROPERTIES
     CopyIsExact FaultsAreInvisible
CHECK_DEADLOCK FALSE
