-------------------------- MODULE MCVirtualMemory ---------------------------
EXTENDS VirtualMemory, TLC
CONSTANTS A, B, t1, t2, t3
MCSpaceOf == t1 :> A @@ t2 :> A @@ t3 :> B
MCProgramPages == A :> 0..1 @@ B :> {0}
MCCodePages == {0}
=============================================================================
