----------------------------- MODULE MCPrograms -----------------------------
(* What user programs stand on: Process with tables of two entries,        *)
(* Arguments with pages of eight bytes and calls whose strings and         *)
(* pointers lie across them, FileSystem on a disk with room for two small  *)
(* files and a directory of two entries, Mips with words of eight bits,    *)
(* Simulators with words of four, and Decode. A behaviour is of one of     *)
(* them.                                                                   *)
EXTENDS MipsPrograms, Integers, TLC

VARIABLES
    part,               \* the part that this behaviour is of
    pr_thread, pr_TablePtr, pr_storeTable, pr_freePipe, pr_pipe, pr_ids,
    pr_got, pr_kernel, pr_switches, pr_fault,
    ar_call, ar_at, ar_i, ar_n, ar_again, ar_resident, ar_argv, ar_sp,
    ar_arr, ar_memory, ar_reg, ar_pushed, ar_struck,
    fs_disk, fs_pending, fs_formatted, fs_opened, fs_script, fs_files,
    fs_ops, fs_crashes, fs_quiet, fs_torn, fs_stray, fs_fault,
    code, registers, mem, valid, exited, running, saved, early, faults,
    switches,
    op, a, b, x, sh, sim, exe,
    field, decoded, run, shown

(* The names f and f2 are the same in the characters that are compared.    *)
Names == {"f", "f2", "TestFile"}
Key == [n \in Names |-> IF n = "f2" THEN "f" ELSE n]

(* Calls of Exec. Some names, pointers and strings lie across two pages,   *)
(* one name and one string are too long, one array is not aligned, one     *)
(* string runs out of the memory and two lists of strings out of the stack.*)
Str(addr, text) == [at |-> addr, text |-> text]
ExecCall(name, argv, args) == [name |-> name, argv |-> argv, args |-> args]
ExecCalls ==
    {ExecCall(Str(5, <<1, 2>>), 8, <<Str(6, <<3>>), Str(0, <<4, 5, 6>>)>>),
     ExecCall(Str(6, <<1, 2, 3>>), 0, <<Str(5, <<3, 1>>)>>),
     ExecCall(Str(0, <<1>>), 4, <<Str(6, <<>>), Str(8, <<2, 2>>), Str(1, <<>>)>>),
     ExecCall(Str(0, <<1>>), 8, <<>>),
     ExecCall(Str(0, <<1, 1, 1, 1>>), 8, <<>>),
     ExecCall(Str(0, <<>>), 6, <<Str(2, <<1>>)>>),
     ExecCall(Str(0, <<1, 2>>), 12, <<Str(2, <<1, 2, 3, 4>>)>>),
     ExecCall(Str(0, <<1, 2>>), 12, <<Str(15, <<1, 2, 3>>)>>),
     ExecCall(Str(0, <<1, 2, 3>>), 0, <<Str(4, <<1, 2>>), Str(4, <<1, 2, 3>>), Str(4, <<1, 2, 3>>), Str(4, <<1, 2, 3>>)>>),
     ExecCall(Str(0, <<1, 2, 3>>), 0, [k \in 1..6 |-> Str(4, <<1, 2, 3>>)])}

P == INSTANCE Process WITH
    MAXPROCESS <- 2, Options <- {2, 5, 6}, MaxThreads <- 4,
    MaxSwitches <- 1, thread <- pr_thread, TablePtr <- pr_TablePtr,
    storeTable <- pr_storeTable, freePipe <- pr_freePipe, pipe <- pr_pipe,
    ids <- pr_ids, got <- pr_got, kernel <- pr_kernel,
    switches <- pr_switches, fault <- pr_fault
A == INSTANCE Arguments WITH
    PageSize <- 8, NumPages <- 3, CallerPages <- {0, 1}, MAXSIZE <- 4,
    MAX <- 4, Calls <- ExecCalls, call <- ar_call, at <- ar_at, i <- ar_i,
    n <- ar_n, again <- ar_again, resident <- ar_resident, argv <- ar_argv,
    sp <- ar_sp, arr <- ar_arr, memory <- ar_memory, reg <- ar_reg,
    pushed <- ar_pushed, struck <- ar_struck
F == INSTANCE FileSystem WITH
    NumSectors <- 11, SectorSize <- 2, NumDirect <- 2, NumDirEntries <- 2,
    Split <- 1, Sizes <- {3, 5}, Texts <- {<<1>>, <<2, 3, 4>>},
    TransferSize <- 2, Contents <- <<1, 2>>, FileName <- "TestFile",
    MaxOps <- 5, MaxCrashes <- 1, disk <- fs_disk, pending <- fs_pending,
    formatted <- fs_formatted, opened <- fs_opened, script <- fs_script,
    files <- fs_files, ops <- fs_ops, crashes <- fs_crashes,
    quiet <- fs_quiet, torn <- fs_torn, stray <- fs_stray, fault <- fs_fault
M == INSTANCE Mips WITH
    W <- 8, NumGPRegs <- 4, NumPages <- 6, PageSize <- 8, Results <- {1},
    ResultReg <- 2, MaxFaults <- 6, MaxSwitches <- 1
S == INSTANCE Simulators WITH
    W <- 4
D == INSTANCE Decode WITH
    Regs <- {0, 31}, Shamts <- {0, 31}

processVars == <<pr_thread, pr_TablePtr, pr_storeTable, pr_freePipe,
    pr_pipe, pr_ids, pr_got, pr_kernel, pr_switches, pr_fault>>
argumentsVars == <<ar_call, ar_at, ar_i, ar_n, ar_again, ar_resident,
    ar_argv, ar_sp, ar_arr, ar_memory, ar_reg, ar_pushed, ar_struck>>
filesVars == <<fs_disk, fs_pending, fs_formatted, fs_opened, fs_script,
    fs_files, fs_ops, fs_crashes, fs_quiet, fs_torn, fs_stray, fs_fault>>
mipsVars == <<code, registers, mem, valid, exited, running, saved, early,
    faults, switches>>
sumsVars == <<op, a, b, x, sh, sim, exe>>
decodeVars == <<field, decoded, run, shown>>
allVars == <<part, processVars, argumentsVars, filesVars, mipsVars, sumsVars, decodeVars>>

SumInit ==
    /\ part \in {"process", "arguments", "files", "mips", "sums", "decode"}
    /\ P!Init
    /\ A!Init /\ (part # "arguments" => ar_resident = {} /\ ar_call = ExecCall(Str(0, <<1>>), 8, <<>>))
    /\ F!Init
    /\ M!Init /\ (part # "mips" => valid = {} /\ code = Idle)
    /\ S!Init
    /\ D!Init

SumNext ==
    \/ part = "process" /\ P!Next /\ UNCHANGED <<part, argumentsVars, filesVars, mipsVars, sumsVars, decodeVars>>
    \/ part = "arguments" /\ A!Next /\ UNCHANGED <<part, processVars, filesVars, mipsVars, sumsVars, decodeVars>>
    \/ part = "files" /\ F!Next /\ UNCHANGED <<part, processVars, argumentsVars, mipsVars, sumsVars, decodeVars>>
    \/ part = "mips" /\ M!Next /\ UNCHANGED <<part, processVars, argumentsVars, filesVars, sumsVars, decodeVars>>
    \/ part = "sums" /\ S!Next /\ UNCHANGED <<part, processVars, argumentsVars, filesVars, mipsVars, decodeVars>>
    \/ part = "decode" /\ D!Next /\ UNCHANGED <<part, processVars, argumentsVars, filesVars, mipsVars, sumsVars>>

SumSpec ==
    /\ SumInit /\ [][SumNext]_allVars

-----------------------------------------------------------------------------
(* An id that Exec has returned goes on naming the same process until a    *)
(* thread of it exits, Join returns the exit status of that process if it  *)
(* is called in time, and a store ID is never given back by a process that *)
(* has started.                                                            *)
IdsNameProcesses == part = "process" =>
         P!TypeOK /\ P!StatusOnlyIfInTime /\ P!IdNamesProcess
           /\ P!StoreIdForLife

(* A deleted space is used only after a Fork, a deleted thread only if the *)
(* timer has switched threads inside a system call, and a process that     *)
(* runs still has its pipes, unless two have been put on one end.          *)
NothingUsedAfterDeletion == part = "process" =>
         P!SpaceOutlivesThread /\ P!ThreadOutlivesUse
           /\ P!PipeOutlivesUsers

(* A thread that waits to be joined when it exits waits for ever, without  *)
(* such switches.                                                          *)
NeverReclaimed == P!NeverReclaimed

(* The strings of Exec reach the new process: they are read whole and in   *)
(* order, two tries suffice for the name and the pointers unless the page  *)
(* is lost in between, pointers and strings lie on the new stack aligned   *)
(* and apart if there is room, and whatever is not the first to be written *)
(* to its page is there when the program starts.                           *)
ArgumentsArrive == part = "arguments" =>
         A!StringsAreRead /\ A!TwoTriesSuffice /\ A!StackInOrder
           /\ A!ArgumentsArrive

(* Without a crash in Create or Remove and without a write to a removed    *)
(* file, the free map marks exactly the sectors of the files and of the    *)
(* file system, the directory lists exactly the files created and not      *)
(* removed, each file holds what was last written to each place of it, an  *)
(* OpenFile reads it, and no assertion fails.                              *)
FilesIntact == part = "files" =>
         F!TypeOK /\ F!MapIsExact /\ F!NamesAreUnique /\ F!FilesAsWritten
           /\ F!OpenFileIsCurrent /\ F!NoAssertionFails

(* After a crash at any sector write every listed file has its header, and *)
(* no two share a sector.                                                  *)
CrashLeavesFilesApart == part = "files" => F!CrashLeavesFilesApart

(* Copy leaves a file with the text of the host's file.                    *)
CopyIsExact == F!CopyIsExact

(* Page faults, switches and delayed loads do not change what a program    *)
(* computes, up to its first use of a register in the delay of a load.     *)
FaultsAreInvisible == M!FaultsAreInvisible

(* Overflow is raised exactly when the result is not a word, comparisons   *)
(* order numbers, MULT and MULTU give the product in two words, and the    *)
(* machine and bin/execute.c compute the same, OR, SRL and SRLV apart.     *)
ArithmeticIsExact == part = "sums" => S!ArithmeticIsExact /\ S!MultIsExact /\ S!SimulatorsAgree

(* The machine, runprogram and the disassembler name every instruction     *)
(* alike, the first two take the same immediate from it, and the trace and *)
(* the disassembler show the same registers.                               *)
DecodersAgree == part = "decode" => D!NamesAgree /\ D!OperandsAgree /\ D!TracesAgree
=============================================================================
