--------------------------- MODULE AbstractMemory ---------------------------
(***************************************************************************)
(* What virtual memory promises to user programs: each address space is a  *)
(* private array of pages; a page changes only when a thread of the space  *)
(* writes it, and Fork may add pages of zeroes at the end.                 *)
(***************************************************************************)
EXTENDS Integers, FiniteSets

CONSTANTS
    Spaces,         \* the address spaces
    Image,          \* the pages of each space when its program starts
    StackPages,     \* how many pages a Fork adds
    Zero            \* the contents of a page of zeroes

VARIABLES
    mem,            \* mem[s]: the pages of space s, from 0
    count           \* how many writes there have been

MInit == mem = Image /\ count = 0

(* Every write is of a value of its own.                                   *)
Write(s, p) ==
    /\ count' = count + 1
    /\ mem' = [mem EXCEPT ![s][p] = <<"data", count + 1>>]

Grow(s) ==
    LET n == Cardinality(DOMAIN mem[s])
    IN  /\ mem' = [mem EXCEPT ![s] = [p \in 0..(n + StackPages - 1) |->
                                        IF p < n THEN mem[s][p] ELSE Zero]]
        /\ UNCHANGED count

MNext ==
    \E s \in Spaces :
        \/ \E p \in DOMAIN mem[s] : Write(s, p)
        \/ Grow(s)

MSpec == MInit /\ [][MNext]_<<mem, count>>
=============================================================================
