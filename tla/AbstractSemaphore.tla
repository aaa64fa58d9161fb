------------------------- MODULE AbstractSemaphore --------------------------
(***************************************************************************)
(* What a Semaphore promises its users (threads/synch.h): a number of      *)
(* tokens, a P that takes one token in one step and blocks only while      *)
(* there is none, and a V that adds one.                                   *)
(***************************************************************************)
EXTENDS Naturals

CONSTANTS Threads, InitialValue

VARIABLES tokens,   \* the tokens nobody has taken yet
          blocked   \* the threads inside P that have not taken a token

vars == <<tokens, blocked>>

Init ==
    /\ tokens = InitialValue
    /\ blocked = {}

(* A P that finds no token blocks its caller.                              *)
Block(t) ==
    /\ tokens = 0
    /\ t \notin blocked
    /\ blocked' = blocked \cup {t}
    /\ UNCHANGED tokens

(* A P, blocked before or not, takes a token and returns.                  *)
Take(t) ==
    /\ tokens > 0
    /\ tokens' = tokens - 1
    /\ blocked' = blocked \ {t}

Give ==
    /\ tokens' = tokens + 1
    /\ UNCHANGED blocked

Next == \/ \E t \in Threads : Block(t) \/ Take(t)
        \/ Give

(* Tokens do not lie unused while threads stay blocked.                    *)
Fairness == WF_vars(\E t \in blocked : Take(t))

SafetySpec == Init /\ [][Next]_vars

Spec == SafetySpec /\ Fairness
=============================================================================
