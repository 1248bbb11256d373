------------------------------- MODULE Turns --------------------------------
(* What a lock promises those who work under it: that they take turns.  The   *)
(* lock of a device promises it to polls and prints (parser.py), the lock of  *)
(* the domain to the calls of the print service (__init__.py:86-88).          *)

CONSTANT Callers

VARIABLES
    waiting,          \* those that wait for their turn
    working,          \* the one whose turn it is
    over              \* those that have ended, however they did

vars == <<waiting, working, over>>

Init == waiting = {} /\ working = {} /\ over = {}

(* A caller asks for its turn. *)
Wait(c) ==
    /\ c \notin waiting \cup working \cup over
    /\ waiting' = waiting \cup {c}
    /\ UNCHANGED <<working, over>>

(* It gets its turn when nobody else has it. *)
Take(c) ==
    /\ c \in waiting
    /\ working = {}
    /\ waiting' = waiting \ {c}
    /\ working' = {c}
    /\ UNCHANGED over

(* Its turn ends, and it may ask for another. *)
Yield(c) ==
    /\ c \in working
    /\ working' = working \ {c}
    /\ UNCHANGED <<waiting, over>>

(* It ends, before, in or after a turn, and takes nobody else's with it. *)
End(c) ==
    /\ c \notin over
    /\ waiting' = waiting \ {c}
    /\ working' = working \ {c}
    /\ over' = over \cup {c}

Next == \E c \in Callers : Wait(c) \/ Take(c) \/ Yield(c) \/ End(c)

Spec == Init /\ [][Next]_vars
=============================================================================
