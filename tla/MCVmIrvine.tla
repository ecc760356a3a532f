----------------------------- MODULE MCVmIrvine -----------------------------
(* Four-bit registers, numbers in base three and four, and strings that end, *)
(* run out of memory, run past the scan limit or hold bytes nobody wrote.    *)
EXTENDS VmIrvine

Byte(b, initialized) == [byte |-> b, initialized |-> initialized]

\* Addresses 1.. hold "a LF 0", 4.. "aa" and no more, 8.. four bytes and a zero,
\* and the last address is not a zero.
MCMemory ==
    [a \in {1, 2, 3, 4, 5, 8, 9, 10, 11, 12, 15} |->
        CASE a \in {3, 12} -> Byte(0, TRUE)
          [] a = 2 -> Byte(13, FALSE)
          [] a = 5 -> Byte(6, FALSE)
          [] a = 9 -> Byte(6, FALSE)
          [] OTHER -> Byte(7, TRUE)]

MCSpans == {[bytes |-> b, lines |-> 0] : b \in {0, 1, 2, 3, 4, 5}}
             \cup {[bytes |-> 1, lines |-> 1], [bytes |-> 2, lines |-> 1]}

MCLimits == {<<0, 2>>, <<2, 1>>, <<5, 1>>}
=============================================================================
