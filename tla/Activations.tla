---------------------------- MODULE Activations -----------------------------
(***************************************************************************)
(* What CALL, INVOKE and RET promise programs whose procedures keep their  *)
(* own stack balanced and leave through their own RET: activations that    *)
(* nest, each giving its caller back what it found.                        *)
(***************************************************************************)
EXTENDS SequencesExt

VARIABLES control,    \* the instruction to run next
          registers,  \* their contents
          words,      \* the words of memory
          open,       \* activations of helpers, innermost last
          over        \* what ended the program, "no" while it goes on

vars == <<control, registers, words, open, over>>

Inner == Last(open)

\* An activation knows where its caller resumes, which registers get which contents back,
\* which instructions are its own, and which words belong to its callers.
Init == open = <<>> /\ over = "no"

CallersKeepTheirWords == \A a \in Inner.callers : words'[a] = words[a]

Work ==
  /\ over = "no" /\ over' = "no" /\ UNCHANGED open
  /\ open # <<>> => control' \in Inner.body /\ CallersKeepTheirWords

Call ==
  /\ over = "no" /\ over' = "no"
  /\ open' # <<>> /\ Front(open') = open
  /\ LET a == Last(open')
     IN  /\ control' \in a.body
         /\ \A r \in DOMAIN a.registers : a.registers[r] = registers[r]
         /\ \A w \in a.callers : words'[w] = words[w]

Return ==
  /\ over = "no" /\ over' = "no" /\ open # <<>> /\ open' = Front(open)
  /\ control' = Inner.resume
  /\ \A r \in DOMAIN Inner.registers : registers'[r] = Inner.registers[r]
  /\ CallersKeepTheirWords

\* A return ends the program only when no helper is left to return from.
End ==
  /\ over = "no" /\ over' # "no" /\ UNCHANGED open
  /\ over' = "returned" => open = <<>>

Next == Work \/ Call \/ Return \/ End

Spec == Init /\ [][Next]_vars

=============================================================================
