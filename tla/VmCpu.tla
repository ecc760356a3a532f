------------------------------- MODULE VmCpu -------------------------------
(***************************************************************************)
(* The simulated CPU of src/core/vm_cpu.c: canonical registers, the names  *)
(* that alias parts of them, four named flags, for each flag whether its   *)
(* value means anything and which instruction last left it undefined, and  *)
(* the set of register families a program has written.                     *)
(*                                                                         *)
(* A word of w bits is a number below Modulus(w).  The widths and the sign *)
(* bit of each are constants, so nothing depends on a byte having eight    *)
(* bits.                                                                   *)
(***************************************************************************)
EXTENDS Integers

CONSTANTS
    Byte, Word, Dword,  \* the operand widths in bits: 8, 16 and 32 in the code
    SignBit             \* the weight of the sign bit of each width

Widths == {Byte, Word, Dword}

ASSUME WidthsAssumption ==
    /\ Byte \in Nat /\ Word \in Nat /\ Dword \in Nat
    /\ 1 < Byte /\ Byte < Word /\ Word < Dword
    /\ SignBit \in [Widths -> Nat \ {0}]
    /\ SignBit[Byte] < SignBit[Word] /\ SignBit[Word] < SignBit[Dword]

Modulus(w) == 2 * SignBit[w]
Mask(w) == Modulus(w) - 1
Values(w) == 0..Mask(w)
Low(x, w) == x % Modulus(w)
IsNegative(x, w) == x >= SignBit[w]
SignedValue(x, w) == IF IsNegative(x, w) THEN x - Modulus(w) ELSE x

-----------------------------------------------------------------------------
(* Registers and the names of their parts. *)

Families == {"EAX", "EBX", "ECX", "EDX", "ESI", "EDI", "EBP", "ESP"}
Flags == {"CF", "ZF", "SF", "OF"}

Part(family, high, width) == [family |-> family, high |-> high, width |-> width]

Alias ==
    [EAX |-> Part("EAX", FALSE, Dword), AX |-> Part("EAX", FALSE, Word),
     AH  |-> Part("EAX", TRUE, Byte),   AL |-> Part("EAX", FALSE, Byte),
     EBX |-> Part("EBX", FALSE, Dword), BX |-> Part("EBX", FALSE, Word),
     BH  |-> Part("EBX", TRUE, Byte),   BL |-> Part("EBX", FALSE, Byte),
     ECX |-> Part("ECX", FALSE, Dword), CX |-> Part("ECX", FALSE, Word),
     CH  |-> Part("ECX", TRUE, Byte),   CL |-> Part("ECX", FALSE, Byte),
     EDX |-> Part("EDX", FALSE, Dword), DX |-> Part("EDX", FALSE, Word),
     DH  |-> Part("EDX", TRUE, Byte),   DL |-> Part("EDX", FALSE, Byte),
     ESI |-> Part("ESI", FALSE, Dword), SI |-> Part("ESI", FALSE, Word),
     EDI |-> Part("EDI", FALSE, Dword), DI |-> Part("EDI", FALSE, Word),
     EBP |-> Part("EBP", FALSE, Dword), BP |-> Part("EBP", FALSE, Word),
     ESP |-> Part("ESP", FALSE, Dword), SP |-> Part("ESP", FALSE, Word)]

RegisterNames == DOMAIN Alias
RegisterWidth(name) == Alias[name].width

\* The weight of the lowest bit of an alias in its register.
Scale(name) == IF Alias[name].high THEN Modulus(Byte) ELSE 1

ReadRegister(cpu, name) ==
    Low(cpu.reg[Alias[name].family] \div Scale(name), RegisterWidth(name))

\* An alias is replaced, the rest of its register stays, and the family counts
\* as written.
WriteRegister(cpu, name, value) ==
    LET family == Alias[name].family
        change == Low(value, RegisterWidth(name)) - ReadRegister(cpu, name)
    IN  [cpu EXCEPT !.reg[family] = @ + change * Scale(name),
                    !.written = @ \cup {family}]

-----------------------------------------------------------------------------
(* Flags.  An origin is Valid or the mnemonic that left the flag undefined. *)

Valid == "valid"

\* A slip: the family is not marked.
WriteFlagsUntracked(cpu, values) ==
    [cpu EXCEPT
        !.flag = [f \in Flags |-> IF f \in DOMAIN values THEN values[f] ELSE @[f]],
        !.origin = [f \in Flags |-> IF f \in DOMAIN values THEN Valid ELSE @[f]]]

\* Writing a flag makes it valid.
WriteFlags(cpu, values) ==
    [cpu EXCEPT
        !.flag = [f \in Flags |-> IF f \in DOMAIN values THEN values[f] ELSE @[f]],
        !.origin = [f \in Flags |-> IF f \in DOMAIN values THEN Valid ELSE @[f]],
        !.written = @ \cup {"EFLAGS"}]

\* A flag is left undefined: its bit keeps its old value.
MarkUndefined(cpu, flags, opcode) ==
    [cpu EXCEPT
        !.origin = [f \in Flags |-> IF f \in flags THEN opcode ELSE @[f]],
        !.written = @ \cup {"EFLAGS"}]

\* Flags of left + right and of left - right at width w.
AddFlags(left, right, w) ==
    LET result == Low(left + right, w)
    IN  [CF |-> left + right > Mask(w),
         ZF |-> result = 0,
         SF |-> IsNegative(result, w),
         OF |-> /\ IsNegative(left, w) = IsNegative(right, w)
                /\ IsNegative(left, w) # IsNegative(result, w)]

\* A slip: the overflow rule of the sum.
SubFlagsAsSum(left, right, w) ==
    LET result == Low(left - right, w)
    IN  [CF |-> left < right, ZF |-> result = 0, SF |-> IsNegative(result, w),
         OF |-> AddFlags(left, right, w).OF]

SubFlags(left, right, w) ==
    LET result == Low(left - right, w)
    IN  [CF |-> left < right,
         ZF |-> result = 0,
         SF |-> IsNegative(result, w),
         OF |-> /\ IsNegative(left, w) # IsNegative(right, w)
                /\ IsNegative(left, w) # IsNegative(result, w)]

-----------------------------------------------------------------------------
(* A CPU at startup: given contents, flags valid, nothing written. *)

StartupCpu(registers, flags) ==
    [reg |-> registers, flag |-> flags,
     origin |-> [f \in Flags |-> Valid], written |-> {}]
=============================================================================
