------------------------------- MODULE VmAlu -------------------------------
(***************************************************************************)
(* The instructions of src/core/vm_exec.c that compute: moves, arithmetic, *)
(* logic, shifts, multiplication and division, over the CPU of VmCpu and a *)
(* small memory; and the two checks the source run makes before it steps   *)
(* such an instruction.  Procedures, jumps and the stack are VmExec's.     *)
(*                                                                         *)
(* A machine is a CPU and a memory.  ...Outcome(i, x) is the handler of    *)
(* instruction i on machine x: a status and the machine it leaves.  Memory *)
(* is a set of cells of one DWORD, some of them read-only; an access       *)
(* touches the low part of a cell, and any other address is unmapped.      *)
(***************************************************************************)
EXTENDS VmCpu, Sequences, FiniteSetsExt

CONSTANTS
    Starts,     \* machines a program may start with
    Menu(_),    \* the instructions a program may hold at its n-th step
    Policies,   \* what to do about undefined flags: [use, shift]
    MaxSteps,   \* how many instructions a program is
    Writable,   \* the addresses of cells that can be written
    NoBase      \* a memory operand without a register

VARIABLES
    machine,    \* [cpu, mem]
    twin,       \* the same program where an undefined flag has the opposite value
    policy,     \* an element of Policies
    startup,    \* the machine the program started with
    last,       \* the last instruction and what became of it
    compared,   \* the two values the flags compare, if they do
    steps

vars == <<machine, twin, policy, startup, last, compared, steps>>

-----------------------------------------------------------------------------
(* Operands. *)

Reg(name) == [kind |-> "reg", name |-> name]
Imm(value) == [kind |-> "imm", value |-> value]
Mem(base, displacement, w) ==
    [kind |-> "mem", base |-> base, displacement |-> displacement, width |-> w]
NoOperand == [kind |-> "none"]
Instruction(op, dst, src) == [op |-> op, dst |-> dst, src |-> src, factor |-> 0]

IsRegister(o) == o.kind = "reg"
IsMemory(o) == o.kind = "mem"
IsDestination(o) == IsRegister(o) \/ IsMemory(o)
OperandWidth(o) == IF IsRegister(o) THEN RegisterWidth(o.name) ELSE o.width

Address(x, o) ==
    Low(o.displacement + (IF o.base = NoBase THEN 0 ELSE ReadRegister(x.cpu, o.base)), Dword)

Readable(x, o) == IsMemory(o) => Address(x, o) \in DOMAIN x.mem

ReadOperand(x, o, w) ==
    CASE o.kind = "imm" -> Low(o.value, w)
      [] o.kind = "reg" -> Low(ReadRegister(x.cpu, o.name), w)
      [] o.kind = "mem" -> Low(x.mem[Address(x, o)], w)

Outcome(status, x) == [status |-> status, machine |-> x]
Done(x) == Outcome("ok", x)

WriteOperand(x, o, w, value) ==
    LET a == Address(x, o) IN
    IF IsRegister(o)
    THEN Done([x EXCEPT !.cpu = WriteRegister(@, o.name, Low(value, w))])
    ELSE IF a \in Writable
    THEN Done([x EXCEPT !.mem[a] = @ - Low(@, w) + Low(value, w)])
    ELSE Outcome("memory-error", x)

\* The destination is written last; if that fails the CPU is put back.
Commit(x, cpu, o, w, value) ==
    LET written == WriteOperand([x EXCEPT !.cpu = cpu], o, w, value)
    IN  IF written.status = "ok" THEN written ELSE Outcome(written.status, x)

-----------------------------------------------------------------------------
(* Moves, arithmetic and logic with two operands. *)

Bits(v) == {k \in 0..Dword - 1 : (v \div 2^k) % 2 = 1}
FromBits(S) == MapThenSumSet(LAMBDA k : 2^k, S)

LogicalOps == {"AND", "OR", "XOR", "TEST"}
BinaryOps == {"MOV", "ADD", "SUB", "CMP", "ADC", "SBB"} \cup LogicalOps

Logical(op, left, right) ==
    LET l == Bits(left)  r == Bits(right)
    IN  FromBits(CASE op \in {"AND", "TEST"} -> l \cap r
                   [] op = "OR" -> l \cup r
                   [] op = "XOR" -> (l \ r) \cup (r \ l))

LogicalFlags(result, w) ==
    [CF |-> FALSE, ZF |-> result = 0, SF |-> IsNegative(result, w), OF |-> FALSE]

Fits(v, w) == -SignBit[w] <= v /\ v < SignBit[w]

CarryIn(cpu) == IF cpu.flag["CF"] THEN 1 ELSE 0

AdcFlags(left, right, carry, w) ==
    LET result == Low(left + right + carry, w)
    IN  [CF |-> left + right + carry > Mask(w), ZF |-> result = 0,
         SF |-> IsNegative(result, w),
         OF |-> ~Fits(SignedValue(left, w) + SignedValue(right, w) + carry, w)]

\* A slip: the borrow is added to the subtrahend before they are compared.
SbbFlagsWrapping(left, right, borrow, w) ==
    LET result == Low(left - right - borrow, w)
    IN  [CF |-> left < Low(right + borrow, w), ZF |-> result = 0,
         SF |-> IsNegative(result, w),
         OF |-> ~Fits(SignedValue(left, w) - SignedValue(right, w) - borrow, w)]

SbbFlags(left, right, borrow, w) ==
    LET result == Low(left - right - borrow, w)
    IN  [CF |-> left < right + borrow, ZF |-> result = 0,
         SF |-> IsNegative(result, w),
         OF |-> ~Fits(SignedValue(left, w) - SignedValue(right, w) - borrow, w)]

BinarySupported(i) ==
    /\ IsDestination(i.dst)
    /\ i.src.kind # "none"
    /\ ~(IsMemory(i.dst) /\ IsMemory(i.src))
    /\ i.src.kind = "imm" \/ OperandWidth(i.src) = OperandWidth(i.dst)

BinaryOutcome(i, x) ==
    LET w == OperandWidth(i.dst)
        l == ReadOperand(x, i.dst, w)
        r == ReadOperand(x, i.src, w)
        carry == CarryIn(x.cpu)
        Result(flags, value) == Commit(x, WriteFlags(x.cpu, flags), i.dst, w, value)
    IN
    IF ~BinarySupported(i) THEN Outcome("unsupported-operand", x)
    ELSE IF ~Readable(x, i.src) \/ (i.op # "MOV" /\ ~Readable(x, i.dst))
    THEN Outcome("memory-error", x)
    ELSE CASE i.op = "MOV" -> WriteOperand(x, i.dst, w, r)
           [] i.op = "ADD" -> Result(AddFlags(l, r, w), l + r)
           [] i.op = "SUB" -> Result(SubFlags(l, r, w), l - r)
           [] i.op = "ADC" -> Result(AdcFlags(l, r, carry, w), l + r + carry)
           [] i.op = "SBB" -> Result(SbbFlags(l, r, carry, w), l - r - carry)
           [] i.op = "CMP" -> Done([x EXCEPT !.cpu = WriteFlags(@, SubFlags(l, r, w))])
           [] i.op = "TEST" ->
                Done([x EXCEPT !.cpu = WriteFlags(@, LogicalFlags(Logical("TEST", l, r), w))])
           [] OTHER ->
                LET v == Logical(i.op, l, r) IN Result(LogicalFlags(v, w), v)

-----------------------------------------------------------------------------
(* One operand: NEG, INC, DEC, NOT.  INC and DEC keep the carry, its *)
(* validity included.                                                *)

UnaryOps == {"NEG", "INC", "DEC", "NOT"}

\* A slip: the carry counts as defined again.
KeepCarryBit(cpu, before) == [cpu EXCEPT !.flag["CF"] = before.flag["CF"]]

KeepCarry(cpu, before) ==
    [cpu EXCEPT !.flag["CF"] = before.flag["CF"], !.origin["CF"] = before.origin["CF"]]

UnaryOutcome(i, x) ==
    LET w == OperandWidth(i.dst)
        v == ReadOperand(x, i.dst, w)
        Stepped(flags) == KeepCarry(WriteFlags(x.cpu, flags), x.cpu)
    IN
    IF ~IsDestination(i.dst) \/ i.src.kind # "none" THEN Outcome("unsupported-operand", x)
    ELSE IF ~Readable(x, i.dst) THEN Outcome("memory-error", x)
    ELSE CASE i.op = "NEG" -> Commit(x, WriteFlags(x.cpu, SubFlags(0, v, w)), i.dst, w, -v)
           [] i.op = "INC" -> Commit(x, Stepped(AddFlags(v, 1, w)), i.dst, w, v + 1)
           [] i.op = "DEC" -> Commit(x, Stepped(SubFlags(v, 1, w)), i.dst, w, v - 1)
           [] i.op = "NOT" -> Commit(x, x.cpu, i.dst, w, Mask(w) - v)

-----------------------------------------------------------------------------
(* Exchange: both values are read, and a memory operand is written first. *)

XchgOutcome(i, x) ==
    LET w == OperandWidth(i.dst)
        first == IF IsMemory(i.src) THEN i.src ELSE i.dst
        second == IF IsMemory(i.src) THEN i.dst ELSE i.src
        half == WriteOperand(x, first, w, ReadOperand(x, second, w))
    IN
    IF \/ ~IsDestination(i.dst) \/ ~IsDestination(i.src)
       \/ IsMemory(i.dst) /\ IsMemory(i.src)
       \/ OperandWidth(i.dst) # OperandWidth(i.src)
    THEN Outcome("unsupported-operand", x)
    ELSE IF ~Readable(x, i.dst) \/ ~Readable(x, i.src) THEN Outcome("memory-error", x)
    ELSE IF half.status # "ok" THEN half
    ELSE WriteOperand(half.machine, second, w, ReadOperand(x, first, w))

-----------------------------------------------------------------------------
(* Widening, the carry instructions, and LEA. *)

Extend(from, x, to, w) ==
    WriteRegister(x.cpu, to, SignedValue(ReadRegister(x.cpu, from), w))

MovxOutcome(i, x) ==
    LET w == OperandWidth(i.src)
        v == ReadOperand(x, i.src, w)
    IN
    IF \/ ~IsRegister(i.dst) \/ ~IsDestination(i.src)
       \/ w \notin {Byte, Word} \/ OperandWidth(i.dst) <= w
    THEN Outcome("unsupported-operand", x)
    ELSE IF ~Readable(x, i.src) THEN Outcome("memory-error", x)
    ELSE WriteOperand(x, i.dst, OperandWidth(i.dst),
                      IF i.op = "MOVSX" THEN SignedValue(v, w) ELSE v)

\* The upper half of a doubled accumulator repeats its sign.
SignFill(x, from, to) ==
    WriteRegister(x.cpu, to,
        IF IsNegative(ReadRegister(x.cpu, from), RegisterWidth(from)) THEN -1 ELSE 0)

CarryControl(op, cpu) ==
    WriteFlags(cpu, [CF |-> CASE op = "CLC" -> FALSE
                              [] op = "STC" -> TRUE
                              [] op = "CMC" -> ~cpu.flag["CF"]])

ImplicitOps == {"CBW", "CWDE", "CWD", "CDQ", "CLC", "STC", "CMC", "NOP"}

ImplicitOutcome(i, x) ==
    IF i.dst.kind # "none" \/ i.src.kind # "none" THEN Outcome("unsupported-operand", x)
    ELSE Done([x EXCEPT !.cpu =
           CASE i.op = "CBW" -> Extend("AL", x, "AX", Byte)
             [] i.op = "CWDE" -> Extend("AX", x, "EAX", Word)
             [] i.op = "CWD" -> SignFill(x, "AX", "DX")
             [] i.op = "CDQ" -> SignFill(x, "EAX", "EDX")
             [] i.op = "NOP" -> @
             [] OTHER -> CarryControl(i.op, @)])

LeaOutcome(i, x) ==
    IF ~IsRegister(i.dst) \/ ~IsMemory(i.src) \/ OperandWidth(i.dst) # Dword
    THEN Outcome("unsupported-operand", x)
    ELSE WriteOperand(x, i.dst, Dword, Address(x, i.src))

-----------------------------------------------------------------------------
(* Shifts and rotates.  The count is taken modulo the width of a register; *)
(* a count of zero touches nothing, not even a bad address.                *)

ShiftOps == {"SHL", "SAL", "SHR", "SAR"}
RotateOps == {"ROL", "ROR"}

EffectiveCount(i, x) == ReadOperand(x, i.src, Byte) % Dword

\* The result, the bit shifted out last, and the overflow that a count of one
\* defines.
Shifted(result, carry, overflow) == [result |-> result, CF |-> carry, OF |-> overflow]

ShiftLeft(v, n, w) ==
    LET result == Low(v * 2^n, w)
        carry == IsNegative(Low(v * 2^(n - 1), w), w)
    IN  Shifted(result, carry, IsNegative(result, w) # carry)

ShiftRight(v, n, w) ==
    Shifted(v \div 2^n, (v \div 2^(n - 1)) % 2 = 1, IsNegative(v, w))

ShiftArithmeticRight(v, n, w) ==
    LET s == SignedValue(v, w)
    IN  Shifted(Low(s \div 2^n, w), (s \div 2^(n - 1)) % 2 = 1, FALSE)

RotateLeft(v, n, w) ==
    LET k == n % w
        result == Low(v * 2^k, w) + (v \div 2^(w - k))
        carry == result % 2 = 1
    IN  Shifted(result, carry, IsNegative(result, w) # carry)

RotateRight(v, n, w) ==
    LET k == n % w
        result == (v \div 2^k) + Low(v * 2^(w - k), w)
    IN  Shifted(result, IsNegative(result, w),
                IsNegative(result, w) # IsNegative(Low(2 * result, w), w))

Shift(op, v, n, w) ==
    CASE op \in {"SHL", "SAL"} -> ShiftLeft(v, n, w)
      [] op = "SHR" -> ShiftRight(v, n, w)
      [] op = "SAR" -> ShiftArithmeticRight(v, n, w)
      [] op = "ROL" -> RotateLeft(v, n, w)
      [] op = "ROR" -> RotateRight(v, n, w)

ShiftUndefines(op, n, w) ==
    (IF op \in ShiftOps /\ n >= w THEN {"CF"} ELSE {}) \cup
    (IF n # 1 THEN {"OF"} ELSE {})

ShiftCpu(cpu, op, shifted, n, w) ==
    LET flags == [CF |-> shifted.CF, OF |-> shifted.OF, ZF |-> shifted.result = 0,
                  SF |-> IsNegative(shifted.result, w)]
        undefined == ShiftUndefines(op, n, w)
        defined == (IF op \in ShiftOps THEN Flags ELSE {"CF", "OF"}) \ undefined
    IN  MarkUndefined(WriteFlags(cpu, [f \in defined |-> flags[f]]), undefined, op)

ShiftCountSupported(i) ==
    \/ i.src.kind = "imm" /\ i.src.value <= Mask(Byte)
    \/ i.src = Reg("CL")

ShiftOutcome(i, x) ==
    LET w == OperandWidth(i.dst)
        n == EffectiveCount(i, x)
        shifted == Shift(i.op, ReadOperand(x, i.dst, w), n, w)
    IN
    IF ~IsDestination(i.dst) \/ ~ShiftCountSupported(i)
    THEN Outcome("unsupported-operand", x)
    ELSE IF n = 0 THEN Done(x)
    ELSE IF ~Readable(x, i.dst) THEN Outcome("memory-error", x)
    ELSE Commit(x, ShiftCpu(x.cpu, i.op, shifted, n, w), i.dst, w, shifted.result)

-----------------------------------------------------------------------------
(* Multiplication and division.  The accumulator of width w and the register *)
(* above it hold a number of twice the width.                                *)

LowHalf(w) == CASE w = Byte -> "AL" [] w = Word -> "AX" [] w = Dword -> "EAX"
HighHalf(w) == CASE w = Byte -> "AH" [] w = Word -> "DX" [] w = Dword -> "EDX"

PairValue(x, w) ==
    ReadRegister(x.cpu, HighHalf(w)) * Modulus(w) + ReadRegister(x.cpu, LowHalf(w))

SignedPair(x, w) ==
    SignedValue(ReadRegister(x.cpu, HighHalf(w)), w) * Modulus(w)
        + ReadRegister(x.cpu, LowHalf(w))

WritePair(cpu, w, low, high) ==
    WriteRegister(WriteRegister(cpu, LowHalf(w), low), HighHalf(w), high)

\* Division as C does it: the quotient is rounded towards zero.
Abs(n) == IF n < 0 THEN -n ELSE n
Quotient(a, b) ==
    IF (a < 0) = (b < 0) THEN Abs(a) \div Abs(b) ELSE -(Abs(a) \div Abs(b))
Rest(a, b) == a - b * Quotient(a, b)

AccumulatorOps == {"MUL", "IMUL", "DIV", "IDIV"}

Product(i, x, w) ==
    LET v == ReadOperand(x, i.src, w)
        a == ReadRegister(x.cpu, LowHalf(w))
    IN  IF i.op = "MUL" THEN a * v ELSE SignedValue(a, w) * SignedValue(v, w)

MultiplyOutcome(i, x, w) ==
    LET p == Product(i, x, w)
        wide == IF i.op = "MUL" THEN p > Mask(w) ELSE ~Fits(p, w)
    IN  Done([x EXCEPT !.cpu = WriteFlags(WritePair(@, w, p, p \div Modulus(w)),
                                          [CF |-> wide, OF |-> wide])])

Dividend(i, x, w) == IF i.op = "DIV" THEN PairValue(x, w) ELSE SignedPair(x, w)
AsOperand(i, v, w) == IF i.op = "DIV" THEN v ELSE SignedValue(v, w)

DivideOutcome(i, x, w) ==
    LET v == ReadOperand(x, i.src, w)
        divisor == AsOperand(i, v, w)
        dividend == Dividend(i, x, w)
        q == Quotient(dividend, divisor)
    IN  IF divisor = 0 THEN Outcome("divide-by-zero", x)
        ELSE IF ~(IF i.op = "DIV" THEN q <= Mask(w) ELSE Fits(q, w))
        THEN Outcome("quotient-overflow", x)
        ELSE Done([x EXCEPT !.cpu = WritePair(@, w, q, Rest(dividend, divisor))])

AccumulatorOutcome(i, x) ==
    LET w == OperandWidth(i.src) IN
    IF i.dst.kind # "none" \/ ~IsDestination(i.src) THEN Outcome("unsupported-operand", x)
    ELSE IF ~Readable(x, i.src) THEN Outcome("memory-error", x)
    ELSE IF i.op \in {"MUL", "IMUL"} THEN MultiplyOutcome(i, x, w)
    ELSE DivideOutcome(i, x, w)

\* IMUL with a destination, and with a constant factor as third operand.
ExplicitImulOutcome(i, x) ==
    LET w == OperandWidth(i.dst)
        l == IF i.op = "IMUL" THEN ReadOperand(x, i.dst, w) ELSE Low(i.factor, w)
        p == SignedValue(l, w) * SignedValue(ReadOperand(x, i.src, w), w)
    IN
    IF ~IsRegister(i.dst) \/ ~IsDestination(i.src) \/ w \notin {Word, Dword}
    THEN Outcome("unsupported-operand", x)
    ELSE IF ~Readable(x, i.src) THEN Outcome("memory-error", x)
    ELSE Done([x EXCEPT !.cpu = WriteFlags(WriteRegister(@, i.dst.name, p),
                                           [CF |-> ~Fits(p, w), OF |-> ~Fits(p, w)])])

-----------------------------------------------------------------------------
(* One instruction, and which flags the loop's checks say it consumes and *)
(* leaves undefined.                                                      *)

InstructionOutcome(i, x) ==
    CASE i.op \in BinaryOps -> BinaryOutcome(i, x)
      [] i.op \in ShiftOps \cup RotateOps -> ShiftOutcome(i, x)
      [] i.op \in UnaryOps -> UnaryOutcome(i, x)
      [] i.op \in {"MOVSX", "MOVZX"} -> MovxOutcome(i, x)
      [] i.op \in ImplicitOps -> ImplicitOutcome(i, x)
      [] i.op = "XCHG" -> XchgOutcome(i, x)
      [] i.op = "LEA" -> LeaOutcome(i, x)
      [] i.op = "IMUL-IMMEDIATE" \/ (i.op = "IMUL" /\ i.dst.kind # "none") ->
            ExplicitImulOutcome(i, x)
      [] i.op \in AccumulatorOps /\ ~(i.op = "IMUL" /\ i.dst.kind # "none") ->
            AccumulatorOutcome(i, x)

EqualityJumps == {"JE", "JZ", "JNE", "JNZ"}
SignedJumps == {"JL", "JNGE", "JGE", "JNL", "JLE", "JNG", "JG", "JNLE"}
UnsignedJumps == {"JA", "JNBE", "JAE", "JNB", "JB", "JNAE", "JBE", "JNA"}
ConditionalJumps == EqualityJumps \cup SignedJumps \cup UnsignedJumps

JumpTaken(flag, op) ==
    LET less == flag["SF"] # flag["OF"]
    IN  CASE op \in {"JE", "JZ"} -> flag["ZF"]
          [] op \in {"JNE", "JNZ"} -> ~flag["ZF"]
          [] op \in {"JL", "JNGE"} -> less
          [] op \in {"JGE", "JNL"} -> ~less
          [] op \in {"JLE", "JNG"} -> flag["ZF"] \/ less
          [] op \in {"JG", "JNLE"} -> ~flag["ZF"] /\ ~less
          [] op \in {"JAE", "JNB"} -> ~flag["CF"]
          [] op \in {"JB", "JNAE"} -> flag["CF"]
          [] op \in {"JA", "JNBE"} -> ~flag["CF"] /\ ~flag["ZF"]
          [] op \in {"JBE", "JNA"} -> flag["CF"] \/ flag["ZF"]

ConsumedFlags(op) ==
    CASE op \in {"ADC", "SBB", "CMC", "JAE", "JNB", "JB", "JNAE"} -> {"CF"}
      [] op \in {"JE", "JZ", "JNE", "JNZ"} -> {"ZF"}
      [] op \in {"JL", "JNGE", "JGE", "JNL"} -> {"SF", "OF"}
      [] op \in {"JLE", "JNG", "JG", "JNLE"} -> {"ZF", "SF", "OF"}
      [] op \in {"JA", "JNBE", "JBE", "JNA"} -> {"CF", "ZF"}
      [] OTHER -> {}

UndefinedFlags(cpu) == {f \in Flags : cpu.origin[f] # Valid}

\* A slip: the count is not reduced first.
PredictsUndefinedByRawCount(i, x) ==
    /\ i.op \in ShiftOps \cup RotateOps
    /\ ShiftCountSupported(i)
    /\ ReadOperand(x, i.src, Byte) > 1

\* The source run predicts from the count alone that flags will be undefined.
PredictsUndefined(i, x) ==
    /\ i.op \in ShiftOps \cup RotateOps
    /\ ShiftCountSupported(i)
    /\ EffectiveCount(i, x) > 1

Verdict(i, x) ==
    IF /\ i.op \in ShiftOps
       /\ PredictsUndefined(i, x)
       /\ policy.shift = "strict"
    THEN "undefined-shift"
    ELSE IF /\ policy.use = "error"
            /\ ConsumedFlags(i.op) \cap UndefinedFlags(x.cpu) # {}
    THEN "undefined-flag-use"
    ELSE "ok"

-----------------------------------------------------------------------------
(* Running a program: check the next instruction, then execute it, until *)
(* something is not ok or the program is over.                           *)

\* What the parser hands over: every operand is one of the four kinds.
Operands ==
    {NoOperand} \cup [kind : {"imm"}, value : Int] \cup [kind : {"reg"}, name : RegisterNames]
    \cup [kind : {"mem"}, base : RegisterNames \cup {NoBase}, displacement : Int, width : Widths]

Opcodes == BinaryOps \cup UnaryOps \cup ShiftOps \cup RotateOps \cup ImplicitOps
           \cup AccumulatorOps \cup {"MOVSX", "MOVZX", "XCHG", "LEA", "IMUL-IMMEDIATE"}

Instructions == [op : Opcodes, dst : Operands, src : Operands, factor : Int]

\* A program starts on a CPU at startup and on memory that is there.
ASSUME ProgramsAssumption ==
    /\ \A n \in 0..MaxSteps - 1 : Menu(n) \subseteq Instructions
    /\ \A x \in Starts :
          /\ x = [cpu |-> StartupCpu(x.cpu.reg, x.cpu.flag), mem |-> x.mem]
          /\ x.cpu.reg \in [Families -> Values(Dword)]
          /\ x.cpu.flag \in [Flags -> BOOLEAN]
          /\ x.mem \in [DOMAIN x.mem -> Values(Dword)]
          /\ Writable \subseteq DOMAIN x.mem
    /\ MaxSteps \in Nat

NotCompared == [width |-> 0]
NothingYet == [instruction |-> Instruction("NOP", NoOperand, NoOperand), status |-> "ok"]

Init ==
    /\ startup \in Starts
    /\ policy \in Policies
    /\ machine = startup
    /\ twin = startup
    /\ last = NothingYet
    /\ compared = NotCompared
    /\ steps = 0

\* What x would be had each flag that is undefined in it the other value.
OppositeFlags(x) ==
    [x EXCEPT !.cpu.flag =
        [f \in Flags |-> IF f \in UndefinedFlags(x.cpu) THEN ~machine'.cpu.flag[f] ELSE @[f]]]

ComparedBy(i, x, y) ==
    LET w == OperandWidth(i.dst) IN
    IF i.op \in {"CMP", "SUB"}
    THEN [width |-> w, left |-> ReadOperand(x, i.dst, w), right |-> ReadOperand(x, i.src, w)]
    ELSE IF x.cpu.flag = y.cpu.flag /\ x.cpu.origin = y.cpu.origin THEN compared
    ELSE NotCompared

Refuse(i) ==
    /\ Verdict(i, machine) # "ok"
    /\ last' = [instruction |-> i, status |-> Verdict(i, machine)]
    /\ UNCHANGED <<machine, twin, compared>>

Execute(i) ==
    LET outcome == InstructionOutcome(i, machine) IN
    /\ Verdict(i, machine) = "ok"
    /\ machine' = outcome.machine
    /\ twin' = OppositeFlags(InstructionOutcome(i, twin).machine)
    /\ last' = [instruction |-> i, status |-> outcome.status]
    /\ compared' = IF outcome.status = "ok"
                   THEN ComparedBy(i, machine, outcome.machine) ELSE compared

MayStep == last.status = "ok" /\ steps < MaxSteps

Step ==
    /\ MayStep
    /\ \E i \in Menu(steps) : Refuse(i) \/ Execute(i)
    /\ steps' = steps + 1
    /\ UNCHANGED <<policy, startup>>

Finished == ~MayStep /\ UNCHANGED vars

Next == Step \/ Finished

Spec == Init /\ [][Next]_vars

-----------------------------------------------------------------------------
(* What an instruction computes, said without the code's formulas: values as *)
(* numbers with and without sign, shifts as movements of bits.               *)

\* The number the flags and the result of left op right are about.
Exact(op, left, right, carry) ==
    CASE op \in {"ADD", "INC"} -> left + right
      [] op \in {"SUB", "CMP", "DEC", "NEG"} -> left - right
      [] op = "ADC" -> left + right + carry
      [] op = "SBB" -> left - right - carry

ArithmeticFlag(f, op, left, right, carry, w) ==
    LET unsigned == Exact(op, left, right, carry)
        signed == Exact(op, SignedValue(left, w), SignedValue(right, w), carry)
    IN  CASE f = "CF" -> unsigned \notin Values(w)
          [] f = "ZF" -> unsigned % Modulus(w) = 0
          [] f = "SF" -> Low(unsigned, w) >= SignBit[w]
          [] f = "OF" -> ~Fits(signed, w)

Arithmetic == {"ADD", "SUB", "CMP", "ADC", "SBB", "INC", "DEC", "NEG"}

ArithmeticIsExact(i, x, y) ==
    LET w == OperandWidth(i.dst)
        d == ReadOperand(x, i.dst, w)
        left == IF i.op = "NEG" THEN 0 ELSE d
        right == CASE i.op = "NEG" -> d
                   [] i.op \in {"INC", "DEC"} -> 1
                   [] OTHER -> ReadOperand(x, i.src, w)
        carry == CarryIn(x.cpu)
        untouched == IF i.op \in {"INC", "DEC"} THEN {"CF"} ELSE {}
    IN  /\ i.op # "CMP" => \E n \in -2..2 :
              ReadOperand(y, i.dst, w) = Exact(i.op, left, right, carry) + n * Modulus(w)
        /\ \A f \in Flags \ untouched :
              /\ y.cpu.flag[f] = ArithmeticFlag(f, i.op, left, right, carry, w)
              /\ y.cpu.origin[f] = Valid
        /\ \A f \in untouched :
              /\ y.cpu.flag[f] = x.cpu.flag[f]
              /\ y.cpu.origin[f] = x.cpu.origin[f]

\* Where bit k of the operand goes; bits outside 0..w-1 are lost.
Moved(op, k, n, w) ==
    CASE op \in {"SHL", "SAL"} -> k + n
      [] op \in {"SHR", "SAR"} -> k - n
      [] op = "ROL" -> (k + n) % w
      [] op = "ROR" -> (k - n) % w

ShiftIsExact(i, x, y) ==
    LET w == OperandWidth(i.dst)
        n == EffectiveCount(i, x)
        before == Bits(ReadOperand(x, i.dst, w))
        after == Bits(ReadOperand(y, i.dst, w))
        moved == {Moved(i.op, k, n, w) : k \in before}
        signs == IF i.op = "SAR" /\ w - 1 \in before
                 THEN {k \in 0..w - 1 : k >= w - n} ELSE {}
        lastOut == CASE i.op \in {"SHL", "SAL"} -> w - n \in before
                     [] i.op \in {"SHR", "SAR"} -> n - 1 \in before
                     [] i.op = "ROL" -> 0 \in after
                     [] i.op = "ROR" -> w - 1 \in after
    IN  IF n = 0 THEN y = x
        ELSE /\ after = (moved \cap 0..w - 1) \cup signs
             /\ y.cpu.origin["CF"] = Valid => y.cpu.flag["CF"] = lastOut
             /\ y.cpu.origin["OF"] = Valid =>
                   y.cpu.flag["OF"] = ((w - 1 \in before) # (w - 1 \in after))
             /\ i.op \in ShiftOps =>
                   /\ y.cpu.flag["ZF"] = (after = {})
                   /\ y.cpu.flag["SF"] = (w - 1 \in after)

MultiplyIsExact(i, x, y) ==
    LET w == OperandWidth(i.src)
        p == Product(i, x, w)
        upper == ReadRegister(y.cpu, HighHalf(w))
    IN  /\ IF i.op = "MUL" THEN PairValue(y, w) = p ELSE SignedPair(y, w) = p
        /\ y.cpu.flag["CF"] = y.cpu.flag["OF"]
        /\ ~y.cpu.flag["CF"] <=>
              IF i.op = "MUL" THEN upper = 0
              ELSE upper = IF IsNegative(ReadRegister(y.cpu, LowHalf(w)), w)
                           THEN Mask(w) ELSE 0

\* q is the quotient of a by d: the rest is smaller than the divisor and has the
\* sign of the dividend.
IsQuotient(q, a, d) ==
    LET r == a - q * d IN Abs(r) < Abs(d) /\ (r = 0 \/ (r < 0 <=> a < 0))

\* IMUL with a destination reports exactly whether the product was cut.
ExplicitImulIsExact(i, x, y) ==
    LET w == OperandWidth(i.dst)
        left == IF i.op = "IMUL" THEN ReadOperand(x, i.dst, w) ELSE Low(i.factor, w)
        p == SignedValue(left, w) * SignedValue(ReadOperand(x, i.src, w), w)
        kept == ReadOperand(y, i.dst, w)
    IN  /\ (p - kept) % Modulus(w) = 0
        /\ y.cpu.flag["CF"] = (SignedValue(kept, w) # p)
        /\ y.cpu.flag["OF"] = (SignedValue(kept, w) # p)

DivideIsExact(i, x, y) ==
    LET w == OperandWidth(i.src)
        a == Dividend(i, x, w)
        d == AsOperand(i, ReadOperand(x, i.src, w), w)
        q == AsOperand(i, ReadRegister(y.cpu, LowHalf(w)), w)
    IN  /\ IsQuotient(q, a, d)
        /\ AsOperand(i, ReadRegister(y.cpu, HighHalf(w)), w) = a - q * d

\* A division is refused when no quotient fits the accumulator.
NoQuotientFits(i, x) ==
    LET w == OperandWidth(i.src)
        d == AsOperand(i, ReadOperand(x, i.src, w), w)
    IN  \A v \in Values(w) : ~IsQuotient(AsOperand(i, v, w), Dividend(i, x, w), d)

ResultIsExact(i, x, y) ==
    CASE i.op \in Arithmetic -> ArithmeticIsExact(i, x, y)
      [] i.op \in ShiftOps \cup RotateOps -> ShiftIsExact(i, x, y)
      [] i.op \in {"MUL", "IMUL"} /\ i.dst.kind = "none" -> MultiplyIsExact(i, x, y)
      [] i.op = "IMUL-IMMEDIATE" \/ (i.op = "IMUL" /\ i.dst.kind # "none") ->
            ExplicitImulIsExact(i, x, y)
      [] i.op \in {"DIV", "IDIV"} -> DivideIsExact(i, x, y)
      [] OTHER -> TRUE

-----------------------------------------------------------------------------
(* Properties. *)

\* An instruction that succeeds leaves the numbers and the valid flags it is
\* defined to leave: sums and differences with carries and overflow, shifts and
\* rotates bit by bit, whole products, quotients with their rests.  A division is
\* refused only when no quotient fits, and an instruction that is refused, for
\* whatever reason, leaves CPU and memory as they were: the state shown with the
\* diagnostic is the state before it (the flag helpers of vm_cpu.c, the shift,
\* multiply and divide handlers of vm_exec.c, the CPU copies they restore).
ResultsAreExact ==
    [][steps' # steps =>
        /\ last'.status = "ok" => ResultIsExact(last'.instruction, machine, machine')
        /\ last'.status # "ok" => machine' = machine
        /\ last'.status \in {"divide-by-zero", "quotient-overflow"} =>
               NoQuotientFits(last'.instruction, machine)]_vars

\* Once two values have been compared, and until a flag changes, every
\* conditional jump decides the order its mnemonic names, signed or unsigned
\* (the predicates of vm_exec_jump_taken against vm_cpu_update_sub_flags).
BranchesDecideOrder ==
    compared # NotCompared =>
        LET w == compared.width
            l == compared.left        r == compared.right
            sl == SignedValue(l, w)   sr == SignedValue(r, w)
            Takes(ops, order) == \A op \in ops : JumpTaken(machine.cpu.flag, op) <=> order
        IN  /\ Takes({"JE", "JZ"}, l = r)        /\ Takes({"JNE", "JNZ"}, l # r)
            /\ Takes({"JL", "JNGE"}, sl < sr)    /\ Takes({"JGE", "JNL"}, sl >= sr)
            /\ Takes({"JLE", "JNG"}, sl <= sr)   /\ Takes({"JG", "JNLE"}, sl > sr)
            /\ Takes({"JB", "JNAE"}, l < r)      /\ Takes({"JAE", "JNB"}, l >= r)
            /\ Takes({"JBE", "JNA"}, l <= r)     /\ Takes({"JA", "JNBE"}, l > r)

\* Under the error policy for undefined flags, no register, no memory cell, no
\* valid flag and no jump that is not refused depends on the bit an undefined
\* flag happens to hold (the consumer table of the source run against what the
\* handlers read, and the validity each handler marks or keeps).
UndefinedFlagsDoNotLeak ==
    policy.use = "error" =>
        /\ twin.mem = machine.mem
        /\ twin.cpu.reg = machine.cpu.reg
        /\ twin.cpu.origin = machine.cpu.origin
        /\ \A f \in Flags \ UndefinedFlags(machine.cpu) :
              twin.cpu.flag[f] = machine.cpu.flag[f]
        /\ \A op \in ConditionalJumps :
              ConsumedFlags(op) \cap UndefinedFlags(machine.cpu) = {} =>
                  JumpTaken(twin.cpu.flag, op) = JumpTaken(machine.cpu.flag, op)

\* The source run announces undefined flags before the step, from the count
\* alone; when the step succeeds, an announced one has left some flag undefined
\* and any other has made none undefined (the predictions of wasm_api.c against
\* the shift handlers).
PredictionIsHonest ==
    [][(steps' # steps /\ last'.status = "ok") =>
        LET after == UndefinedFlags(machine'.cpu) IN
        IF PredictsUndefined(last'.instruction, machine) THEN after # {}
        ELSE after \subseteq UndefinedFlags(machine.cpu)]_vars

\* A register family that does not count as written still holds its startup
\* value, so a result may call it seeded (mark_register_written of vm_cpu.c).
UnwrittenKeepsStartup ==
    /\ \A r \in Families \ machine.cpu.written :
          machine.cpu.reg[r] = startup.cpu.reg[r]
    /\ "EFLAGS" \notin machine.cpu.written => machine.cpu.flag = startup.cpu.flag
=============================================================================
