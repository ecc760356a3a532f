---------------------------- MODULE VmAlu_proofs ----------------------------
(***************************************************************************)
(* What the computing instructions of vm_exec.c promise for every program, *)
(* every starting machine, every policy and every width of a byte, a word  *)
(* and a doubleword.                                                       *)
(***************************************************************************)
EXTENDS VmAlu, Recursion, FiniteSetTheorems, TLAPS

-----------------------------------------------------------------------------
(* Numbers. *)

LEMMA Sizes ==
  ASSUME NEW w \in Widths
  PROVE  /\ w \in Nat /\ w > 1 /\ SignBit[w] \in Nat /\ SignBit[w] > 0
         /\ Modulus(w) \in Nat /\ Modulus(w) > 0 /\ Mask(w) \in Nat
BY WidthsAssumption DEF Widths, Modulus, Mask

LEMMA LowIsValue ==
  ASSUME NEW w \in Widths, NEW v \in Int
  PROVE  Low(v, w) \in Values(w) /\ Low(v, w) \in Nat
<1>1. Modulus(w) \in Nat /\ Modulus(w) > 0
  BY Sizes
<1>2. v % Modulus(w) \in 0..Modulus(w) - 1
  BY <1>1
<1> QED
  BY <1>1, <1>2 DEF Low, Values, Mask

LEMMA SignedIsInt ==
  ASSUME NEW w \in Widths, NEW v \in Int
  PROVE  SignedValue(v, w) \in Int
BY Sizes DEF SignedValue

\* The powers the shifts multiply and divide by.
LEMMA SubsetsOf ==
  ASSUME NEW n \in Nat
  PROVE  IsFiniteSet(SUBSET (1..n)) /\ Cardinality(SUBSET (1..n)) = 2^n
<1>1. IsFiniteSet(1..n) /\ Cardinality(1..n) = n
  BY FS_Interval
<1> QED
  BY <1>1, FS_SUBSET

LEMMA Power ==
  ASSUME NEW n \in Nat
  PROVE  2^n \in Nat /\ 2^n > 0
<1>1. SUBSET (1..n) # {}
  OBVIOUS
<1>2. IsFiniteSet(SUBSET (1..n)) /\ Cardinality(SUBSET (1..n)) = 2^n
  BY SubsetsOf
<1>3. Cardinality(SUBSET (1..n)) \in Nat /\ Cardinality(SUBSET (1..n)) # 0
  BY <1>1, <1>2, FS_CardinalityType, FS_EmptySet
<1> QED
  BY <1>2, <1>3

-----------------------------------------------------------------------------
(* The sum FromBits folds is a number.  Cardinality is a solution of its *)
(* recursion: 2^k is the number of subsets of 1..k.                      *)

AnyOf(s) == CHOOSE k \in s : TRUE
Weights(s) == UNION {{k} \X SUBSET (1..k) : k \in s}
IsBitSum(f, S) ==
  f = [s \in SUBSET S |-> IF s = {} THEN 0 ELSE 2^AnyOf(s) + f[s \ {AnyOf(s)}]]

LEMMA WeightsCount ==
  ASSUME NEW s \in SUBSET (0..Dword - 1)
  PROVE  /\ Weights({}) = {} /\ IsFiniteSet(Weights(s))
         /\ \A k \in s : Cardinality(Weights(s)) = 2^k + Cardinality(Weights(s \ {k}))
<1>1. Dword \in Nat
  BY WidthsAssumption
<1> DEFINE D == 0..Dword - 1  U == D \X SUBSET (1..Dword)
<1>2. IsFiniteSet(U)
  <2>1. IsFiniteSet(D) /\ IsFiniteSet(1..Dword)
    BY <1>1, FS_Interval
  <2>2. IsFiniteSet(SUBSET (1..Dword))
    BY <2>1, FS_SUBSET
  <2> QED
    BY <2>1, <2>2, FS_Product
<1>3. ASSUME NEW t \in SUBSET D
      PROVE  IsFiniteSet(Weights(t))
  <2>1. Weights(t) \subseteq U
    BY <1>1 DEF Weights
  <2> QED
    BY <1>2, <2>1, FS_Subset
<1>4. ASSUME NEW k \in s
      PROVE  Cardinality(Weights(s)) = 2^k + Cardinality(Weights(s \ {k}))
  <2> DEFINE one == {k} \X SUBSET (1..k)
  <2>1. k \in Nat
    BY <1>1
  <2>2. IsFiniteSet(SUBSET (1..k)) /\ Cardinality(SUBSET (1..k)) = 2^k
    BY <2>1, SubsetsOf
  <2>3. IsFiniteSet({k}) /\ Cardinality({k}) = 1
    BY FS_Singleton
  <2>4. IsFiniteSet(one) /\ Cardinality(one) = 2^k
    BY <2>1, <2>2, <2>3, FS_Product, Power
  <2>5. Weights(s) = one \cup Weights(s \ {k}) /\ one \cap Weights(s \ {k}) = {}
    BY DEF Weights
  <2>6. IsFiniteSet(Weights(s \ {k}))
    BY <1>3
  <2>7. Cardinality(Weights(s \ {k})) \in Nat /\ 2^k \in Nat
    BY <2>1, <2>6, FS_CardinalityType, Power
  <2>8. Cardinality(one \cup Weights(s \ {k})) = 2^k + Cardinality(Weights(s \ {k})) - 0
    <3>1. /\ Cardinality(one \cup Weights(s \ {k}))
              = Cardinality(one) + Cardinality(Weights(s \ {k}))
                - Cardinality(one \cap Weights(s \ {k}))
          /\ Cardinality(one \cap Weights(s \ {k})) = 0
      BY <2>4, <2>5, <2>6, FS_Union, FS_EmptySet
    <3> QED
      BY <2>4, <3>1
  <2> QED
    BY <2>5, <2>7, <2>8
<1> QED
  BY <1>3, <1>4 DEF Weights

LEMMA BitSumExists ==
  ASSUME NEW S \in SUBSET (0..Dword - 1)
  PROVE  \E f : IsBitSum(f, S)
<1> DEFINE g == [s \in SUBSET S |-> Cardinality(Weights(s))]
<1>1. ASSUME NEW s \in SUBSET S, s # {}
      PROVE  g[s] = 2^AnyOf(s) + g[s \ {AnyOf(s)}]
  <2>1. AnyOf(s) \in s
    BY <1>1 DEF AnyOf
  <2> QED
    BY <2>1, WeightsCount
<1>2. g[{}] = 0
  BY WeightsCount, FS_EmptySet
<1>3. g = [s \in SUBSET S |-> IF s = {} THEN 0 ELSE 2^AnyOf(s) + g[s \ {AnyOf(s)}]]
  BY <1>1, <1>2
<1> QED
  BY <1>3 DEF IsBitSum

LEMMA BitSumIsNat ==
  ASSUME NEW S \in SUBSET (0..Dword - 1), NEW f, IsBitSum(f, S)
  PROVE  f[S] \in Nat
<1>1. Dword \in Nat /\ IsFiniteSet(0..Dword - 1)
  BY WidthsAssumption, FS_Interval
<1>0. \A s \in SUBSET S : f[s] = IF s = {} THEN 0 ELSE 2^AnyOf(s) + f[s \ {AnyOf(s)}]
  BY Zenon DEF IsBitSum
<1> DEFINE N == {n \in Nat : \E s \in SUBSET S : Cardinality(s) = n /\ f[s] \notin Nat}
<1>2. ASSUME N # {}
      PROVE  FALSE
  <2>1. PICK n \in N : \A k \in N : n <= k
    BY <1>2, LeastElement
  <2>2. PICK s \in SUBSET S : Cardinality(s) = n /\ f[s] \notin Nat
    BY <2>1
  <2>3. s # {} /\ f[s] = 2^AnyOf(s) + f[s \ {AnyOf(s)}]
    <3>1. f[s] = IF s = {} THEN 0 ELSE 2^AnyOf(s) + f[s \ {AnyOf(s)}]
      BY <1>0, Zenon
    <3>2. s # {}
      BY <2>2, <3>1
    <3> QED
      BY <3>1, <3>2, Zenon
  <2>4. AnyOf(s) \in s
    BY <2>3 DEF AnyOf
  <2>41. AnyOf(s) \in Nat /\ 2^AnyOf(s) \in Nat
    <3>1. AnyOf(s) \in 0..Dword - 1
      BY <2>4
    <3>2. AnyOf(s) \in Nat
      BY <1>1, <3>1
    <3> QED
      BY <3>2, Power
  <2>5. IsFiniteSet(s)
    BY <1>1, FS_Subset
  <2>6. /\ IsFiniteSet(s \ {AnyOf(s)}) /\ Cardinality(s \ {AnyOf(s)}) = n - 1
        /\ n - 1 \in Nat
    <3>1. IsFiniteSet(s \ {AnyOf(s)}) /\ Cardinality(s \ {AnyOf(s)}) = n - 1
      BY <2>2, <2>4, <2>5, FS_RemoveElement
    <3> QED
      BY <3>1, FS_CardinalityType
  <2>7. f[s \ {AnyOf(s)}] \in Nat
    BY <2>1, <2>6
  <2> QED
    BY <2>2, <2>3, <2>41, <2>7
<1>3. Cardinality(S) \in Nat
  BY <1>1, FS_Subset, FS_CardinalityType
<1> QED
  BY <1>2, <1>3

LEMMA FromBitsIsNat ==
  ASSUME NEW S \in SUBSET (0..Dword - 1)
  PROVE  FromBits(S) \in Nat
<1> DEFINE f == CHOOSE f : IsBitSum(f, S)
<1>1. FromBits(S) = f[S]
  BY DEF FromBits, MapThenSumSet, MapThenFoldSet, IsBitSum, AnyOf
<1>2. IsBitSum(f, S)
  BY BitSumExists
<1> QED
  BY <1>1, <1>2, BitSumIsNat

-----------------------------------------------------------------------------
(* The CPU.  Tracks(c, d) says what any handler that turns c into d owes to *)
(* a later reader: what d does not count as written is still what c holds.  *)

Cpus == [reg : [Families -> Int], flag : [Flags -> BOOLEAN],
         origin : [Flags -> {Valid} \cup Opcodes],
         written : SUBSET (Families \cup {"EFLAGS"})]

Tracks(c, d) ==
  /\ d \in Cpus
  /\ c.written \subseteq d.written
  /\ \A r \in Families \ d.written : d.reg[r] = c.reg[r]
  /\ "EFLAGS" \notin d.written => d.flag = c.flag

FlagValues(values) == \A f \in Flags \cap DOMAIN values : values[f] \in BOOLEAN

LEMMA AliasTyped ==
  ASSUME NEW name \in RegisterNames
  PROVE  Alias[name].family \in Families /\ RegisterWidth(name) \in Widths /\ Scale(name) \in Nat
         /\ Scale(name) > 0
<1> DEFINE T == [family : Families, high : BOOLEAN, width : Widths]
<1>1. Alias[name] \in T
  <2>1. \A r \in Families, h \in BOOLEAN, w \in Widths : Part(r, h, w) \in T
    BY DEF Part
  <2>2. Byte \in Widths /\ Word \in Widths /\ Dword \in Widths
    BY DEF Widths
  <2> HIDE DEF T
  <2>3. name \in {"EAX", "AX", "AH", "AL", "EBX", "BX", "BH", "BL", "ECX", "CX", "CH", "CL",
                  "EDX", "DX", "DH", "DL", "ESI", "SI", "EDI", "DI", "EBP", "BP", "ESP", "SP"}
    BY DEF RegisterNames, Alias
  <2>4. /\ Alias["EAX"] \in T /\ Alias["AX"] \in T /\ Alias["AH"] \in T /\ Alias["AL"] \in T
        /\ Alias["EBX"] \in T /\ Alias["BX"] \in T /\ Alias["BH"] \in T /\ Alias["BL"] \in T
        /\ Alias["ECX"] \in T /\ Alias["CX"] \in T /\ Alias["CH"] \in T /\ Alias["CL"] \in T
        /\ Alias["EDX"] \in T /\ Alias["DX"] \in T /\ Alias["DH"] \in T /\ Alias["DL"] \in T
    BY <2>1, <2>2 DEF Alias, Families
  <2>5. /\ Alias["ESI"] \in T /\ Alias["SI"] \in T /\ Alias["EDI"] \in T /\ Alias["DI"] \in T
        /\ Alias["EBP"] \in T /\ Alias["BP"] \in T /\ Alias["ESP"] \in T /\ Alias["SP"] \in T
    BY <2>1, <2>2 DEF Alias, Families
  <2> QED
    BY <2>3, <2>4, <2>5
<1>2. Modulus(Byte) \in Nat /\ Modulus(Byte) > 0
  BY Sizes DEF Widths
<1> QED
  BY <1>1, <1>2 DEF RegisterWidth, Scale

LEMMA TracksSelf ==
  ASSUME NEW c \in Cpus
  PROVE  Tracks(c, c)
BY DEF Tracks

LEMMA TracksOn ==
  ASSUME NEW c, NEW d, NEW e, Tracks(c, d), Tracks(d, e)
  PROVE  Tracks(c, e)
BY DEF Tracks

LEMMA ReadRegisterValue ==
  ASSUME NEW c \in Cpus, NEW name \in RegisterNames
  PROVE  ReadRegister(c, name) \in Values(RegisterWidth(name)) /\ ReadRegister(c, name) \in Nat
<1>1. c.reg[Alias[name].family] \in Int
  BY AliasTyped DEF Cpus
<1>2. c.reg[Alias[name].family] \div Scale(name) \in Int
  BY <1>1, AliasTyped
<1> QED
  BY <1>2, AliasTyped, LowIsValue DEF ReadRegister

LEMMA WriteRegisterTracks ==
  ASSUME NEW c \in Cpus, NEW name \in RegisterNames, NEW value \in Int
  PROVE  /\ Tracks(c, WriteRegister(c, name, value))
         /\ WriteRegister(c, name, value).flag = c.flag
         /\ WriteRegister(c, name, value).origin = c.origin
<1> DEFINE family == Alias[name].family
           change == Low(value, RegisterWidth(name)) - ReadRegister(c, name)
           added == change * Scale(name)
<1>1. family \in Families
  BY AliasTyped
<1>2. Low(value, RegisterWidth(name)) \in Int /\ ReadRegister(c, name) \in Int /\ Scale(name) \in Int
  BY AliasTyped, LowIsValue, ReadRegisterValue
<1>3. added \in Int
  BY <1>2
<1>4. WriteRegister(c, name, value) =
        [c EXCEPT !.reg[family] = @ + added, !.written = @ \cup {family}]
  BY DEF WriteRegister
<1> DEFINE d == WriteRegister(c, name, value)
<1> HIDE DEF family, added
<1>5. /\ d = [reg |-> [c.reg EXCEPT ![family] = @ + added], flag |-> c.flag, origin |-> c.origin,
             written |-> c.written \cup {family}]
  BY <1>4 DEF Cpus
<1> HIDE DEF d
<1>6. /\ d.reg = [c.reg EXCEPT ![family] = @ + added] /\ d.flag = c.flag
      /\ d.origin = c.origin /\ d.written = c.written \cup {family}
  BY <1>5
<1>7. d.reg \in [Families -> Int] /\ \A r \in Families \ {family} : d.reg[r] = c.reg[r]
  BY <1>1, <1>3, <1>6 DEF Cpus
<1>8. d \in Cpus
  BY <1>1, <1>5, <1>6, <1>7 DEF Cpus
<1>9. Tracks(c, d)
  BY <1>6, <1>7, <1>8 DEF Tracks
<1> QED
  BY <1>6, <1>9 DEF d

LEMMA WriteFlagsTracks ==
  ASSUME NEW c \in Cpus, NEW values, FlagValues(values)
  PROVE  /\ Tracks(c, WriteFlags(c, values))
         /\ WriteFlags(c, values).reg = c.reg
         /\ UndefinedFlags(WriteFlags(c, values)) = UndefinedFlags(c) \ DOMAIN values
BY DEF WriteFlags, Tracks, Cpus, FlagValues, UndefinedFlags

LEMMA MarkUndefinedTracks ==
  ASSUME NEW c \in Cpus, NEW flags, NEW op \in Opcodes
  PROVE  /\ Tracks(c, MarkUndefined(c, flags, op))
         /\ MarkUndefined(c, flags, op).reg = c.reg
BY DEF MarkUndefined, Tracks, Cpus

LEMMA KeepCarryTracks ==
  ASSUME NEW c \in Cpus, NEW d, Tracks(c, d), "EFLAGS" \in d.written
  PROVE  Tracks(c, KeepCarry(d, c)) /\ KeepCarry(d, c).reg = d.reg
BY DEF KeepCarry, Tracks, Cpus, Flags

-----------------------------------------------------------------------------
(* Machines and operands. *)

IsMachine(x) == x \in [cpu : Cpus, mem : [DOMAIN x.mem -> Int]] /\ Writable \subseteq DOMAIN x.mem

Follows(x, y) == IsMachine(y) /\ DOMAIN y.mem = DOMAIN x.mem /\ Tracks(x.cpu, y.cpu)

\* An outcome a handler may have: a refusal leaves the machine alone.
Answers(x, o) == Follows(x, o.machine) /\ (o.status # "ok" => o.machine = x)

KeepsValid(x, y) == UndefinedFlags(y.cpu) \subseteq UndefinedFlags(x.cpu)

LEMMA OperandForms ==
  ASSUME NEW o \in Operands
  PROVE  /\ o.kind \in {"none", "imm", "reg", "mem"}
         /\ o.kind = "imm" => o.value \in Int
         /\ o.kind = "reg" => o.name \in RegisterNames
         /\ o.kind = "mem" => /\ o.base \in RegisterNames \cup {NoBase}
                              /\ o.displacement \in Int /\ o.width \in Widths
BY DEF Operands, NoOperand

LEMMA OperandWidths ==
  ASSUME NEW o \in Operands, IsDestination(o)
  PROVE  OperandWidth(o) \in Widths
BY OperandForms, AliasTyped DEF IsDestination, IsRegister, IsMemory, OperandWidth

LEMMA FollowsSelf ==
  ASSUME NEW x, IsMachine(x), NEW status
  PROVE  Follows(x, x) /\ Answers(x, Outcome(status, x)) /\ KeepsValid(x, x)
<1>1. x.cpu \in Cpus
  BY DEF IsMachine
<1> QED
  BY <1>1, TracksSelf DEF Follows, Answers, Outcome, KeepsValid

LEMMA SetCpu ==
  ASSUME NEW x, IsMachine(x), NEW d, Tracks(x.cpu, d)
  PROVE  /\ Follows(x, [x EXCEPT !.cpu = d])
         /\ [x EXCEPT !.cpu = d].cpu = d /\ [x EXCEPT !.cpu = d].mem = x.mem
         /\ Answers(x, Done([x EXCEPT !.cpu = d]))
<1> DEFINE y == [x EXCEPT !.cpu = d]
<1>1. d \in Cpus
  BY DEF Tracks
<1>2. y = [cpu |-> d, mem |-> x.mem]
  BY DEF IsMachine
<1> HIDE DEF y
<1>3. y.cpu = d /\ y.mem = x.mem
  BY <1>2
<1>4. IsMachine(y)
  BY <1>1, <1>2, <1>3 DEF IsMachine
<1>5. Follows(x, y)
  BY <1>3, <1>4 DEF Follows
<1>6. Answers(x, Done(y))
  BY <1>5 DEF Answers, Done, Outcome
<1> QED
  BY <1>3, <1>5, <1>6 DEF y

LEMMA AddressIsNumber ==
  ASSUME NEW x, IsMachine(x), NEW o \in Operands, IsMemory(o)
  PROVE  Address(x, o) \in Int
<1>1. x.cpu \in Cpus /\ Dword \in Widths
  BY DEF IsMachine, Widths
<1>2. o.displacement \in Int /\ o.base \in RegisterNames \cup {NoBase}
  BY OperandForms DEF IsMemory
<1>3. o.base # NoBase => ReadRegister(x.cpu, o.base) \in Int
  BY <1>1, <1>2, ReadRegisterValue
<1>4. o.displacement + (IF o.base = NoBase THEN 0 ELSE ReadRegister(x.cpu, o.base)) \in Int
  BY <1>2, <1>3
<1> QED
  BY <1>1, <1>4, LowIsValue DEF Address

LEMMA ReadOperandValue ==
  ASSUME NEW x, IsMachine(x), NEW o \in Operands, o.kind # "none", Readable(x, o), NEW w \in Widths
  PROVE  ReadOperand(x, o, w) \in Values(w) /\ ReadOperand(x, o, w) \in Nat
<1>1. x.cpu \in Cpus /\ x.mem \in [DOMAIN x.mem -> Int]
  BY DEF IsMachine
<1>2. CASE o.kind = "imm"
  BY <1>2, OperandForms, LowIsValue DEF ReadOperand
<1>3. CASE o.kind = "reg"
  <2>1. ReadRegister(x.cpu, o.name) \in Int
    BY <1>1, <1>3, OperandForms, ReadRegisterValue
  <2> QED
    BY <1>3, <2>1, LowIsValue DEF ReadOperand
<1>4. CASE o.kind = "mem"
  <2>1. x.mem[Address(x, o)] \in Int
    BY <1>1, <1>4 DEF Readable, IsMemory
  <2> QED
    BY <1>4, <2>1, LowIsValue DEF ReadOperand
<1> QED
  BY <1>2, <1>3, <1>4, OperandForms

LEMMA WriteOperandAnswers ==
  ASSUME NEW x, IsMachine(x), NEW o \in Operands, IsDestination(o), NEW w \in Widths, NEW value \in Int
  PROVE  /\ Answers(x, WriteOperand(x, o, w, value))
         /\ WriteOperand(x, o, w, value).machine.cpu.origin = x.cpu.origin
         /\ WriteOperand(x, o, w, value).machine.cpu.flag = x.cpu.flag
         /\ IsRegister(o) => WriteOperand(x, o, w, value).status = "ok"
<1> DEFINE a == Address(x, o)  v == Low(value, w)
<1>1. /\ x.cpu \in Cpus /\ x.mem \in [DOMAIN x.mem -> Int] /\ Writable \subseteq DOMAIN x.mem
      /\ v \in Int
  BY LowIsValue DEF IsMachine
<1>2. CASE IsRegister(o)
  <2> DEFINE d == WriteRegister(x.cpu, o.name, v)
  <2>1. Tracks(x.cpu, d) /\ d.origin = x.cpu.origin /\ d.flag = x.cpu.flag
    BY <1>1, <1>2, OperandForms, WriteRegisterTracks DEF IsRegister
  <2>2. WriteOperand(x, o, w, value) = Done([x EXCEPT !.cpu = d])
    BY <1>2 DEF WriteOperand
  <2> HIDE DEF d
  <2>3. [x EXCEPT !.cpu = d].cpu = d /\ Answers(x, Done([x EXCEPT !.cpu = d]))
    BY <2>1, SetCpu
  <2> DEFINE y == [x EXCEPT !.cpu = d]
  <2> HIDE DEF y
  <2>4. WriteOperand(x, o, w, value).machine = y /\ WriteOperand(x, o, w, value).status = "ok"
    BY <2>2 DEF Done, Outcome, y
  <2>5. y.cpu = d /\ Answers(x, WriteOperand(x, o, w, value))
    BY <2>2, <2>3 DEF y
  <2> QED
    BY <2>1, <2>4, <2>5
<1>3. CASE ~IsRegister(o) /\ a \in Writable
  <2>1. x.mem[a] \in Int /\ Low(x.mem[a], w) \in Int
    BY <1>1, <1>3, LowIsValue
  <2> DEFINE new == x.mem[a] - Low(x.mem[a], w) + v
             y == [x EXCEPT !.mem[a] = new]
  <2>2. new \in Int
    BY <1>1, <2>1
  <2>3. WriteOperand(x, o, w, value) = Done(y)
    BY <1>3 DEF WriteOperand
  <2> HIDE DEF new
  <2>4. y = [cpu |-> x.cpu, mem |-> [x.mem EXCEPT ![a] = new]]
    BY DEF IsMachine
  <2> HIDE DEF y
  <2>5. y.cpu = x.cpu /\ y.mem = [x.mem EXCEPT ![a] = new]
    BY <2>4
  <2>6. DOMAIN y.mem = DOMAIN x.mem /\ y.mem \in [DOMAIN x.mem -> Int]
    BY <1>1, <2>2, <2>5
  <2>7. IsMachine(y)
    BY <1>1, <2>4, <2>6 DEF IsMachine
  <2>8. Follows(x, y)
    BY <1>1, <2>5, <2>6, <2>7, TracksSelf DEF Follows
  <2> QED
    BY <1>3, <2>3, <2>5, <2>8 DEF Answers, Done, Outcome
<1>4. CASE ~IsRegister(o) /\ a \notin Writable
  <2>1. WriteOperand(x, o, w, value) = Outcome("memory-error", x)
    BY <1>4 DEF WriteOperand
  <2>2. Answers(x, WriteOperand(x, o, w, value))
    BY <2>1, FollowsSelf
  <2>3. WriteOperand(x, o, w, value).machine = x
    BY <2>1 DEF Outcome
  <2> QED
    BY <1>4, <2>2, <2>3
<1> QED
  BY <1>2, <1>3, <1>4

LEMMA CommitAnswers ==
  ASSUME NEW x, IsMachine(x), NEW d, Tracks(x.cpu, d), NEW o \in Operands, IsDestination(o),
         NEW w \in Widths, NEW value \in Int
  PROVE  /\ Answers(x, Commit(x, d, o, w, value))
         /\ Commit(x, d, o, w, value).status = "ok" =>
               /\ Commit(x, d, o, w, value).machine.cpu.origin = d.origin
               /\ Commit(x, d, o, w, value).machine.cpu.flag = d.flag
<1> DEFINE y == [x EXCEPT !.cpu = d]  written == WriteOperand(y, o, w, value)
<1>1. Follows(x, y) /\ y.cpu = d
  BY SetCpu
<1>2. Commit(x, d, o, w, value) = IF written.status = "ok" THEN written
                                  ELSE Outcome(written.status, x)
  BY DEF Commit
<1> HIDE DEF y
<1>3. /\ Answers(y, written) /\ written.machine.cpu.origin = y.cpu.origin
      /\ written.machine.cpu.flag = y.cpu.flag
  BY <1>1, WriteOperandAnswers DEF Follows
<1>4. Follows(x, written.machine)
  BY <1>1, <1>3, TracksOn DEF Follows, Answers
<1> HIDE DEF written
<1>5. CASE written.status = "ok"
  BY <1>1, <1>2, <1>3, <1>4, <1>5 DEF Answers
<1>6. CASE written.status # "ok"
  BY <1>2, <1>6, FollowsSelf DEF Outcome
<1> QED
  BY <1>5, <1>6

-----------------------------------------------------------------------------
(* The handlers that leave no flag undefined. *)

Sound(x, o) == Answers(x, o) /\ KeepsValid(x, o.machine)

LEMMA RefusalSound ==
  ASSUME NEW x, IsMachine(x), NEW status
  PROVE  Sound(x, Outcome(status, x)) /\ Sound(x, Done(x))
<1>1. ASSUME NEW s
      PROVE  Sound(x, Outcome(s, x))
  <2>1. Answers(x, Outcome(s, x)) /\ KeepsValid(x, x)
    BY FollowsSelf
  <2>2. Outcome(s, x).machine = x
    BY DEF Outcome
  <2> QED
    BY <2>1, <2>2 DEF Sound
<1> QED
  BY <1>1 DEF Done

LEMMA WrittenSound ==
  ASSUME NEW x, IsMachine(x), NEW o \in Operands, IsDestination(o), NEW w \in Widths, NEW value \in Int
  PROVE  Sound(x, WriteOperand(x, o, w, value))
BY WriteOperandAnswers DEF Sound, KeepsValid, UndefinedFlags

LEMMA CpuSound ==
  ASSUME NEW x, IsMachine(x), NEW d, Tracks(x.cpu, d), UndefinedFlags(d) \subseteq UndefinedFlags(x.cpu)
  PROVE  /\ Sound(x, Done([x EXCEPT !.cpu = d]))
         /\ \A o \in Operands, w \in Widths, value \in Int :
               IsDestination(o) => Sound(x, Commit(x, d, o, w, value))
<1>1. Sound(x, Done([x EXCEPT !.cpu = d]))
  <2>1. Answers(x, Done([x EXCEPT !.cpu = d])) /\ [x EXCEPT !.cpu = d].cpu = d
    BY SetCpu
  <2>2. Done([x EXCEPT !.cpu = d]).machine.cpu = [x EXCEPT !.cpu = d].cpu
    BY DEF Done, Outcome
  <2> QED
    BY <2>1, <2>2 DEF Sound, KeepsValid
<1>2. ASSUME NEW o \in Operands, NEW w \in Widths, NEW value \in Int, IsDestination(o)
      PROVE  Sound(x, Commit(x, d, o, w, value))
  <2> DEFINE r == Commit(x, d, o, w, value)
  <2>1. Answers(x, r) /\ (r.status = "ok" => r.machine.cpu.origin = d.origin)
    BY <1>2, CommitAnswers
  <2> SUFFICES Sound(x, r)
    OBVIOUS
  <2> HIDE DEF r
  <2>2. CASE r.status = "ok"
    BY <2>1, <2>2 DEF Sound, KeepsValid, UndefinedFlags
  <2>3. CASE r.status # "ok"
    <3>1. r.machine = x /\ KeepsValid(x, x)
      BY <2>1, <2>3, FollowsSelf DEF Answers
    <3> QED
      BY <2>1, <3>1 DEF Sound
  <2> QED
    BY <2>2, <2>3
<1> QED
  BY <1>1, <1>2

LEMMA FlaggedSound ==
  ASSUME NEW x, IsMachine(x), NEW values, FlagValues(values)
  PROVE  /\ Sound(x, Done([x EXCEPT !.cpu = WriteFlags(@, values)]))
         /\ \A o \in Operands, w \in Widths, value \in Int :
               IsDestination(o) => Sound(x, Commit(x, WriteFlags(x.cpu, values), o, w, value))
<1>1. x.cpu \in Cpus
  BY DEF IsMachine
<1> DEFINE d == WriteFlags(x.cpu, values)
<1>2. Tracks(x.cpu, d) /\ UndefinedFlags(d) \subseteq UndefinedFlags(x.cpu)
  BY <1>1, WriteFlagsTracks
<1> HIDE DEF d
<1>3. /\ Sound(x, Done([x EXCEPT !.cpu = d]))
      /\ \A o \in Operands, w \in Widths, value \in Int :
            IsDestination(o) => Sound(x, Commit(x, d, o, w, value))
  BY <1>2, CpuSound
<1> QED
  BY <1>3 DEF d

LEMMA FlagRecord ==
  ASSUME NEW v, DOMAIN v = Flags, v.CF \in BOOLEAN, v.ZF \in BOOLEAN, v.SF \in BOOLEAN,
         v.OF \in BOOLEAN
  PROVE  FlagValues(v)
BY DEF FlagValues, Flags

LEMMA FlagHelpers ==
  ASSUME NEW l, NEW r, NEW c, NEW w
  PROVE  /\ FlagValues(AddFlags(l, r, w)) /\ FlagValues(SubFlags(l, r, w))
         /\ FlagValues(AdcFlags(l, r, c, w)) /\ FlagValues(SbbFlags(l, r, c, w))
         /\ FlagValues(LogicalFlags(l, w))
<1>1. FlagValues(AddFlags(l, r, w))
  <2> DEFINE v == AddFlags(l, r, w)
  <2>1. DOMAIN v = Flags
    BY DEF AddFlags, Flags
  <2>2. v.CF \in BOOLEAN /\ v.ZF \in BOOLEAN
    BY DEF AddFlags
  <2>3. v.SF \in BOOLEAN
    BY DEF AddFlags, IsNegative
  <2>4. v.OF \in BOOLEAN
    BY DEF AddFlags, IsNegative
  <2> QED
    BY <2>1, <2>2, <2>3, <2>4, FlagRecord
<1>2. FlagValues(SubFlags(l, r, w))
  <2> DEFINE v == SubFlags(l, r, w)
  <2>1. DOMAIN v = Flags
    BY DEF SubFlags, Flags
  <2>2. v.CF \in BOOLEAN /\ v.ZF \in BOOLEAN
    BY DEF SubFlags
  <2>3. v.SF \in BOOLEAN
    BY DEF SubFlags, IsNegative
  <2>4. v.OF \in BOOLEAN
    BY DEF SubFlags, IsNegative
  <2> QED
    BY <2>1, <2>2, <2>3, <2>4, FlagRecord
<1>3. FlagValues(AdcFlags(l, r, c, w))
  <2> DEFINE v == AdcFlags(l, r, c, w)
  <2>1. DOMAIN v = Flags
    BY DEF AdcFlags, Flags
  <2>2. v.CF \in BOOLEAN /\ v.ZF \in BOOLEAN
    BY DEF AdcFlags
  <2>3. v.SF \in BOOLEAN
    BY DEF AdcFlags, IsNegative
  <2>4. v.OF \in BOOLEAN
    BY DEF AdcFlags, IsNegative
  <2> QED
    BY <2>1, <2>2, <2>3, <2>4, FlagRecord
<1>4. FlagValues(SbbFlags(l, r, c, w))
  <2> DEFINE v == SbbFlags(l, r, c, w)
  <2>1. DOMAIN v = Flags
    BY DEF SbbFlags, Flags
  <2>2. v.CF \in BOOLEAN /\ v.ZF \in BOOLEAN
    BY DEF SbbFlags
  <2>3. v.SF \in BOOLEAN
    BY DEF SbbFlags, IsNegative
  <2>4. v.OF \in BOOLEAN
    BY DEF SbbFlags, IsNegative
  <2> QED
    BY <2>1, <2>2, <2>3, <2>4, FlagRecord
<1>5. FlagValues(LogicalFlags(l, w))
  <2> DEFINE v == LogicalFlags(l, w)
  <2>1. DOMAIN v = Flags
    BY DEF LogicalFlags, Flags
  <2>2. v.CF \in BOOLEAN /\ v.ZF \in BOOLEAN
    BY DEF LogicalFlags
  <2>3. v.SF \in BOOLEAN
    BY DEF LogicalFlags, IsNegative
  <2>4. v.OF \in BOOLEAN
    BY DEF LogicalFlags, IsNegative
  <2> QED
    BY <2>1, <2>2, <2>3, <2>4, FlagRecord
<1> QED
  BY <1>1, <1>2, <1>3, <1>4, <1>5

LEMMA LogicalIsNat ==
  ASSUME NEW l, NEW r, NEW op \in LogicalOps
  PROVE  Logical(op, l, r) \in Nat
<1> DEFINE a == Bits(l)  b == Bits(r)
<1>1. /\ a \cap b \in SUBSET (0..Dword - 1) /\ a \cup b \in SUBSET (0..Dword - 1)
      /\ (a \ b) \cup (b \ a) \in SUBSET (0..Dword - 1)
  BY DEF Bits
<1> HIDE DEF a, b
<1>2. PICK S \in SUBSET (0..Dword - 1) : Logical(op, l, r) = FromBits(S)
  BY <1>1 DEF Logical, LogicalOps, a, b
<1> QED
  BY <1>2, FromBitsIsNat

LEMMA BinarySound ==
  ASSUME NEW x, IsMachine(x), NEW i \in Instructions, i.op \in BinaryOps
  PROVE  Sound(x, BinaryOutcome(i, x))
<1> DEFINE w == OperandWidth(i.dst)
           l == ReadOperand(x, i.dst, w)
           r == ReadOperand(x, i.src, w)
           carry == CarryIn(x.cpu)
<1>1. CASE ~BinarySupported(i)
  BY <1>1, RefusalSound DEF BinaryOutcome
<1>2. CASE BinarySupported(i) /\ (~Readable(x, i.src) \/ (i.op # "MOV" /\ ~Readable(x, i.dst)))
  BY <1>2, RefusalSound DEF BinaryOutcome
<1>3. CASE BinarySupported(i) /\ Readable(x, i.src) /\ (i.op = "MOV" \/ Readable(x, i.dst))
  <2>1. i.dst \in Operands /\ i.src \in Operands /\ IsDestination(i.dst) /\ i.src.kind # "none"
    BY <1>3 DEF Instructions, BinarySupported
  <2>2. w \in Widths /\ r \in Nat /\ (i.op # "MOV" => l \in Nat) /\ carry \in Int
    BY <1>3, <2>1, OperandWidths, ReadOperandValue DEF IsDestination, IsRegister, IsMemory, CarryIn
  <2>3. BinaryOutcome(i, x) =
         CASE i.op = "MOV" -> WriteOperand(x, i.dst, w, r)
           [] i.op = "ADD" -> Commit(x, WriteFlags(x.cpu, AddFlags(l, r, w)), i.dst, w, l + r)
           [] i.op = "SUB" -> Commit(x, WriteFlags(x.cpu, SubFlags(l, r, w)), i.dst, w, l - r)
           [] i.op = "ADC" ->
                Commit(x, WriteFlags(x.cpu, AdcFlags(l, r, carry, w)), i.dst, w, l + r + carry)
           [] i.op = "SBB" ->
                Commit(x, WriteFlags(x.cpu, SbbFlags(l, r, carry, w)), i.dst, w, l - r - carry)
           [] i.op = "CMP" -> Done([x EXCEPT !.cpu = WriteFlags(@, SubFlags(l, r, w))])
           [] i.op = "TEST" ->
                Done([x EXCEPT !.cpu = WriteFlags(@, LogicalFlags(Logical("TEST", l, r), w))])
           [] OTHER -> Commit(x, WriteFlags(x.cpu, LogicalFlags(Logical(i.op, l, r), w)), i.dst, w,
                              Logical(i.op, l, r))
    BY <1>3 DEF BinaryOutcome
  <2> HIDE DEF w, l, r, carry
  <2>4. CASE i.op = "MOV"
    BY <2>1, <2>2, <2>3, <2>4, WrittenSound
  <2>5. CASE i.op = "ADD"
    <3>1. l + r \in Int
      BY <2>2, <2>5
    <3> QED
      BY <2>1, <2>2, <2>3, <2>5, <3>1, FlagHelpers, FlaggedSound
  <2>6. CASE i.op = "SUB"
    <3>1. l - r \in Int
      BY <2>2, <2>6
    <3> QED
      BY <2>1, <2>2, <2>3, <2>6, <3>1, FlagHelpers, FlaggedSound
  <2>7. CASE i.op = "ADC"
    <3>1. l + r + carry \in Int
      BY <2>2, <2>7
    <3> QED
      BY <2>1, <2>2, <2>3, <2>7, <3>1, FlagHelpers, FlaggedSound
  <2>8. CASE i.op = "SBB"
    <3>1. l - r - carry \in Int
      BY <2>2, <2>8
    <3> QED
      BY <2>1, <2>2, <2>3, <2>8, <3>1, FlagHelpers, FlaggedSound
  <2>9. CASE i.op = "CMP"
    BY <2>3, <2>9, FlagHelpers, FlaggedSound
  <2>10. CASE i.op = "TEST"
    BY <2>3, <2>10, FlagHelpers, FlaggedSound
  <2>11. CASE i.op \in {"AND", "OR", "XOR"}
    <3>1. Logical(i.op, l, r) \in Int
      BY <2>11, LogicalIsNat DEF LogicalOps
    <3>2. BinaryOutcome(i, x) =
              Commit(x, WriteFlags(x.cpu, LogicalFlags(Logical(i.op, l, r), w)), i.dst, w,
                       Logical(i.op, l, r))
      BY <2>3, <2>11
    <3> QED
      BY <2>1, <2>2, <3>1, <3>2, FlagHelpers, FlaggedSound
  <2> QED
    BY <2>4, <2>5, <2>6, <2>7, <2>8, <2>9, <2>10, <2>11 DEF BinaryOps, LogicalOps
<1> QED
  BY <1>1, <1>2, <1>3

LEMMA SteppedTracks ==
  ASSUME NEW c \in Cpus, NEW values, FlagValues(values)
  PROVE  /\ Tracks(c, KeepCarry(WriteFlags(c, values), c))
         /\ UndefinedFlags(KeepCarry(WriteFlags(c, values), c)) \subseteq UndefinedFlags(c)
<1> DEFINE d == WriteFlags(c, values)
<1>1. Tracks(c, d) /\ UndefinedFlags(d) \subseteq UndefinedFlags(c) /\ "EFLAGS" \in d.written
  <2>1. Tracks(c, d) /\ UndefinedFlags(d) \subseteq UndefinedFlags(c)
    BY WriteFlagsTracks
  <2>2. "EFLAGS" \in d.written
    BY DEF WriteFlags, Cpus
  <2> QED
    BY <2>1, <2>2
<1> SUFFICES /\ Tracks(c, KeepCarry(d, c))
             /\ UndefinedFlags(KeepCarry(d, c)) \subseteq UndefinedFlags(c)
  OBVIOUS
<1> HIDE DEF d
<1>2. Tracks(c, KeepCarry(d, c))
  BY <1>1, KeepCarryTracks
<1>3. KeepCarry(d, c).origin = [d.origin EXCEPT !["CF"] = c.origin["CF"]]
  BY <1>1 DEF KeepCarry, Tracks, Cpus
<1>4. d.origin \in [Flags -> {Valid} \cup Opcodes] /\ c.origin \in [Flags -> {Valid} \cup Opcodes]
  BY <1>1 DEF Tracks, Cpus
<1>5. UndefinedFlags(KeepCarry(d, c)) \subseteq UndefinedFlags(c)
  BY <1>1, <1>3, <1>4 DEF UndefinedFlags
<1> QED
  BY <1>2, <1>5

LEMMA UnarySound ==
  ASSUME NEW x, IsMachine(x), NEW i \in Instructions, i.op \in UnaryOps
  PROVE  Sound(x, UnaryOutcome(i, x))
<1> DEFINE w == OperandWidth(i.dst)
           v == ReadOperand(x, i.dst, w)
           up == KeepCarry(WriteFlags(x.cpu, AddFlags(v, 1, w)), x.cpu)
           down == KeepCarry(WriteFlags(x.cpu, SubFlags(v, 1, w)), x.cpu)
<1>1. CASE ~IsDestination(i.dst) \/ i.src.kind # "none"
  BY <1>1, RefusalSound DEF UnaryOutcome
<1>2. CASE IsDestination(i.dst) /\ i.src.kind = "none" /\ ~Readable(x, i.dst)
  BY <1>2, RefusalSound DEF UnaryOutcome
<1>3. CASE IsDestination(i.dst) /\ i.src.kind = "none" /\ Readable(x, i.dst)
  <2>1. i.dst \in Operands /\ i.dst.kind # "none" /\ x.cpu \in Cpus
    BY <1>3 DEF Instructions, IsDestination, IsRegister, IsMemory, IsMachine
  <2>2. w \in Widths /\ v \in Nat /\ Mask(w) \in Nat
    BY <1>3, <2>1, OperandWidths, ReadOperandValue, Sizes
  <2>3. /\ i.op = "NEG" => UnaryOutcome(i, x) =
              Commit(x, WriteFlags(x.cpu, SubFlags(0, v, w)), i.dst, w, -v)
        /\ i.op = "INC" => UnaryOutcome(i, x) = Commit(x, up, i.dst, w, v + 1)
        /\ i.op = "DEC" => UnaryOutcome(i, x) = Commit(x, down, i.dst, w, v - 1)
        /\ i.op = "NOT" => UnaryOutcome(i, x) = Commit(x, x.cpu, i.dst, w, Mask(w) - v)
    BY <1>3 DEF UnaryOutcome
  <2>4. /\ Tracks(x.cpu, up) /\ UndefinedFlags(up) \subseteq UndefinedFlags(x.cpu)
        /\ Tracks(x.cpu, down) /\ UndefinedFlags(down) \subseteq UndefinedFlags(x.cpu)
        /\ Tracks(x.cpu, x.cpu)
    BY <2>1, SteppedTracks, FlagHelpers, TracksSelf
  <2> HIDE DEF up, down, w, v
  <2>5. -v \in Int /\ v + 1 \in Int /\ v - 1 \in Int /\ Mask(w) - v \in Int
    BY <2>2
  <2>6. CASE i.op = "NEG"
    BY <1>3, <2>1, <2>2, <2>3, <2>5, <2>6, FlagHelpers, FlaggedSound
  <2>7. CASE i.op = "INC"
    BY <1>3, <2>1, <2>2, <2>3, <2>4, <2>5, <2>7, CpuSound
  <2>8. CASE i.op = "DEC"
    BY <1>3, <2>1, <2>2, <2>3, <2>4, <2>5, <2>8, CpuSound
  <2>9. CASE i.op = "NOT"
    BY <1>3, <2>1, <2>2, <2>3, <2>4, <2>5, <2>9, CpuSound
  <2> QED
    BY <2>6, <2>7, <2>8, <2>9 DEF UnaryOps
<1> QED
  BY <1>1, <1>2, <1>3

\* The second write of an exchange goes to a register and cannot fail.
LEMMA XchgSound ==
  ASSUME NEW x, IsMachine(x), NEW i \in Instructions
  PROVE  Sound(x, XchgOutcome(i, x))
<1> DEFINE w == OperandWidth(i.dst)
           first == IF IsMemory(i.src) THEN i.src ELSE i.dst
           second == IF IsMemory(i.src) THEN i.dst ELSE i.src
           half == WriteOperand(x, first, w, ReadOperand(x, second, w))
           whole == WriteOperand(half.machine, second, w, ReadOperand(x, first, w))
           supported == /\ IsDestination(i.dst) /\ IsDestination(i.src)
                        /\ ~(IsMemory(i.dst) /\ IsMemory(i.src))
                        /\ OperandWidth(i.dst) = OperandWidth(i.src)
           readable == Readable(x, i.dst) /\ Readable(x, i.src)
<1>1. CASE ~supported
  BY <1>1, RefusalSound DEF XchgOutcome
<1>2. CASE supported /\ ~readable
  BY <1>2, RefusalSound DEF XchgOutcome
<1>3. CASE supported /\ readable
  <2>1. /\ first \in Operands /\ second \in Operands /\ IsDestination(first) /\ IsRegister(second)
        /\ IsDestination(second) /\ first.kind # "none" /\ second.kind # "none"
        /\ Readable(x, first) /\ Readable(x, second) /\ w \in Widths
    BY <1>3, OperandWidths DEF Instructions, IsDestination, IsRegister, IsMemory
  <2>2. XchgOutcome(i, x) = IF half.status # "ok" THEN half ELSE whole
    BY <1>3 DEF XchgOutcome
  <2> HIDE DEF first, second, w
  <2>3. ReadOperand(x, first, w) \in Int /\ ReadOperand(x, second, w) \in Int
    BY <2>1, ReadOperandValue
  <2>4. Sound(x, half)
    BY <2>1, <2>3, WrittenSound
  <2>5. CASE half.status # "ok"
    BY <2>2, <2>4, <2>5
  <2>6. CASE half.status = "ok"
    <3> DEFINE y == half.machine
    <3>1. IsMachine(y)
      BY <2>4 DEF Sound, Answers, Follows
    <3>2. Sound(y, whole) /\ whole.status = "ok"
      BY <2>1, <2>3, <3>1, WrittenSound, WriteOperandAnswers
    <3> HIDE DEF whole, half
    <3>3. Sound(x, whole)
      BY <2>4, <3>2, TracksOn DEF Sound, Answers, Follows, KeepsValid
    <3> QED
      BY <2>2, <2>6, <3>3
  <2> QED
    BY <2>5, <2>6
<1> QED
  BY <1>1, <1>2, <1>3

LEMMA MovxSound ==
  ASSUME NEW x, IsMachine(x), NEW i \in Instructions
  PROVE  Sound(x, MovxOutcome(i, x))
<1> DEFINE w == OperandWidth(i.src)
           v == ReadOperand(x, i.src, w)
           u == IF i.op = "MOVSX" THEN SignedValue(v, w) ELSE v
           supported == /\ IsRegister(i.dst) /\ IsDestination(i.src)
                        /\ w \in {Byte, Word} /\ ~(OperandWidth(i.dst) <= w)
<1>1. CASE ~supported
  BY <1>1, RefusalSound DEF MovxOutcome
<1>2. CASE supported /\ ~Readable(x, i.src)
  BY <1>2, RefusalSound DEF MovxOutcome
<1>3. CASE supported /\ Readable(x, i.src)
  <2>1. /\ i.dst \in Operands /\ IsDestination(i.dst) /\ i.src \in Operands
        /\ i.src.kind # "none" /\ w \in Widths /\ OperandWidth(i.dst) \in Widths
    BY <1>3, OperandWidths DEF Instructions, IsDestination, IsRegister, IsMemory
  <2>2. u \in Int
    BY <1>3, <2>1, ReadOperandValue, SignedIsInt
  <2>3. MovxOutcome(i, x) = WriteOperand(x, i.dst, OperandWidth(i.dst), u)
    BY <1>3 DEF MovxOutcome
  <2> HIDE DEF u
  <2> QED
    BY <2>1, <2>2, <2>3, WrittenSound
<1> QED
  BY <1>1, <1>2, <1>3

LEMMA LeaSound ==
  ASSUME NEW x, IsMachine(x), NEW i \in Instructions
  PROVE  Sound(x, LeaOutcome(i, x))
<1>1. CASE ~(IsRegister(i.dst) /\ IsMemory(i.src) /\ OperandWidth(i.dst) = Dword)
  BY <1>1, RefusalSound DEF LeaOutcome
<1>2. CASE IsRegister(i.dst) /\ IsMemory(i.src) /\ OperandWidth(i.dst) = Dword
  <2>1. i.dst \in Operands /\ i.src \in Operands /\ IsDestination(i.dst) /\ Dword \in Widths
    BY <1>2 DEF Instructions, IsDestination, Widths
  <2>2. LeaOutcome(i, x) = WriteOperand(x, i.dst, Dword, Address(x, i.src))
    BY <1>2 DEF LeaOutcome
  <2> QED
    BY <1>2, <2>1, <2>2, AddressIsNumber, WrittenSound
<1> QED
  BY <1>1, <1>2

\* The registers and flags a handler without a memory operand writes.
LEMMA TwoWrites ==
  ASSUME NEW x, IsMachine(x), NEW c, Tracks(x.cpu, c), c.origin = x.cpu.origin,
         NEW values, FlagValues(values)
  PROVE  /\ Sound(x, Done([x EXCEPT !.cpu = c]))
         /\ Sound(x, Done([x EXCEPT !.cpu = WriteFlags(c, values)]))
<1>1. UndefinedFlags(c) = UndefinedFlags(x.cpu)
  BY DEF UndefinedFlags
<1>2. /\ Tracks(c, WriteFlags(c, values))
      /\ UndefinedFlags(WriteFlags(c, values)) \subseteq UndefinedFlags(c)
  BY WriteFlagsTracks DEF Tracks
<1>3. Tracks(x.cpu, WriteFlags(c, values))
  BY <1>2, TracksOn
<1> QED
  BY <1>1, <1>2, <1>3, CpuSound

LEMMA CarryFlag ==
  ASSUME NEW c \in Cpus, NEW op \in {"CLC", "STC", "CMC"}
  PROVE  \E values : FlagValues(values) /\ CarryControl(op, c) = WriteFlags(c, values)
<1> DEFINE v == CASE op = "CLC" -> FALSE [] op = "STC" -> TRUE [] op = "CMC" -> ~c.flag["CF"]
<1>1. CarryControl(op, c) = WriteFlags(c, [CF |-> v])
  BY DEF CarryControl
<1>2. v \in BOOLEAN
  OBVIOUS
<1> HIDE DEF v
<1>3. FlagValues([CF |-> v])
  BY <1>2 DEF FlagValues
<1> QED
  BY <1>1, <1>3

LEMMA Accumulators ==
  /\ {"AL", "AX", "EAX", "AH", "DX", "EDX"} \subseteq RegisterNames
  /\ \A w \in Widths : LowHalf(w) \in RegisterNames /\ HighHalf(w) \in RegisterNames
<1>1. {"AL", "AX", "EAX", "AH", "DX", "EDX"} \subseteq RegisterNames
  BY DEF RegisterNames, Alias
<1>2. \A w \in Widths : LowHalf(w) \in {"AL", "AX", "EAX"} /\ HighHalf(w) \in {"AH", "DX", "EDX"}
  BY WidthsAssumption DEF Widths, LowHalf, HighHalf
<1> QED
  BY <1>1, <1>2

LEMMA ImplicitSound ==
  ASSUME NEW x, IsMachine(x), NEW i \in Instructions, i.op \in ImplicitOps
  PROVE  Sound(x, ImplicitOutcome(i, x))
<1>1. CASE i.dst.kind # "none" \/ i.src.kind # "none"
  BY <1>1, RefusalSound DEF ImplicitOutcome
<1>2. CASE i.dst.kind = "none" /\ i.src.kind = "none"
  <2> DEFINE c == CASE i.op = "CBW" -> Extend("AL", x, "AX", Byte)
                    [] i.op = "CWDE" -> Extend("AX", x, "EAX", Word)
                    [] i.op = "CWD" -> SignFill(x, "AX", "DX")
                    [] i.op = "CDQ" -> SignFill(x, "EAX", "EDX")
                    [] i.op = "NOP" -> x.cpu
                    [] OTHER -> CarryControl(i.op, x.cpu)
  <2>1. ImplicitOutcome(i, x) = Done([x EXCEPT !.cpu = c])
    BY <1>2 DEF ImplicitOutcome
  <2>2. x.cpu \in Cpus /\ Byte \in Widths /\ Word \in Widths
    BY DEF IsMachine, Widths
  <2>3. /\ SignedValue(ReadRegister(x.cpu, "AL"), Byte) \in Int
        /\ SignedValue(ReadRegister(x.cpu, "AX"), Word) \in Int
    BY <2>2, Accumulators, ReadRegisterValue, SignedIsInt
  <2>4. CASE i.op = "CBW"
    <3>1. c = WriteRegister(x.cpu, "AX", SignedValue(ReadRegister(x.cpu, "AL"), Byte))
      BY <2>4 DEF Extend
    <3> HIDE DEF c
    <3> QED
      BY <2>1, <2>2, <2>3, <3>1, Accumulators, WriteRegisterTracks, CpuSound DEF UndefinedFlags
  <2>5. CASE i.op = "CWDE"
    <3>1. c = WriteRegister(x.cpu, "EAX", SignedValue(ReadRegister(x.cpu, "AX"), Word))
      BY <2>5 DEF Extend
    <3> HIDE DEF c
    <3> QED
      BY <2>1, <2>2, <2>3, <3>1, Accumulators, WriteRegisterTracks, CpuSound DEF UndefinedFlags
  <2>6. CASE i.op \in {"CWD", "CDQ"}
    <3>1. PICK name \in RegisterNames, v \in Int : c = WriteRegister(x.cpu, name, v)
      BY <2>6, Accumulators DEF SignFill
    <3> HIDE DEF c
    <3> QED
      BY <2>1, <2>2, <3>1, WriteRegisterTracks, CpuSound DEF UndefinedFlags
  <2>7. CASE i.op = "NOP"
    <3>1. c = x.cpu
      BY <2>7
    <3> HIDE DEF c
    <3> QED
      BY <2>1, <2>2, <3>1, TracksSelf, CpuSound
  <2>8. CASE i.op \in {"CLC", "STC", "CMC"}
    <3>1. c = CarryControl(i.op, x.cpu)
      BY <2>8
    <3>2. PICK values : FlagValues(values) /\ c = WriteFlags(x.cpu, values)
      BY <2>2, <2>8, <3>1, CarryFlag
    <3> HIDE DEF c
    <3> QED
      BY <2>1, <2>2, <3>2, TracksSelf, TwoWrites
  <2> QED
    BY <2>4, <2>5, <2>6, <2>7, <2>8 DEF ImplicitOps
<1> QED
  BY <1>1, <1>2

LEMMA WritePairTracks ==
  ASSUME NEW c \in Cpus, NEW w \in Widths, NEW low \in Int, NEW high \in Int
  PROVE  Tracks(c, WritePair(c, w, low, high)) /\ WritePair(c, w, low, high).origin = c.origin
<1> DEFINE d == WriteRegister(c, LowHalf(w), low)
<1>1. Tracks(c, d) /\ d.origin = c.origin /\ d \in Cpus
  BY Accumulators, WriteRegisterTracks DEF Tracks
<1>2. WritePair(c, w, low, high) = WriteRegister(d, HighHalf(w), high)
  BY DEF WritePair
<1> HIDE DEF d
<1> QED
  BY <1>1, <1>2, Accumulators, WriteRegisterTracks, TracksOn

LEMMA QuotientIsInt ==
  ASSUME NEW a \in Int, NEW b \in Int, b # 0
  PROVE  Quotient(a, b) \in Int /\ Rest(a, b) \in Int
<1>1. Abs(a) \in Int /\ Abs(b) \in Nat /\ Abs(b) > 0
  BY DEF Abs
<1>2. Abs(a) \div Abs(b) \in Int
  BY <1>1
<1>3. Quotient(a, b) \in Int
  BY <1>2 DEF Quotient
<1> QED
  BY <1>3 DEF Rest

LEMMA AccumulatorSound ==
  ASSUME NEW x, IsMachine(x), NEW i \in Instructions, i.op \in AccumulatorOps
  PROVE  Sound(x, AccumulatorOutcome(i, x))
<1> DEFINE w == OperandWidth(i.src)
           supported == i.dst.kind = "none" /\ IsDestination(i.src)
<1>1. CASE ~supported
  BY <1>1, RefusalSound DEF AccumulatorOutcome
<1>2. CASE supported /\ ~Readable(x, i.src)
  BY <1>2, RefusalSound DEF AccumulatorOutcome
<1>3. CASE supported /\ Readable(x, i.src)
  <2>1. /\ x.cpu \in Cpus /\ i.src \in Operands /\ i.src.kind # "none" /\ w \in Widths
        /\ Modulus(w) \in Nat /\ Modulus(w) > 0
    BY <1>3, OperandWidths, Sizes
       DEF Instructions, IsDestination, IsRegister, IsMemory, IsMachine
  <2> DEFINE v == ReadOperand(x, i.src, w)
             a == ReadRegister(x.cpu, LowHalf(w))
             h == ReadRegister(x.cpu, HighHalf(w))
  <2>2. /\ v \in Int /\ a \in Int /\ h \in Int
        /\ SignedValue(v, w) \in Int /\ SignedValue(a, w) \in Int /\ SignedValue(h, w) \in Int
    <3>1. v \in Int /\ a \in Int /\ h \in Int
      BY <1>3, <2>1, Accumulators, ReadOperandValue, ReadRegisterValue
    <3> QED
      BY <2>1, <3>1, SignedIsInt
  <2>3. CASE i.op \in {"MUL", "IMUL"}
    <3> DEFINE p == Product(i, x, w)
               wide == IF i.op = "MUL" THEN p > Mask(w) ELSE ~Fits(p, w)
               c == WritePair(x.cpu, w, p, p \div Modulus(w))
    <3>1. AccumulatorOutcome(i, x) =
            Done([x EXCEPT !.cpu = WriteFlags(c, [CF |-> wide, OF |-> wide])])
      BY <1>3, <2>3 DEF AccumulatorOutcome, MultiplyOutcome
    <3>2. p \in Int /\ p \div Modulus(w) \in Int
      <4>1. p = IF i.op = "MUL" THEN a * v ELSE SignedValue(a, w) * SignedValue(v, w)
        BY DEF Product
      <4> HIDE DEF p, a, v
      <4>2. p \in Int
        BY <2>2, <4>1
      <4> QED
        BY <2>1, <4>2
    <3>3. Tracks(x.cpu, c) /\ c.origin = x.cpu.origin
      BY <2>1, <3>2, WritePairTracks
    <3>4. wide \in BOOLEAN
      <4>1. (p > Mask(w)) \in BOOLEAN /\ (~Fits(p, w)) \in BOOLEAN
        BY DEF Fits
      <4> QED
        BY <4>1
    <3> HIDE DEF c, wide
    <3>5. FlagValues([CF |-> wide, OF |-> wide])
      BY <3>4 DEF FlagValues
    <3> QED
      BY <3>1, <3>3, <3>5, TwoWrites
  <2>4. CASE i.op \in {"DIV", "IDIV"}
    <3> DEFINE divisor == AsOperand(i, v, w)
               dividend == Dividend(i, x, w)
               q == Quotient(dividend, divisor)
               c == WritePair(x.cpu, w, q, Rest(dividend, divisor))
               fits == IF i.op = "DIV" THEN q <= Mask(w) ELSE Fits(q, w)
    <3>1. AccumulatorOutcome(i, x) =
            IF divisor = 0 THEN Outcome("divide-by-zero", x)
            ELSE IF ~fits THEN Outcome("quotient-overflow", x)
            ELSE Done([x EXCEPT !.cpu = c])
      BY <1>3, <2>4 DEF AccumulatorOutcome, DivideOutcome
    <3>2. divisor \in Int /\ dividend \in Int
      BY <2>1, <2>2 DEF AsOperand, Dividend, PairValue, SignedPair
    <3>3. ASSUME divisor # 0
          PROVE  Sound(x, Done([x EXCEPT !.cpu = c]))
      <4>1. q \in Int /\ Rest(dividend, divisor) \in Int
        BY <3>2, <3>3, QuotientIsInt
      <4>2. Tracks(x.cpu, c) /\ c.origin = x.cpu.origin
        BY <2>1, <4>1, WritePairTracks
      <4> HIDE DEF c
      <4> QED
        BY <4>2, CpuSound DEF UndefinedFlags
    <3> HIDE DEF c, fits, divisor
    <3> QED
      BY <3>1, <3>3, RefusalSound
  <2> QED
    BY <2>3, <2>4 DEF AccumulatorOps
<1> QED
  BY <1>1, <1>2, <1>3

LEMMA ExplicitImulSound ==
  ASSUME NEW x, IsMachine(x), NEW i \in Instructions
  PROVE  Sound(x, ExplicitImulOutcome(i, x))
<1> DEFINE w == OperandWidth(i.dst)
           l == IF i.op = "IMUL" THEN ReadOperand(x, i.dst, w) ELSE Low(i.factor, w)
           r == ReadOperand(x, i.src, w)
           p == SignedValue(l, w) * SignedValue(r, w)
           supported == IsRegister(i.dst) /\ IsDestination(i.src) /\ w \in {Word, Dword}
<1>1. CASE ~supported
  BY <1>1, RefusalSound DEF ExplicitImulOutcome
<1>2. CASE supported /\ ~Readable(x, i.src)
  BY <1>2, RefusalSound DEF ExplicitImulOutcome
<1>3. CASE supported /\ Readable(x, i.src)
  <2>1. /\ x.cpu \in Cpus /\ i.src \in Operands /\ i.dst \in Operands /\ i.src.kind # "none"
        /\ w \in Widths /\ i.dst.name \in RegisterNames /\ i.factor \in Int
        /\ i.dst.kind # "none" /\ Readable(x, i.dst)
    BY <1>3, OperandForms
       DEF Instructions, IsDestination, IsRegister, IsMemory, IsMachine, Widths, Readable
  <2>2. l \in Int /\ r \in Int
    BY <1>3, <2>1, ReadOperandValue, LowIsValue
  <2>3. p \in Int
    <3> HIDE DEF l, r
    <3>1. SignedValue(l, w) \in Int /\ SignedValue(r, w) \in Int
      BY <2>1, <2>2, SignedIsInt
    <3> QED
      BY <3>1
  <2> DEFINE c == WriteRegister(x.cpu, i.dst.name, p)
             cut == ~Fits(p, w)
  <2>4. ExplicitImulOutcome(i, x) =
          Done([x EXCEPT !.cpu = WriteFlags(c, [CF |-> cut, OF |-> cut])])
    BY <1>3 DEF ExplicitImulOutcome
  <2>5. Tracks(x.cpu, c) /\ c.origin = x.cpu.origin
    BY <2>1, <2>3, WriteRegisterTracks
  <2>6. cut \in BOOLEAN
    BY DEF Fits
  <2> HIDE DEF c, cut
  <2>7. FlagValues([CF |-> cut, OF |-> cut])
    BY <2>6 DEF FlagValues
  <2> QED
    BY <2>4, <2>5, <2>7, TwoWrites
<1> QED
  BY <1>1, <1>2, <1>3

-----------------------------------------------------------------------------
(* Shifts and rotates, which may leave flags undefined. *)

LEMMA ShiftedNumber ==
  ASSUME NEW op \in ShiftOps \cup RotateOps, NEW v \in Nat, NEW n \in Nat, n > 0, NEW w \in Widths
  PROVE  /\ Shift(op, v, n, w).result \in Int
         /\ Shift(op, v, n, w).CF \in BOOLEAN /\ Shift(op, v, n, w).OF \in BOOLEAN
<1>1. w \in Nat /\ w > 1 /\ n - 1 \in Nat
  BY Sizes
<1> DEFINE k == n % w
<1>2. k \in Nat /\ w - k \in Nat
  BY <1>1
<1>3. \A m \in Nat : /\ 2^m \in Int /\ v * 2^m \in Int /\ v \div 2^m \in Int
                     /\ \A s \in Int : s \div 2^m \in Int
  BY Power
<1>4. \A m \in Int : Low(m, w) \in Int
  BY LowIsValue
<1>5. SignedValue(v, w) \in Int
  BY SignedIsInt
<1>6. CASE op \in {"SHL", "SAL"}
  <2>1. Shift(op, v, n, w) = ShiftLeft(v, n, w)
    BY <1>6 DEF Shift
  <2>2. ShiftLeft(v, n, w).result \in Int
    BY <1>3, <1>4 DEF ShiftLeft, Shifted
  <2>3. ShiftLeft(v, n, w).CF \in BOOLEAN /\ ShiftLeft(v, n, w).OF \in BOOLEAN
    BY DEF ShiftLeft, Shifted, IsNegative
  <2> QED
    BY <2>1, <2>2, <2>3
<1>7. CASE op = "SHR"
  <2>1. Shift(op, v, n, w) = ShiftRight(v, n, w)
    BY <1>7 DEF Shift
  <2>2. ShiftRight(v, n, w).result \in Int
    BY <1>3, <1>4 DEF ShiftRight, Shifted
  <2>3. ShiftRight(v, n, w).CF \in BOOLEAN /\ ShiftRight(v, n, w).OF \in BOOLEAN
    BY DEF ShiftRight, Shifted, IsNegative
  <2> QED
    BY <2>1, <2>2, <2>3
<1>8. CASE op = "SAR"
  <2>1. Shift(op, v, n, w) = ShiftArithmeticRight(v, n, w)
    BY <1>8 DEF Shift
  <2>2. ShiftArithmeticRight(v, n, w).result \in Int
    BY <1>3, <1>4, <1>5 DEF ShiftArithmeticRight, Shifted
  <2>3. ShiftArithmeticRight(v, n, w).CF \in BOOLEAN /\ ShiftArithmeticRight(v, n, w).OF \in BOOLEAN
    BY DEF ShiftArithmeticRight, Shifted
  <2> QED
    BY <2>1, <2>2, <2>3
<1>9. CASE op = "ROL"
  <2>1. Shift(op, v, n, w) = RotateLeft(v, n, w)
    BY <1>9 DEF Shift
  <2>2. RotateLeft(v, n, w).result \in Int
    BY <1>2, <1>3, <1>4 DEF RotateLeft, Shifted
  <2>3. RotateLeft(v, n, w).CF \in BOOLEAN /\ RotateLeft(v, n, w).OF \in BOOLEAN
    BY DEF RotateLeft, Shifted, IsNegative
  <2> QED
    BY <2>1, <2>2, <2>3
<1>10. CASE op = "ROR"
  <2>1. Shift(op, v, n, w) = RotateRight(v, n, w)
    BY <1>10 DEF Shift
  <2>2. RotateRight(v, n, w).result \in Int
    BY <1>2, <1>3, <1>4 DEF RotateRight, Shifted
  <2>3. RotateRight(v, n, w).CF \in BOOLEAN /\ RotateRight(v, n, w).OF \in BOOLEAN
    BY DEF RotateRight, Shifted, IsNegative
  <2> QED
    BY <2>1, <2>2, <2>3
<1> QED
  BY <1>6, <1>7, <1>8, <1>9, <1>10 DEF ShiftOps, RotateOps

\* What a shift leaves undefined is what it says, and the rotates leave as it was what
\* they do not touch.
LEMMA ShiftCpuTracks ==
  ASSUME NEW c \in Cpus, NEW op \in ShiftOps \cup RotateOps, NEW shifted, NEW n, NEW w,
         shifted.CF \in BOOLEAN, shifted.OF \in BOOLEAN
  PROVE  /\ Tracks(c, ShiftCpu(c, op, shifted, n, w))
         /\ UndefinedFlags(ShiftCpu(c, op, shifted, n, w)) \subseteq
               UndefinedFlags(c) \cup ShiftUndefines(op, n, w)
         /\ ShiftUndefines(op, n, w) \subseteq UndefinedFlags(ShiftCpu(c, op, shifted, n, w))
<1> DEFINE flags == [CF |-> shifted.CF, OF |-> shifted.OF, ZF |-> shifted.result = 0,
                     SF |-> IsNegative(shifted.result, w)]
           undefined == ShiftUndefines(op, n, w)
           defined == (IF op \in ShiftOps THEN Flags ELSE {"CF", "OF"}) \ undefined
           values == [f \in defined |-> flags[f]]
           d == WriteFlags(c, values)
           e == MarkUndefined(d, undefined, op)
<1>1. ShiftCpu(c, op, shifted, n, w) = e
  BY DEF ShiftCpu
<1>2. FlagValues(values)
  <2>1. (shifted.result = 0) \in BOOLEAN /\ IsNegative(shifted.result, w) \in BOOLEAN
    BY DEF IsNegative
  <2>2. /\ flags["CF"] \in BOOLEAN /\ flags["OF"] \in BOOLEAN /\ flags["ZF"] \in BOOLEAN
        /\ flags["SF"] \in BOOLEAN
    BY <2>1
  <2>3. \A f \in Flags : flags[f] \in BOOLEAN
    BY <2>2 DEF Flags
  <2> HIDE DEF flags, defined
  <2>4. DOMAIN values = defined /\ \A f \in defined : values[f] = flags[f]
    OBVIOUS
  <2> HIDE DEF values
  <2> QED
    BY <2>3, <2>4 DEF FlagValues
<1> HIDE DEF values
<1>3. Tracks(c, d) /\ UndefinedFlags(d) \subseteq UndefinedFlags(c) /\ d \in Cpus
  BY <1>2, WriteFlagsTracks DEF Tracks
<1> HIDE DEF d
<1>4. op \in Opcodes /\ op # Valid
  BY DEF Opcodes, Valid, ShiftOps, RotateOps
<1>5. undefined \subseteq Flags
  BY DEF ShiftUndefines, Flags
<1> HIDE DEF undefined
<1>6. Tracks(d, e)
  BY <1>3, <1>4, MarkUndefinedTracks
<1>7. \A f \in Flags : e.origin[f] = IF f \in undefined THEN op ELSE d.origin[f]
  BY <1>3 DEF MarkUndefined, Cpus
<1>8. UndefinedFlags(e) = UndefinedFlags(d) \cup undefined
  BY <1>4, <1>5, <1>7 DEF UndefinedFlags
<1> QED
  BY <1>1, <1>3, <1>6, <1>8, TracksOn DEF undefined

LEMMA ShiftAnswers ==
  ASSUME NEW x, IsMachine(x), NEW i \in Instructions, i.op \in ShiftOps \cup RotateOps
  PROVE  LET out == ShiftOutcome(i, x)
             n == EffectiveCount(i, x)
             w == OperandWidth(i.dst)
         IN  /\ Answers(x, out)
             /\ out.status = "ok" =>
                  /\ ShiftCountSupported(i) /\ IsDestination(i.dst) /\ n \in Nat
                  /\ n = 0 => out.machine = x
                  /\ n > 0 => /\ UndefinedFlags(out.machine.cpu) \subseteq
                                   UndefinedFlags(x.cpu) \cup ShiftUndefines(i.op, n, w)
                              /\ ShiftUndefines(i.op, n, w) \subseteq
                                   UndefinedFlags(out.machine.cpu)
<1> DEFINE out == ShiftOutcome(i, x)
           w == OperandWidth(i.dst)
           n == EffectiveCount(i, x)
           v == ReadOperand(x, i.dst, w)
           shifted == Shift(i.op, v, n, w)
           supported == IsDestination(i.dst) /\ ShiftCountSupported(i)
           d == ShiftCpu(x.cpu, i.op, shifted, n, w)
<1>1. CASE ~supported
  <2>1. out = Outcome("unsupported-operand", x)
    BY <1>1 DEF ShiftOutcome
  <2>2. Answers(x, out) /\ out.status # "ok"
    BY <2>1, FollowsSelf DEF Outcome
  <2> QED
    BY <2>2
<1>2. CASE supported
  <2>1. /\ x.cpu \in Cpus /\ i.dst \in Operands /\ i.src \in Operands /\ w \in Widths
        /\ i.dst.kind # "none" /\ Byte \in Widths /\ Dword \in Nat /\ Dword > 0
    BY <1>2, OperandWidths, Sizes
       DEF Instructions, IsDestination, IsRegister, IsMemory, IsMachine, Widths
  <2>2. i.src.kind # "none" /\ Readable(x, i.src)
    BY <1>2 DEF ShiftCountSupported, Reg, Readable, IsMemory
  <2>3. n \in Nat
    BY <2>1, <2>2, ReadOperandValue DEF EffectiveCount
  <2>4. out = IF n = 0 THEN Done(x)
              ELSE IF ~Readable(x, i.dst) THEN Outcome("memory-error", x)
              ELSE Commit(x, d, i.dst, w, shifted.result)
    BY <1>2 DEF ShiftOutcome
  <2>5. CASE n = 0
    <3>1. out = Outcome("ok", x)
      BY <2>4, <2>5 DEF Done
    <3>2. Answers(x, out) /\ out.machine = x
      BY <3>1, FollowsSelf DEF Outcome
    <3> QED
      BY <1>2, <2>3, <2>5, <3>2
  <2>6. CASE n # 0 /\ ~Readable(x, i.dst)
    <3>1. out = Outcome("memory-error", x)
      BY <2>4, <2>6
    <3>2. Answers(x, out) /\ out.status # "ok"
      BY <3>1, FollowsSelf DEF Outcome
    <3> QED
      BY <3>2
  <2>7. CASE n # 0 /\ Readable(x, i.dst)
    <3>1. v \in Nat /\ n > 0
      BY <2>1, <2>3, <2>7, ReadOperandValue
    <3>2. shifted.result \in Int /\ shifted.CF \in BOOLEAN /\ shifted.OF \in BOOLEAN
      BY <2>1, <2>3, <3>1, ShiftedNumber
    <3> HIDE DEF shifted
    <3>3. /\ Tracks(x.cpu, d)
          /\ UndefinedFlags(d) \subseteq UndefinedFlags(x.cpu) \cup ShiftUndefines(i.op, n, w)
          /\ ShiftUndefines(i.op, n, w) \subseteq UndefinedFlags(d)
      BY <2>1, <3>2, ShiftCpuTracks
    <3>4. out = Commit(x, d, i.dst, w, shifted.result)
      BY <2>4, <2>7
    <3> HIDE DEF d, n, w, out
    <3>5. Answers(x, out) /\ (out.status = "ok" => out.machine.cpu.origin = d.origin)
      BY <1>2, <2>1, <3>2, <3>3, <3>4, CommitAnswers
    <3>6. out.status = "ok" => UndefinedFlags(out.machine.cpu) = UndefinedFlags(d)
      BY <3>5 DEF UndefinedFlags
    <3>7. /\ Answers(x, out)
          /\ out.status = "ok" =>
               /\ supported /\ n \in Nat
               /\ n > 0 => /\ UndefinedFlags(out.machine.cpu) \subseteq
                                UndefinedFlags(x.cpu) \cup ShiftUndefines(i.op, n, w)
                           /\ ShiftUndefines(i.op, n, w) \subseteq
                                UndefinedFlags(out.machine.cpu)
               /\ n # 0
      BY <1>2, <2>3, <2>7, <3>3, <3>5, <3>6
    <3> QED
      BY <3>7 DEF n, w, out
  <2> QED
    BY <2>5, <2>6, <2>7
<1> QED
  BY <1>1, <1>2

-----------------------------------------------------------------------------
(* Every instruction. *)

LEMMA Dispatch ==
  ASSUME NEW x, NEW i \in Instructions
  PROVE  LET out == InstructionOutcome(i, x) IN
         \/ i.op \in BinaryOps /\ out = BinaryOutcome(i, x)
         \/ i.op \in ShiftOps \cup RotateOps /\ out = ShiftOutcome(i, x)
         \/ i.op \in UnaryOps /\ out = UnaryOutcome(i, x)
         \/ i.op \in {"MOVSX", "MOVZX"} /\ out = MovxOutcome(i, x)
         \/ i.op \in ImplicitOps /\ out = ImplicitOutcome(i, x)
         \/ i.op = "XCHG" /\ out = XchgOutcome(i, x)
         \/ i.op = "LEA" /\ out = LeaOutcome(i, x)
         \/ (i.op = "IMUL-IMMEDIATE" \/ (i.op = "IMUL" /\ i.dst.kind # "none"))
              /\ out = ExplicitImulOutcome(i, x)
         \/ i.op \in AccumulatorOps /\ ~(i.op = "IMUL" /\ i.dst.kind # "none")
              /\ out = AccumulatorOutcome(i, x)
<1>1. i.op \in Opcodes
  BY DEF Instructions
<1> USE DEF BinaryOps, LogicalOps, ShiftOps, RotateOps, UnaryOps, ImplicitOps, AccumulatorOps
<1>2. CASE i.op \in BinaryOps
  BY <1>2 DEF InstructionOutcome
<1>3. CASE i.op \in ShiftOps \cup RotateOps
  BY <1>3 DEF InstructionOutcome
<1>4. CASE i.op \in UnaryOps
  BY <1>4 DEF InstructionOutcome
<1>5. CASE i.op \in {"MOVSX", "MOVZX"}
  BY <1>5 DEF InstructionOutcome
<1>6. CASE i.op \in ImplicitOps
  BY <1>6 DEF InstructionOutcome
<1>7. CASE i.op \in {"XCHG", "LEA", "IMUL-IMMEDIATE"}
  BY <1>7 DEF InstructionOutcome
<1>8. CASE i.op \in AccumulatorOps
  BY <1>8 DEF InstructionOutcome
<1> QED
  BY <1>1, <1>2, <1>3, <1>4, <1>5, <1>6, <1>7, <1>8 DEF Opcodes

LEMMA InstructionAnswers ==
  ASSUME NEW x, IsMachine(x), NEW i \in Instructions
  PROVE  /\ Answers(x, InstructionOutcome(i, x))
         /\ i.op \notin ShiftOps \cup RotateOps => Sound(x, InstructionOutcome(i, x))
         /\ i.op \in ShiftOps \cup RotateOps => InstructionOutcome(i, x) = ShiftOutcome(i, x)
<1> DEFINE out == InstructionOutcome(i, x)
<1>1. CASE i.op \in ShiftOps \cup RotateOps /\ out = ShiftOutcome(i, x)
  BY <1>1, ShiftAnswers
<1>2. CASE i.op \notin ShiftOps \cup RotateOps /\ Sound(x, out)
  BY <1>2 DEF Sound
<1>3. ASSUME i.op \in BinaryOps, out = BinaryOutcome(i, x)
      PROVE  Sound(x, out) /\ i.op \notin ShiftOps \cup RotateOps
  BY <1>3, BinarySound DEF BinaryOps, LogicalOps, ShiftOps, RotateOps
<1>4. ASSUME i.op \in UnaryOps, out = UnaryOutcome(i, x)
      PROVE  Sound(x, out) /\ i.op \notin ShiftOps \cup RotateOps
  BY <1>4, UnarySound DEF UnaryOps, ShiftOps, RotateOps
<1>5. ASSUME i.op \in {"MOVSX", "MOVZX"}, out = MovxOutcome(i, x)
      PROVE  Sound(x, out) /\ i.op \notin ShiftOps \cup RotateOps
  BY <1>5, MovxSound DEF ShiftOps, RotateOps
<1>6. ASSUME i.op \in ImplicitOps, out = ImplicitOutcome(i, x)
      PROVE  Sound(x, out) /\ i.op \notin ShiftOps \cup RotateOps
  BY <1>6, ImplicitSound DEF ImplicitOps, ShiftOps, RotateOps
<1>7. ASSUME i.op = "XCHG", out = XchgOutcome(i, x)
      PROVE  Sound(x, out) /\ i.op \notin ShiftOps \cup RotateOps
  BY <1>7, XchgSound DEF ShiftOps, RotateOps
<1>8. ASSUME i.op = "LEA", out = LeaOutcome(i, x)
      PROVE  Sound(x, out) /\ i.op \notin ShiftOps \cup RotateOps
  BY <1>8, LeaSound DEF ShiftOps, RotateOps
<1>9. ASSUME i.op \in {"IMUL", "IMUL-IMMEDIATE"}, out = ExplicitImulOutcome(i, x)
      PROVE  Sound(x, out) /\ i.op \notin ShiftOps \cup RotateOps
  BY <1>9, ExplicitImulSound DEF ShiftOps, RotateOps
<1>10. ASSUME i.op \in AccumulatorOps, out = AccumulatorOutcome(i, x)
       PROVE  Sound(x, out) /\ i.op \notin ShiftOps \cup RotateOps
  BY <1>10, AccumulatorSound DEF AccumulatorOps, ShiftOps, RotateOps
<1> HIDE DEF out
<1>11. (i.op \in ShiftOps \cup RotateOps /\ out = ShiftOutcome(i, x))
         \/ (i.op \notin ShiftOps \cup RotateOps /\ Sound(x, out))
  BY <1>3, <1>4, <1>5, <1>6, <1>7, <1>8, <1>9, <1>10, Dispatch DEF out
<1> QED
  BY <1>1, <1>2, <1>11 DEF out

-----------------------------------------------------------------------------
(* The invariants of a run. *)

MachineInv ==
  /\ startup \in Starts /\ steps \in Nat
  /\ IsMachine(machine) /\ Tracks(startup.cpu, machine.cpu)

\* The flags are those of the comparison.
Compares(c, flag) ==
  /\ c.width \in Widths /\ c.left \in Values(c.width) /\ c.right \in Values(c.width)
  /\ \A f \in Flags : flag[f] = SubFlags(c.left, c.right, c.width)[f]

ComparedInv == compared # NotCompared => Compares(compared, machine.cpu.flag)

\* An instruction comes from the menu of its step; a refused one leaves all but the
\* verdict as it was.
LEMMA StepTaken ==
  ASSUME MachineInv, Step
  PROVE  \E i \in Instructions :
           /\ last'.instruction = i /\ steps' = steps + 1 /\ startup' = startup /\ policy' = policy
           /\ \/ /\ last'.status # "ok" /\ machine' = machine /\ twin' = twin
                 /\ compared' = compared /\ Refuse(i)
              \/ Execute(i)
<1>1. PICK i \in Menu(steps) : Refuse(i) \/ Execute(i)
  BY DEF Step
<1>2. steps \in 0..MaxSteps - 1 /\ steps' = steps + 1 /\ startup' = startup /\ policy' = policy
  BY ProgramsAssumption DEF Step, MayStep, MachineInv
<1>3. i \in Instructions
  BY <1>1, <1>2, ProgramsAssumption
<1> QED
  BY <1>1, <1>2, <1>3 DEF Refuse, Execute

LEMMA StartsAreMachines ==
  ASSUME NEW x \in Starts
  PROVE  IsMachine(x) /\ UndefinedFlags(x.cpu) = {}
<1>1. /\ x = [cpu |-> StartupCpu(x.cpu.reg, x.cpu.flag), mem |-> x.mem]
      /\ x.cpu.reg \in [Families -> Values(Dword)] /\ x.cpu.flag \in [Flags -> BOOLEAN]
      /\ x.mem \in [DOMAIN x.mem -> Values(Dword)] /\ Writable \subseteq DOMAIN x.mem
  BY ProgramsAssumption
<1>2. Values(Dword) \subseteq Int
  BY Sizes DEF Values, Widths
<1>3. x.cpu = [reg |-> x.cpu.reg, flag |-> x.cpu.flag, origin |-> [f \in Flags |-> Valid],
               written |-> {}]
  BY <1>1 DEF StartupCpu
<1>4. x.cpu \in Cpus
  BY <1>1, <1>2, <1>3 DEF Cpus
<1>5. x.mem \in [DOMAIN x.mem -> Int]
  BY <1>1, <1>2
<1>6. IsMachine(x)
  BY <1>1, <1>4, <1>5 DEF IsMachine
<1>7. \A f \in Flags : x.cpu.origin[f] = Valid
  BY <1>3
<1> QED
  BY <1>6, <1>7 DEF UndefinedFlags

LEMMA MachineAtStart == Init => MachineInv
BY StartsAreMachines, TracksSelf DEF Init, MachineInv, IsMachine

LEMMA MachineSteps == MachineInv /\ [Next]_vars => MachineInv'
<1> SUFFICES ASSUME MachineInv, [Next]_vars PROVE MachineInv'
  OBVIOUS
<1>1. CASE Step
  <2>1. PICK i \in Instructions :
           /\ steps' = steps + 1 /\ startup' = startup
           /\ machine' = machine \/ Execute(i)
    BY <1>1, StepTaken
  <2>2. ASSUME Execute(i)
        PROVE  Follows(machine, machine')
    BY <2>2, InstructionAnswers DEF Execute, MachineInv, Answers
  <2>3. IsMachine(machine') /\ Tracks(machine.cpu, machine'.cpu)
    BY <2>1, <2>2, TracksSelf DEF MachineInv, Follows, IsMachine
  <2>4. Tracks(startup.cpu, machine'.cpu)
    BY <2>3, TracksOn DEF MachineInv
  <2> QED
    BY <2>1, <2>3, <2>4 DEF MachineInv
<1>2. CASE UNCHANGED vars
  BY <1>2 DEF vars, MachineInv
<1> QED
  BY <1>1, <1>2 DEF Next, Finished

\* A family that does not count as written still holds what the program started with.
THEOREM UnwrittenStaysSeeded == Spec => []UnwrittenKeepsStartup
<1>1. MachineInv => UnwrittenKeepsStartup
  BY DEF MachineInv, Tracks, UnwrittenKeepsStartup
<1> QED
  BY <1>1, MachineAtStart, MachineSteps, PTL DEF Spec

\* The flags a comparison leaves.
LEMMA ComparisonFlags ==
  ASSUME NEW x, IsMachine(x), NEW i \in Instructions, i.op \in {"CMP", "SUB"},
         InstructionOutcome(i, x).status = "ok"
  PROVE  LET w == OperandWidth(i.dst) IN
         Compares([width |-> w, left |-> ReadOperand(x, i.dst, w),
                   right |-> ReadOperand(x, i.src, w)],
                  InstructionOutcome(i, x).machine.cpu.flag)
<1> DEFINE w == OperandWidth(i.dst)
           l == ReadOperand(x, i.dst, w)
           r == ReadOperand(x, i.src, w)
           out == InstructionOutcome(i, x)
           c == [width |-> w, left |-> l, right |-> r]
           d == WriteFlags(x.cpu, SubFlags(l, r, w))
<1>1. out = BinaryOutcome(i, x)
  BY Dispatch DEF ShiftOps, RotateOps, UnaryOps, ImplicitOps, AccumulatorOps
<1>2. BinarySupported(i) /\ Readable(x, i.src) /\ Readable(x, i.dst)
  BY <1>1 DEF BinaryOutcome, Outcome
<1>3. i.dst \in Operands /\ i.src \in Operands /\ IsDestination(i.dst) /\ i.src.kind # "none"
      /\ i.dst.kind # "none" /\ x.cpu \in Cpus
  BY <1>2 DEF Instructions, BinarySupported, IsDestination, IsRegister, IsMemory, IsMachine
<1>4. w \in Widths /\ l \in Values(w) /\ r \in Values(w) /\ l \in Nat /\ r \in Nat
  BY <1>2, <1>3, OperandWidths, ReadOperandValue
<1>5. Tracks(x.cpu, d) /\ \A f \in Flags : d.flag[f] = SubFlags(l, r, w)[f]
  <2>1. Tracks(x.cpu, d)
    BY <1>3, FlagHelpers, WriteFlagsTracks
  <2>2. DOMAIN SubFlags(l, r, w) = Flags
    BY DEF SubFlags, Flags
  <2>3. d.flag = [f \in Flags |-> IF f \in DOMAIN SubFlags(l, r, w) THEN SubFlags(l, r, w)[f]
                                  ELSE x.cpu.flag[f]]
    BY <1>3 DEF WriteFlags, Cpus
  <2> QED
    BY <2>1, <2>2, <2>3
<1>6. out = Done([x EXCEPT !.cpu = d]) \/ out = Commit(x, d, i.dst, w, l - r)
  BY <1>1, <1>2 DEF BinaryOutcome
<1> SUFFICES Compares(c, out.machine.cpu.flag)
  OBVIOUS
<1> HIDE DEF d
<1>7. out.machine.cpu.flag = d.flag
  <2>1. CASE out = Done([x EXCEPT !.cpu = d])
    <3>1. out.machine = [x EXCEPT !.cpu = d]
      BY <2>1 DEF Done, Outcome
    <3> QED
      BY <1>5, <3>1, SetCpu
  <2>2. CASE out = Commit(x, d, i.dst, w, l - r)
    <3>1. l - r \in Int
      BY <1>4
    <3> QED
      BY <1>3, <1>4, <1>5, <2>2, <3>1, CommitAnswers
  <2> QED
    BY <1>6, <2>1, <2>2
<1> HIDE DEF w, l, r, out
<1> QED
  BY <1>4, <1>5, <1>7 DEF Compares

LEMMA ComparedSteps == MachineInv /\ ComparedInv /\ [Next]_vars => ComparedInv'
<1> SUFFICES ASSUME MachineInv, ComparedInv, [Next]_vars PROVE ComparedInv'
  OBVIOUS
<1>1. CASE Step
  <2>1. PICK i \in Instructions :
           \/ machine' = machine /\ compared' = compared
           \/ Execute(i)
    BY <1>1, StepTaken
  <2>2. CASE machine' = machine /\ compared' = compared
    BY <2>2 DEF ComparedInv
  <2>3. CASE Execute(i)
    <3> DEFINE out == InstructionOutcome(i, machine)
    <3>1. /\ machine' = out.machine
          /\ compared' = IF out.status = "ok" THEN ComparedBy(i, machine, out.machine) ELSE compared
      BY <2>3 DEF Execute
    <3>2. CASE out.status # "ok"
      <4>1. out.machine = machine
        BY <3>2, InstructionAnswers DEF Answers, MachineInv
      <4> QED
        BY <3>1, <3>2, <4>1 DEF ComparedInv
    <3>3. CASE out.status = "ok" /\ i.op \in {"CMP", "SUB"}
      BY <3>1, <3>3, ComparisonFlags DEF ComparedBy, ComparedInv, MachineInv
    <3>4. CASE out.status = "ok" /\ i.op \notin {"CMP", "SUB"}
      <4>1. \/ compared' = compared /\ machine'.cpu.flag = machine.cpu.flag
            \/ compared' = NotCompared
        BY <3>1, <3>4 DEF ComparedBy
      <4> QED
        BY <4>1 DEF ComparedInv
    <3> QED
      BY <3>2, <3>3, <3>4
  <2> QED
    BY <2>1, <2>2, <2>3
<1>2. CASE UNCHANGED vars
  BY <1>2 DEF vars, ComparedInv
<1> QED
  BY <1>1, <1>2 DEF Next, Finished

\* The flags of a difference tell how two values compare, with and without sign.
LEMMA DifferenceFlags ==
  ASSUME NEW w \in Widths, NEW l \in Values(w), NEW r \in Values(w)
  PROVE  LET f == SubFlags(l, r, w) IN
         /\ f.ZF <=> l = r
         /\ f.CF <=> l < r
         /\ (f.SF # f.OF) <=> SignedValue(l, w) < SignedValue(r, w)
         /\ SignedValue(l, w) = SignedValue(r, w) <=> l = r
         /\ SignedValue(l, w) \in Int /\ SignedValue(r, w) \in Int
<1> DEFINE S == SignBit[w]  d == (l - r) % (2 * S)
<1>1. S \in Nat /\ S > 0 /\ l \in 0..2 * S - 1 /\ r \in 0..2 * S - 1
  BY Sizes DEF Values, Mask, Modulus
<1> HIDE DEF S
<1>2. d = IF l >= r THEN l - r ELSE l - r + 2 * S
  <2> DEFINE e == IF l >= r THEN l - r ELSE l - r + 2 * S
             q == IF l >= r THEN 0 ELSE -1
  <2>1. e \in 0..2 * S - 1 /\ l - r = (2 * S) * q + e /\ q \in Int /\ 2 * S \in Nat
    BY <1>1
  <2> HIDE DEF e, q
  <2>2. (l - r) % (2 * S) = e
    BY <1>1, <2>1, SMTT(60)
  <2> QED
    BY <2>2 DEF e
<1>3. /\ SubFlags(l, r, w).ZF = (d = 0)
      /\ SubFlags(l, r, w).CF = (l < r)
      /\ SubFlags(l, r, w).SF = (d >= S)
      /\ SubFlags(l, r, w).OF = (((l >= S) # (r >= S)) /\ ((l >= S) # (d >= S)))
  BY DEF SubFlags, Low, Modulus, IsNegative, S
<1>4. /\ SignedValue(l, w) = IF l >= S THEN l - 2 * S ELSE l
      /\ SignedValue(r, w) = IF r >= S THEN r - 2 * S ELSE r
  BY DEF SignedValue, IsNegative, Modulus, S
<1> HIDE DEF d
<1>5. (d = 0) <=> l = r
  BY <1>1, <1>2
<1>6. SignedValue(l, w) = SignedValue(r, w) <=> l = r
  BY <1>1, <1>4
<1>7. ((d >= S) # (((l >= S) # (r >= S)) /\ ((l >= S) # (d >= S))))
        <=> SignedValue(l, w) < SignedValue(r, w)
  BY <1>1, <1>2, <1>4
<1>8. /\ SubFlags(l, r, w).ZF <=> d = 0
      /\ SubFlags(l, r, w).CF <=> l < r
  BY <1>3
<1>9. (SubFlags(l, r, w).SF # SubFlags(l, r, w).OF)
        <=> ((d >= S) # (((l >= S) # (r >= S)) /\ ((l >= S) # (d >= S))))
  BY <1>3
<1>10. SignedValue(l, w) \in Int /\ SignedValue(r, w) \in Int
  BY <1>1, <1>4
<1> QED
  BY <1>5, <1>6, <1>7, <1>8, <1>9, <1>10

\* Every conditional jump after a comparison decides the order its name says.
THEOREM BranchesDecide == Spec => []BranchesDecideOrder
<1>1. ComparedInv => BranchesDecideOrder
  <2> SUFFICES ASSUME ComparedInv, compared # NotCompared
               PROVE  BranchesDecideOrder
    BY DEF BranchesDecideOrder
  <2> DEFINE w == compared.width  l == compared.left  r == compared.right
             flag == machine.cpu.flag
             sl == SignedValue(l, w)  sr == SignedValue(r, w)
  <2>1. /\ w \in Widths /\ l \in Values(w) /\ r \in Values(w)
        /\ \A f \in Flags : flag[f] = SubFlags(l, r, w)[f]
    BY DEF ComparedInv, Compares
  <2>2. /\ flag["ZF"] <=> l = r
        /\ flag["CF"] <=> l < r
        /\ (flag["SF"] # flag["OF"]) <=> sl < sr
    BY <2>1, DifferenceFlags DEF Flags
  <2>3. sl = sr <=> l = r
    BY <2>1, DifferenceFlags
  <2>4. sl \in Int /\ sr \in Int /\ l \in Int /\ r \in Int
    BY <2>1, DifferenceFlags, Sizes DEF Values
  <2> HIDE DEF w, l, r, flag, sl, sr
  <2>5. /\ \A op \in {"JE", "JZ"} : JumpTaken(flag, op) <=> l = r
        /\ \A op \in {"JNE", "JNZ"} : JumpTaken(flag, op) <=> l # r
    BY <2>2 DEF JumpTaken
  <2>6. /\ \A op \in {"JL", "JNGE"} : JumpTaken(flag, op) <=> sl < sr
        /\ \A op \in {"JGE", "JNL"} : JumpTaken(flag, op) <=> sl >= sr
    BY <2>2, <2>4 DEF JumpTaken
  <2>7. /\ \A op \in {"JLE", "JNG"} : JumpTaken(flag, op) <=> sl <= sr
        /\ \A op \in {"JG", "JNLE"} : JumpTaken(flag, op) <=> sl > sr
    BY <2>2, <2>3, <2>4 DEF JumpTaken
  <2>8. /\ \A op \in {"JB", "JNAE"} : JumpTaken(flag, op) <=> l < r
        /\ \A op \in {"JAE", "JNB"} : JumpTaken(flag, op) <=> l >= r
    BY <2>2, <2>4 DEF JumpTaken
  <2>9. /\ \A op \in {"JBE", "JNA"} : JumpTaken(flag, op) <=> l <= r
        /\ \A op \in {"JA", "JNBE"} : JumpTaken(flag, op) <=> l > r
    BY <2>2, <2>4 DEF JumpTaken
  <2> QED
    BY <2>5, <2>6, <2>7, <2>8, <2>9 DEF BranchesDecideOrder, w, l, r, flag, sl, sr
<1>2. Init => ComparedInv
  BY DEF Init, ComparedInv
<1> QED
  BY <1>1, <1>2, MachineAtStart, MachineSteps, ComparedSteps, PTL DEF Spec

-----------------------------------------------------------------------------
(* The prediction of undefined flags. *)

LEMMA PredictionSteps ==
  ASSUME MachineInv, [Next]_vars, steps' # steps, last'.status = "ok"
  PROVE  LET after == UndefinedFlags(machine'.cpu) IN
         IF PredictsUndefined(last'.instruction, machine) THEN after # {}
         ELSE after \subseteq UndefinedFlags(machine.cpu)
<1>1. Step
  BY DEF Next, Finished, vars
<1>2. PICK i \in Instructions : last'.instruction = i /\ Execute(i)
  BY <1>1, StepTaken
<1> DEFINE out == InstructionOutcome(i, machine)
           n == EffectiveCount(i, machine)
           w == OperandWidth(i.dst)
<1>3. machine' = out.machine /\ out.status = "ok" /\ IsMachine(machine)
  BY <1>2 DEF Execute, MachineInv
<1>4. CASE i.op \notin ShiftOps \cup RotateOps
  <2>1. KeepsValid(machine, out.machine)
    BY <1>3, <1>4, InstructionAnswers DEF Sound
  <2>2. ~PredictsUndefined(i, machine)
    BY <1>4 DEF PredictsUndefined
  <2> QED
    BY <1>2, <1>3, <2>1, <2>2 DEF KeepsValid
<1>5. CASE i.op \in ShiftOps \cup RotateOps
  <2>1. out = ShiftOutcome(i, machine)
    BY <1>3, <1>5, InstructionAnswers
  <2>2. /\ ShiftCountSupported(i) /\ IsDestination(i.dst) /\ n \in Nat
        /\ n = 0 => machine' = machine
        /\ n > 0 => /\ UndefinedFlags(machine'.cpu) \subseteq
                         UndefinedFlags(machine.cpu) \cup ShiftUndefines(i.op, n, w)
                    /\ ShiftUndefines(i.op, n, w) \subseteq UndefinedFlags(machine'.cpu)
    BY <1>3, <1>5, <2>1, ShiftAnswers
  <2>3. PredictsUndefined(i, machine) <=> n > 1
    BY <1>5, <2>2 DEF PredictsUndefined
  <2>4. w \in Nat /\ w > 1
    BY <2>2, OperandWidths, Sizes DEF Instructions
  <2> HIDE DEF n, w
  <2>5. n > 1 => "OF" \in ShiftUndefines(i.op, n, w)
    BY <2>2 DEF ShiftUndefines
  <2>6. n = 1 => ShiftUndefines(i.op, n, w) = {}
    BY <2>4 DEF ShiftUndefines
  <2>7. n = 0 \/ n = 1 \/ n > 1
    BY <2>2
  <2> QED
    BY <1>2, <2>2, <2>3, <2>5, <2>6, <2>7
<1> QED
  BY <1>4, <1>5

\* A step announced to leave flags undefined does so if it succeeds, and no other step
\* makes a flag undefined.
THEOREM PredictionsHonest == Spec => PredictionIsHonest
<1> DEFINE Honest == (steps' # steps /\ last'.status = "ok") =>
        LET after == UndefinedFlags(machine'.cpu) IN
        IF PredictsUndefined(last'.instruction, machine) THEN after # {}
        ELSE after \subseteq UndefinedFlags(machine.cpu)
<1>1. MachineInv /\ [Next]_vars => [Honest]_vars
  BY PredictionSteps
<1>2. PredictionIsHonest <=> [][Honest]_vars
  BY DEF PredictionIsHonest
<1> QED
  BY <1>1, <1>2, MachineAtStart, MachineSteps, PTL DEF Spec

\* An instruction that is refused, for whatever reason, leaves CPU and memory as they were:
\* the second conjunct of ResultsAreExact.
RefusedKeepsMachine == [][(steps' # steps /\ last'.status # "ok") => machine' = machine]_vars

THEOREM RefusalsKeepMachine == Spec => RefusedKeepsMachine
<1> DEFINE Kept == (steps' # steps /\ last'.status # "ok") => machine' = machine
<1>1. ASSUME MachineInv, [Next]_vars, steps' # steps, last'.status # "ok"
      PROVE  machine' = machine
  <2>1. Step
    BY <1>1 DEF Next, Finished, vars
  <2>2. PICK i \in Instructions : machine' = machine \/ Execute(i)
    BY <1>1, <2>1, StepTaken
  <2>3. ASSUME Execute(i)
        PROVE  machine' = machine
    BY <1>1, <2>3, InstructionAnswers DEF Execute, Answers, MachineInv
  <2> QED
    BY <2>2, <2>3
<1>2. MachineInv /\ [Next]_vars => [Kept]_vars
  BY <1>1
<1>3. RefusedKeepsMachine <=> [][Kept]_vars
  BY DEF RefusedKeepsMachine
<1> QED
  BY <1>2, <1>3, MachineAtStart, MachineSteps, PTL DEF Spec

-----------------------------------------------------------------------------
(* Two machines that differ in the bits of undefined flags alone stay so, as *)
(* long as no instruction consumes such a flag.                              *)

Twins(c, d) ==
  /\ c \in Cpus /\ d \in Cpus /\ d.reg = c.reg /\ d.origin = c.origin
  /\ \A f \in Flags : c.origin[f] = Valid => d.flag[f] = c.flag[f]

Alike(x, y) == IsMachine(x) /\ IsMachine(y) /\ y.mem = x.mem /\ Twins(x.cpu, y.cpu)

AlikeOutcomes(o, p) == p.status = o.status /\ Alike(o.machine, p.machine)

LEMMA AlikeRead ==
  ASSUME NEW x, NEW y, Alike(x, y)
  PROVE  /\ \A name : ReadRegister(y.cpu, name) = ReadRegister(x.cpu, name)
         /\ \A o : Address(y, o) = Address(x, o) /\ (Readable(y, o) <=> Readable(x, o))
         /\ \A o, w : ReadOperand(y, o, w) = ReadOperand(x, o, w)
<1>1. \A name : ReadRegister(y.cpu, name) = ReadRegister(x.cpu, name)
  BY DEF Alike, Twins, ReadRegister
<1>2. \A o : Address(y, o) = Address(x, o)
  BY <1>1 DEF Address
<1>3. y.mem = x.mem
  BY DEF Alike
<1>4. \A o : Readable(y, o) <=> Readable(x, o)
  BY <1>2, <1>3 DEF Readable
<1>5. \A o, w : ReadOperand(y, o, w) = ReadOperand(x, o, w)
  BY <1>1, <1>2, <1>3 DEF ReadOperand
<1> QED
  BY <1>1, <1>2, <1>4, <1>5

LEMMA TwinsWriteRegister ==
  ASSUME NEW c, NEW d, Twins(c, d), NEW name \in RegisterNames, NEW value \in Int
  PROVE  Twins(WriteRegister(c, name, value), WriteRegister(d, name, value))
<1> DEFINE e == WriteRegister(c, name, value)  f == WriteRegister(d, name, value)
<1>1. /\ e \in Cpus /\ e.flag = c.flag /\ e.origin = c.origin
      /\ f \in Cpus /\ f.flag = d.flag /\ f.origin = d.origin
  BY WriteRegisterTracks DEF Twins, Tracks
<1>2. ReadRegister(d, name) = ReadRegister(c, name) /\ d.reg = c.reg
  BY DEF Twins, ReadRegister
<1> DEFINE added == (Low(value, RegisterWidth(name)) - ReadRegister(c, name)) * Scale(name)
<1>3. /\ e.reg = [c.reg EXCEPT ![Alias[name].family] = @ + added]
      /\ f.reg = [d.reg EXCEPT ![Alias[name].family] = @ + added]
  BY <1>2 DEF WriteRegister, Twins, Cpus
<1> HIDE DEF e, f, added
<1>4. Twins(e, f)
  BY <1>1, <1>2, <1>3 DEF Twins
<1> QED
  BY <1>4 DEF e, f

LEMMA TwinsWriteFlags ==
  ASSUME NEW c, NEW d, Twins(c, d), NEW values, FlagValues(values)
  PROVE  Twins(WriteFlags(c, values), WriteFlags(d, values))
<1> DEFINE e == WriteFlags(c, values)  f == WriteFlags(d, values)
<1>1. e \in Cpus /\ f \in Cpus /\ e.reg = c.reg /\ f.reg = d.reg
  BY WriteFlagsTracks DEF Twins, Tracks
<1>2. /\ e.flag = [g \in Flags |-> IF g \in DOMAIN values THEN values[g] ELSE c.flag[g]]
      /\ f.flag = [g \in Flags |-> IF g \in DOMAIN values THEN values[g] ELSE d.flag[g]]
      /\ e.origin = [g \in Flags |-> IF g \in DOMAIN values THEN Valid ELSE c.origin[g]]
      /\ f.origin = [g \in Flags |-> IF g \in DOMAIN values THEN Valid ELSE d.origin[g]]
  BY DEF WriteFlags, Twins, Cpus
<1> HIDE DEF e, f
<1>3. Twins(e, f)
  BY <1>1, <1>2 DEF Twins
<1> QED
  BY <1>3 DEF e, f

LEMMA TwinsMarkUndefined ==
  ASSUME NEW c, NEW d, Twins(c, d), NEW flags, NEW op \in Opcodes, op # Valid
  PROVE  Twins(MarkUndefined(c, flags, op), MarkUndefined(d, flags, op))
<1> DEFINE e == MarkUndefined(c, flags, op)  f == MarkUndefined(d, flags, op)
<1>1. e \in Cpus /\ f \in Cpus /\ e.reg = c.reg /\ f.reg = d.reg
  BY MarkUndefinedTracks DEF Twins, Tracks
<1>2. /\ e.flag = c.flag /\ f.flag = d.flag
      /\ e.origin = [g \in Flags |-> IF g \in flags THEN op ELSE c.origin[g]]
      /\ f.origin = [g \in Flags |-> IF g \in flags THEN op ELSE d.origin[g]]
  BY DEF MarkUndefined, Twins, Cpus
<1> HIDE DEF e, f
<1>3. Twins(e, f)
  BY <1>1, <1>2 DEF Twins
<1> QED
  BY <1>3 DEF e, f

LEMMA TwinsKeepCarry ==
  ASSUME NEW c, NEW d, Twins(c, d), NEW values, FlagValues(values)
  PROVE  Twins(KeepCarry(WriteFlags(c, values), c), KeepCarry(WriteFlags(d, values), d))
<1> DEFINE u == WriteFlags(c, values)  v == WriteFlags(d, values)
<1>1. Twins(u, v)
  BY TwinsWriteFlags
<1>2. KeepCarry(u, c) \in Cpus /\ KeepCarry(v, d) \in Cpus
  BY SteppedTracks DEF Twins, Tracks
<1> SUFFICES Twins(KeepCarry(u, c), KeepCarry(v, d))
  OBVIOUS
<1> HIDE DEF u, v
<1> DEFINE e == KeepCarry(u, c)  f == KeepCarry(v, d)
<1>3. /\ e.reg = u.reg /\ f.reg = v.reg
      /\ e.flag = [u.flag EXCEPT !["CF"] = c.flag["CF"]]
      /\ f.flag = [v.flag EXCEPT !["CF"] = d.flag["CF"]]
      /\ e.origin = [u.origin EXCEPT !["CF"] = c.origin["CF"]]
      /\ f.origin = [v.origin EXCEPT !["CF"] = d.origin["CF"]]
  BY <1>1 DEF KeepCarry, Twins, Cpus
<1> HIDE DEF e, f
<1>4. /\ DOMAIN u.flag = Flags /\ DOMAIN v.flag = Flags
      /\ DOMAIN u.origin = Flags /\ DOMAIN v.origin = Flags /\ "CF" \in Flags
  BY <1>1 DEF Twins, Cpus, Flags
<1>5. e.origin = f.origin
  BY <1>1, <1>3 DEF Twins
<1>6. \A g \in Flags : e.origin[g] = Valid => f.flag[g] = e.flag[g]
  BY <1>1, <1>3, <1>4 DEF Twins
<1>7. Twins(e, f)
  BY <1>1, <1>2, <1>3, <1>5, <1>6 DEF Twins, e, f
<1> QED
  BY <1>7 DEF e, f

LEMMA AlikeSetCpu ==
  ASSUME NEW x, NEW y, Alike(x, y), NEW c, NEW d, Twins(c, d)
  PROVE  /\ Alike([x EXCEPT !.cpu = c], [y EXCEPT !.cpu = d])
         /\ AlikeOutcomes(Done([x EXCEPT !.cpu = c]), Done([y EXCEPT !.cpu = d]))
<1> DEFINE u == [x EXCEPT !.cpu = c]  v == [y EXCEPT !.cpu = d]
<1>1. /\ u = [cpu |-> c, mem |-> x.mem] /\ v = [cpu |-> d, mem |-> y.mem]
      /\ c \in Cpus /\ d \in Cpus
      /\ x.mem \in [DOMAIN x.mem -> Int] /\ y.mem \in [DOMAIN y.mem -> Int] /\ y.mem = x.mem
      /\ Writable \subseteq DOMAIN x.mem
  BY DEF Alike, IsMachine, Twins
<1> HIDE DEF u, v
<1>2. u.cpu = c /\ v.cpu = d /\ u.mem = x.mem /\ v.mem = x.mem
  BY <1>1
<1>3. IsMachine(u) /\ IsMachine(v)
  BY <1>1, <1>2 DEF IsMachine
<1>4. Alike(u, v)
  BY <1>2, <1>3 DEF Alike
<1>5. AlikeOutcomes(Done(u), Done(v))
  BY <1>4 DEF AlikeOutcomes, Done, Outcome
<1> QED
  BY <1>4, <1>5 DEF u, v

LEMMA AlikeRefusal ==
  ASSUME NEW x, NEW y, Alike(x, y), NEW status
  PROVE  /\ AlikeOutcomes(Outcome(status, x), Outcome(status, y))
         /\ AlikeOutcomes(Done(x), Done(y))
BY DEF AlikeOutcomes, Outcome, Done

LEMMA AlikeWrite ==
  ASSUME NEW x, NEW y, Alike(x, y), NEW o \in Operands, IsDestination(o), NEW w \in Widths,
         NEW value \in Int
  PROVE  AlikeOutcomes(WriteOperand(x, o, w, value), WriteOperand(y, o, w, value))
<1> DEFINE a == Address(x, o)  v == Low(value, w)
<1>1. v \in Int /\ IsMachine(x) /\ IsMachine(y) /\ Address(y, o) = a /\ y.mem = x.mem
  BY LowIsValue, AlikeRead DEF Alike
<1>2. CASE IsRegister(o)
  <2> DEFINE c == WriteRegister(x.cpu, o.name, v)  d == WriteRegister(y.cpu, o.name, v)
  <2>1. Twins(c, d)
    BY <1>1, <1>2, OperandForms, TwinsWriteRegister DEF IsRegister, Alike
  <2>2. /\ WriteOperand(x, o, w, value) = Done([x EXCEPT !.cpu = c])
        /\ WriteOperand(y, o, w, value) = Done([y EXCEPT !.cpu = d])
    BY <1>2 DEF WriteOperand
  <2> HIDE DEF c, d
  <2> QED
    BY <2>1, <2>2, AlikeSetCpu
<1>3. CASE ~IsRegister(o) /\ a \in Writable
  <2> DEFINE new == x.mem[a] - Low(x.mem[a], w) + v
             s == [x EXCEPT !.mem[a] = new]
             t == [y EXCEPT !.mem[a] = new]
  <2>1. WriteOperand(x, o, w, value) = Done(s) /\ WriteOperand(y, o, w, value) = Done(t)
    BY <1>1, <1>3 DEF WriteOperand
  <2>2. IsMachine(s) /\ IsMachine(t)
    <3>1. Answers(x, Done(s)) /\ Answers(y, Done(t))
      BY <1>1, <2>1, WriteOperandAnswers
    <3>2. Done(s).machine = s /\ Done(t).machine = t
      BY DEF Done, Outcome
    <3> QED
      BY <3>1, <3>2 DEF Answers, Follows
  <2>3. /\ s.cpu = x.cpu /\ t.cpu = y.cpu /\ t.mem = s.mem
    BY <1>1 DEF IsMachine
  <2> HIDE DEF s, t
  <2>4. Alike(s, t)
    BY <2>2, <2>3 DEF Alike
  <2> QED
    BY <2>1, <2>4 DEF AlikeOutcomes, Done, Outcome
<1>4. CASE ~IsRegister(o) /\ a \notin Writable
  BY <1>1, <1>4, AlikeRefusal DEF WriteOperand
<1> QED
  BY <1>2, <1>3, <1>4

LEMMA AlikeCommit ==
  ASSUME NEW x, NEW y, Alike(x, y), NEW c, NEW d, Twins(c, d), NEW o \in Operands,
         IsDestination(o), NEW w \in Widths, NEW value \in Int
  PROVE  AlikeOutcomes(Commit(x, c, o, w, value), Commit(y, d, o, w, value))
<1> DEFINE s == WriteOperand([x EXCEPT !.cpu = c], o, w, value)
           t == WriteOperand([y EXCEPT !.cpu = d], o, w, value)
<1>1. AlikeOutcomes(s, t)
  BY AlikeSetCpu, AlikeWrite
<1>2. /\ Commit(x, c, o, w, value) = IF s.status = "ok" THEN s ELSE Outcome(s.status, x)
      /\ Commit(y, d, o, w, value) = IF t.status = "ok" THEN t ELSE Outcome(t.status, y)
  BY DEF Commit
<1> HIDE DEF s, t
<1> QED
  BY <1>1, <1>2, AlikeRefusal DEF AlikeOutcomes

LEMMA AlikeFlagged ==
  ASSUME NEW x, NEW y, Alike(x, y), NEW values, FlagValues(values)
  PROVE  /\ AlikeOutcomes(Done([x EXCEPT !.cpu = WriteFlags(@, values)]),
                          Done([y EXCEPT !.cpu = WriteFlags(@, values)]))
         /\ \A o \in Operands, w \in Widths, value \in Int :
               IsDestination(o) => AlikeOutcomes(Commit(x, WriteFlags(x.cpu, values), o, w, value),
                                                 Commit(y, WriteFlags(y.cpu, values), o, w, value))
<1> DEFINE c == WriteFlags(x.cpu, values)  d == WriteFlags(y.cpu, values)
<1>1. Twins(c, d)
  BY TwinsWriteFlags DEF Alike
<1> HIDE DEF c, d
<1>2. AlikeOutcomes(Done([x EXCEPT !.cpu = c]), Done([y EXCEPT !.cpu = d]))
  BY <1>1, AlikeSetCpu
<1>3. \A o \in Operands, w \in Widths, value \in Int :
        IsDestination(o) => AlikeOutcomes(Commit(x, c, o, w, value), Commit(y, d, o, w, value))
  BY <1>1, AlikeCommit
<1> QED
  BY <1>2, <1>3 DEF c, d

\* What an instruction may see: a flag it consumes is valid.
Sees(i, x) == ConsumedFlags(i.op) \cap UndefinedFlags(x.cpu) = {}

LEMMA AlikeCarry ==
  ASSUME NEW x, NEW y, Alike(x, y), NEW i, i.op \in {"ADC", "SBB", "CMC"}, Sees(i, x)
  PROVE  y.cpu.flag["CF"] = x.cpu.flag["CF"] /\ CarryIn(y.cpu) = CarryIn(x.cpu)
<1>1. "CF" \in ConsumedFlags(i.op)
  BY DEF ConsumedFlags
<1>2. "CF" \in Flags
  BY DEF Flags
<1>3. x.cpu.origin["CF"] = Valid
  BY <1>1, <1>2 DEF Sees, UndefinedFlags
<1>4. y.cpu.flag["CF"] = x.cpu.flag["CF"]
  BY <1>2, <1>3 DEF Alike, Twins
<1> QED
  BY <1>4 DEF CarryIn

LEMMA BinaryAlike ==
  ASSUME NEW x, NEW y, Alike(x, y), NEW i \in Instructions, i.op \in BinaryOps, Sees(i, x)
  PROVE  AlikeOutcomes(BinaryOutcome(i, x), BinaryOutcome(i, y))
<1> DEFINE w == OperandWidth(i.dst)
           l == ReadOperand(x, i.dst, w)
           r == ReadOperand(x, i.src, w)
           carry == CarryIn(x.cpu)
           supported == BinarySupported(i)
           readable == Readable(x, i.src) /\ (i.op = "MOV" \/ Readable(x, i.dst))
<1>1. /\ IsMachine(x) /\ \A o : (Readable(y, o) <=> Readable(x, o))
      /\ ReadOperand(y, i.dst, w) = l /\ ReadOperand(y, i.src, w) = r
  BY AlikeRead DEF Alike
<1>2. CASE ~supported
  BY <1>2, AlikeRefusal DEF BinaryOutcome
<1>3. CASE supported /\ ~readable
  BY <1>1, <1>3, AlikeRefusal DEF BinaryOutcome
<1>4. CASE supported /\ readable
  <2>1. i.dst \in Operands /\ i.src \in Operands /\ IsDestination(i.dst) /\ i.src.kind # "none"
    BY <1>4 DEF Instructions, BinarySupported
  <2>2. w \in Widths /\ r \in Nat /\ (i.op # "MOV" => l \in Nat) /\ carry \in Int
    BY <1>1, <1>4, <2>1, OperandWidths, ReadOperandValue
       DEF IsDestination, IsRegister, IsMemory, CarryIn
  <2> DEFINE Flagged(z, values, value) == Commit(z, WriteFlags(z.cpu, values), i.dst, w, value)
             Set(z, values) == Done([z EXCEPT !.cpu = WriteFlags(@, values)])
             Binary(z, cf) ==
                 CASE i.op = "MOV" -> WriteOperand(z, i.dst, w, r)
                   [] i.op = "ADD" -> Flagged(z, AddFlags(l, r, w), l + r)
                   [] i.op = "SUB" -> Flagged(z, SubFlags(l, r, w), l - r)
                   [] i.op = "ADC" -> Flagged(z, AdcFlags(l, r, cf, w), l + r + cf)
                   [] i.op = "SBB" -> Flagged(z, SbbFlags(l, r, cf, w), l - r - cf)
                   [] i.op = "CMP" -> Set(z, SubFlags(l, r, w))
                   [] i.op = "TEST" -> Set(z, LogicalFlags(Logical("TEST", l, r), w))
                   [] OTHER -> Flagged(z, LogicalFlags(Logical(i.op, l, r), w), Logical(i.op, l, r))
  <2>3. BinaryOutcome(i, x) = Binary(x, carry)
    BY <1>4 DEF BinaryOutcome
  <2>4. BinaryOutcome(i, y) = Binary(y, CarryIn(y.cpu))
    BY <1>1, <1>4 DEF BinaryOutcome
  <2>5. i.op \in {"ADC", "SBB"} => CarryIn(y.cpu) = carry
    BY AlikeCarry
  <2> HIDE DEF w, l, r, carry
  <2>6. ASSUME NEW values, FlagValues(values)
        PROVE  /\ AlikeOutcomes(Set(x, values), Set(y, values))
               /\ \A value \in Int : AlikeOutcomes(Flagged(x, values, value), Flagged(y, values, value))
    BY <2>1, <2>2, <2>6, AlikeFlagged
  <2>7. CASE i.op = "MOV"
    <3>1. AlikeOutcomes(WriteOperand(x, i.dst, w, r), WriteOperand(y, i.dst, w, r))
      BY <2>1, <2>2, AlikeWrite
    <3> QED
      BY <2>3, <2>4, <2>7, <3>1
  <2>8. CASE i.op \in {"ADD", "SUB", "CMP", "TEST"}
    <3>1. l + r \in Int /\ l - r \in Int
      BY <2>2, <2>8
    <3> HIDE DEF Flagged, Set
    <3> QED
      BY <2>3, <2>4, <2>6, <2>8, <3>1, FlagHelpers
  <2>9. CASE i.op \in {"ADC", "SBB"}
    <3>1. l + r + carry \in Int /\ l - r - carry \in Int
      BY <2>2, <2>9
    <3> HIDE DEF Flagged, Set
    <3> QED
      BY <2>3, <2>4, <2>5, <2>6, <2>9, <3>1, FlagHelpers
  <2>10. CASE i.op \in {"AND", "OR", "XOR"}
    <3> DEFINE v == Logical(i.op, l, r)
    <3>1. v \in Int
      BY <2>10, LogicalIsNat DEF LogicalOps
    <3>2. Binary(x, carry) = Flagged(x, LogicalFlags(v, w), v)
          /\ Binary(y, CarryIn(y.cpu)) = Flagged(y, LogicalFlags(v, w), v)
      BY <2>10
    <3> HIDE DEF Flagged, Set, v, Binary
    <3> QED
      BY <2>3, <2>4, <2>6, <3>1, <3>2, FlagHelpers
  <2> QED
    BY <2>7, <2>8, <2>9, <2>10 DEF BinaryOps, LogicalOps
<1> QED
  BY <1>2, <1>3, <1>4

LEMMA UnaryAlike ==
  ASSUME NEW x, NEW y, Alike(x, y), NEW i \in Instructions, i.op \in UnaryOps
  PROVE  AlikeOutcomes(UnaryOutcome(i, x), UnaryOutcome(i, y))
<1> DEFINE w == OperandWidth(i.dst)
           v == ReadOperand(x, i.dst, w)
           supported == IsDestination(i.dst) /\ i.src.kind = "none"
<1>1. /\ IsMachine(x) /\ \A o : (Readable(y, o) <=> Readable(x, o))
      /\ ReadOperand(y, i.dst, w) = v /\ Twins(x.cpu, y.cpu)
  BY AlikeRead DEF Alike
<1>2. CASE ~supported
  BY <1>2, AlikeRefusal DEF UnaryOutcome
<1>3. CASE supported /\ ~Readable(x, i.dst)
  BY <1>1, <1>3, AlikeRefusal DEF UnaryOutcome
<1>4. CASE supported /\ Readable(x, i.dst)
  <2>1. i.dst \in Operands /\ i.dst.kind # "none"
    BY <1>4 DEF Instructions, IsDestination, IsRegister, IsMemory
  <2>2. w \in Widths /\ v \in Nat /\ Mask(w) \in Nat
    BY <1>1, <1>4, <2>1, OperandWidths, ReadOperandValue, Sizes
  <2> DEFINE Unary(z, up, down) ==
               /\ i.op = "NEG" => UnaryOutcome(i, z) =
                     Commit(z, WriteFlags(z.cpu, SubFlags(0, v, w)), i.dst, w, -v)
               /\ i.op = "INC" => UnaryOutcome(i, z) = Commit(z, up, i.dst, w, v + 1)
               /\ i.op = "DEC" => UnaryOutcome(i, z) = Commit(z, down, i.dst, w, v - 1)
               /\ i.op = "NOT" => UnaryOutcome(i, z) = Commit(z, z.cpu, i.dst, w, Mask(w) - v)
             Up(z) == KeepCarry(WriteFlags(z.cpu, AddFlags(v, 1, w)), z.cpu)
             Down(z) == KeepCarry(WriteFlags(z.cpu, SubFlags(v, 1, w)), z.cpu)
  <2>3. Unary(x, Up(x), Down(x))
    BY <1>4 DEF UnaryOutcome
  <2>4. Unary(y, Up(y), Down(y))
    BY <1>1, <1>4 DEF UnaryOutcome
  <2>5. Twins(Up(x), Up(y)) /\ Twins(Down(x), Down(y))
    BY <1>1, FlagHelpers, TwinsKeepCarry
  <2> HIDE DEF Up, Down, w, v
  <2>6. -v \in Int /\ v + 1 \in Int /\ v - 1 \in Int /\ Mask(w) - v \in Int
    BY <2>2
  <2>7. CASE i.op = "NEG"
    BY <1>4, <2>1, <2>2, <2>3, <2>4, <2>6, <2>7, FlagHelpers, AlikeFlagged
  <2>8. CASE i.op = "INC"
    BY <1>4, <2>1, <2>2, <2>3, <2>4, <2>5, <2>6, <2>8, AlikeCommit
  <2>9. CASE i.op = "DEC"
    BY <1>4, <2>1, <2>2, <2>3, <2>4, <2>5, <2>6, <2>9, AlikeCommit
  <2>10. CASE i.op = "NOT"
    BY <1>1, <1>4, <2>1, <2>2, <2>3, <2>4, <2>6, <2>10, AlikeCommit
  <2> QED
    BY <2>7, <2>8, <2>9, <2>10 DEF UnaryOps
<1> QED
  BY <1>2, <1>3, <1>4

LEMMA XchgAlike ==
  ASSUME NEW x, NEW y, Alike(x, y), NEW i \in Instructions
  PROVE  AlikeOutcomes(XchgOutcome(i, x), XchgOutcome(i, y))
<1> DEFINE w == OperandWidth(i.dst)
           first == IF IsMemory(i.src) THEN i.src ELSE i.dst
           second == IF IsMemory(i.src) THEN i.dst ELSE i.src
           a == ReadOperand(x, first, w)
           b == ReadOperand(x, second, w)
           Half(z) == WriteOperand(z, first, w, b)
           Whole(z) == WriteOperand(Half(z).machine, second, w, a)
           supported == /\ IsDestination(i.dst) /\ IsDestination(i.src)
                        /\ ~(IsMemory(i.dst) /\ IsMemory(i.src))
                        /\ OperandWidth(i.dst) = OperandWidth(i.src)
           readable == Readable(x, i.dst) /\ Readable(x, i.src)
<1>1. /\ IsMachine(x) /\ \A o : (Readable(y, o) <=> Readable(x, o))
      /\ ReadOperand(y, first, w) = a /\ ReadOperand(y, second, w) = b
  BY AlikeRead DEF Alike
<1>2. CASE ~supported
  BY <1>2, AlikeRefusal DEF XchgOutcome
<1>3. CASE supported /\ ~readable
  BY <1>1, <1>3, AlikeRefusal DEF XchgOutcome
<1>4. CASE supported /\ readable
  <2>1. /\ first \in Operands /\ second \in Operands /\ IsDestination(first)
        /\ IsDestination(second) /\ first.kind # "none" /\ second.kind # "none"
        /\ Readable(x, first) /\ Readable(x, second) /\ w \in Widths
    BY <1>4, OperandWidths DEF Instructions, IsDestination, IsRegister, IsMemory
  <2>2. XchgOutcome(i, x) = IF Half(x).status # "ok" THEN Half(x) ELSE Whole(x)
    BY <1>4 DEF XchgOutcome
  <2>3. XchgOutcome(i, y) = IF Half(y).status # "ok" THEN Half(y) ELSE Whole(y)
    BY <1>1, <1>4 DEF XchgOutcome
  <2>4. a \in Int /\ b \in Int
    BY <1>1, <2>1, ReadOperandValue
  <2> HIDE DEF first, second, w, a, b
  <2>5. AlikeOutcomes(Half(x), Half(y))
    BY <2>1, <2>4, AlikeWrite
  <2>6. AlikeOutcomes(Whole(x), Whole(y))
    BY <2>1, <2>4, <2>5, AlikeWrite DEF AlikeOutcomes
  <2> HIDE DEF Half, Whole
  <2> QED
    BY <2>2, <2>3, <2>5, <2>6 DEF AlikeOutcomes
<1> QED
  BY <1>2, <1>3, <1>4

LEMMA MovxAlike ==
  ASSUME NEW x, NEW y, Alike(x, y), NEW i \in Instructions
  PROVE  AlikeOutcomes(MovxOutcome(i, x), MovxOutcome(i, y))
<1> DEFINE w == OperandWidth(i.src)
           v == ReadOperand(x, i.src, w)
           u == IF i.op = "MOVSX" THEN SignedValue(v, w) ELSE v
           supported == /\ IsRegister(i.dst) /\ IsDestination(i.src)
                        /\ w \in {Byte, Word} /\ ~(OperandWidth(i.dst) <= w)
<1>1. /\ IsMachine(x) /\ \A o : (Readable(y, o) <=> Readable(x, o))
      /\ ReadOperand(y, i.src, w) = v
  BY AlikeRead DEF Alike
<1>2. CASE ~supported
  BY <1>2, AlikeRefusal DEF MovxOutcome
<1>3. CASE supported /\ ~Readable(x, i.src)
  BY <1>1, <1>3, AlikeRefusal DEF MovxOutcome
<1>4. CASE supported /\ Readable(x, i.src)
  <2>1. /\ i.dst \in Operands /\ IsDestination(i.dst) /\ i.src \in Operands
        /\ i.src.kind # "none" /\ w \in Widths /\ OperandWidth(i.dst) \in Widths
    BY <1>4, OperandWidths DEF Instructions, IsDestination, IsRegister, IsMemory
  <2>2. u \in Int
    BY <1>1, <1>4, <2>1, ReadOperandValue, SignedIsInt
  <2>3. MovxOutcome(i, x) = WriteOperand(x, i.dst, OperandWidth(i.dst), u)
        /\ MovxOutcome(i, y) = WriteOperand(y, i.dst, OperandWidth(i.dst), u)
    BY <1>1, <1>4 DEF MovxOutcome
  <2> HIDE DEF u
  <2> QED
    BY <2>1, <2>2, <2>3, AlikeWrite
<1> QED
  BY <1>2, <1>3, <1>4

LEMMA LeaAlike ==
  ASSUME NEW x, NEW y, Alike(x, y), NEW i \in Instructions
  PROVE  AlikeOutcomes(LeaOutcome(i, x), LeaOutcome(i, y))
<1>1. CASE ~(IsRegister(i.dst) /\ IsMemory(i.src) /\ OperandWidth(i.dst) = Dword)
  BY <1>1, AlikeRefusal DEF LeaOutcome
<1>2. CASE IsRegister(i.dst) /\ IsMemory(i.src) /\ OperandWidth(i.dst) = Dword
  <2>1. /\ i.dst \in Operands /\ i.src \in Operands /\ IsDestination(i.dst) /\ Dword \in Widths
        /\ Address(x, i.src) \in Int /\ Address(y, i.src) = Address(x, i.src)
    BY <1>2, AddressIsNumber, AlikeRead DEF Instructions, IsDestination, Widths, Alike
  <2>2. /\ LeaOutcome(i, x) = WriteOperand(x, i.dst, Dword, Address(x, i.src))
        /\ LeaOutcome(i, y) = WriteOperand(y, i.dst, Dword, Address(x, i.src))
    BY <1>2, <2>1 DEF LeaOutcome
  <2> QED
    BY <2>1, <2>2, AlikeWrite
<1> QED
  BY <1>1, <1>2

\* The registers and flags a handler without a memory operand writes, on both machines.
LEMMA AlikeWrites ==
  ASSUME NEW x, NEW y, Alike(x, y), NEW c, NEW d, Twins(c, d), NEW values, FlagValues(values)
  PROVE  /\ AlikeOutcomes(Done([x EXCEPT !.cpu = c]), Done([y EXCEPT !.cpu = d]))
         /\ AlikeOutcomes(Done([x EXCEPT !.cpu = WriteFlags(c, values)]),
                          Done([y EXCEPT !.cpu = WriteFlags(d, values)]))
<1>1. Twins(WriteFlags(c, values), WriteFlags(d, values))
  BY TwinsWriteFlags
<1> QED
  BY <1>1, AlikeSetCpu

LEMMA ImplicitAlike ==
  ASSUME NEW x, NEW y, Alike(x, y), NEW i \in Instructions, i.op \in ImplicitOps, Sees(i, x)
  PROVE  AlikeOutcomes(ImplicitOutcome(i, x), ImplicitOutcome(i, y))
<1>1. CASE i.dst.kind # "none" \/ i.src.kind # "none"
  BY <1>1, AlikeRefusal DEF ImplicitOutcome
<1>2. CASE i.dst.kind = "none" /\ i.src.kind = "none"
  <2> DEFINE New(z) == CASE i.op = "CBW" -> Extend("AL", z, "AX", Byte)
                         [] i.op = "CWDE" -> Extend("AX", z, "EAX", Word)
                         [] i.op = "CWD" -> SignFill(z, "AX", "DX")
                         [] i.op = "CDQ" -> SignFill(z, "EAX", "EDX")
                         [] i.op = "NOP" -> z.cpu
                         [] OTHER -> CarryControl(i.op, z.cpu)
  <2>1. /\ ImplicitOutcome(i, x) = Done([x EXCEPT !.cpu = New(x)])
        /\ ImplicitOutcome(i, y) = Done([y EXCEPT !.cpu = New(y)])
    BY <1>2 DEF ImplicitOutcome
  <2>2. /\ x.cpu \in Cpus /\ Byte \in Widths /\ Word \in Widths /\ Twins(x.cpu, y.cpu)
        /\ \A name : ReadRegister(y.cpu, name) = ReadRegister(x.cpu, name)
    BY AlikeRead DEF Alike, IsMachine, Widths
  <2>3. /\ SignedValue(ReadRegister(x.cpu, "AL"), Byte) \in Int
        /\ SignedValue(ReadRegister(x.cpu, "AX"), Word) \in Int
    BY <2>2, Accumulators, ReadRegisterValue, SignedIsInt
  <2>4. ASSUME NEW name \in RegisterNames, NEW v \in Int,
               New(x) = WriteRegister(x.cpu, name, v), New(y) = WriteRegister(y.cpu, name, v)
        PROVE  Twins(New(x), New(y))
    BY <2>2, <2>4, TwinsWriteRegister
  <2>5. CASE i.op = "CBW"
    <3> DEFINE v == SignedValue(ReadRegister(x.cpu, "AL"), Byte)
    <3>1. New(x) = WriteRegister(x.cpu, "AX", v) /\ New(y) = WriteRegister(y.cpu, "AX", v)
      BY <2>2, <2>5 DEF Extend
    <3> HIDE DEF New, v
    <3>2. Twins(New(x), New(y))
      BY <2>3, <2>4, <3>1, Accumulators DEF v
    <3> QED
      BY <2>1, <3>2, AlikeSetCpu
  <2>6. CASE i.op = "CWDE"
    <3> DEFINE v == SignedValue(ReadRegister(x.cpu, "AX"), Word)
    <3>1. New(x) = WriteRegister(x.cpu, "EAX", v) /\ New(y) = WriteRegister(y.cpu, "EAX", v)
      BY <2>2, <2>6 DEF Extend
    <3> HIDE DEF New, v
    <3>2. Twins(New(x), New(y))
      BY <2>3, <2>4, <3>1, Accumulators DEF v
    <3> QED
      BY <2>1, <3>2, AlikeSetCpu
  <2>7. CASE i.op \in {"CWD", "CDQ"}
    <3> DEFINE from == IF i.op = "CWD" THEN "AX" ELSE "EAX"
               to == IF i.op = "CWD" THEN "DX" ELSE "EDX"
               v == IF IsNegative(ReadRegister(x.cpu, from), RegisterWidth(from)) THEN -1 ELSE 0
    <3>1. New(x) = WriteRegister(x.cpu, to, v) /\ New(y) = WriteRegister(y.cpu, to, v)
      BY <2>2, <2>7 DEF SignFill
    <3>2. to \in RegisterNames /\ v \in Int
      BY Accumulators
    <3> HIDE DEF New, v, to
    <3>3. Twins(New(x), New(y))
      BY <2>4, <3>1, <3>2
    <3> QED
      BY <2>1, <3>3, AlikeSetCpu
  <2>8. CASE i.op = "NOP"
    <3>1. New(x) = x.cpu /\ New(y) = y.cpu
      BY <2>8
    <3> HIDE DEF New
    <3> QED
      BY <2>1, <2>2, <3>1, AlikeSetCpu
  <2>9. CASE i.op \in {"CLC", "STC", "CMC"}
    <3> DEFINE v == CASE i.op = "CLC" -> FALSE [] i.op = "STC" -> TRUE
                      [] i.op = "CMC" -> ~x.cpu.flag["CF"]
    <3>1. New(x) = CarryControl(i.op, x.cpu) /\ New(y) = CarryControl(i.op, y.cpu)
      BY <2>9
    <3>2. i.op = "CMC" => y.cpu.flag["CF"] = x.cpu.flag["CF"]
      BY AlikeCarry
    <3>3. CarryControl(i.op, x.cpu) = WriteFlags(x.cpu, [CF |-> v])
      BY DEF CarryControl
    <3>4. CarryControl(i.op, y.cpu) = WriteFlags(y.cpu, [CF |-> v])
      BY <2>9, <3>2 DEF CarryControl
    <3>5. v \in BOOLEAN
      BY <2>9
    <3> HIDE DEF v, New
    <3>6. FlagValues([CF |-> v])
      BY <3>5 DEF FlagValues
    <3>7. Twins(New(x), New(y))
      BY <2>2, <3>1, <3>3, <3>4, <3>6, TwinsWriteFlags
    <3> QED
      BY <2>1, <3>7, AlikeSetCpu
  <2> QED
    BY <2>5, <2>6, <2>7, <2>8, <2>9 DEF ImplicitOps
<1> QED
  BY <1>1, <1>2

LEMMA TwinsWritePair ==
  ASSUME NEW c, NEW d, Twins(c, d), NEW w \in Widths, NEW low \in Int, NEW high \in Int
  PROVE  Twins(WritePair(c, w, low, high), WritePair(d, w, low, high))
BY Accumulators, TwinsWriteRegister DEF WritePair

LEMMA AccumulatorAlike ==
  ASSUME NEW x, NEW y, Alike(x, y), NEW i \in Instructions, i.op \in AccumulatorOps
  PROVE  AlikeOutcomes(AccumulatorOutcome(i, x), AccumulatorOutcome(i, y))
<1> DEFINE w == OperandWidth(i.src)
           supported == i.dst.kind = "none" /\ IsDestination(i.src)
           v == ReadOperand(x, i.src, w)
           a == ReadRegister(x.cpu, LowHalf(w))
           h == ReadRegister(x.cpu, HighHalf(w))
<1>1. /\ IsMachine(x) /\ \A o : (Readable(y, o) <=> Readable(x, o))
      /\ ReadOperand(y, i.src, w) = v /\ ReadRegister(y.cpu, LowHalf(w)) = a
      /\ ReadRegister(y.cpu, HighHalf(w)) = h /\ Twins(x.cpu, y.cpu)
  BY AlikeRead DEF Alike
<1>2. CASE ~supported
  BY <1>2, AlikeRefusal DEF AccumulatorOutcome
<1>3. CASE supported /\ ~Readable(x, i.src)
  BY <1>1, <1>3, AlikeRefusal DEF AccumulatorOutcome
<1>4. CASE supported /\ Readable(x, i.src)
  <2>1. /\ x.cpu \in Cpus /\ i.src \in Operands /\ i.src.kind # "none" /\ w \in Widths
        /\ Modulus(w) \in Nat /\ Modulus(w) > 0
    BY <1>1, <1>4, OperandWidths, Sizes
       DEF Instructions, IsDestination, IsRegister, IsMemory, IsMachine
  <2>2. /\ v \in Int /\ a \in Int /\ h \in Int
        /\ SignedValue(v, w) \in Int /\ SignedValue(a, w) \in Int /\ SignedValue(h, w) \in Int
    <3>1. v \in Int /\ a \in Int /\ h \in Int
      BY <1>1, <1>4, <2>1, Accumulators, ReadOperandValue, ReadRegisterValue
    <3> QED
      BY <2>1, <3>1, SignedIsInt
  <2>3. CASE i.op \in {"MUL", "IMUL"}
    <3> DEFINE p == Product(i, x, w)
               wide == IF i.op = "MUL" THEN p > Mask(w) ELSE ~Fits(p, w)
               New(z) == WritePair(z.cpu, w, p, p \div Modulus(w))
    <3>1. Product(i, y, w) = p
      BY <1>1 DEF Product
    <3>2. AccumulatorOutcome(i, x) =
            Done([x EXCEPT !.cpu = WriteFlags(New(x), [CF |-> wide, OF |-> wide])])
      BY <1>4, <2>3 DEF AccumulatorOutcome, MultiplyOutcome
    <3>3. AccumulatorOutcome(i, y) =
            Done([y EXCEPT !.cpu = WriteFlags(New(y), [CF |-> wide, OF |-> wide])])
      BY <1>1, <1>4, <2>3, <3>1 DEF AccumulatorOutcome, MultiplyOutcome
    <3>4. p \in Int /\ p \div Modulus(w) \in Int
      <4>1. p = IF i.op = "MUL" THEN a * v ELSE SignedValue(a, w) * SignedValue(v, w)
        BY DEF Product
      <4> HIDE DEF p, a, v
      <4>2. p \in Int
        BY <2>2, <4>1
      <4> QED
        BY <2>1, <4>2
    <3>5. Twins(New(x), New(y))
      BY <1>1, <2>1, <3>4, TwinsWritePair
    <3>6. wide \in BOOLEAN
      <4>1. (p > Mask(w)) \in BOOLEAN /\ (~Fits(p, w)) \in BOOLEAN
        BY DEF Fits
      <4> QED
        BY <4>1
    <3> HIDE DEF New, wide
    <3>7. FlagValues([CF |-> wide, OF |-> wide])
      BY <3>6 DEF FlagValues
    <3> DEFINE values == [CF |-> wide, OF |-> wide]
               c == New(x)  d == New(y)
               s == Done([x EXCEPT !.cpu = WriteFlags(c, values)])
               t == Done([y EXCEPT !.cpu = WriteFlags(d, values)])
    <3>8. AccumulatorOutcome(i, x) = s /\ AccumulatorOutcome(i, y) = t
      BY <3>2, <3>3
    <3>9. Twins(c, d) /\ FlagValues(values)
      BY <3>5, <3>7
    <3> HIDE DEF values, c, d
    <3>10. AlikeOutcomes(s, t)
      BY <3>9, AlikeWrites
    <3> HIDE DEF s, t
    <3> QED
      BY <3>8, <3>10
  <2>4. CASE i.op \in {"DIV", "IDIV"}
    <3> DEFINE divisor == AsOperand(i, v, w)
               dividend == Dividend(i, x, w)
               q == Quotient(dividend, divisor)
               rest == Rest(dividend, divisor)
               New(z) == WritePair(z.cpu, w, q, rest)
               fits == IF i.op = "DIV" THEN q <= Mask(w) ELSE Fits(q, w)
    <3>1. Dividend(i, y, w) = dividend
      BY <1>1 DEF Dividend, PairValue, SignedPair
    <3>2. AccumulatorOutcome(i, x) =
            IF divisor = 0 THEN Outcome("divide-by-zero", x)
            ELSE IF ~fits THEN Outcome("quotient-overflow", x)
            ELSE Done([x EXCEPT !.cpu = New(x)])
      BY <1>4, <2>4 DEF AccumulatorOutcome, DivideOutcome
    <3>3. AccumulatorOutcome(i, y) =
            IF divisor = 0 THEN Outcome("divide-by-zero", y)
            ELSE IF ~fits THEN Outcome("quotient-overflow", y)
            ELSE Done([y EXCEPT !.cpu = New(y)])
      BY <1>1, <1>4, <2>4, <3>1 DEF AccumulatorOutcome, DivideOutcome
    <3>4. divisor \in Int /\ dividend \in Int
      BY <2>1, <2>2 DEF AsOperand, Dividend, PairValue, SignedPair
    <3>5. ASSUME divisor # 0
          PROVE  AlikeOutcomes(Done([x EXCEPT !.cpu = New(x)]), Done([y EXCEPT !.cpu = New(y)]))
      <4>1. q \in Int /\ rest \in Int
        BY <3>4, <3>5, QuotientIsInt
      <4>2. Twins(New(x), New(y))
        BY <1>1, <2>1, <4>1, TwinsWritePair
      <4> HIDE DEF New
      <4> QED
        BY <4>2, AlikeSetCpu
    <3> HIDE DEF New, fits, divisor
    <3> QED
      BY <3>2, <3>3, <3>5, AlikeRefusal
  <2> QED
    BY <2>3, <2>4 DEF AccumulatorOps
<1> QED
  BY <1>2, <1>3, <1>4

LEMMA ExplicitImulAlike ==
  ASSUME NEW x, NEW y, Alike(x, y), NEW i \in Instructions
  PROVE  AlikeOutcomes(ExplicitImulOutcome(i, x), ExplicitImulOutcome(i, y))
<1> DEFINE w == OperandWidth(i.dst)
           l == IF i.op = "IMUL" THEN ReadOperand(x, i.dst, w) ELSE Low(i.factor, w)
           r == ReadOperand(x, i.src, w)
           p == SignedValue(l, w) * SignedValue(r, w)
           supported == IsRegister(i.dst) /\ IsDestination(i.src) /\ w \in {Word, Dword}
<1>1. /\ IsMachine(x) /\ \A o : (Readable(y, o) <=> Readable(x, o))
      /\ ReadOperand(y, i.dst, w) = ReadOperand(x, i.dst, w) /\ ReadOperand(y, i.src, w) = r
      /\ Twins(x.cpu, y.cpu)
  BY AlikeRead DEF Alike
<1>2. CASE ~supported
  BY <1>2, AlikeRefusal DEF ExplicitImulOutcome
<1>3. CASE supported /\ ~Readable(x, i.src)
  BY <1>1, <1>3, AlikeRefusal DEF ExplicitImulOutcome
<1>4. CASE supported /\ Readable(x, i.src)
  <2>1. /\ i.src \in Operands /\ i.dst \in Operands /\ i.src.kind # "none"
        /\ w \in Widths /\ i.dst.name \in RegisterNames /\ i.factor \in Int
        /\ i.dst.kind # "none" /\ Readable(x, i.dst)
    BY <1>4, OperandForms
       DEF Instructions, IsDestination, IsRegister, IsMemory, Widths, Readable
  <2>2. l \in Int /\ r \in Int
    BY <1>1, <1>4, <2>1, ReadOperandValue, LowIsValue
  <2>3. p \in Int
    <3> HIDE DEF l, r
    <3>1. SignedValue(l, w) \in Int /\ SignedValue(r, w) \in Int
      BY <2>1, <2>2, SignedIsInt
    <3> QED
      BY <3>1
  <2> DEFINE New(z) == WriteRegister(z.cpu, i.dst.name, p)
             cut == ~Fits(p, w)
  <2>4. ExplicitImulOutcome(i, x) =
          Done([x EXCEPT !.cpu = WriteFlags(New(x), [CF |-> cut, OF |-> cut])])
    BY <1>4 DEF ExplicitImulOutcome
  <2>5. ExplicitImulOutcome(i, y) =
          Done([y EXCEPT !.cpu = WriteFlags(New(y), [CF |-> cut, OF |-> cut])])
    BY <1>1, <1>4 DEF ExplicitImulOutcome
  <2>6. Twins(New(x), New(y))
    BY <1>1, <2>1, <2>3, TwinsWriteRegister
  <2>7. cut \in BOOLEAN
    BY DEF Fits
  <2> HIDE DEF New, cut
  <2>8. FlagValues([CF |-> cut, OF |-> cut])
    BY <2>7 DEF FlagValues
  <2> DEFINE values == [CF |-> cut, OF |-> cut]
             c == New(x)  d == New(y)
             s == Done([x EXCEPT !.cpu = WriteFlags(c, values)])
             t == Done([y EXCEPT !.cpu = WriteFlags(d, values)])
  <2>9. ExplicitImulOutcome(i, x) = s /\ ExplicitImulOutcome(i, y) = t
    BY <2>4, <2>5
  <2>10. Twins(c, d) /\ FlagValues(values)
    BY <2>6, <2>8
  <2> HIDE DEF values, c, d
  <2>11. AlikeOutcomes(s, t)
    BY <2>10, AlikeWrites
  <2> HIDE DEF s, t
  <2> QED
    BY <2>9, <2>11
<1> QED
  BY <1>2, <1>3, <1>4

LEMMA TwinsShift ==
  ASSUME NEW c, NEW d, Twins(c, d), NEW op \in ShiftOps \cup RotateOps, NEW shifted, NEW n, NEW w,
         shifted.CF \in BOOLEAN, shifted.OF \in BOOLEAN
  PROVE  Twins(ShiftCpu(c, op, shifted, n, w), ShiftCpu(d, op, shifted, n, w))
<1> DEFINE flags == [CF |-> shifted.CF, OF |-> shifted.OF, ZF |-> shifted.result = 0,
                     SF |-> IsNegative(shifted.result, w)]
           undefined == ShiftUndefines(op, n, w)
           defined == (IF op \in ShiftOps THEN Flags ELSE {"CF", "OF"}) \ undefined
           values == [f \in defined |-> flags[f]]
<1>1. /\ ShiftCpu(c, op, shifted, n, w) = MarkUndefined(WriteFlags(c, values), undefined, op)
      /\ ShiftCpu(d, op, shifted, n, w) = MarkUndefined(WriteFlags(d, values), undefined, op)
  BY DEF ShiftCpu
<1>2. FlagValues(values)
  <2>1. (shifted.result = 0) \in BOOLEAN /\ IsNegative(shifted.result, w) \in BOOLEAN
    BY DEF IsNegative
  <2>2. /\ flags["CF"] \in BOOLEAN /\ flags["OF"] \in BOOLEAN /\ flags["ZF"] \in BOOLEAN
        /\ flags["SF"] \in BOOLEAN
    BY <2>1
  <2>3. \A f \in Flags : flags[f] \in BOOLEAN
    BY <2>2 DEF Flags
  <2> HIDE DEF flags, defined
  <2>4. DOMAIN values = defined /\ \A f \in defined : values[f] = flags[f]
    OBVIOUS
  <2> HIDE DEF values
  <2> QED
    BY <2>3, <2>4 DEF FlagValues
<1> HIDE DEF values, undefined
<1>3. op \in Opcodes /\ op # Valid
  BY DEF Opcodes, Valid, ShiftOps, RotateOps
<1>4. Twins(WriteFlags(c, values), WriteFlags(d, values))
  BY <1>2, TwinsWriteFlags
<1> QED
  BY <1>1, <1>3, <1>4, TwinsMarkUndefined

LEMMA ShiftAlike ==
  ASSUME NEW x, NEW y, Alike(x, y), NEW i \in Instructions, i.op \in ShiftOps \cup RotateOps
  PROVE  AlikeOutcomes(ShiftOutcome(i, x), ShiftOutcome(i, y))
<1> DEFINE w == OperandWidth(i.dst)
           n == EffectiveCount(i, x)
           v == ReadOperand(x, i.dst, w)
           shifted == Shift(i.op, v, n, w)
           supported == IsDestination(i.dst) /\ ShiftCountSupported(i)
           New(z) == ShiftCpu(z.cpu, i.op, shifted, n, w)
<1>1. /\ IsMachine(x) /\ \A o : (Readable(y, o) <=> Readable(x, o))
      /\ ReadOperand(y, i.dst, w) = v /\ EffectiveCount(i, y) = n /\ Twins(x.cpu, y.cpu)
  BY AlikeRead DEF Alike, EffectiveCount
<1>2. CASE ~supported
  BY <1>2, AlikeRefusal DEF ShiftOutcome
<1>3. CASE supported
  <2>1. /\ i.dst \in Operands /\ i.src \in Operands /\ w \in Widths
        /\ i.dst.kind # "none" /\ Byte \in Widths /\ Dword \in Nat /\ Dword > 0
    BY <1>3, OperandWidths, Sizes
       DEF Instructions, IsDestination, IsRegister, IsMemory, Widths
  <2>2. i.src.kind # "none" /\ Readable(x, i.src)
    BY <1>3 DEF ShiftCountSupported, Reg, Readable, IsMemory
  <2>3. n \in Nat
    BY <1>1, <2>1, <2>2, ReadOperandValue DEF EffectiveCount
  <2>4. ShiftOutcome(i, x) =
             IF n = 0 THEN Done(x)
             ELSE IF ~Readable(x, i.dst) THEN Outcome("memory-error", x)
             ELSE Commit(x, New(x), i.dst, w, shifted.result)
    BY <1>3 DEF ShiftOutcome
  <2>5. ShiftOutcome(i, y) =
             IF n = 0 THEN Done(y)
             ELSE IF ~Readable(x, i.dst) THEN Outcome("memory-error", y)
             ELSE Commit(y, New(y), i.dst, w, shifted.result)
    BY <1>1, <1>3 DEF ShiftOutcome
  <2>6. CASE n = 0 \/ ~Readable(x, i.dst)
    <3> HIDE DEF New, shifted
    <3> QED
      BY <2>4, <2>5, <2>6, AlikeRefusal
  <2>7. CASE n # 0 /\ Readable(x, i.dst)
    <3>1. v \in Nat /\ n > 0
      BY <1>1, <2>1, <2>3, <2>7, ReadOperandValue
    <3>2. shifted.result \in Int /\ shifted.CF \in BOOLEAN /\ shifted.OF \in BOOLEAN
      BY <2>1, <2>3, <3>1, ShiftedNumber
    <3> HIDE DEF shifted
    <3>3. Twins(New(x), New(y))
      BY <1>1, <3>2, TwinsShift
    <3> HIDE DEF New, n, w
    <3> QED
      BY <1>3, <2>1, <2>4, <2>5, <2>7, <3>2, <3>3, AlikeCommit
  <2> QED
    BY <2>6, <2>7
<1> QED
  BY <1>2, <1>3

LEMMA InstructionAlike ==
  ASSUME NEW x, NEW y, Alike(x, y), NEW i \in Instructions, Sees(i, x)
  PROVE  AlikeOutcomes(InstructionOutcome(i, x), InstructionOutcome(i, y))
<1> DEFINE o == InstructionOutcome(i, x)  p == InstructionOutcome(i, y)
<1> SUFFICES AlikeOutcomes(o, p)
  OBVIOUS
<1> USE DEF BinaryOps, LogicalOps, ShiftOps, RotateOps, UnaryOps, ImplicitOps, AccumulatorOps
<1>1. CASE i.op \in BinaryOps
  BY <1>1, BinaryAlike DEF InstructionOutcome
<1>2. CASE i.op \in ShiftOps \cup RotateOps
  BY <1>2, ShiftAlike DEF InstructionOutcome
<1>3. CASE i.op \in UnaryOps
  BY <1>3, UnaryAlike DEF InstructionOutcome
<1>4. CASE i.op \in {"MOVSX", "MOVZX"}
  BY <1>4, MovxAlike DEF InstructionOutcome
<1>5. CASE i.op \in ImplicitOps
  BY <1>5, ImplicitAlike DEF InstructionOutcome
<1>6. CASE i.op = "XCHG"
  BY <1>6, XchgAlike DEF InstructionOutcome
<1>7. CASE i.op = "LEA"
  BY <1>7, LeaAlike DEF InstructionOutcome
<1>8. CASE i.op = "IMUL-IMMEDIATE" \/ (i.op = "IMUL" /\ i.dst.kind # "none")
  BY <1>8, ExplicitImulAlike DEF InstructionOutcome
<1>9. CASE i.op \in AccumulatorOps /\ ~(i.op = "IMUL" /\ i.dst.kind # "none")
  BY <1>9, AccumulatorAlike DEF InstructionOutcome
<1>10. i.op \in Opcodes
  BY DEF Instructions
<1> QED
  BY <1>1, <1>2, <1>3, <1>4, <1>5, <1>6, <1>7, <1>8, <1>9, <1>10 DEF Opcodes

\* The flags of the twin are turned over where they are undefined.
LEMMA OppositeAlike ==
  ASSUME NEW x, NEW y, Alike(x, y), machine' = x
  PROVE  Alike(x, OppositeFlags(y))
<1> DEFINE flag == [f \in Flags |-> IF f \in UndefinedFlags(y.cpu) THEN ~machine'.cpu.flag[f]
                                    ELSE y.cpu.flag[f]]
           d == [y.cpu EXCEPT !.flag = flag]
           v == OppositeFlags(y)
<1>1. x.cpu \in Cpus /\ y.cpu \in Cpus /\ Twins(x.cpu, y.cpu) /\ y.mem = x.mem
      /\ IsMachine(x) /\ IsMachine(y)
  BY DEF Alike, IsMachine
<1>2. v = [cpu |-> d, mem |-> y.mem]
  BY <1>1 DEF OppositeFlags, IsMachine
<1>3. d = [reg |-> y.cpu.reg, flag |-> flag, origin |-> y.cpu.origin, written |-> y.cpu.written]
  BY <1>1 DEF Cpus
<1>4. flag \in [Flags -> BOOLEAN]
  <2>1. \A f \in Flags : y.cpu.flag[f] \in BOOLEAN
    BY <1>1 DEF Cpus
  <2>2. \A f \in Flags : flag[f] = IF f \in UndefinedFlags(y.cpu) THEN ~machine'.cpu.flag[f]
                                   ELSE y.cpu.flag[f]
    OBVIOUS
  <2>3. \A f \in Flags : flag[f] \in BOOLEAN
    BY <2>1, <2>2
  <2>4. flag = [f \in Flags |-> flag[f]]
    OBVIOUS
  <2> HIDE DEF flag
  <2> QED
    BY <2>3, <2>4
<1>5. \A f \in Flags : x.cpu.origin[f] = Valid => flag[f] = x.cpu.flag[f]
  BY <1>1 DEF Twins, UndefinedFlags
<1> HIDE DEF flag, d, v
<1>6. d \in Cpus /\ d.reg = y.cpu.reg /\ d.flag = flag /\ d.origin = y.cpu.origin
  BY <1>1, <1>3, <1>4 DEF Cpus
<1>7. Twins(x.cpu, d)
  BY <1>1, <1>5, <1>6 DEF Twins
<1>8. IsMachine(v) /\ v.mem = x.mem /\ v.cpu = d
  BY <1>1, <1>2, <1>6 DEF IsMachine
<1>9. Alike(x, v)
  BY <1>1, <1>7, <1>8 DEF Alike
<1> QED
  BY <1>9 DEF v

TwinInv == policy.use = "error" => Alike(machine, twin)

LEMMA TwinAtStart == Init => TwinInv
<1> SUFFICES ASSUME Init PROVE Alike(machine, twin)
  BY DEF TwinInv
<1>1. startup \in Starts /\ machine = startup /\ twin = startup
  BY DEF Init
<1>2. IsMachine(startup)
  BY <1>1, StartsAreMachines
<1> QED
  BY <1>1, <1>2 DEF Alike, Twins, IsMachine

LEMMA TwinSteps == MachineInv /\ TwinInv /\ [Next]_vars => TwinInv'
<1> SUFFICES ASSUME MachineInv, TwinInv, [Next]_vars, policy'.use = "error"
             PROVE  Alike(machine', twin')
  BY DEF TwinInv
<1>1. CASE Step
  <2>1. PICK i \in Instructions :
           /\ policy' = policy
           /\ (machine' = machine /\ twin' = twin) \/ Execute(i)
    BY <1>1, StepTaken
  <2>2. Alike(machine, twin) /\ policy.use = "error"
    BY <2>1 DEF TwinInv
  <2>3. CASE Execute(i)
    <3> DEFINE o == InstructionOutcome(i, machine)  p == InstructionOutcome(i, twin)
    <3>1. Verdict(i, machine) = "ok" /\ machine' = o.machine /\ twin' = OppositeFlags(p.machine)
      BY <2>3 DEF Execute
    <3>2. Sees(i, machine)
      BY <2>2, <3>1 DEF Verdict, Sees
    <3>3. Alike(o.machine, p.machine)
      BY <2>2, <3>2, InstructionAlike DEF AlikeOutcomes
    <3> HIDE DEF o, p
    <3>4. Alike(o.machine, OppositeFlags(p.machine))
      BY <3>1, <3>3, OppositeAlike
    <3> QED
      BY <3>1, <3>4
  <2> QED
    BY <2>1, <2>2, <2>3
<1>2. CASE UNCHANGED vars
  BY <1>2 DEF vars, TwinInv
<1> QED
  BY <1>1, <1>2 DEF Next, Finished

\* Each jump reads only flags its consumer entry names.
LEMMA JumpsReadConsumed ==
  ASSUME NEW f, NEW g, NEW op \in ConditionalJumps,
         \A n \in ConsumedFlags(op) : g[n] = f[n]
  PROVE  JumpTaken(g, op) = JumpTaken(f, op)
<1> USE DEF ConsumedFlags, JumpTaken
<1>1. CASE op \in EqualityJumps
  BY <1>1 DEF EqualityJumps
<1>2. CASE op \in {"JL", "JNGE", "JGE", "JNL"}
  BY <1>2
<1>3. CASE op \in {"JLE", "JNG", "JG", "JNLE"}
  BY <1>3
<1>4. CASE op \in {"JAE", "JNB", "JB", "JNAE"}
  BY <1>4
<1>5. CASE op \in {"JA", "JNBE", "JBE", "JNA"}
  BY <1>5
<1> QED
  BY <1>1, <1>2, <1>3, <1>4, <1>5 DEF ConditionalJumps, SignedJumps, UnsignedJumps

\* Under the error policy nothing a program can see depends on the bit an undefined flag
\* happens to hold: the run and its twin agree on all but those bits.
THEOREM UndefinedFlagsStayPrivate == Spec => []UndefinedFlagsDoNotLeak
<1>1. MachineInv /\ TwinInv => UndefinedFlagsDoNotLeak
  <2> SUFFICES ASSUME MachineInv, Alike(machine, twin), policy.use = "error"
               PROVE  UndefinedFlagsDoNotLeak
    BY DEF TwinInv, UndefinedFlagsDoNotLeak
  <2>1. /\ twin.mem = machine.mem /\ twin.cpu.reg = machine.cpu.reg
        /\ twin.cpu.origin = machine.cpu.origin
        /\ \A f \in Flags \ UndefinedFlags(machine.cpu) : twin.cpu.flag[f] = machine.cpu.flag[f]
    BY DEF Alike, Twins, UndefinedFlags
  <2>2. ASSUME NEW op \in ConditionalJumps,
               ConsumedFlags(op) \cap UndefinedFlags(machine.cpu) = {}
        PROVE  JumpTaken(twin.cpu.flag, op) = JumpTaken(machine.cpu.flag, op)
    <3>1. ConsumedFlags(op) \subseteq Flags
      BY DEF ConsumedFlags, Flags
    <3>2. \A n \in ConsumedFlags(op) : twin.cpu.flag[n] = machine.cpu.flag[n]
      BY <2>1, <2>2, <3>1
    <3> QED
      BY <3>2, JumpsReadConsumed
  <2> QED
    BY <2>1, <2>2 DEF UndefinedFlagsDoNotLeak
<1> QED
  BY <1>1, MachineAtStart, MachineSteps, TwinAtStart, TwinSteps, PTL DEF Spec

-----------------------------------------------------------------------------
(* What is written is read back. *)

LEMMA AddingMultiples ==
  ASSUME NEW u \in Int, NEW k \in Int, NEW m \in Nat, m > 0
  PROVE  (u + k * m) % m = u % m /\ (u + k * m) \div m = (u \div m) + k
<1> DEFINE q == u \div m  r == u % m
<1>1. q \in Int /\ r \in 0 .. m - 1 /\ u = m * q + r
  BY DivModBasics
<1> HIDE DEF q, r
<1>2. u + k * m = m * (q + k) + r
  BY <1>1, Z3
<1>3. q + k \in Int /\ u + k * m \in Int
  BY <1>1
<1> QED
  BY <1>1, <1>2, <1>3, DivModUnique DEF q, r

LEMMA LowOfValue ==
  ASSUME NEW w \in Widths, NEW v \in Values(w)
  PROVE  Low(v, w) = v /\ v \in Nat
<1>1. Modulus(w) \in Nat /\ Modulus(w) > 0 /\ v \in 0 .. Modulus(w) - 1
  BY Sizes DEF Values, Mask
<1>2. v = Modulus(w) * 0 + v
  BY <1>1
<1>3. v % Modulus(w) = v
  BY <1>1, <1>2, DivModUnique
<1> QED
  BY <1>1, <1>3 DEF Low

\* Replacing the low part of a number leaves the new low part.
LEMMA LowReplaced ==
  ASSUME NEW w \in Widths, NEW u \in Int, NEW v \in Int
  PROVE  Low(u - Low(u, w) + Low(v, w), w) = Low(v, w)
         /\ Low(u + (Low(v, w) - Low(u, w)), w) = Low(v, w)
<1> DEFINE M == Modulus(w)  q == u \div M
<1>1. M \in Nat /\ M > 0
  BY Sizes
<1>2. q \in Int /\ Low(u, w) \in Int /\ Low(v, w) \in Int /\ u = M * q + Low(u, w)
  <2>1. Low(u, w) \in Int /\ Low(v, w) \in Int
    BY LowIsValue
  <2> HIDE DEF M
  <2>2. q \in Int /\ u = M * q + (u % M)
    BY <1>1, DivModBasics
  <2>3. Low(u, w) = u % M
    BY DEF Low, M
  <2> QED
    BY <2>1, <2>2, <2>3
<1> HIDE DEF q, M
<1>3. u - Low(u, w) + Low(v, w) = Low(v, w) + q * M
  BY <1>1, <1>2, Z3
<1>4. (Low(v, w) + q * M) % M = Low(v, w) % M
  BY <1>1, <1>2, AddingMultiples
<1>5. Low(Low(v, w), w) = Low(v, w)
  BY LowIsValue, LowOfValue
<1>6. u + (Low(v, w) - Low(u, w)) = u - Low(u, w) + Low(v, w)
  BY <1>2
<1> QED
  BY <1>3, <1>4, <1>5, <1>6 DEF Low, M

LEMMA RegisterReadBack ==
  ASSUME NEW c \in Cpus, NEW name \in RegisterNames, NEW value \in Int
  PROVE  LET d == WriteRegister(c, name, value) IN
         /\ ReadRegister(d, name) = Low(value, RegisterWidth(name))
         /\ \A r \in Families \ {Alias[name].family} : d.reg[r] = c.reg[r]
         /\ d.reg[Alias[name].family] = c.reg[Alias[name].family]
              + (Low(value, RegisterWidth(name)) - ReadRegister(c, name)) * Scale(name)
<1> DEFINE family == Alias[name].family
           w == RegisterWidth(name)
           s == Scale(name)
           old == c.reg[family]
           change == Low(value, w) - ReadRegister(c, name)
           d == WriteRegister(c, name, value)
<1>1. family \in Families /\ w \in Widths /\ s \in Nat /\ s > 0
  BY AliasTyped
<1>2. old \in Int /\ c.reg \in [Families -> Int]
  BY <1>1 DEF Cpus
<1>3. ReadRegister(c, name) = Low(old \div s, w) /\ old \div s \in Int
  BY <1>1, <1>2, DivModBasics DEF ReadRegister
<1>4. Low(value, w) \in Int /\ ReadRegister(c, name) \in Int /\ change \in Int
  BY <1>1, <1>3, LowIsValue
<1>5. d.reg = [c.reg EXCEPT ![family] = @ + change * s]
  BY DEF WriteRegister, Cpus
<1> HIDE DEF d, change, w, s, family
<1>6. d.reg[family] = old + change * s /\ \A r \in Families \ {family} : d.reg[r] = c.reg[r]
  BY <1>1, <1>2, <1>5
<1> HIDE DEF old
<1>7. (old + change * s) \div s = (old \div s) + change
  BY <1>1, <1>2, <1>4, AddingMultiples
<1>8. ReadRegister(d, name) = Low((old \div s) + change, w)
  BY <1>6, <1>7 DEF ReadRegister, family, s, w
<1>9. ReadRegister(d, name) = Low(value, w)
  BY <1>1, <1>3, <1>8, LowReplaced DEF change
<1> QED
  BY <1>6, <1>9 DEF d, family, w, old, change, s

LEMMA OperandReadBack ==
  ASSUME NEW x, IsMachine(x), NEW o \in Operands, IsDestination(o), NEW value \in Int
  PROVE  LET w == OperandWidth(o)
             out == WriteOperand(x, o, w, value)
         IN  out.status = "ok" => ReadOperand(out.machine, o, w) = Low(value, w)
<1> DEFINE w == OperandWidth(o)
           out == WriteOperand(x, o, w, value)
           v == Low(value, w)
           a == Address(x, o)
<1>1. w \in Widths /\ v \in Values(w) /\ v \in Int /\ Low(v, w) = v
  BY OperandWidths, LowIsValue, LowOfValue
<1>2. x.cpu \in Cpus /\ x.mem \in [DOMAIN x.mem -> Int] /\ Writable \subseteq DOMAIN x.mem
  BY DEF IsMachine
<1>3. CASE IsRegister(o)
  <2> DEFINE d == WriteRegister(x.cpu, o.name, v)
  <2>1. o.name \in RegisterNames /\ w = RegisterWidth(o.name) /\ o.kind = "reg"
    BY <1>3, OperandForms DEF IsRegister, OperandWidth
  <2>2. ReadRegister(d, o.name) = v
    BY <1>1, <1>2, <2>1, RegisterReadBack
  <2>3. out = Done([x EXCEPT !.cpu = d])
    BY <1>3 DEF WriteOperand
  <2> HIDE DEF d
  <2>4. out.machine.cpu = d
    BY <2>3 DEF Done, Outcome, IsMachine
  <2> HIDE DEF out, v, w
  <2>5. ReadOperand(out.machine, o, w) = Low(ReadRegister(out.machine.cpu, o.name), w)
    BY <2>1 DEF ReadOperand
  <2> QED
    BY <1>1, <2>2, <2>4, <2>5 DEF out, v, w
<1>4. CASE ~IsRegister(o) /\ a \in Writable
  <2> DEFINE new == x.mem[a] - Low(x.mem[a], w) + v
             y == [x EXCEPT !.mem[a] = new]
  <2>0. o.kind = "mem" /\ a \in DOMAIN x.mem /\ x.mem[a] \in Int
    BY <1>2, <1>4 DEF IsDestination, IsRegister, IsMemory
  <2>1. Low(new, w) = v
    BY <1>1, <2>0, LowReplaced
  <2>2. out = Done(y)
    BY <1>4 DEF WriteOperand
  <2> HIDE DEF new
  <2>3. y = [cpu |-> x.cpu, mem |-> [x.mem EXCEPT ![a] = new]]
    BY DEF IsMachine
  <2> HIDE DEF y
  <2>4. out.machine.cpu = x.cpu /\ out.machine.mem = [x.mem EXCEPT ![a] = new]
    BY <2>2, <2>3 DEF Done, Outcome
  <2> HIDE DEF out
  <2>5. Address(out.machine, o) = a
    BY <2>4 DEF Address
  <2> HIDE DEF a
  <2>6. out.machine.mem[a] = new
    BY <1>2, <2>0, <2>4
  <2>7. ReadOperand(out.machine, o, w) = Low(out.machine.mem[a], w)
    BY <2>0, <2>5 DEF ReadOperand
  <2> QED
    BY <2>1, <2>6, <2>7 DEF out
<1>5. CASE ~IsRegister(o) /\ a \notin Writable
  BY <1>5 DEF WriteOperand, Outcome
<1> QED
  BY <1>3, <1>4, <1>5

LEMMA CommitReadBack ==
  ASSUME NEW x, IsMachine(x), NEW d, Tracks(x.cpu, d), NEW o \in Operands, IsDestination(o),
         NEW value \in Int
  PROVE  LET w == OperandWidth(o)
             out == Commit(x, d, o, w, value)
         IN  out.status = "ok" => /\ ReadOperand(out.machine, o, w) = Low(value, w)
                                  /\ out.machine.cpu.flag = d.flag
                                  /\ out.machine.cpu.origin = d.origin
<1> DEFINE w == OperandWidth(o)
           y == [x EXCEPT !.cpu = d]
           written == WriteOperand(y, o, w, value)
           out == Commit(x, d, o, w, value)
<1>1. IsMachine(y) /\ w \in Widths
  BY SetCpu, OperandWidths DEF Follows
<1>2. out = IF written.status = "ok" THEN written ELSE Outcome(written.status, x)
  BY DEF Commit
<1> HIDE DEF y
<1>3. written.status = "ok" => ReadOperand(written.machine, o, w) = Low(value, w)
  BY <1>1, OperandReadBack
<1>4. out.status = "ok" => out.machine.cpu.flag = d.flag /\ out.machine.cpu.origin = d.origin
  BY <1>1, CommitAnswers
<1> HIDE DEF written
<1>5. out.status = "ok" => out = written /\ written.status = "ok"
  BY <1>2 DEF Outcome
<1> QED
  BY <1>3, <1>4, <1>5

-----------------------------------------------------------------------------
(* Sums and differences. *)

Carries == {0, 1}

\* A sum and a difference as the flags see them.
LEMMA SumsAndDifferences ==
  ASSUME NEW w \in Widths, NEW l \in Values(w), NEW r \in Values(w), NEW c \in Carries
  PROVE  /\ l + r + c \in Int /\ l - r - c \in Int
         /\ Low(l + r + c, w) = IF l + r + c < Modulus(w) THEN l + r + c ELSE l + r + c - Modulus(w)
         /\ Low(l - r - c, w) = IF l - r - c >= 0 THEN l - r - c ELSE l - r - c + Modulus(w)
         /\ l + r + c > Mask(w) <=> l + r + c \notin Values(w)
         /\ l < r + c <=> l - r - c \notin Values(w)
<1> DEFINE M == Modulus(w)
<1>1. M \in Nat /\ M > 0 /\ Mask(w) = M - 1 /\ Values(w) = 0 .. M - 1
  BY Sizes DEF Mask, Values
<1> HIDE DEF M
<1>2. l \in 0 .. M - 1 /\ r \in 0 .. M - 1 /\ c \in 0 .. 1
  BY <1>1 DEF Carries
<1>3. \A e \in Int : Low(e, w) = e % M
  BY DEF Low, M
<1> DEFINE sum == l + r + c
           diff == l - r - c
<1>4. sum \in 0 .. 2 * M - 1 /\ diff \in -M .. M - 1
  BY <1>1, <1>2
<1> HIDE DEF sum, diff
<1>5. sum % M = IF sum < M THEN sum ELSE sum - M
  <2>1. CASE sum < M
    <3>1. sum \in 0 .. M - 1 /\ sum = M * 0 + sum
      BY <1>1, <1>4, <2>1
    <3> QED
      BY <1>1, <1>4, <2>1, <3>1, DivModUnique
  <2>2. CASE sum >= M
    <3>1. sum - M \in 0 .. M - 1 /\ sum = M * 1 + (sum - M)
      BY <1>1, <1>4, <2>2
    <3> QED
      BY <1>1, <1>4, <2>2, <3>1, DivModUnique
  <2> QED
    BY <1>1, <1>4, <2>1, <2>2
<1>6. diff % M = IF diff >= 0 THEN diff ELSE diff + M
  <2>1. CASE diff >= 0
    <3>1. diff \in 0 .. M - 1 /\ diff = M * 0 + diff
      BY <1>1, <1>4, <2>1
    <3> QED
      BY <1>1, <1>4, <2>1, <3>1, DivModUnique
  <2>2. CASE diff < 0
    <3>1. diff + M \in 0 .. M - 1 /\ diff = M * (-1) + (diff + M)
      BY <1>1, <1>4, <2>2
    <3> QED
      BY <1>1, <1>4, <2>2, <3>1, DivModUnique
  <2> QED
    BY <1>1, <1>4, <2>1, <2>2
<1>7. sum > M - 1 <=> sum \notin 0 .. M - 1
  BY <1>1, <1>4
<1>8. l < r + c <=> diff \notin 0 .. M - 1
  BY <1>1, <1>2, <1>4 DEF diff
<1>9. sum \in Int /\ diff \in Int
  BY <1>1, <1>4
<1>10. /\ Low(sum, w) = IF sum < M THEN sum ELSE sum - M
       /\ Low(diff, w) = IF diff >= 0 THEN diff ELSE diff + M
  BY <1>3, <1>5, <1>6, <1>9
<1>11. /\ sum \in Int /\ diff \in Int
       /\ sum > Mask(w) <=> sum \notin Values(w)
       /\ l < r + c <=> diff \notin Values(w)
  BY <1>1, <1>7, <1>8, <1>9
<1>12. Low(l + r + c, w) = IF l + r + c < Modulus(w) THEN l + r + c ELSE l + r + c - Modulus(w)
  BY <1>1, <1>2, <1>10 DEF sum, M
<1>13. Low(l - r - c, w) = IF l - r - c >= 0 THEN l - r - c ELSE l - r - c + Modulus(w)
  BY <1>10 DEF diff, M
<1>14. /\ l + r + c \in Int /\ l - r - c \in Int
       /\ l + r + c > Mask(w) <=> l + r + c \notin Values(w)
       /\ l < r + c <=> l - r - c \notin Values(w)
  BY <1>11 DEF sum, diff
<1> QED
  BY <1>12, <1>13, <1>14

\* The overflow the flag helpers find by comparing signs.
LEMMA OverflowBySigns ==
  ASSUME NEW w \in Widths, NEW l \in Values(w), NEW r \in Values(w)
  PROVE  /\ AddFlags(l, r, w).OF = ~Fits(SignedValue(l, w) + SignedValue(r, w), w)
         /\ SubFlags(l, r, w).OF = ~Fits(SignedValue(l, w) - SignedValue(r, w), w)
<1> DEFINE S == SignBit[w]
           s == Low(l + r, w)
           d == Low(l - r, w)
<1>1. S \in Nat /\ S > 0 /\ l \in 0 .. 2 * S - 1 /\ r \in 0 .. 2 * S - 1 /\ Modulus(w) = 2 * S
  BY Sizes DEF Values, Mask, Modulus
<1>2. /\ s = IF l + r < 2 * S THEN l + r ELSE l + r - 2 * S
      /\ d = IF l - r >= 0 THEN l - r ELSE l - r + 2 * S
  <2>1. l + r + 0 = l + r /\ l - r - 0 = l - r /\ 0 \in Carries
    BY <1>1 DEF Carries
  <2> QED
    BY <1>1, <2>1, SumsAndDifferences
<1>3. /\ AddFlags(l, r, w).OF = ((l >= S) = (r >= S) /\ (l >= S) # (s >= S))
      /\ SubFlags(l, r, w).OF = ((l >= S) # (r >= S) /\ (l >= S) # (d >= S))
  BY DEF AddFlags, SubFlags, IsNegative
<1>4. /\ SignedValue(l, w) = IF l >= S THEN l - 2 * S ELSE l
      /\ SignedValue(r, w) = IF r >= S THEN r - 2 * S ELSE r
  BY <1>1 DEF SignedValue, IsNegative
<1> DEFINE a == SignedValue(l, w)  b == SignedValue(r, w)
<1>5. /\ Fits(a + b, w) <=> (-S <= a + b /\ a + b < S)
      /\ Fits(a - b, w) <=> (-S <= a - b /\ a - b < S)
  BY DEF Fits
<1> HIDE DEF S, s, d, a, b
<1>6. ((l >= S) = (r >= S) /\ (l >= S) # (s >= S)) <=> ~(-S <= a + b /\ a + b < S)
  BY <1>1, <1>2, <1>4 DEF a, b
<1>7. ((l >= S) # (r >= S) /\ (l >= S) # (d >= S)) <=> ~(-S <= a - b /\ a - b < S)
  BY <1>1, <1>2, <1>4 DEF a, b
<1>8. AddFlags(l, r, w).OF <=> ~Fits(a + b, w)
  BY <1>3, <1>5, <1>6
<1>9. SubFlags(l, r, w).OF <=> ~Fits(a - b, w)
  BY <1>3, <1>5, <1>7
<1>10. AddFlags(l, r, w).OF \in BOOLEAN /\ SubFlags(l, r, w).OF \in BOOLEAN
  BY <1>3
<1> QED
  BY <1>8, <1>9, <1>10 DEF a, b

\* Whatever flags a handler computes for an operation, they are the flags of its exact result.
ExactFlags(values, op, l, r, c, w) ==
  \A f \in Flags : values[f] = ArithmeticFlag(f, op, l, r, c, w)

LEMMA FlagsByName ==
  ASSUME NEW v, NEW op, NEW l, NEW r, NEW c, NEW w,
         v["CF"] = ArithmeticFlag("CF", op, l, r, c, w), v["ZF"] = ArithmeticFlag("ZF", op, l, r, c, w),
         v["SF"] = ArithmeticFlag("SF", op, l, r, c, w), v["OF"] = ArithmeticFlag("OF", op, l, r, c, w)
  PROVE  ExactFlags(v, op, l, r, c, w)
BY DEF ExactFlags, Flags

LEMMA FlagsAreExact ==
  ASSUME NEW w \in Widths, NEW l \in Values(w), NEW r \in Values(w), NEW c \in Carries
  PROVE  /\ \A op \in {"ADD", "INC"} : ExactFlags(AddFlags(l, r, w), op, l, r, c, w)
         /\ \A op \in {"SUB", "CMP", "DEC", "NEG"} : ExactFlags(SubFlags(l, r, w), op, l, r, c, w)
         /\ ExactFlags(AdcFlags(l, r, c, w), "ADC", l, r, c, w)
         /\ ExactFlags(SbbFlags(l, r, c, w), "SBB", l, r, c, w)
<1>0. l \in Int /\ r \in Int /\ c \in Int
  BY LowOfValue DEF Carries
<1>1. /\ (l + r > Mask(w)) = (l + r \notin Values(w))
      /\ (l < r) = (l - r \notin Values(w))
      /\ (l + r + c > Mask(w)) = (l + r + c \notin Values(w))
      /\ (l < r + c) = (l - r - c \notin Values(w))
  <2>1. l + r + 0 = l + r /\ l - r - 0 = l - r /\ r + 0 = r /\ 0 \in Carries
    BY <1>0 DEF Carries
  <2>2. /\ l + r > Mask(w) <=> l + r \notin Values(w)
        /\ l < r <=> l - r \notin Values(w)
    BY <2>1, SumsAndDifferences
  <2>3. /\ l + r + c > Mask(w) <=> l + r + c \notin Values(w)
        /\ l < r + c <=> l - r - c \notin Values(w)
    BY SumsAndDifferences
  <2> QED
    BY <2>2, <2>3
<1>2. ASSUME NEW op \in {"ADD", "INC"}
      PROVE  ExactFlags(AddFlags(l, r, w), op, l, r, c, w)
  <2> DEFINE v == AddFlags(l, r, w)
  <2>1. v["CF"] = ArithmeticFlag("CF", op, l, r, c, w)
    BY <1>1 DEF AddFlags, ArithmeticFlag, Exact
  <2>2. v["ZF"] = ArithmeticFlag("ZF", op, l, r, c, w)
    BY DEF AddFlags, ArithmeticFlag, Exact, Low
  <2>3. v["SF"] = ArithmeticFlag("SF", op, l, r, c, w)
    BY DEF AddFlags, ArithmeticFlag, Exact, IsNegative
  <2>4. v["OF"] = ArithmeticFlag("OF", op, l, r, c, w)
    <3>1. v["OF"] = ~Fits(SignedValue(l, w) + SignedValue(r, w), w)
      BY OverflowBySigns
    <3> QED
      BY <3>1 DEF ArithmeticFlag, Exact
  <2> HIDE DEF v
  <2> QED
    BY <2>1, <2>2, <2>3, <2>4, FlagsByName DEF v
<1>3. ASSUME NEW op \in {"SUB", "CMP", "DEC", "NEG"}
      PROVE  ExactFlags(SubFlags(l, r, w), op, l, r, c, w)
  <2> DEFINE v == SubFlags(l, r, w)
  <2>1. v["CF"] = ArithmeticFlag("CF", op, l, r, c, w)
    BY <1>1 DEF SubFlags, ArithmeticFlag, Exact
  <2>2. v["ZF"] = ArithmeticFlag("ZF", op, l, r, c, w)
    BY DEF SubFlags, ArithmeticFlag, Exact, Low
  <2>3. v["SF"] = ArithmeticFlag("SF", op, l, r, c, w)
    BY DEF SubFlags, ArithmeticFlag, Exact, IsNegative
  <2>4. v["OF"] = ArithmeticFlag("OF", op, l, r, c, w)
    <3>1. v["OF"] = ~Fits(SignedValue(l, w) - SignedValue(r, w), w)
      BY OverflowBySigns
    <3> QED
      BY <3>1 DEF ArithmeticFlag, Exact
  <2> HIDE DEF v
  <2> QED
    BY <2>1, <2>2, <2>3, <2>4, FlagsByName DEF v
<1>4. ExactFlags(AdcFlags(l, r, c, w), "ADC", l, r, c, w)
  <2> DEFINE v == AdcFlags(l, r, c, w)
  <2>1. v["CF"] = ArithmeticFlag("CF", "ADC", l, r, c, w)
    BY <1>1 DEF AdcFlags, ArithmeticFlag, Exact
  <2>2. v["ZF"] = ArithmeticFlag("ZF", "ADC", l, r, c, w)
    BY DEF AdcFlags, ArithmeticFlag, Exact, Low
  <2>3. v["SF"] = ArithmeticFlag("SF", "ADC", l, r, c, w)
    BY DEF AdcFlags, ArithmeticFlag, Exact, IsNegative
  <2>4. v["OF"] = ArithmeticFlag("OF", "ADC", l, r, c, w)
    BY DEF AdcFlags, ArithmeticFlag, Exact
  <2> HIDE DEF v
  <2> QED
    BY <2>1, <2>2, <2>3, <2>4, FlagsByName DEF v
<1>5. ExactFlags(SbbFlags(l, r, c, w), "SBB", l, r, c, w)
  <2> DEFINE v == SbbFlags(l, r, c, w)
  <2>1. v["CF"] = ArithmeticFlag("CF", "SBB", l, r, c, w)
    BY <1>1 DEF SbbFlags, ArithmeticFlag, Exact
  <2>2. v["ZF"] = ArithmeticFlag("ZF", "SBB", l, r, c, w)
    BY DEF SbbFlags, ArithmeticFlag, Exact, Low
  <2>3. v["SF"] = ArithmeticFlag("SF", "SBB", l, r, c, w)
    BY DEF SbbFlags, ArithmeticFlag, Exact, IsNegative
  <2>4. v["OF"] = ArithmeticFlag("OF", "SBB", l, r, c, w)
    BY DEF SbbFlags, ArithmeticFlag, Exact
  <2> HIDE DEF v
  <2> QED
    BY <2>1, <2>2, <2>3, <2>4, FlagsByName DEF v
<1> QED
  BY <1>2, <1>3, <1>4, <1>5

\* What an arithmetic instruction adds or subtracts.
LeftOf(i, x) == IF i.op = "NEG" THEN 0 ELSE ReadOperand(x, i.dst, OperandWidth(i.dst))
RightOf(i, x) ==
  CASE i.op = "NEG" -> ReadOperand(x, i.dst, OperandWidth(i.dst))
    [] i.op \in {"INC", "DEC"} -> 1
    [] OTHER -> ReadOperand(x, i.src, OperandWidth(i.dst))
ResultOf(i, x) == Exact(i.op, LeftOf(i, x), RightOf(i, x), CarryIn(x.cpu))
Untouched(i) == IF i.op \in {"INC", "DEC"} THEN {"CF"} ELSE {}

\* A cut result differs from the exact one by a multiple of the modulus.
LEMMA CutResult ==
  ASSUME NEW w \in Widths, NEW l \in Values(w), NEW r \in Values(w), NEW c \in Carries,
         NEW op \in Arithmetic
  PROVE  /\ Exact(op, l, r, c) \in Int
         /\ \E n \in -2 .. 2 : Low(Exact(op, l, r, c), w) = Exact(op, l, r, c) + n * Modulus(w)
<1>1. Modulus(w) \in Nat /\ l \in Int /\ r \in Int /\ c \in Int
  BY Sizes, LowOfValue DEF Carries
<1>2. ASSUME NEW d \in Carries
      PROVE  /\ l + r + d \in Int /\ l - r - d \in Int
             /\ \E n \in -2 .. 2 : Low(l + r + d, w) = l + r + d + n * Modulus(w)
             /\ \E n \in -2 .. 2 : Low(l - r - d, w) = l - r - d + n * Modulus(w)
  <2> DEFINE sum == l + r + d  diff == l - r - d
  <2>1. /\ sum \in Int /\ diff \in Int
        /\ Low(sum, w) = IF sum < Modulus(w) THEN sum ELSE sum - Modulus(w)
        /\ Low(diff, w) = IF diff >= 0 THEN diff ELSE diff + Modulus(w)
    <3>1. sum \in Int /\ Low(sum, w) = IF sum < Modulus(w) THEN sum ELSE sum - Modulus(w)
      BY <1>1, SumsAndDifferences
    <3>2. diff \in Int /\ Low(diff, w) = IF diff >= 0 THEN diff ELSE diff + Modulus(w)
      BY <1>1, SumsAndDifferences
    <3> QED
      BY <3>1, <3>2
  <2> HIDE DEF sum, diff
  <2>2. Low(sum, w) = sum + 0 * Modulus(w) \/ Low(sum, w) = sum + (-1) * Modulus(w)
    BY <1>1, <2>1
  <2>3. Low(diff, w) = diff + 0 * Modulus(w) \/ Low(diff, w) = diff + 1 * Modulus(w)
    BY <1>1, <2>1
  <2>4. /\ \E n \in -2 .. 2 : Low(sum, w) = sum + n * Modulus(w)
        /\ \E n \in -2 .. 2 : Low(diff, w) = diff + n * Modulus(w)
    <3>1. 0 \in -2 .. 2 /\ -1 \in -2 .. 2 /\ 1 \in -2 .. 2
      OBVIOUS
    <3> QED
      BY <2>2, <2>3, <3>1
  <2> QED
    BY <2>1, <2>4 DEF sum, diff
<1>3. l + r + 0 = l + r /\ l - r - 0 = l - r /\ 0 \in Carries
  BY <1>1 DEF Carries
<1>4. CASE op \in {"ADD", "INC"}
  <2>1. Exact(op, l, r, c) = l + r + 0
    BY <1>3, <1>4 DEF Exact
  <2> QED
    BY <1>2, <1>3, <2>1
<1>5. CASE op \in {"SUB", "CMP", "DEC", "NEG"}
  <2>1. Exact(op, l, r, c) = l - r - 0
    BY <1>3, <1>5 DEF Exact
  <2> QED
    BY <1>2, <1>3, <2>1
<1>6. CASE op = "ADC"
  <2>1. Exact(op, l, r, c) = l + r + c
    BY <1>6 DEF Exact
  <2> QED
    BY <1>2, <2>1
<1>7. CASE op = "SBB"
  <2>1. Exact(op, l, r, c) = l - r - c
    BY <1>7 DEF Exact
  <2> QED
    BY <1>2, <2>1
<1> QED
  BY <1>4, <1>5, <1>6, <1>7 DEF Arithmetic

LEMMA ArithmeticShown ==
  ASSUME NEW STATE x, NEW STATE y, NEW STATE i, i.op \in Arithmetic, OperandWidth(i.dst) \in Widths,
         LeftOf(i, x) \in Values(OperandWidth(i.dst)), RightOf(i, x) \in Values(OperandWidth(i.dst)),
         NEW STATE values,
         ExactFlags(values, i.op, LeftOf(i, x), RightOf(i, x), CarryIn(x.cpu), OperandWidth(i.dst)),
         \A f \in Flags \ Untouched(i) : y.cpu.flag[f] = values[f] /\ y.cpu.origin[f] = Valid,
         \A f \in Untouched(i) : y.cpu.flag[f] = x.cpu.flag[f] /\ y.cpu.origin[f] = x.cpu.origin[f],
         i.op # "CMP" => ReadOperand(y, i.dst, OperandWidth(i.dst)) = Low(ResultOf(i, x), OperandWidth(i.dst))
  PROVE  ArithmeticIsExact(i, x, y)
<1> DEFINE w == OperandWidth(i.dst)
           l == LeftOf(i, x)
           r == RightOf(i, x)
           c == CarryIn(x.cpu)
           got == ReadOperand(y, i.dst, w)
<1>1. c \in Carries
  BY DEF CarryIn, Carries
<1>2. \E n \in -2 .. 2 : Low(Exact(i.op, l, r, c), w) = Exact(i.op, l, r, c) + n * Modulus(w)
  BY <1>1, CutResult
<1>3. i.op # "CMP" => \E n \in -2 .. 2 : got = Exact(i.op, l, r, c) + n * Modulus(w)
  BY <1>2 DEF ResultOf
<1>4. \A f \in Flags \ Untouched(i) :
         y.cpu.flag[f] = ArithmeticFlag(f, i.op, l, r, c, w) /\ y.cpu.origin[f] = Valid
  BY DEF ExactFlags
<1>5. \A f \in Untouched(i) : y.cpu.flag[f] = x.cpu.flag[f] /\ y.cpu.origin[f] = x.cpu.origin[f]
  OBVIOUS
<1> HIDE DEF l, r, c, w, got
<1>6. ArithmeticIsExact(i, x, y) <=>
        /\ i.op # "CMP" => \E n \in -2 .. 2 : got = Exact(i.op, l, r, c) + n * Modulus(w)
        /\ \A f \in Flags \ Untouched(i) :
              y.cpu.flag[f] = ArithmeticFlag(f, i.op, l, r, c, w) /\ y.cpu.origin[f] = Valid
        /\ \A f \in Untouched(i) :
              y.cpu.flag[f] = x.cpu.flag[f] /\ y.cpu.origin[f] = x.cpu.origin[f]
  BY Zenon DEF ArithmeticIsExact, l, r, c, w, got, LeftOf, RightOf, Untouched
<1> QED
  BY <1>3, <1>4, <1>5, <1>6

LEMMA FlagsWritten ==
  ASSUME NEW c \in Cpus, NEW values, DOMAIN values = Flags, FlagValues(values)
  PROVE  /\ \A f \in Flags : /\ WriteFlags(c, values).flag[f] = values[f]
                             /\ WriteFlags(c, values).origin[f] = Valid
         /\ WriteFlags(c, values).flag \in [Flags -> BOOLEAN]
         /\ DOMAIN WriteFlags(c, values).origin = Flags
         /\ \A f \in Flags \ {"CF"} :
               /\ KeepCarry(WriteFlags(c, values), c).flag[f] = values[f]
               /\ KeepCarry(WriteFlags(c, values), c).origin[f] = Valid
         /\ KeepCarry(WriteFlags(c, values), c).flag["CF"] = c.flag["CF"]
         /\ KeepCarry(WriteFlags(c, values), c).origin["CF"] = c.origin["CF"]
<1> DEFINE d == WriteFlags(c, values)
<1>0. /\ d.flag = [f \in Flags |-> IF f \in DOMAIN values THEN values[f] ELSE c.flag[f]]
      /\ d.origin = [f \in Flags |-> IF f \in DOMAIN values THEN Valid ELSE c.origin[f]]
  BY DEF WriteFlags, Cpus
<1>1. d \in Cpus
  BY WriteFlagsTracks DEF Tracks
<1> HIDE DEF d
<1>11. /\ \A f \in Flags : d.flag[f] = values[f] /\ d.origin[f] = Valid
       /\ DOMAIN d.flag = Flags /\ DOMAIN d.origin = Flags /\ d.flag \in [Flags -> BOOLEAN]
       /\ d = [reg |-> d.reg, flag |-> d.flag, origin |-> d.origin, written |-> d.written]
  BY <1>0, <1>1 DEF Cpus
<1>2. /\ KeepCarry(d, c).flag = [d.flag EXCEPT !["CF"] = c.flag["CF"]]
      /\ KeepCarry(d, c).origin = [d.origin EXCEPT !["CF"] = c.origin["CF"]]
  BY <1>11 DEF KeepCarry
<1>3. "CF" \in Flags
  BY DEF Flags
<1> HIDE DEF Flags
<1>4. /\ \A f \in Flags \ {"CF"} : KeepCarry(d, c).flag[f] = values[f] /\ KeepCarry(d, c).origin[f] = Valid
      /\ KeepCarry(d, c).flag["CF"] = c.flag["CF"] /\ KeepCarry(d, c).origin["CF"] = c.origin["CF"]
  BY <1>11, <1>2, <1>3
<1> QED
  BY <1>11, <1>4 DEF d

LEMMA HelperDomains ==
  ASSUME NEW l, NEW r, NEW c, NEW w
  PROVE  /\ DOMAIN AddFlags(l, r, w) = Flags /\ DOMAIN SubFlags(l, r, w) = Flags
         /\ DOMAIN AdcFlags(l, r, c, w) = Flags /\ DOMAIN SbbFlags(l, r, c, w) = Flags
BY DEF AddFlags, SubFlags, AdcFlags, SbbFlags, Flags

\* The outcome of a handler that commits its result with flags that are exact.
LEMMA CommittedExactly ==
  ASSUME NEW x, IsMachine(x), NEW i \in Instructions, i.op \in Arithmetic, IsDestination(i.dst),
         LeftOf(i, x) \in Values(OperandWidth(i.dst)), RightOf(i, x) \in Values(OperandWidth(i.dst)),
         NEW values, DOMAIN values = Flags, FlagValues(values),
         ExactFlags(values, i.op, LeftOf(i, x), RightOf(i, x), CarryIn(x.cpu), OperandWidth(i.dst)),
         NEW d, d = (IF i.op \in {"INC", "DEC"} THEN KeepCarry(WriteFlags(x.cpu, values), x.cpu)
                     ELSE WriteFlags(x.cpu, values))
  PROVE  LET out == Commit(x, d, i.dst, OperandWidth(i.dst), ResultOf(i, x))
         IN  out.status = "ok" => ArithmeticIsExact(i, x, out.machine)
<1> DEFINE w == OperandWidth(i.dst)
           out == Commit(x, d, i.dst, w, ResultOf(i, x))
           y == out.machine
<1> SUFFICES ASSUME out.status = "ok" PROVE ArithmeticIsExact(i, x, y)
  OBVIOUS
<1>1. x.cpu \in Cpus /\ i.dst \in Operands /\ w \in Widths /\ CarryIn(x.cpu) \in Carries
  BY OperandWidths DEF IsMachine, Instructions, CarryIn, Carries
<1>2. ResultOf(i, x) \in Int
  BY <1>1, CutResult DEF ResultOf
<1>3. Tracks(x.cpu, d)
  <2>1. Tracks(x.cpu, WriteFlags(x.cpu, values))
    BY <1>1, WriteFlagsTracks
  <2>2. Tracks(x.cpu, KeepCarry(WriteFlags(x.cpu, values), x.cpu))
    BY <1>1, SteppedTracks
  <2> QED
    BY <2>1, <2>2
<1>4. ReadOperand(y, i.dst, w) = Low(ResultOf(i, x), w) /\ y.cpu.flag = d.flag /\ y.cpu.origin = d.origin
  BY <1>1, <1>2, <1>3, CommitReadBack
<1> HIDE DEF out
<1>5. /\ \A f \in Flags \ Untouched(i) : d.flag[f] = values[f] /\ d.origin[f] = Valid
      /\ \A f \in Untouched(i) : d.flag[f] = x.cpu.flag[f] /\ d.origin[f] = x.cpu.origin[f]
  <2>1. CASE i.op \in {"INC", "DEC"}
    <3>1. d = KeepCarry(WriteFlags(x.cpu, values), x.cpu) /\ Untouched(i) = {"CF"}
      BY <2>1 DEF Untouched
    <3> QED
      BY <1>1, <3>1, FlagsWritten
  <2>2. CASE i.op \notin {"INC", "DEC"}
    <3>1. d = WriteFlags(x.cpu, values) /\ Untouched(i) = {}
      BY <2>2 DEF Untouched
    <3> QED
      BY <1>1, <3>1, FlagsWritten
  <2> QED
    BY <2>1, <2>2
<1> QED
  BY <1>1, <1>4, <1>5, ArithmeticShown

LEMMA BinaryExact ==
  ASSUME NEW x, IsMachine(x), NEW i \in Instructions, i.op \in {"ADD", "SUB", "CMP", "ADC", "SBB"},
         BinaryOutcome(i, x).status = "ok"
  PROVE  ArithmeticIsExact(i, x, BinaryOutcome(i, x).machine)
<1> DEFINE w == OperandWidth(i.dst)
           l == ReadOperand(x, i.dst, w)
           r == ReadOperand(x, i.src, w)
           c == CarryIn(x.cpu)
           out == BinaryOutcome(i, x)
<1>1. BinarySupported(i) /\ Readable(x, i.src) /\ Readable(x, i.dst)
  <2>1. CASE ~BinarySupported(i)
    <3>1. out = Outcome("unsupported-operand", x)
      BY <2>1 DEF BinaryOutcome
    <3> QED
      BY <3>1 DEF Outcome
  <2>2. CASE BinarySupported(i) /\ ~(Readable(x, i.src) /\ Readable(x, i.dst))
    <3>1. out = Outcome("memory-error", x)
      BY <2>2 DEF BinaryOutcome
    <3> QED
      BY <3>1 DEF Outcome
  <2> QED
    BY <2>1, <2>2
<1>2. /\ x.cpu \in Cpus /\ i.dst \in Operands /\ i.src \in Operands /\ IsDestination(i.dst)
      /\ w \in Widths /\ i.dst.kind # "none" /\ i.src.kind # "none" /\ c \in Carries
  BY <1>1, OperandWidths
     DEF IsMachine, Instructions, BinarySupported, IsDestination, IsRegister, IsMemory, CarryIn, Carries
<1>3. l \in Values(w) /\ r \in Values(w)
  BY <1>1, <1>2, ReadOperandValue
<1>4. LeftOf(i, x) = l /\ RightOf(i, x) = r /\ i.op \in Arithmetic /\ i.op \notin {"INC", "DEC"}
  BY DEF LeftOf, RightOf, Arithmetic
<1>5. /\ i.op = "ADD" => out = Commit(x, WriteFlags(x.cpu, AddFlags(l, r, w)), i.dst, w, l + r)
      /\ i.op = "SUB" => out = Commit(x, WriteFlags(x.cpu, SubFlags(l, r, w)), i.dst, w, l - r)
      /\ i.op = "ADC" => out = Commit(x, WriteFlags(x.cpu, AdcFlags(l, r, c, w)), i.dst, w, l + r + c)
      /\ i.op = "SBB" => out = Commit(x, WriteFlags(x.cpu, SbbFlags(l, r, c, w)), i.dst, w, l - r - c)
      /\ i.op = "CMP" => out = Done([x EXCEPT !.cpu = WriteFlags(@, SubFlags(l, r, w))])
  BY <1>1 DEF BinaryOutcome
<1> HIDE DEF l, r, c, w, out
<1>6. ASSUME NEW values, DOMAIN values = Flags, FlagValues(values), ExactFlags(values, i.op, l, r, c, w),
             NEW result, result = Exact(i.op, l, r, c),
             out = Commit(x, WriteFlags(x.cpu, values), i.dst, w, result)
      PROVE  ArithmeticIsExact(i, x, out.machine)
  <2> DEFINE d == WriteFlags(x.cpu, values)
  <2>0. d = (IF i.op \in {"INC", "DEC"} THEN KeepCarry(WriteFlags(x.cpu, values), x.cpu)
             ELSE WriteFlags(x.cpu, values))
    BY <1>4
  <2> HIDE DEF d
  <2>1. result = ResultOf(i, x)
    BY <1>4, <1>6 DEF ResultOf, c
  <2>2. out.status = "ok"
    BY DEF out
  <2>3. out = Commit(x, d, i.dst, OperandWidth(i.dst), ResultOf(i, x))
    BY <1>6, <2>1 DEF w, d
  <2>4. ExactFlags(values, i.op, LeftOf(i, x), RightOf(i, x), CarryIn(x.cpu), OperandWidth(i.dst))
    BY <1>4, <1>6 DEF w, c
  <2>5. LeftOf(i, x) \in Values(OperandWidth(i.dst)) /\ RightOf(i, x) \in Values(OperandWidth(i.dst))
    BY <1>3, <1>4 DEF w
  <2> QED
    BY <1>2, <1>4, <1>6, <2>0, <2>2, <2>3, <2>4, <2>5, CommittedExactly
<1>7. CASE i.op = "ADD"
  <2>1. l + r = Exact(i.op, l, r, c)
    BY <1>7 DEF Exact
  <2> QED
    BY <1>2, <1>3, <1>5, <1>6, <1>7, <2>1, FlagsAreExact, FlagHelpers, HelperDomains DEF out
<1>8. CASE i.op = "SUB"
  <2>1. l - r = Exact(i.op, l, r, c)
    BY <1>8 DEF Exact
  <2> QED
    BY <1>2, <1>3, <1>5, <1>6, <1>8, <2>1, FlagsAreExact, FlagHelpers, HelperDomains DEF out
<1>9. CASE i.op = "ADC"
  <2>1. l + r + c = Exact(i.op, l, r, c)
    BY <1>9 DEF Exact
  <2> QED
    BY <1>2, <1>3, <1>5, <1>6, <1>9, <2>1, FlagsAreExact, FlagHelpers, HelperDomains DEF out
<1>10. CASE i.op = "SBB"
  <2>1. l - r - c = Exact(i.op, l, r, c)
    BY <1>10 DEF Exact
  <2> QED
    BY <1>2, <1>3, <1>5, <1>6, <1>10, <2>1, FlagsAreExact, FlagHelpers, HelperDomains DEF out
<1>11. CASE i.op = "CMP"
  <2> DEFINE values == SubFlags(l, r, w)
  <2>1. ExactFlags(values, i.op, l, r, c, w) /\ DOMAIN values = Flags /\ FlagValues(values)
    BY <1>2, <1>3, <1>11, FlagsAreExact, FlagHelpers, HelperDomains
  <2> HIDE DEF values
  <2>2. out = Done([x EXCEPT !.cpu = WriteFlags(x.cpu, values)])
    BY <1>5, <1>11 DEF values
  <2>3. out.machine.cpu = WriteFlags(x.cpu, values)
    BY <2>2 DEF Done, Outcome, IsMachine
  <2>4. Untouched(i) = {}
    BY <1>11 DEF Untouched
  <2>5. \A f \in Flags : out.machine.cpu.flag[f] = values[f] /\ out.machine.cpu.origin[f] = Valid
    BY <1>2, <2>1, <2>3, FlagsWritten
  <2>6. ArithmeticIsExact(i, x, out.machine)
    BY <1>2, <1>3, <1>4, <1>11, <2>1, <2>4, <2>5, ArithmeticShown DEF w, c
  <2> QED
    BY <2>6 DEF out
<1> QED
  BY <1>7, <1>8, <1>9, <1>10, <1>11

LEMMA UnaryExact ==
  ASSUME NEW x, IsMachine(x), NEW i \in Instructions, i.op \in {"NEG", "INC", "DEC"},
         UnaryOutcome(i, x).status = "ok"
  PROVE  ArithmeticIsExact(i, x, UnaryOutcome(i, x).machine)
<1> DEFINE w == OperandWidth(i.dst)
           v == ReadOperand(x, i.dst, w)
           c == CarryIn(x.cpu)
           out == UnaryOutcome(i, x)
<1>1. IsDestination(i.dst) /\ Readable(x, i.dst) /\ i.src.kind = "none"
  <2>1. CASE ~(IsDestination(i.dst) /\ i.src.kind = "none")
    <3>1. out = Outcome("unsupported-operand", x)
      BY <2>1 DEF UnaryOutcome
    <3> QED
      BY <3>1 DEF Outcome
  <2>2. CASE IsDestination(i.dst) /\ i.src.kind = "none" /\ ~Readable(x, i.dst)
    <3>1. out = Outcome("memory-error", x)
      BY <2>2 DEF UnaryOutcome
    <3> QED
      BY <3>1 DEF Outcome
  <2> QED
    BY <2>1, <2>2
<1>2. /\ x.cpu \in Cpus /\ i.dst \in Operands /\ w \in Widths /\ i.dst.kind # "none" /\ c \in Carries
  BY <1>1, OperandWidths DEF IsMachine, Instructions, IsDestination, IsRegister, IsMemory, CarryIn, Carries
<1>3. v \in Values(w) /\ v \in Int /\ 0 \in Values(w) /\ 1 \in Values(w)
  <2>1. v \in Values(w) /\ v \in Int
    BY <1>1, <1>2, ReadOperandValue
  <2>2. Values(w) = 0 .. 2 * SignBit[w] - 1 /\ SignBit[w] \in Nat /\ SignBit[w] > 0
    BY <1>2, Sizes DEF Values, Mask, Modulus
  <2> QED
    BY <2>1, <2>2
<1>4. /\ i.op \in Arithmetic
      /\ i.op = "NEG" => LeftOf(i, x) = 0 /\ RightOf(i, x) = v
      /\ i.op # "NEG" => LeftOf(i, x) = v /\ RightOf(i, x) = 1
  BY DEF LeftOf, RightOf, Arithmetic
<1>5. /\ i.op = "NEG" => out = Commit(x, WriteFlags(x.cpu, SubFlags(0, v, w)), i.dst, w, -v)
      /\ i.op = "INC" => out = Commit(x, KeepCarry(WriteFlags(x.cpu, AddFlags(v, 1, w)), x.cpu), i.dst, w, v + 1)
      /\ i.op = "DEC" => out = Commit(x, KeepCarry(WriteFlags(x.cpu, SubFlags(v, 1, w)), x.cpu), i.dst, w, v - 1)
  BY <1>1 DEF UnaryOutcome
<1> HIDE DEF v, c, w, out
<1>6. ASSUME NEW values, DOMAIN values = Flags, FlagValues(values),
             ExactFlags(values, i.op, LeftOf(i, x), RightOf(i, x), c, w),
             NEW result, result = Exact(i.op, LeftOf(i, x), RightOf(i, x), c),
             NEW d, d = (IF i.op \in {"INC", "DEC"} THEN KeepCarry(WriteFlags(x.cpu, values), x.cpu)
                         ELSE WriteFlags(x.cpu, values)),
             out = Commit(x, d, i.dst, w, result)
      PROVE  ArithmeticIsExact(i, x, out.machine)
  <2>1. result = ResultOf(i, x)
    BY <1>6 DEF ResultOf, c
  <2>2. out.status = "ok"
    BY DEF out
  <2>3. out = Commit(x, d, i.dst, OperandWidth(i.dst), ResultOf(i, x))
    BY <1>6, <2>1 DEF w
  <2>4. ExactFlags(values, i.op, LeftOf(i, x), RightOf(i, x), CarryIn(x.cpu), OperandWidth(i.dst))
    BY <1>6 DEF w, c
  <2>5. LeftOf(i, x) \in Values(OperandWidth(i.dst)) /\ RightOf(i, x) \in Values(OperandWidth(i.dst))
    BY <1>3, <1>4 DEF w
  <2> QED
    BY <1>1, <1>4, <1>6, <2>2, <2>3, <2>4, <2>5, CommittedExactly
<1>7. CASE i.op = "NEG"
  <2> DEFINE values == SubFlags(0, v, w)
  <2>1. -v = Exact(i.op, LeftOf(i, x), RightOf(i, x), c)
    BY <1>3, <1>4, <1>7 DEF Exact
  <2>2. ExactFlags(values, i.op, LeftOf(i, x), RightOf(i, x), c, w) /\ DOMAIN values = Flags /\ FlagValues(values)
    BY <1>2, <1>3, <1>4, <1>7, FlagsAreExact, FlagHelpers, HelperDomains
  <2> HIDE DEF values
  <2> DEFINE d == WriteFlags(x.cpu, values)
  <2>3. out = Commit(x, d, i.dst, w, -v)
    BY <1>5, <1>7 DEF values
  <2>4. d = (IF i.op \in {"INC", "DEC"} THEN KeepCarry(WriteFlags(x.cpu, values), x.cpu)
             ELSE WriteFlags(x.cpu, values))
    BY <1>7
  <2> HIDE DEF d
  <2>5. ArithmeticIsExact(i, x, out.machine)
    BY <1>6, <2>1, <2>2, <2>3, <2>4
  <2> QED
    BY <2>5 DEF out
<1>8. CASE i.op = "INC"
  <2> DEFINE values == AddFlags(v, 1, w)
  <2>1. v + 1 = Exact(i.op, LeftOf(i, x), RightOf(i, x), c)
    BY <1>3, <1>4, <1>8 DEF Exact
  <2>2. ExactFlags(values, i.op, LeftOf(i, x), RightOf(i, x), c, w) /\ DOMAIN values = Flags /\ FlagValues(values)
    BY <1>2, <1>3, <1>4, <1>8, FlagsAreExact, FlagHelpers, HelperDomains
  <2> HIDE DEF values
  <2> DEFINE d == KeepCarry(WriteFlags(x.cpu, values), x.cpu)
  <2>3. out = Commit(x, d, i.dst, w, v + 1)
    BY <1>5, <1>8 DEF values
  <2>4. d = (IF i.op \in {"INC", "DEC"} THEN KeepCarry(WriteFlags(x.cpu, values), x.cpu)
             ELSE WriteFlags(x.cpu, values))
    BY <1>8
  <2> HIDE DEF d
  <2>5. ArithmeticIsExact(i, x, out.machine)
    BY <1>6, <2>1, <2>2, <2>3, <2>4
  <2> QED
    BY <2>5 DEF out
<1>9. CASE i.op = "DEC"
  <2> DEFINE values == SubFlags(v, 1, w)
  <2>1. v - 1 = Exact(i.op, LeftOf(i, x), RightOf(i, x), c)
    BY <1>3, <1>4, <1>9 DEF Exact
  <2>2. ExactFlags(values, i.op, LeftOf(i, x), RightOf(i, x), c, w) /\ DOMAIN values = Flags /\ FlagValues(values)
    BY <1>2, <1>3, <1>4, <1>9, FlagsAreExact, FlagHelpers, HelperDomains
  <2> HIDE DEF values
  <2> DEFINE d == KeepCarry(WriteFlags(x.cpu, values), x.cpu)
  <2>3. out = Commit(x, d, i.dst, w, v - 1)
    BY <1>5, <1>9 DEF values
  <2>4. d = (IF i.op \in {"INC", "DEC"} THEN KeepCarry(WriteFlags(x.cpu, values), x.cpu)
             ELSE WriteFlags(x.cpu, values))
    BY <1>9
  <2> HIDE DEF d
  <2>5. ArithmeticIsExact(i, x, out.machine)
    BY <1>6, <2>1, <2>2, <2>3, <2>4
  <2> QED
    BY <2>5 DEF out
<1> QED
  BY <1>7, <1>8, <1>9

-----------------------------------------------------------------------------
(* Products. *)

\* A number with sign and its value modulo a width determine each other.
LEMMA SignedRange ==
  ASSUME NEW w \in Widths
  PROVE  /\ \A v \in Values(w) : SignedValue(v, w) \in -SignBit[w] .. SignBit[w] - 1
         /\ \A q \in -SignBit[w] .. SignBit[w] - 1 :
               /\ SignedValue(Low(q, w), w) = q
               /\ Low(q, w) = IF q >= 0 THEN q ELSE q + Modulus(w)
         /\ \A p \in Int : Fits(p, w) <=> p \in -SignBit[w] .. SignBit[w] - 1
<1> DEFINE S == SignBit[w]  M == Modulus(w)
<1>1. S \in Nat /\ S > 0 /\ M = 2 * S /\ M \in Nat /\ M > 0
  BY Sizes DEF Modulus
<1>2. /\ Values(w) = 0 .. M - 1
      /\ \A v : SignedValue(v, w) = IF v >= S THEN v - M ELSE v
      /\ \A v : Low(v, w) = v % M
      /\ \A p : Fits(p, w) <=> -S <= p /\ p < S
  BY DEF Values, Mask, SignedValue, IsNegative, Low, Fits
<1> HIDE DEF S, M
<1>3. ASSUME NEW v \in Values(w)
      PROVE  SignedValue(v, w) \in -S .. S - 1
  BY <1>1, <1>2
<1>4. ASSUME NEW q \in -S .. S - 1
      PROVE  /\ q % M = IF q >= 0 THEN q ELSE q + M
             /\ SignedValue(q % M, w) = q
  <2>1. q % M = IF q >= 0 THEN q ELSE q + M
    <3>1. CASE q >= 0
      <4>1. q \in 0 .. M - 1 /\ q = M * 0 + q
        BY <1>1, <3>1
      <4> QED
        BY <1>1, <3>1, <4>1, DivModUnique
    <3>2. CASE q < 0
      <4>1. q + M \in 0 .. M - 1 /\ q = M * (-1) + (q + M)
        BY <1>1, <3>2
      <4> QED
        BY <1>1, <3>2, <4>1, DivModUnique
    <3> QED
      BY <1>1, <3>1, <3>2
  <2> QED
    BY <1>1, <1>2, <2>1
<1>5. \A p \in Int : Fits(p, w) <=> p \in -S .. S - 1
  BY <1>1, <1>2
<1> QED
  BY <1>2, <1>3, <1>4, <1>5 DEF S, M

LEMMA Halves ==
  ASSUME NEW w \in Widths
  PROVE  /\ RegisterWidth(LowHalf(w)) = w /\ RegisterWidth(HighHalf(w)) = w
         /\ w # Byte => Alias[LowHalf(w)].family # Alias[HighHalf(w)].family
         /\ Alias["AL"].family = "EAX" /\ Alias["AH"].family = "EAX"
         /\ Scale("AL") = 1 /\ Scale("AH") = Modulus(Byte)
<1>1. /\ LowHalf(Byte) = "AL" /\ LowHalf(Word) = "AX" /\ LowHalf(Dword) = "EAX"
      /\ HighHalf(Byte) = "AH" /\ HighHalf(Word) = "DX" /\ HighHalf(Dword) = "EDX"
  BY WidthsAssumption DEF LowHalf, HighHalf
<1>2. /\ Alias["AL"].family = "EAX" /\ Alias["AX"].family = "EAX" /\ Alias["EAX"].family = "EAX"
      /\ Alias["AH"].family = "EAX" /\ Alias["DX"].family = "EDX" /\ Alias["EDX"].family = "EDX"
  BY DEF Alias, Part
<1>3. /\ Alias["AL"].width = Byte /\ Alias["AX"].width = Word /\ Alias["EAX"].width = Dword
      /\ Alias["AH"].width = Byte /\ Alias["DX"].width = Word /\ Alias["EDX"].width = Dword
  BY DEF Alias, Part
<1>4. w = Byte \/ w = Word \/ w = Dword
  BY DEF Widths
<1>5. Scale("AL") = 1 /\ Scale("AH") = Modulus(Byte)
  BY DEF Scale, Alias, Part
<1> HIDE DEF Alias
<1>6. RegisterWidth(LowHalf(w)) = w /\ RegisterWidth(HighHalf(w)) = w
  BY <1>1, <1>3, <1>4 DEF RegisterWidth
<1>7. w # Byte => Alias[LowHalf(w)].family # Alias[HighHalf(w)].family
  <2>1. "EAX" # "EDX"
    OBVIOUS
  <2> QED
    BY <1>1, <1>2, <1>4, <2>1
<1> QED
  BY <1>2, <1>5, <1>6, <1>7

LEMMA PairReadBack ==
  ASSUME NEW c \in Cpus, NEW w \in Widths, NEW low \in Int, NEW high \in Int
  PROVE  /\ ReadRegister(WritePair(c, w, low, high), LowHalf(w)) = Low(low, w)
         /\ ReadRegister(WritePair(c, w, low, high), HighHalf(w)) = Low(high, w)
<1> DEFINE e == WriteRegister(c, LowHalf(w), low)
           d == WriteRegister(e, HighHalf(w), high)
<1>1. LowHalf(w) \in RegisterNames /\ HighHalf(w) \in RegisterNames
  BY Accumulators
<1>2. e \in Cpus
  BY <1>1, WriteRegisterTracks DEF Tracks
<1>3. ReadRegister(e, LowHalf(w)) = Low(low, w)
  BY <1>1, RegisterReadBack, Halves
<1> HIDE DEF e
<1>4. /\ ReadRegister(d, HighHalf(w)) = Low(high, w)
      /\ \A r \in Families \ {Alias[HighHalf(w)].family} : d.reg[r] = e.reg[r]
      /\ d.reg[Alias[HighHalf(w)].family] = e.reg[Alias[HighHalf(w)].family]
           + (Low(high, w) - ReadRegister(e, HighHalf(w))) * Scale(HighHalf(w))
  BY <1>1, <1>2, RegisterReadBack, Halves
<1>5. d = WritePair(c, w, low, high)
  BY DEF WritePair, e
<1> HIDE DEF d
<1>6. CASE w # Byte
  <2>1. d.reg[Alias[LowHalf(w)].family] = e.reg[Alias[LowHalf(w)].family]
    BY <1>1, <1>4, <1>6, AliasTyped, Halves
  <2>2. ReadRegister(d, LowHalf(w)) = ReadRegister(e, LowHalf(w))
    BY <2>1 DEF ReadRegister
  <2> QED
    BY <1>3, <1>4, <1>5, <2>2
<1>7. CASE w = Byte
  <2>1. LowHalf(w) = "AL" /\ HighHalf(w) = "AH"
    BY <1>7, WidthsAssumption DEF LowHalf, HighHalf
  <2> DEFINE old == e.reg["EAX"]  k == Low(high, w) - ReadRegister(e, "AH")  M == Modulus(Byte)
  <2>2. old \in Int /\ k \in Int /\ M \in Nat /\ M > 0
    <3>1. old \in Int
      BY <1>2 DEF Cpus, Families
    <3>2. Low(high, w) \in Int
      BY LowIsValue
    <3>3. ReadRegister(e, "AH") \in Int
      BY <1>1, <1>2, <2>1, ReadRegisterValue
    <3> QED
      BY <1>7, <3>1, <3>2, <3>3, Sizes
  <2>3. d.reg["EAX"] = old + k * M
    BY <1>4, <2>1, Halves
  <2>4. \A u \in Int : u \div 1 = u
    <3> SUFFICES ASSUME NEW u \in Int PROVE u \div 1 = u
      OBVIOUS
    <3>1. u = 1 * u + 0 /\ 0 \in 0 .. 1 - 1
      OBVIOUS
    <3> QED
      BY <3>1, DivModUnique
  <2>5. /\ ReadRegister(d, "AL") = Low(d.reg["EAX"] \div 1, w)
        /\ ReadRegister(e, "AL") = Low(old \div 1, w)
    BY <2>1, Halves DEF ReadRegister
  <2> HIDE DEF old, k, M
  <2>6. old + k * M \in Int
    BY <2>2
  <2>7. (old + k * M) % M = old % M
    BY <2>2, AddingMultiples
  <2>8. Low(old + k * M, w) = Low(old, w)
    BY <1>7, <2>7 DEF Low, M
  <2>9. ReadRegister(d, "AL") = ReadRegister(e, "AL")
    BY <2>2, <2>3, <2>4, <2>5, <2>6, <2>8
  <2> QED
    BY <1>3, <1>4, <1>5, <2>1, <2>9
<1> QED
  BY <1>6, <1>7

\* A product of two values fits twice the width, and its upper half tells whether it
\* fits the width.
LEMMA UnsignedProduct ==
  ASSUME NEW w \in Widths, NEW a \in Values(w), NEW v \in Values(w)
  PROVE  LET p == a * v  M == Modulus(w) IN
         /\ p \in Int /\ p \div M \in Int
         /\ Low(p \div M, w) * M + Low(p, w) = p
         /\ ~(p > Mask(w)) <=> Low(p \div M, w) = 0
<1> DEFINE M == Modulus(w)  p == a * v  q == p \div M  r == p % M
<1>1. M \in Nat /\ M > 0 /\ Values(w) = 0 .. M - 1 /\ Mask(w) = M - 1
  BY Sizes DEF Values, Mask
<1> HIDE DEF M
<1>2. a \in 0 .. M - 1 /\ v \in 0 .. M - 1
  BY <1>1
<1>3. p \in Int /\ p >= 0
  BY <1>1, <1>2, Z3
<1>4. p < M * M
  <2>1. a * v <= a * M
    BY <1>1, <1>2, Z3
  <2>2. a * M < M * M
    BY <1>1, <1>2, Z3
  <2>3. a * M \in Int /\ M * M \in Int
    BY <1>1, <1>2, Z3
  <2> QED
    BY <1>3, <2>1, <2>2, <2>3
<1> HIDE DEF p
<1>5. q \in Int /\ r \in 0 .. M - 1 /\ p = M * q + r
  BY <1>1, <1>3, DivModBasics
<1> HIDE DEF q, r
<1>6. q >= 0
  <2>1. ASSUME q <= -1
        PROVE  FALSE
    <3>1. M * q <= -M
      BY <1>1, <1>5, <2>1, Z3
    <3>2. M * q \in Int
      BY <1>1, <1>5, Z3
    <3> QED
      BY <1>1, <1>3, <1>5, <3>1, <3>2
  <2> QED
    BY <1>5, <2>1
<1>7. q < M
  <2>1. ASSUME q >= M
        PROVE  FALSE
    <3>1. M * q >= M * M
      BY <1>1, <1>5, <2>1, Z3
    <3>2. M * q \in Int /\ M * M \in Int
      BY <1>1, <1>5, Z3
    <3> QED
      BY <1>1, <1>4, <1>5, <3>1, <3>2
  <2> QED
    BY <1>1, <1>5, <2>1
<1>8. Low(q, w) = q /\ Low(p, w) = r
  BY <1>1, <1>5, <1>6, <1>7, LowOfValue DEF Low, M, r
<1>9. q * M + r = p
  BY <1>1, <1>5, Z3
<1>10. ~(p > M - 1) <=> q = 0
  <2>1. CASE q = 0
    BY <1>1, <1>5, <2>1
  <2>2. CASE q >= 1
    <3>1. M * q >= M /\ M * q \in Int
      BY <1>1, <1>5, <2>2, Z3
    <3> QED
      BY <1>1, <1>3, <1>5, <2>2, <3>1
  <2> QED
    BY <1>5, <1>6, <2>1, <2>2
<1> QED
  BY <1>1, <1>3, <1>5, <1>8, <1>9, <1>10 DEF p, q, M

LEMMA SignedProduct ==
  ASSUME NEW w \in Widths, NEW a \in -SignBit[w] .. SignBit[w] - 1, NEW v \in -SignBit[w] .. SignBit[w] - 1
  PROVE  LET p == a * v  M == Modulus(w) IN
         /\ p \in Int /\ p \div M \in Int
         /\ SignedValue(Low(p \div M, w), w) * M + Low(p, w) = p
         /\ Fits(p, w) <=> Low(p \div M, w) = IF IsNegative(Low(p, w), w) THEN Mask(w) ELSE 0
<1> DEFINE S == SignBit[w]  M == Modulus(w)  p == a * v  q == p \div M  r == p % M
<1>1. S \in Nat /\ S > 0 /\ M = 2 * S /\ M \in Nat /\ M > 0 /\ Mask(w) = M - 1
  BY Sizes DEF Modulus, Mask
<1> HIDE DEF S, M
<1>2. a \in -S .. S - 1 /\ v \in -S .. S - 1
  BY DEF S
<1>3. p \in Int /\ p <= S * S /\ p >= -(S * S) /\ S * S \in Int
  <2>1. p \in Int /\ S * S \in Int
    BY <1>1, <1>2, Z3
  <2>2. a >= 0 => 0 <= a * S /\ a * S <= S * S /\ a * v <= a * S /\ a * v >= -(a * S)
    BY <1>1, <1>2, Z3
  <2>3. a < 0 => 0 <= (-a) * S /\ (-a) * S <= S * S /\ a * v <= (-a) * S /\ a * v >= -((-a) * S)
    BY <1>1, <1>2, Z3
  <2>4. a * S \in Int /\ (-a) * S \in Int
    BY <1>1, <1>2, Z3
  <2> QED
    BY <1>2, <2>1, <2>2, <2>3, <2>4
<1> HIDE DEF p
<1>4. q \in Int /\ r \in 0 .. M - 1 /\ p = M * q + r /\ M * q \in Int
  <2>1. q \in Int /\ r \in 0 .. M - 1 /\ p = M * q + r
    BY <1>1, <1>3, DivModBasics
  <2> HIDE DEF q, r
  <2> QED
    BY <1>1, <2>1, Z3
<1> HIDE DEF q, r
<1>5. q < S
  <2>1. ASSUME q >= S
        PROVE  FALSE
    <3>1. M * q >= M * S /\ M * S = 2 * (S * S) /\ S * S > 0 /\ M * S \in Int
      BY <1>1, <1>4, <2>1, Z3
    <3> QED
      BY <1>1, <1>3, <1>4, <3>1
  <2> QED
    BY <1>1, <1>4, <2>1
<1>6. q >= -S
  <2>1. ASSUME q <= -S - 1
        PROVE  FALSE
    <3>1. M * q <= M * (-S - 1) /\ M * (-S - 1) = -(2 * (S * S)) - M /\ S * S > 0
      BY <1>1, <1>4, <2>1, Z3
    <3>2. M * (-S - 1) \in Int
      BY <1>1, Z3
    <3> QED
      BY <1>1, <1>3, <1>4, <3>1, <3>2
  <2> QED
    BY <1>1, <1>4, <2>1
<1>7. q \in -S .. S - 1
  BY <1>1, <1>4, <1>5, <1>6
<1>8. /\ SignedValue(Low(q, w), w) = q /\ Low(q, w) = IF q >= 0 THEN q ELSE q + M
      /\ Low(p, w) = r /\ (Fits(p, w) <=> p \in -S .. S - 1) /\ (IsNegative(r, w) <=> r >= S)
  <2>1. SignedValue(Low(q, w), w) = q /\ Low(q, w) = IF q >= 0 THEN q ELSE q + M
    BY <1>7, SignedRange DEF S, M
  <2>2. Fits(p, w) <=> p \in -S .. S - 1
    BY <1>3, SignedRange DEF S
  <2> QED
    BY <2>1, <2>2 DEF Low, M, r, S, IsNegative
<1>9. q * M + r = p
  BY <1>1, <1>4, Z3
<1>10. p \in -S .. S - 1 <=> (IF q >= 0 THEN q ELSE q + M) = IF r >= S THEN M - 1 ELSE 0
  <2>1. CASE q = 0
    <3>1. p = r
      BY <1>4, <2>1, <1>1, Z3
    <3> QED
      BY <1>1, <1>3, <1>4, <2>1, <3>1
  <2>2. CASE q = -1
    <3>1. p = r - M
      BY <1>4, <2>2, <1>1, Z3
    <3> QED
      BY <1>1, <1>3, <1>4, <2>2, <3>1
  <2>3. CASE q >= 1
    <3>1. M * q >= M
      BY <1>1, <1>4, <2>3, Z3
    <3>2. p >= M
      BY <1>1, <1>3, <1>4, <3>1
    <3> QED
      BY <1>1, <1>3, <1>4, <1>7, <2>3, <3>2
  <2>4. CASE q <= -2
    <3>1. M * q <= -M - M
      BY <1>1, <1>4, <2>4, Z3
    <3>2. p < -S
      BY <1>1, <1>3, <1>4, <3>1
    <3> QED
      BY <1>1, <1>3, <1>4, <1>7, <2>4, <3>2
  <2> QED
    BY <1>4, <2>1, <2>2, <2>3, <2>4
<1>11. Fits(p, w) <=> Low(q, w) = IF IsNegative(Low(p, w), w) THEN Mask(w) ELSE 0
  BY <1>1, <1>8, <1>10
<1>12. SignedValue(Low(q, w), w) * M + Low(p, w) = p
  BY <1>8, <1>9
<1> QED
  BY <1>3, <1>4, <1>11, <1>12 DEF p, q, M

\* The quotient C computes is the only one whose rest is smaller than the divisor and
\* has the sign of the dividend.
LEMMA OnlyQuotient ==
  ASSUME NEW a \in Int, NEW d \in Int, d # 0, NEW q \in Int
  PROVE  /\ IsQuotient(q, a, d) <=> q = Quotient(a, d)
         /\ Rest(a, d) = a - Quotient(a, d) * d
         /\ Quotient(a, d) \in Int /\ Rest(a, d) \in Int
         /\ Abs(Rest(a, d)) < Abs(d)
         /\ a >= 0 => Rest(a, d) >= 0
         /\ a >= 0 /\ d > 0 => Quotient(a, d) >= 0
<1> DEFINE A == IF a < 0 THEN -a ELSE a
           D == IF d < 0 THEN -d ELSE d
           same == (a < 0) = (d < 0)
           k == A \div D
           t == A % D
           own == IF same THEN k ELSE -k
           mine == IF same THEN q ELSE -q
<1>1. A \in Nat /\ D \in Nat /\ D > 0 /\ Abs(a) = A /\ Abs(d) = D
  BY DEF Abs
<1>2. Quotient(a, d) = own
  BY <1>1 DEF Quotient
<1> HIDE DEF A, D
<1>3. k \in Int /\ t \in 0 .. D - 1 /\ A = D * k + t
  BY <1>1, DivModBasics
<1> HIDE DEF k, t
<1>4. own \in Int /\ mine \in Int /\ D * mine \in Int /\ D * k \in Int /\ own * d \in Int /\ q * d \in Int
  BY <1>1, <1>3, Z3
<1>5. own * d = IF a < 0 THEN -(D * k) ELSE D * k
  BY <1>1, <1>3, Z3 DEF D
<1>6. q * d = IF a < 0 THEN -(D * mine) ELSE D * mine
  BY <1>1, Z3 DEF D
<1>7. Rest(a, d) = a - own * d
  <2>1. d * own = own * d
    BY <1>4, Z3
  <2> QED
    BY <1>2, <2>1 DEF Rest
<1> HIDE DEF own, mine
<1>8. a - own * d = IF a < 0 THEN -t ELSE t
  BY <1>1, <1>3, <1>4, <1>5 DEF A
<1>9. Abs(Rest(a, d)) < D /\ (a >= 0 => Rest(a, d) >= 0) /\ Rest(a, d) \in Int
  BY <1>1, <1>3, <1>7, <1>8 DEF Abs
<1>10. a >= 0 /\ d > 0 => own >= 0
  <2>1. ASSUME k <= -1
        PROVE  FALSE
    <3>1. D * k <= -D
      BY <1>1, <1>3, <2>1, Z3
    <3> QED
      BY <1>1, <1>3, <1>4, <3>1
  <2> QED
    BY <1>3, <2>1 DEF own
<1>11. IsQuotient(own, a, d)
  <2>1. Abs(a - own * d) < Abs(d)
    BY <1>1, <1>7, <1>9
  <2>2. a - own * d = 0 \/ (a - own * d < 0 <=> a < 0)
    BY <1>1, <1>3, <1>8
  <2> QED
    BY <2>1, <2>2 DEF IsQuotient
<1>12. IsQuotient(q, a, d) => q = own
  <2> SUFFICES ASSUME IsQuotient(q, a, d) PROVE q = own
    OBVIOUS
  <2> DEFINE r == a - q * d  u == A - D * mine
  <2>1. r \in Int /\ Abs(r) < D /\ (r = 0 \/ (r < 0 <=> a < 0))
    BY <1>1, <1>4 DEF IsQuotient
  <2>2. u = (IF a < 0 THEN -r ELSE r) /\ u \in Int
    BY <1>1, <1>4, <1>6 DEF A
  <2>3. u \in 0 .. D - 1
    BY <1>1, <2>1, <2>2 DEF Abs
  <2>4. A = D * mine + u
    BY <1>1, <1>4
  <2> HIDE DEF u
  <2>5. k = mine
    BY <1>1, <1>4, <2>3, <2>4, DivModUnique DEF k
  <2> QED
    BY <1>3, <2>5 DEF own, mine
<1> QED
  BY <1>1, <1>2, <1>4, <1>7, <1>9, <1>10, <1>11, <1>12

LEMMA FlagsKeepRegisters ==
  ASSUME NEW c \in Cpus, NEW cut \in BOOLEAN, NEW name
  PROVE  LET d == WriteFlags(c, [CF |-> cut, OF |-> cut]) IN
         /\ d.flag["CF"] = cut /\ d.flag["OF"] = cut
         /\ ReadRegister(d, name) = ReadRegister(c, name)
<1> DEFINE v == [CF |-> cut, OF |-> cut]
           d == WriteFlags(c, v)
<1>1. DOMAIN v = {"CF", "OF"} /\ v["CF"] = cut /\ v["OF"] = cut
  OBVIOUS
<1> HIDE DEF v
<1>2. /\ d.flag = [f \in Flags |-> IF f \in DOMAIN v THEN v[f] ELSE c.flag[f]]
      /\ d.reg = c.reg
  BY DEF WriteFlags, Cpus
<1> HIDE DEF d
<1>3. d.flag["CF"] = cut /\ d.flag["OF"] = cut
  BY <1>1, <1>2 DEF Flags
<1>4. ReadRegister(d, name) = ReadRegister(c, name)
  BY <1>2 DEF ReadRegister
<1> QED
  BY <1>3, <1>4 DEF d, v

LEMMA AccumulatorParts ==
  ASSUME NEW x, IsMachine(x), NEW i \in Instructions, i.op \in AccumulatorOps,
         i.dst.kind = "none", IsDestination(i.src), Readable(x, i.src)
  PROVE  LET w == OperandWidth(i.src) IN
         /\ x.cpu \in Cpus /\ w \in Widths
         /\ ReadOperand(x, i.src, w) \in Values(w)
         /\ ReadRegister(x.cpu, LowHalf(w)) \in Values(w)
         /\ ReadRegister(x.cpu, HighHalf(w)) \in Values(w)
<1> DEFINE w == OperandWidth(i.src)
<1>1. x.cpu \in Cpus /\ w \in Widths /\ i.src \in Operands /\ i.src.kind # "none"
  BY OperandWidths DEF IsMachine, Instructions, IsDestination, IsRegister, IsMemory
<1> HIDE DEF w
<1>2. ReadOperand(x, i.src, w) \in Values(w)
  BY <1>1, ReadOperandValue
<1>3. ReadRegister(x.cpu, LowHalf(w)) \in Values(w) /\ ReadRegister(x.cpu, HighHalf(w)) \in Values(w)
  BY <1>1, Accumulators, ReadRegisterValue, Halves
<1> QED
  BY <1>1, <1>2, <1>3 DEF w

LEMMA AccumulatorRuns ==
  ASSUME NEW x, NEW i \in Instructions,
         AccumulatorOutcome(i, x).status \notin {"unsupported-operand", "memory-error"}
  PROVE  /\ i.dst.kind = "none" /\ IsDestination(i.src) /\ Readable(x, i.src)
         /\ AccumulatorOutcome(i, x) = IF i.op \in {"MUL", "IMUL"} THEN MultiplyOutcome(i, x, OperandWidth(i.src))
                                       ELSE DivideOutcome(i, x, OperandWidth(i.src))
<1> DEFINE out == AccumulatorOutcome(i, x)  w == OperandWidth(i.src)
<1>1. out = IF i.dst.kind # "none" \/ ~IsDestination(i.src) THEN Outcome("unsupported-operand", x)
            ELSE IF ~Readable(x, i.src) THEN Outcome("memory-error", x)
            ELSE IF i.op \in {"MUL", "IMUL"} THEN MultiplyOutcome(i, x, w) ELSE DivideOutcome(i, x, w)
  BY DEF AccumulatorOutcome
<1>2. /\ Outcome("unsupported-operand", x).status = "unsupported-operand"
      /\ Outcome("memory-error", x).status = "memory-error"
  BY DEF Outcome
<1>3. out.status \notin {"unsupported-operand", "memory-error"}
  OBVIOUS
<1> HIDE DEF out
<1> QED
  BY <1>1, <1>2, <1>3 DEF out

LEMMA MultiplyExact ==
  ASSUME NEW x, IsMachine(x), NEW i \in Instructions, i.op \in {"MUL", "IMUL"},
         AccumulatorOutcome(i, x).status = "ok"
  PROVE  MultiplyIsExact(i, x, AccumulatorOutcome(i, x).machine)
<1> DEFINE w == OperandWidth(i.src)
           v == ReadOperand(x, i.src, w)
           a == ReadRegister(x.cpu, LowHalf(w))
           p == Product(i, x, w)
           M == Modulus(w)
           wide == IF i.op = "MUL" THEN p > Mask(w) ELSE ~Fits(p, w)
           c == WritePair(x.cpu, w, p, p \div M)
           d == WriteFlags(c, [CF |-> wide, OF |-> wide])
           y == AccumulatorOutcome(i, x).machine
           low == ReadRegister(y.cpu, LowHalf(w))
           upper == ReadRegister(y.cpu, HighHalf(w))
<1>1. /\ i.dst.kind = "none" /\ IsDestination(i.src) /\ Readable(x, i.src)
      /\ AccumulatorOutcome(i, x) = MultiplyOutcome(i, x, w)
  BY AccumulatorRuns
<1>2. x.cpu \in Cpus /\ w \in Widths /\ v \in Values(w) /\ a \in Values(w)
  BY <1>1, AccumulatorParts DEF AccumulatorOps
<1>3. y = [x EXCEPT !.cpu = d]
  BY <1>1 DEF MultiplyOutcome, Done, Outcome
<1>4. p = IF i.op = "MUL" THEN a * v ELSE SignedValue(a, w) * SignedValue(v, w)
  BY DEF Product
<1> HIDE DEF v, a, p
<1>5. /\ p \in Int /\ p \div M \in Int
      /\ i.op = "MUL" => /\ Low(p \div M, w) * M + Low(p, w) = p
                         /\ ~(p > Mask(w)) <=> Low(p \div M, w) = 0
      /\ i.op = "IMUL" => /\ SignedValue(Low(p \div M, w), w) * M + Low(p, w) = p
                          /\ Fits(p, w) <=> Low(p \div M, w) = IF IsNegative(Low(p, w), w) THEN Mask(w) ELSE 0
  <2>1. CASE i.op = "MUL"
    <3>1. p = a * v
      BY <1>4, <2>1
    <3> QED
      BY <1>2, <2>1, <3>1, UnsignedProduct
  <2>2. CASE i.op = "IMUL"
    <3>1. p = SignedValue(a, w) * SignedValue(v, w)
      BY <1>4, <2>2
    <3>2. /\ SignedValue(a, w) \in -SignBit[w] .. SignBit[w] - 1
          /\ SignedValue(v, w) \in -SignBit[w] .. SignBit[w] - 1
      BY <1>2, SignedRange
    <3> QED
      BY <1>2, <2>2, <3>1, <3>2, SignedProduct
  <2> QED
    BY <2>1, <2>2
<1>6. wide \in BOOLEAN
  <2>1. (p > Mask(w)) \in BOOLEAN /\ (~Fits(p, w)) \in BOOLEAN
    BY DEF Fits
  <2> QED
    BY <2>1
<1> DEFINE h == p \div M
<1> HIDE DEF h
<1>7. /\ c \in Cpus /\ ReadRegister(c, LowHalf(w)) = Low(p, w)
      /\ ReadRegister(c, HighHalf(w)) = Low(h, w)
  BY <1>2, <1>5, PairReadBack, WritePairTracks DEF Tracks, h
<1>12. wide = IF i.op = "MUL" THEN p > Mask(w) ELSE ~Fits(p, w)
  OBVIOUS
<1> HIDE DEF c, wide
<1>8. /\ d.flag["CF"] = wide /\ d.flag["OF"] = wide
      /\ ReadRegister(d, LowHalf(w)) = Low(p, w)
      /\ ReadRegister(d, HighHalf(w)) = Low(h, w)
  BY <1>6, <1>7, FlagsKeepRegisters
<1> HIDE DEF d
<1>9. y.cpu = d
  BY <1>3 DEF IsMachine
<1> HIDE DEF y
<1>10. low = Low(p, w) /\ upper = Low(h, w) /\ y.cpu.flag["CF"] = wide /\ y.cpu.flag["OF"] = wide
  BY <1>8, <1>9
<1>11. MultiplyIsExact(i, x, y) <=>
         /\ IF i.op = "MUL" THEN upper * M + low = p ELSE SignedValue(upper, w) * M + low = p
         /\ y.cpu.flag["CF"] = y.cpu.flag["OF"]
         /\ ~y.cpu.flag["CF"] <=> IF i.op = "MUL" THEN upper = 0
                                  ELSE upper = IF IsNegative(low, w) THEN Mask(w) ELSE 0
  BY DEF MultiplyIsExact, PairValue, SignedPair, p
<1> HIDE DEF low, upper, M
<1>13. IF i.op = "MUL" THEN upper * M + low = p ELSE SignedValue(upper, w) * M + low = p
  BY <1>5, <1>10 DEF h
<1>14. ~wide <=> IF i.op = "MUL" THEN upper = 0 ELSE upper = IF IsNegative(low, w) THEN Mask(w) ELSE 0
  <2>1. CASE i.op = "MUL"
    BY <1>5, <1>10, <1>12, <2>1 DEF h
  <2>2. CASE i.op = "IMUL"
    BY <1>5, <1>10, <1>12, <2>2 DEF h
  <2> QED
    BY <2>1, <2>2
<1>15. MultiplyIsExact(i, x, y)
  BY <1>6, <1>10, <1>11, <1>13, <1>14
<1> QED
  BY <1>15 DEF y

LEMMA ExplicitImulExact ==
  ASSUME NEW x, IsMachine(x), NEW i \in Instructions, i.op \in {"IMUL", "IMUL-IMMEDIATE"},
         ExplicitImulOutcome(i, x).status = "ok"
  PROVE  ExplicitImulIsExact(i, x, ExplicitImulOutcome(i, x).machine)
<1> DEFINE w == OperandWidth(i.dst)
           l == IF i.op = "IMUL" THEN ReadOperand(x, i.dst, w) ELSE Low(i.factor, w)
           r == ReadOperand(x, i.src, w)
           p == SignedValue(l, w) * SignedValue(r, w)
           supported == IsRegister(i.dst) /\ IsDestination(i.src) /\ w \in {Word, Dword}
           out == ExplicitImulOutcome(i, x)
           cut == ~Fits(p, w)
           c == WriteRegister(x.cpu, i.dst.name, p)
           d == WriteFlags(c, [CF |-> cut, OF |-> cut])
           y == out.machine
           kept == ReadOperand(y, i.dst, w)
<1>1. supported /\ Readable(x, i.src)
  <2>1. out = IF ~supported THEN Outcome("unsupported-operand", x)
              ELSE IF ~Readable(x, i.src) THEN Outcome("memory-error", x)
              ELSE Done([x EXCEPT !.cpu = d])
    BY DEF ExplicitImulOutcome
  <2>2. /\ Outcome("unsupported-operand", x).status = "unsupported-operand"
        /\ Outcome("memory-error", x).status = "memory-error"
    BY DEF Outcome
  <2>3. out.status = "ok"
    OBVIOUS
  <2> HIDE DEF out, supported
  <2> QED
    BY <2>1, <2>2, <2>3
<1>2. /\ x.cpu \in Cpus /\ i.src \in Operands /\ i.dst \in Operands /\ i.src.kind # "none"
      /\ w \in Widths /\ i.dst.name \in RegisterNames /\ i.factor \in Int /\ i.dst.kind = "reg"
      /\ w = RegisterWidth(i.dst.name) /\ Readable(x, i.dst)
  BY <1>1, OperandForms
     DEF Instructions, IsDestination, IsRegister, IsMemory, IsMachine, Widths, Readable, OperandWidth
<1>3. l \in Values(w) /\ r \in Values(w)
  BY <1>1, <1>2, ReadOperandValue, LowIsValue
<1>4. y = [x EXCEPT !.cpu = d]
  BY <1>1 DEF ExplicitImulOutcome, Done, Outcome
<1>5. ExplicitImulIsExact(i, x, y) <=>
        /\ (p - kept) % Modulus(w) = 0
        /\ y.cpu.flag["CF"] = (SignedValue(kept, w) # p)
        /\ y.cpu.flag["OF"] = (SignedValue(kept, w) # p)
  BY DEF ExplicitImulIsExact
<1> HIDE DEF y
<1>6. y.cpu = d
  BY <1>4 DEF IsMachine
<1>7. p \in Int
  <2> HIDE DEF l, r
  <2>1. SignedValue(l, w) \in Int /\ SignedValue(r, w) \in Int
    <3>1. l \in Int /\ r \in Int
      BY <1>2, <1>3, LowOfValue
    <3> QED
      BY <1>2, <3>1, SignedIsInt
  <2> QED
    BY <2>1
<1> HIDE DEF p
<1>8. c \in Cpus /\ ReadRegister(c, i.dst.name) = Low(p, w)
  BY <1>2, <1>7, RegisterReadBack, WriteRegisterTracks DEF Tracks
<1>9. cut \in BOOLEAN
  BY DEF Fits
<1> HIDE DEF c
<1>10. d.flag["CF"] = cut /\ d.flag["OF"] = cut /\ ReadRegister(d, i.dst.name) = Low(p, w)
  <2> HIDE DEF cut
  <2> QED
    BY <1>8, <1>9, FlagsKeepRegisters
<1> HIDE DEF d
<1>11. Low(p, w) \in Values(w) /\ Low(Low(p, w), w) = Low(p, w) /\ Low(p, w) \in Int
  BY <1>2, <1>7, LowIsValue, LowOfValue
<1>12. kept = Low(p, w)
  <2>1. kept = Low(ReadRegister(y.cpu, i.dst.name), w)
    BY <1>2 DEF ReadOperand
  <2> QED
    BY <1>6, <1>10, <1>11, <2>1
<1> HIDE DEF kept
<1>13. (p - kept) % Modulus(w) = 0
  <2> DEFINE M == Modulus(w)  q == p \div M
  <2>1. M \in Nat /\ M > 0
    BY <1>2, Sizes
  <2> HIDE DEF M
  <2>2. q \in Int /\ p = M * q + (p % M) /\ p % M \in Int
    BY <1>7, <2>1, DivModBasics
  <2> HIDE DEF q
  <2>3. kept = p % M
    BY <1>12 DEF Low, M
  <2> DEFINE gap == p - kept  none == 0
  <2>4. gap = M * q + none
    BY <1>7, <2>1, <2>2, <2>3, Z3
  <2>5. gap \in Int /\ none \in 0 .. M - 1
    BY <1>7, <2>1, <2>2, <2>3
  <2> HIDE DEF gap, none
  <2>6. gap % M = none
    BY <2>1, <2>2, <2>4, <2>5, DivModUnique
  <2> QED
    BY <2>6 DEF M, gap, none
<1>14. cut = (SignedValue(kept, w) # p)
  <2>1. SignedValue(kept, w) \in -SignBit[w] .. SignBit[w] - 1
    BY <1>2, <1>11, <1>12, SignedRange
  <2>2. Fits(p, w) <=> p \in -SignBit[w] .. SignBit[w] - 1
    BY <1>2, <1>7, SignedRange
  <2>3. Fits(p, w) => SignedValue(kept, w) = p
    BY <1>2, <1>12, <2>2, SignedRange
  <2> QED
    BY <2>1, <2>2, <2>3
<1>15. ExplicitImulIsExact(i, x, y)
  BY <1>5, <1>6, <1>10, <1>13, <1>14
<1> QED
  BY <1>15 DEF y

\* Dividend and divisor, and the numbers the accumulators of a division can hold.
LEMMA DivisionParts ==
  ASSUME NEW x, IsMachine(x), NEW i \in Instructions, i.op \in {"DIV", "IDIV"},
         i.dst.kind = "none", IsDestination(i.src), Readable(x, i.src)
  PROVE  LET w == OperandWidth(i.src)
             d == AsOperand(i, ReadOperand(x, i.src, w), w)
         IN  /\ Dividend(i, x, w) \in Int /\ d \in Int
             /\ i.op = "DIV" => Dividend(i, x, w) >= 0 /\ d \in Values(w)
             /\ i.op = "IDIV" => d \in -SignBit[w] .. SignBit[w] - 1
<1> DEFINE w == OperandWidth(i.src)
           v == ReadOperand(x, i.src, w)
           low == ReadRegister(x.cpu, LowHalf(w))
           high == ReadRegister(x.cpu, HighHalf(w))
           M == Modulus(w)
           a == Dividend(i, x, w)
           d == AsOperand(i, v, w)
<1>1. /\ x.cpu \in Cpus /\ w \in Widths /\ v \in Values(w) /\ low \in Values(w) /\ high \in Values(w)
  BY AccumulatorParts DEF AccumulatorOps
<1>2. /\ i.op = "DIV" => a = high * M + low /\ d = v
      /\ i.op = "IDIV" => a = SignedValue(high, w) * M + low /\ d = SignedValue(v, w)
  BY DEF Dividend, PairValue, SignedPair, AsOperand
<1> HIDE DEF w, v, low, high, a, d
<1>3. low \in Nat /\ high \in Nat /\ v \in Nat
  BY <1>1, LowOfValue
<1>4. M \in Nat /\ M > 0 /\ SignBit[w] \in Nat
  BY <1>1, Sizes
<1>5. SignedValue(high, w) \in Int /\ SignedValue(v, w) \in -SignBit[w] .. SignBit[w] - 1
  BY <1>1, <1>4, SignedRange
<1> DEFINE s == SignedValue(high, w)
<1> HIDE DEF s, M
<1>6. s \in Int
  BY <1>5 DEF s
<1>7. high * M \in Int /\ high * M >= 0 /\ s * M \in Int
  BY <1>3, <1>4, <1>6, Z3
<1>8. CASE i.op = "DIV"
  <2>1. a \in Int /\ a >= 0 /\ d \in Values(w) /\ d \in Int
    BY <1>1, <1>2, <1>3, <1>7, <1>8
  <2> QED
    BY <1>8, <2>1 DEF w, v, a, d
<1>9. CASE i.op = "IDIV"
  <2>1. a = s * M + low /\ d = SignedValue(v, w)
    BY <1>2, <1>9 DEF s
  <2>2. a \in Int /\ d \in -SignBit[w] .. SignBit[w] - 1 /\ d \in Int
    BY <1>3, <1>4, <1>5, <1>7, <2>1
  <2> QED
    BY <1>9, <2>2 DEF w, v, a, d
<1> QED
  BY <1>8, <1>9

\* A number of the accumulator, read with or without sign, is the number written to it.
Held(i, q, w) == IF i.op = "DIV" THEN q \in Values(w) ELSE q \in -SignBit[w] .. SignBit[w] - 1

LEMMA HeldReadsBack ==
  ASSUME NEW w \in Widths, NEW i
  PROVE  /\ \A q \in Int : Held(i, q, w) => AsOperand(i, Low(q, w), w) = q
         /\ \A v \in Values(w) : Held(i, AsOperand(i, v, w), w)
BY SignedRange, LowOfValue DEF Held, AsOperand

LEMMA DivideExact ==
  ASSUME NEW x, IsMachine(x), NEW i \in Instructions, i.op \in {"DIV", "IDIV"}
  PROVE  LET out == AccumulatorOutcome(i, x) IN
         /\ out.status = "ok" => DivideIsExact(i, x, out.machine)
         /\ out.status \in {"divide-by-zero", "quotient-overflow"} => NoQuotientFits(i, x)
<1> DEFINE out == AccumulatorOutcome(i, x)
           w == OperandWidth(i.src)
           v == ReadOperand(x, i.src, w)
           d == AsOperand(i, v, w)
           a == Dividend(i, x, w)
           q == Quotient(a, d)
           r == Rest(a, d)
           c == WritePair(x.cpu, w, q, r)
           fits == IF i.op = "DIV" THEN q <= Mask(w) ELSE Fits(q, w)
<1> SUFFICES ASSUME out.status \notin {"unsupported-operand", "memory-error"}
             PROVE  /\ out.status = "ok" => DivideIsExact(i, x, out.machine)
                    /\ out.status \in {"divide-by-zero", "quotient-overflow"} => NoQuotientFits(i, x)
  OBVIOUS
<1>1. /\ i.dst.kind = "none" /\ IsDestination(i.src) /\ Readable(x, i.src)
      /\ out = DivideOutcome(i, x, w)
  BY AccumulatorRuns
<1>2. /\ x.cpu \in Cpus /\ w \in Widths /\ v \in Values(w)
  BY <1>1, AccumulatorParts DEF AccumulatorOps
<1>3. /\ a \in Int /\ d \in Int
      /\ i.op = "DIV" => a >= 0 /\ d \in Values(w)
      /\ i.op = "IDIV" => d \in -SignBit[w] .. SignBit[w] - 1
  BY <1>1, DivisionParts
<1>4. out = IF d = 0 THEN Outcome("divide-by-zero", x)
            ELSE IF ~fits THEN Outcome("quotient-overflow", x)
            ELSE Done([x EXCEPT !.cpu = c])
  BY <1>1 DEF DivideOutcome
<1>5. NoQuotientFits(i, x) <=> \A u \in Values(w) : ~IsQuotient(AsOperand(i, u, w), a, d)
  BY DEF NoQuotientFits
<1>6. /\ Values(w) = 0 .. Mask(w) /\ Mask(w) \in Nat /\ SignBit[w] \in Nat
  BY <1>2, Sizes DEF Values
<1> HIDE DEF v, d, a
<1>7. d # 0 => /\ q \in Int /\ r \in Int /\ r = a - q * d
               /\ \A u \in Int : IsQuotient(u, a, d) <=> u = q
               /\ Abs(r) < Abs(d) /\ (a >= 0 => r >= 0) /\ (a >= 0 /\ d > 0 => q >= 0)
  BY <1>3, OnlyQuotient
<1> HIDE DEF q, r
<1>8. d # 0 => (fits <=> Held(i, q, w))
  <2>1. CASE i.op = "DIV"
    <3>1. d # 0 => q \in Int /\ q >= 0
      BY <1>3, <1>6, <1>7, <2>1
    <3> QED
      BY <1>6, <2>1, <3>1 DEF Held
  <2>2. CASE i.op = "IDIV"
    <3>1. d # 0 => (Fits(q, w) <=> q \in -SignBit[w] .. SignBit[w] - 1)
      BY <1>2, <1>7, SignedRange
    <3> QED
      BY <2>2, <3>1 DEF Held
  <2> QED
    BY <2>1, <2>2
<1>9. d # 0 => Held(i, r, w)
  <2>1. CASE i.op = "DIV"
    <3>1. d # 0 => r \in 0 .. Mask(w)
      BY <1>3, <1>6, <1>7, <2>1 DEF Abs
    <3> QED
      BY <1>6, <2>1, <3>1 DEF Held
  <2>2. CASE i.op = "IDIV"
    <3>1. d # 0 => r \in -SignBit[w] .. SignBit[w] - 1
      BY <1>3, <1>6, <1>7, <2>2 DEF Abs
    <3> QED
      BY <2>2, <3>1 DEF Held
  <2> QED
    BY <2>1, <2>2
<1> HIDE DEF fits, c
<1>10. CASE d = 0
  <2>1. out = Outcome("divide-by-zero", x)
    BY <1>4, <1>10
  <2>2. \A u \in Int : ~IsQuotient(u, a, d)
    <3>1. ASSUME NEW u \in Int
          PROVE  ~(Abs(a - u * d) < Abs(d))
      <4>1. a - u * d = a
        BY <1>3, <1>10
      <4> QED
        BY <1>3, <1>10, <4>1 DEF Abs
    <3> QED
      BY <3>1 DEF IsQuotient
  <2>3. \A u \in Values(w) : AsOperand(i, u, w) \in Int
    BY <1>2, <1>6, SignedRange DEF AsOperand
  <2>4. NoQuotientFits(i, x)
    BY <1>5, <2>2, <2>3
  <2> QED
    BY <2>1, <2>4 DEF Outcome
<1>11. CASE d # 0 /\ ~fits
  <2>1. out = Outcome("quotient-overflow", x)
    BY <1>4, <1>11
  <2>2. \A u \in Values(w) : AsOperand(i, u, w) \in Int /\ Held(i, AsOperand(i, u, w), w)
    <3>1. \A u \in Values(w) : AsOperand(i, u, w) \in Int
      BY <1>2, <1>6, SignedRange DEF AsOperand
    <3>2. \A u \in Values(w) : Held(i, AsOperand(i, u, w), w)
      BY <1>2, HeldReadsBack
    <3> QED
      BY <3>1, <3>2
  <2>3. NoQuotientFits(i, x)
    BY <1>5, <1>7, <1>8, <1>11, <2>2
  <2> QED
    BY <2>1, <2>3 DEF Outcome
<1>12. CASE d # 0 /\ fits
  <2> DEFINE y == out.machine
             low == ReadRegister(y.cpu, LowHalf(w))
             high == ReadRegister(y.cpu, HighHalf(w))
  <2>1. out = Done([x EXCEPT !.cpu = c])
    BY <1>4, <1>12
  <2>2. y.cpu = c /\ out.status = "ok"
    BY <2>1 DEF Done, Outcome, IsMachine
  <2>3. DivideIsExact(i, x, y) <=>
          /\ IsQuotient(AsOperand(i, low, w), a, d)
          /\ AsOperand(i, high, w) = a - AsOperand(i, low, w) * d
    BY DEF DivideIsExact, a, d, v
  <2> HIDE DEF out, y
  <2>4. low = Low(q, w) /\ high = Low(r, w)
    BY <1>2, <1>7, <1>12, <2>2, PairReadBack DEF c
  <2> HIDE DEF low, high
  <2>5. AsOperand(i, low, w) = q /\ AsOperand(i, high, w) = r
    BY <1>2, <1>7, <1>8, <1>9, <1>12, <2>4, HeldReadsBack
  <2>6. DivideIsExact(i, x, y)
    BY <1>7, <1>12, <2>3, <2>5
  <2> QED
    BY <2>2, <2>6 DEF out, y
<1> QED
  BY <1>10, <1>11, <1>12

-----------------------------------------------------------------------------
(* Powers of two.  The library knows 2^n only as the number of subsets of n *)
(* numbers, so the rules are those of counting subsets.                     *)

LEMMA PowerNext ==
  ASSUME NEW n \in Nat
  PROVE  2^(n + 1) = 2 * 2^n
<1> DEFINE A == SUBSET (1 .. n)
           B == {s \in SUBSET (1 .. n + 1) : n + 1 \in s}
           C == SUBSET (1 .. n + 1)
           f == [s \in A |-> s \cup {n + 1}]
<1>1. n + 1 \in Nat /\ n + 1 \notin 1 .. n /\ 1 .. n + 1 = (1 .. n) \cup {n + 1}
  OBVIOUS
<1>2. /\ IsFiniteSet(A) /\ Cardinality(A) = 2^n
      /\ Cardinality(C) = 2^(n + 1)
  BY <1>1, SubsetsOf
<1>3. ExistsBijection(A, B)
  <2>1. f \in [A -> B]
    BY <1>1
  <2>2. \A s, t \in A : f[s] = f[t] => s = t
    BY <1>1
  <2>3. \A t \in B : \E s \in A : f[s] = t
    <3>1. ASSUME NEW t \in B
          PROVE  t \ {n + 1} \in A /\ f[t \ {n + 1}] = t
      BY <1>1
    <3> QED
      BY <3>1
  <2> HIDE DEF A, B, f
  <2>4. f \in Bijection(A, B)
    BY <2>1, <2>2, <2>3 DEF Bijection, Injection, Surjection, IsInjective
  <2> QED
    BY <2>4 DEF ExistsBijection
<1>4. A \cup B = C /\ A \cap B = {}
  BY <1>1
<1> HIDE DEF A, B, C
<1>5. IsFiniteSet(B) /\ Cardinality(B) = Cardinality(A)
  BY <1>2, <1>3, FS_Bijection
<1>6. Cardinality(A \cup B) = Cardinality(A) + Cardinality(B) - Cardinality(A \cap B)
  BY <1>2, <1>5, FS_Union
<1>7. Cardinality({}) = 0
  BY FS_EmptySet
<1>8. 2^n \in Nat /\ 2^(n + 1) \in Nat
  BY <1>1, Power
<1> QED
  BY <1>2, <1>4, <1>5, <1>6, <1>7, <1>8

Pow(n) == 2^n

LEMMA PowNat ==
  ASSUME NEW n \in Nat
  PROVE  Pow(n) \in Nat \ {0} /\ Pow(n + 1) = 2 * Pow(n)
BY Power, PowerNext DEF Pow

LEMMA PowZero == Pow(0) = 1 /\ Pow(1) = 2
<1>1. 2^0 = 1
  OBVIOUS
<1>2. Pow(0 + 1) = 2 * Pow(0)
  BY PowNat
<1> QED
  BY <1>1, <1>2 DEF Pow

LEMMA PowSum ==
  ASSUME NEW a \in Nat, NEW b \in Nat
  PROVE  Pow(a + b) = Pow(a) * Pow(b)
<1> DEFINE S == {m \in 0 .. b : Pow(a + m) = Pow(a) * Pow(m)}
<1>1. 0 \in S
  BY PowNat, PowZero
<1>2. ASSUME NEW m \in 0 .. b - 1, m \in S
      PROVE  m + 1 \in S
  <2>1. Pow(a + m) = Pow(a) * Pow(m) /\ m + 1 \in 0 .. b /\ m \in Nat /\ a + m \in Nat
    BY <1>2
  <2> HIDE DEF S
  <2>2. /\ Pow(m + 1) = 2 * Pow(m) /\ Pow((a + m) + 1) = 2 * Pow(a + m)
        /\ Pow(m) \in Int /\ Pow(a) \in Int
    BY <2>1, PowNat
  <2>3. 2 * (Pow(a) * Pow(m)) = Pow(a) * (2 * Pow(m))
    <3> DEFINE p == Pow(a)  q == Pow(m)
    <3>1. p \in Int /\ q \in Int
      BY <2>2
    <3> HIDE DEF p, q
    <3>2. 2 * (p * q) = p * (2 * q)
      BY <3>1, Z3
    <3> QED
      BY <3>2 DEF p, q
  <2>4. (a + m) + 1 = a + (m + 1)
    BY <2>1
  <2>5. Pow(a + (m + 1)) = Pow(a) * Pow(m + 1)
    BY <2>1, <2>2, <2>3, <2>4
  <2> QED
    BY <2>1, <2>5 DEF S
<1>3. \A m \in 0 .. b : m \in S
  <2> HIDE DEF S
  <2> QED
    BY <1>1, <1>2, Induction
<1> QED
  BY <1>3

LEMMA PowGrows ==
  ASSUME NEW a \in Nat, NEW b \in Nat, a <= b
  PROVE  Pow(a) <= Pow(b) /\ Pow(b) = Pow(b - a) * Pow(a)
<1> DEFINE p == Pow(a)  q == Pow(b - a)
<1>1. b - a \in Nat /\ (b - a) + a = b
  OBVIOUS
<1>2. Pow(b) = q * p /\ p \in Nat \ {0} /\ q \in Nat \ {0}
  BY <1>1, PowNat, PowSum
<1> HIDE DEF p, q
<1>3. q * p >= p
  BY <1>2, Z3
<1> QED
  BY <1>2, <1>3 DEF p, q

-----------------------------------------------------------------------------
(* One bit of a number. *)

BitOf(v, k) == (v \div Pow(k)) % 2

LEMMA BitIsBit ==
  ASSUME NEW v \in Int, NEW k \in Nat
  PROVE  BitOf(v, k) \in 0 .. 1 /\ v \div Pow(k) \in Int
<1> DEFINE p == Pow(k)  q == v \div p
<1>1. p \in Nat \ {0}
  BY PowNat
<1> HIDE DEF p
<1>2. q \in Int
  BY <1>1, DivModBasics
<1> HIDE DEF q
<1>3. q % 2 \in 0 .. 1
  BY <1>2
<1> QED
  BY <1>2, <1>3 DEF BitOf, p, q

\* What is added above a bit does not touch it.
LEMMA BitBelow ==
  ASSUME NEW v \in Int, NEW q \in Int, NEW m \in Nat, NEW k \in Nat, k < m
  PROVE  BitOf(v + q * Pow(m), k) = BitOf(v, k)
<1> DEFINE p == Pow(k)  e == Pow(m - k - 1)  M == Pow(m)  u == v + q * M
<1>1. m - k - 1 \in Nat /\ (m - k - 1) + 1 = m - k /\ m - k \in Nat
  OBVIOUS
<1>2. /\ p \in Nat \ {0} /\ e \in Nat \ {0} /\ M \in Int /\ Pow(m - k) = 2 * e /\ M = Pow(m - k) * p
  BY <1>1, PowNat, PowGrows
<1>3. v \div p \in Int
  BY BitIsBit
<1>4. BitOf(v, k) = (v \div p) % 2 /\ BitOf(u, k) = (u \div p) % 2
  BY DEF BitOf
<1> HIDE DEF p, e, M
<1>5. u = v + (q * (2 * e)) * p /\ q * (2 * e) \in Int /\ q * e \in Int
  <2>1. q * ((2 * e) * p) = (q * (2 * e)) * p
    BY <1>2, Z3
  <2>2. u = v + q * M /\ M = (2 * e) * p
    BY <1>2
  <2> QED
    BY <1>2, <2>1, <2>2
<1> HIDE DEF u
<1>6. u \div p = (v \div p) + q * (2 * e)
  <2> DEFINE j == q * (2 * e)
  <2>0. p \in Nat /\ p > 0
    BY <1>2
  <2>1. j \in Int /\ u = v + j * p
    BY <1>5
  <2> HIDE DEF j
  <2>2. (v + j * p) \div p = (v \div p) + j
    BY <2>0, <2>1, AddingMultiples
  <2> QED
    BY <2>1, <2>2 DEF j
<1>7. q * (2 * e) = (q * e) * 2
  BY <1>2, Z3
<1>8. ((v \div p) + (q * e) * 2) % 2 = (v \div p) % 2
  BY <1>3, <1>5, AddingMultiples
<1> QED
  BY <1>4, <1>6, <1>7, <1>8 DEF u, M

\* The bits of a quotient by a power, of a multiple of one, and of a small number.
LEMMA BitOfQuotient ==
  ASSUME NEW v \in Int, NEW n \in Nat, NEW k \in Nat
  PROVE  BitOf(v \div Pow(n), k) = BitOf(v, k + n)
<1>1. Pow(k) \in Nat \ {0} /\ Pow(n) \in Nat \ {0} /\ Pow(k + n) = Pow(k) * Pow(n)
  BY PowNat, PowSum
<1>2. (v \div Pow(n)) \div Pow(k) = v \div (Pow(k) * Pow(n))
  BY <1>1, DividingTwice
<1> QED
  BY <1>1, <1>2 DEF BitOf

LEMMA SmallQuotient ==
  ASSUME NEW m \in Nat \ {0}, NEW v \in 0 .. m - 1
  PROVE  v \div m = 0 /\ v % m = v
<1>1. v = m * 0 + v /\ v \in Int /\ m \in Int /\ m > 0
  OBVIOUS
<1> QED
  BY <1>1, DivModUnique

LEMMA BitAbove ==
  ASSUME NEW m \in Nat, NEW v \in 0 .. Pow(m) - 1, NEW k \in Nat, k >= m
  PROVE  BitOf(v, k) = 0
<1>1. Pow(m) \in Nat \ {0} /\ Pow(k) \in Nat \ {0} /\ Pow(m) <= Pow(k)
  BY PowNat, PowGrows
<1>2. v \in 0 .. Pow(k) - 1
  BY <1>1
<1>3. v \div Pow(k) = 0
  BY <1>1, <1>2, SmallQuotient
<1> QED
  BY <1>3 DEF BitOf

LEMMA JoinedBits ==
  ASSUME NEW a \in Int, NEW m \in Nat, NEW b \in 0 .. Pow(m) - 1, NEW k \in Nat
  PROVE  BitOf(b + a * Pow(m), k) = IF k < m THEN BitOf(b, k) ELSE BitOf(a, k - m)
<1>1. Pow(m) \in Nat \ {0}
  BY PowNat
<1>2. b \in Int
  BY <1>1
<1>3. CASE k < m
  BY <1>2, <1>3, BitBelow
<1>4. CASE ~(k < m)
  <2> DEFINE u == b + a * Pow(m)
  <2>1. b \div Pow(m) = 0
    BY <1>1, SmallQuotient
  <2>2. u \div Pow(m) = (b \div Pow(m)) + a /\ u \in Int
    BY <1>1, <1>2, AddingMultiples
  <2> HIDE DEF u
  <2>3. u \div Pow(m) = a
    BY <2>1, <2>2
  <2>4. k - m \in Nat /\ (k - m) + m = k
    BY <1>4
  <2>5. BitOf(u \div Pow(m), k - m) = BitOf(u, (k - m) + m)
    BY <2>2, <2>4, BitOfQuotient
  <2> QED
    BY <1>4, <2>3, <2>4, <2>5 DEF u
<1> QED
  BY <1>3, <1>4

LEMMA MultipleBits ==
  ASSUME NEW v \in Int, NEW m \in Nat, NEW k \in Nat
  PROVE  BitOf(v * Pow(m), k) = IF k < m THEN 0 ELSE BitOf(v, k - m)
<1>1. Pow(m) \in Nat \ {0} /\ v * Pow(m) \in Int
  BY PowNat
<1>2. 0 \in 0 .. Pow(m) - 1 /\ 0 + v * Pow(m) = v * Pow(m)
  BY <1>1
<1>3. BitOf(0 + v * Pow(m), k) = IF k < m THEN BitOf(0, k) ELSE BitOf(v, k - m)
  BY <1>2, JoinedBits
<1>4. BitOf(0, k) = 0
  <2>1. Pow(0) = 1
    BY PowZero
  <2>2. 0 \in 0 .. Pow(0) - 1 /\ k >= 0
    BY <2>1
  <2> QED
    BY <2>2, BitAbove
<1> QED
  BY <1>2, <1>3, <1>4

LEMMA RestBits ==
  ASSUME NEW v \in Int, NEW m \in Nat, NEW k \in Nat
  PROVE  BitOf(v % Pow(m), k) = IF k < m THEN BitOf(v, k) ELSE 0
<1> DEFINE M == Pow(m)  q == v \div M  r == v % M
<1>1. M \in Nat \ {0}
  BY PowNat
<1>2. q \in Int /\ r \in 0 .. M - 1 /\ v = M * q + r
  <2> HIDE DEF M
  <2> QED
    BY <1>1, DivModBasics
<1> HIDE DEF q, r
<1>3. v = r + q * M /\ r \in Int
  <2> HIDE DEF M
  <2> QED
    BY <1>1, <1>2, Z3
<1>4. k < m => BitOf(v, k) = BitOf(r, k)
  BY <1>2, <1>3, BitBelow
<1>5. k >= m => BitOf(r, k) = 0
  BY <1>2, BitAbove
<1>6. k < m \/ k >= m
  OBVIOUS
<1> QED
  BY <1>4, <1>5, <1>6 DEF r

\* A number without bits is zero.
LEMMA NoBits ==
  ASSUME NEW m \in Nat, NEW v \in 0 .. Pow(m) - 1, \A k \in 0 .. m - 1 : BitOf(v, k) = 0
  PROVE  v = 0
<1> DEFINE S == {j \in 0 .. m : v % Pow(j) = 0}
<1>0. Pow(m) \in Nat \ {0} /\ v \in Int
  BY PowNat
<1>1. 0 \in S
  <2>1. v % 1 = 0
    BY <1>0
  <2> QED
    BY <2>1, PowZero
<1>2. ASSUME NEW j \in 0 .. m - 1, j \in S
      PROVE  j + 1 \in S
  <2>1. v % Pow(j) = 0 /\ j \in Nat /\ j + 1 \in 0 .. m
    BY <1>2
  <2>2. Pow(j) \in Nat \ {0} /\ Pow(j + 1) = 2 * Pow(j)
    BY <2>1, PowNat
  <2>3. v % (2 * Pow(j)) = (v % Pow(j)) + ((v \div Pow(j)) % 2) * Pow(j)
    <3> DEFINE b == 2  e == Pow(j)
    <3>1. b \in Nat \ {0} /\ e \in Nat \ {0}
      BY <2>2
    <3> HIDE DEF b, e
    <3>2. v % (b * e) = (v % e) + ((v \div e) % b) * e
      BY <1>0, <3>1, NextPlace
    <3> QED
      BY <3>2 DEF b, e
  <2>4. (v \div Pow(j)) % 2 = 0
    BY DEF BitOf
  <2>5. v % Pow(j + 1) = 0
    BY <2>1, <2>2, <2>3, <2>4
  <2> QED
    BY <2>1, <2>5
<1>3. m \in S
  <2> HIDE DEF S
  <2>1. \A j \in 0 .. m : j \in S
    BY <1>1, <1>2, Induction
  <2> QED
    BY <2>1
<1>4. v % Pow(m) = v
  BY <1>0, SmallQuotient
<1> QED
  BY <1>3, <1>4

\* The highest bit says whether a number is in the upper half.
LEMMA HighestBit ==
  ASSUME NEW m \in Nat, NEW v \in 0 .. Pow(m + 1) - 1
  PROVE  BitOf(v, m) = 1 <=> v >= Pow(m)
<1> DEFINE p == Pow(m)  q == v \div p  r == v % p
<1>1. p \in Nat \ {0} /\ Pow(m + 1) = 2 * p
  BY PowNat
<1>2. BitOf(v, m) = q % 2
  BY DEF BitOf
<1> HIDE DEF p
<1>3. v \in Int /\ v >= 0 /\ v < 2 * p
  BY <1>1
<1>4. q \in Int /\ r \in 0 .. p - 1 /\ v = p * q + r
  BY <1>1, <1>3, DivModBasics
<1> HIDE DEF q, r
<1>5. q \in 0 .. 1
  <2>1. ASSUME q >= 2 PROVE FALSE
    <3>1. p * q >= p * 2
      BY <1>1, <1>4, <2>1, Z3
    <3>2. p * q \in Int
      BY <1>1, <1>4
    <3> QED
      BY <1>1, <1>3, <1>4, <3>1, <3>2
  <2>2. ASSUME q <= -1 PROVE FALSE
    <3>1. p * q <= -p
      BY <1>1, <1>4, <2>2, Z3
    <3>2. p * q \in Int
      BY <1>1, <1>4
    <3> QED
      BY <1>1, <1>3, <1>4, <3>1, <3>2
  <2> QED
    BY <1>4, <2>1, <2>2
<1>6. CASE q = 0
  BY <1>1, <1>2, <1>4, <1>6 DEF p
<1>7. CASE q = 1
  BY <1>1, <1>2, <1>4, <1>7 DEF p
<1> QED
  BY <1>5, <1>6, <1>7

\* A negative number repeats its sign above its bits.
LEMMA SignRepeats ==
  ASSUME NEW m \in Nat, NEW s \in Int, -Pow(m) <= s, s < Pow(m), NEW k \in Nat, k >= m
  PROVE  BitOf(s, k) = IF s < 0 THEN 1 ELSE 0
<1>1. Pow(m) \in Nat \ {0} /\ Pow(k) \in Nat \ {0} /\ Pow(m) <= Pow(k)
  BY PowNat, PowGrows
<1>2. CASE s < 0
  <2> DEFINE p == Pow(k)
  <2>1. s + p \in 0 .. p - 1 /\ p \in Nat /\ p > 0
    BY <1>1, <1>2
  <2> HIDE DEF p
  <2>2. s = p * (-1) + (s + p)
    BY <2>1
  <2>3. s \div p = -1
    <3> DEFINE r == s + p
    <3>1. r \in 0 .. p - 1 /\ s = p * (-1) + r
      BY <2>1, <2>2
    <3> HIDE DEF r
    <3> QED
      BY <2>1, <3>1, DivModUnique
  <2>4. (-1) % 2 = 1
    <3> DEFINE a == -1  b == 2  r == 1
    <3>1. a \in Int /\ b \in Int /\ b > 0 /\ r \in 0 .. b - 1 /\ a = b * a + r
      OBVIOUS
    <3> HIDE DEF a, b, r
    <3>2. a % b = r
      BY <3>1, DivModUnique
    <3> QED
      BY <3>2 DEF a, b, r
  <2> QED
    BY <1>2, <2>3, <2>4 DEF BitOf, p
<1>3. CASE ~(s < 0)
  <2>1. s \in 0 .. Pow(m) - 1
    BY <1>1, <1>3
  <2>2. BitOf(s, k) = 0
    BY <2>1, BitAbove
  <2> QED
    BY <1>3, <2>2
<1> QED
  BY <1>2, <1>3

\* Rotating w bits: the upper p of them come out below.
Turned(v, p, w) == ((v * Pow(p)) % Pow(w)) + (v \div Pow(w - p))

LEMMA TurnedBits ==
  ASSUME NEW w \in Nat, NEW p \in 0 .. w, NEW v \in 0 .. Pow(w) - 1
  PROVE  /\ Turned(v, p, w) \in 0 .. Pow(w) - 1
         /\ \A k \in 0 .. w - 1 :
              BitOf(Turned(v, p, w), k) = BitOf(v, IF k < p THEN k + (w - p) ELSE k - p)
<1> DEFINE P == Pow(p)  Q == Pow(w - p)  M == Pow(w)
           hi == v \div Q  lo == v % Q
<1>1. p \in Nat /\ w - p \in Nat /\ w - (w - p) = p
  OBVIOUS
<1>2. P \in Nat \ {0} /\ Q \in Nat \ {0} /\ M \in Nat \ {0} /\ M = Q * P
  <2>1. p \in Nat /\ w \in Nat /\ p <= w
    BY <1>1
  <2>2. Pow(w) = Pow(w - p) * Pow(p)
    BY <2>1, PowGrows
  <2> QED
    BY <1>1, <2>2, PowNat
<1>3. v \in Int /\ v >= 0 /\ v < M
  BY <1>2
<1>4. Turned(v, p, w) = ((v * P) % M) + hi
  BY DEF Turned
<1>5. hi \in Int /\ lo \in 0 .. Q - 1 /\ v = Q * hi + lo
  <2> HIDE DEF Q
  <2> QED
    BY <1>2, <1>3, DivModBasics
<1> HIDE DEF P, Q, M, hi, lo
<1>6. hi \in 0 .. P - 1
  <2>1. ASSUME hi <= -1 PROVE FALSE
    <3>1. Q * hi <= -Q
      BY <1>2, <1>5, <2>1, Z3
    <3>2. Q * hi \in Int
      BY <1>2, <1>5
    <3> QED
      BY <1>2, <1>3, <1>5, <3>1, <3>2
  <2>2. ASSUME hi >= P PROVE FALSE
    <3>1. Q * hi >= Q * P
      BY <1>2, <1>5, <2>2, Z3
    <3>2. Q * hi \in Int /\ Q * P \in Int
      BY <1>2, <1>5
    <3> QED
      BY <1>2, <1>3, <1>5, <3>1, <3>2
  <2> QED
    BY <1>2, <1>5, <2>1, <2>2
<1>7. (v * P) % M = lo * P
  <2> DEFINE a == v * P  r == lo * P
  <2>1. a = M * hi + r
    <3>1. v * P = (Q * hi + lo) * P
      BY <1>5
    <3>2. (Q * hi + lo) * P = (Q * P) * hi + lo * P
      BY <1>2, <1>5, Z3
    <3> QED
      BY <1>2, <3>1, <3>2
  <2>2. r \in 0 .. M - 1
    <3>1. lo * P >= 0 /\ lo * P <= (Q - 1) * P
      BY <1>2, <1>5, Z3
    <3>2. (Q - 1) * P = M - P
      BY <1>2, Z3
    <3>3. lo * P \in Int
      BY <1>2, <1>5
    <3> QED
      BY <1>2, <3>1, <3>2, <3>3
  <2>3. a \in Int
    BY <1>2, <1>3
  <2> HIDE DEF a, r
  <2>4. a % M = r
    <3>1. M \in Int /\ M > 0
      BY <1>2
    <3> QED
      BY <3>1, <1>5, <2>1, <2>2, <2>3, DivModUnique
  <2> QED
    BY <2>4 DEF a, r
<1>8. Turned(v, p, w) = hi + lo * P
  <2>1. lo * P \in Int
    BY <1>2, <1>5
  <2> QED
    BY <1>4, <1>5, <1>7, <2>1
<1>9. hi + lo * P \in 0 .. M - 1
  <2>1. lo * P >= 0 /\ lo * P <= (Q - 1) * P
    BY <1>2, <1>5, Z3
  <2>2. (Q - 1) * P = M - P
    BY <1>2, Z3
  <2>3. lo * P \in Int
    BY <1>2, <1>5
  <2> QED
    BY <1>2, <1>6, <2>1, <2>2, <2>3
<1>10. ASSUME NEW k \in 0 .. w - 1
       PROVE  BitOf(hi + lo * P, k) = BitOf(v, IF k < p THEN k + (w - p) ELSE k - p)
  <2>1. k \in Nat /\ lo \in Int
    BY <1>5
  <2>2. BitOf(hi + lo * P, k) = IF k < p THEN BitOf(hi, k) ELSE BitOf(lo, k - p)
    BY <1>1, <1>6, <2>1, JoinedBits DEF P
  <2>3. CASE k < p
    <3>1. BitOf(v \div Pow(w - p), k) = BitOf(v, k + (w - p))
      BY <1>1, <1>3, <2>1, BitOfQuotient
    <3> QED
      BY <2>2, <2>3, <3>1 DEF hi, Q
  <2>4. CASE ~(k < p)
    <3>1. k - p \in Nat /\ k - p < w - p
      BY <2>4
    <3>2. BitOf(v % Pow(w - p), k - p) = BitOf(v, k - p)
      BY <1>1, <1>3, <3>1, RestBits
    <3> QED
      BY <2>2, <2>4, <3>2 DEF lo, Q
  <2> QED
    BY <2>3, <2>4
<1> QED
  BY <1>8, <1>9, <1>10 DEF M

-----------------------------------------------------------------------------
(* The shifts, bit by bit, where a width of w means numbers of w bits. *)

SignsAreBits == \A w \in Widths : SignBit[w] = 2^(w - 1)

LEMMA WidthsInBits ==
  ASSUME SignsAreBits, NEW w \in Widths
  PROVE  /\ w \in Nat /\ w - 1 \in Nat /\ w > 1 /\ w <= Dword /\ Dword \in Nat
         /\ SignBit[w] = Pow(w - 1) /\ Modulus(w) = Pow(w) /\ Values(w) = 0 .. Pow(w) - 1
         /\ Pow(w) = 2 * Pow(w - 1) /\ Pow(w - 1) \in Nat \ {0}
<1>1. w \in Nat /\ w > 1 /\ w - 1 \in Nat /\ (w - 1) + 1 = w
  BY Sizes
<1>2. w <= Dword /\ Dword \in Nat
  BY WidthsAssumption DEF Widths
<1>3. SignBit[w] = Pow(w - 1)
  BY DEF SignsAreBits, Pow
<1>4. Pow((w - 1) + 1) = 2 * Pow(w - 1) /\ Pow(w - 1) \in Nat \ {0}
  BY <1>1, PowNat
<1>5. Pow(w) = 2 * Pow(w - 1)
  BY <1>1, <1>4
<1> QED
  BY <1>1, <1>2, <1>3, <1>4, <1>5 DEF Modulus, Values, Mask

LEMMA LowBits ==
  ASSUME SignsAreBits, NEW w \in Widths, NEW v \in Int
  PROVE  /\ Low(v, w) \in Values(w) /\ Low(v, w) = v % Pow(w)
         /\ \A k \in 0 .. w - 1 : BitOf(Low(v, w), k) = BitOf(v, k)
<1>1. w \in Nat /\ Modulus(w) = Pow(w)
  BY WidthsInBits
<1>2. Low(v, w) \in Values(w)
  BY LowIsValue
<1>3. Low(v, w) = v % Pow(w)
  BY <1>1 DEF Low
<1>4. \A k \in 0 .. w - 1 : k \in Nat /\ k < w
  BY <1>1
<1>5. \A k \in 0 .. w - 1 : BitOf(v % Pow(w), k) = BitOf(v, k)
  BY <1>1, <1>4, RestBits
<1> QED
  BY <1>2, <1>3, <1>5

LEMMA SignIsHighestBit ==
  ASSUME SignsAreBits, NEW w \in Widths, NEW v \in Values(w)
  PROVE  IsNegative(v, w) <=> BitOf(v, w - 1) = 1
<1>1. w - 1 \in Nat /\ (w - 1) + 1 = w /\ SignBit[w] = Pow(w - 1) /\ v \in 0 .. Pow(w) - 1
  BY WidthsInBits
<1>2. v \in 0 .. Pow((w - 1) + 1) - 1
  BY <1>1
<1>3. BitOf(v, w - 1) = 1 <=> v >= Pow(w - 1)
  BY <1>1, <1>2, HighestBit
<1> QED
  BY <1>1, <1>3 DEF IsNegative

\* The bits of a number read with its sign.
LEMMA SignedBits ==
  ASSUME SignsAreBits, NEW w \in Widths, NEW v \in Values(w), NEW k \in Nat
  PROVE  /\ SignedValue(v, w) \in Int
         /\ BitOf(SignedValue(v, w), k) = BitOf(v, IF k < w THEN k ELSE w - 1)
<1> DEFINE s == SignedValue(v, w)
<1>1. /\ w \in Nat /\ w - 1 \in Nat /\ SignBit[w] = Pow(w - 1) /\ Modulus(w) = Pow(w)
      /\ v \in 0 .. Pow(w) - 1 /\ Pow(w) = 2 * Pow(w - 1) /\ Pow(w - 1) \in Nat \ {0}
  BY WidthsInBits
<1>2. v \in Int /\ s \in Int
  BY <1>1, SignedIsInt
<1>3. CASE k < w
  <2>1. CASE IsNegative(v, w)
    <3>1. s = v + (-1) * Pow(w)
      BY <1>1, <2>1 DEF SignedValue
    <3>2. BitOf(v + (-1) * Pow(w), k) = BitOf(v, k)
      BY <1>1, <1>2, <1>3, BitBelow
    <3> QED
      BY <1>2, <1>3, <3>1, <3>2
  <2>2. CASE ~IsNegative(v, w)
    BY <1>2, <1>3, <2>2 DEF SignedValue
  <2> QED
    BY <2>1, <2>2
<1>4. CASE ~(k < w)
  <2>1. -Pow(w - 1) <= s /\ s < Pow(w - 1) /\ (s < 0 <=> IsNegative(v, w))
    BY <1>1 DEF SignedValue, IsNegative
  <2>2. k >= w - 1
    BY <1>1, <1>4
  <2> HIDE DEF s
  <2>3. BitOf(s, k) = IF s < 0 THEN 1 ELSE 0
    BY <1>1, <1>2, <2>1, <2>2, SignRepeats
  <2>4. BitOf(v, w - 1) \in 0 .. 1
    BY <1>1, <1>2, BitIsBit
  <2>5. BitOf(v, w - 1) = IF s < 0 THEN 1 ELSE 0
    BY <2>1, <2>4, SignIsHighestBit
  <2> QED
    BY <1>2, <1>4, <2>3, <2>5 DEF s
<1> QED
  BY <1>3, <1>4

\* Shifted to the left.
LEMMA LeftBits ==
  ASSUME SignsAreBits, NEW w \in Widths, NEW v \in Values(w), NEW n \in Nat \ {0}
  PROVE  LET s == ShiftLeft(v, n, w)
         IN  /\ s.result \in Values(w)
             /\ \A k \in 0 .. w - 1 :
                  BitOf(s.result, k) = IF k < n THEN 0 ELSE BitOf(v, k - n)
             /\ s.CF <=> (n <= w /\ BitOf(v, w - n) = 1)
             /\ s.OF = (IsNegative(s.result, w) # s.CF)
<1> DEFINE Cut(m) == Low(v * Pow(m), w)
           s == ShiftLeft(v, n, w)
<1>1. w \in Nat /\ w - 1 \in 0 .. w - 1 /\ v \in Int /\ n - 1 \in Nat
  BY WidthsInBits
<1>2. ASSUME NEW m \in Nat
      PROVE  /\ Cut(m) \in Values(w)
             /\ \A k \in 0 .. w - 1 : BitOf(Cut(m), k) = IF k < m THEN 0 ELSE BitOf(v, k - m)
  <2> DEFINE a == v * Pow(m)
  <2>1. a \in Int
    BY <1>1, PowNat
  <2>2. \A k \in 0 .. w - 1 : k \in Nat
    BY <1>1
  <2>3. \A k \in 0 .. w - 1 : BitOf(a, k) = IF k < m THEN 0 ELSE BitOf(v, k - m)
    BY <1>1, <2>2, MultipleBits
  <2> HIDE DEF a
  <2>4. Low(a, w) \in Values(w) /\ \A k \in 0 .. w - 1 : BitOf(Low(a, w), k) = BitOf(a, k)
    BY <2>1, LowBits
  <2> QED
    BY <2>3, <2>4 DEF a
<1>3. s = Shifted(Cut(n), IsNegative(Cut(n - 1), w),
                  IsNegative(Cut(n), w) # IsNegative(Cut(n - 1), w))
  BY DEF ShiftLeft, Pow
<1> HIDE DEF Cut, s
<1>4. s.result = Cut(n) /\ s.CF = IsNegative(Cut(n - 1), w)
      /\ s.OF = (IsNegative(Cut(n), w) # IsNegative(Cut(n - 1), w))
  BY <1>3 DEF Shifted
<1>5. IsNegative(Cut(n - 1), w) <=> BitOf(Cut(n - 1), w - 1) = 1
  BY <1>1, <1>2, SignIsHighestBit
<1>6. BitOf(Cut(n - 1), w - 1) = IF w - 1 < n - 1 THEN 0 ELSE BitOf(v, (w - 1) - (n - 1))
  BY <1>1, <1>2
<1>7. (w - 1) - (n - 1) = w - n /\ (w - 1 < n - 1 <=> ~(n <= w))
  BY <1>1
<1>8. s.CF <=> (n <= w /\ BitOf(v, w - n) = 1)
  BY <1>4, <1>5, <1>6, <1>7
<1>9. Cut(n) \in Values(w)
      /\ \A k \in 0 .. w - 1 : BitOf(Cut(n), k) = IF k < n THEN 0 ELSE BitOf(v, k - n)
  BY <1>2
<1> QED
  BY <1>4, <1>8, <1>9 DEF s

\* Shifted to the right without sign.
LEMMA RightBits ==
  ASSUME SignsAreBits, NEW w \in Widths, NEW v \in Values(w), NEW n \in Nat \ {0}
  PROVE  LET s == ShiftRight(v, n, w)
         IN  /\ s.result \in Values(w)
             /\ \A k \in 0 .. w - 1 : BitOf(s.result, k) = BitOf(v, k + n)
             /\ s.CF <=> BitOf(v, n - 1) = 1
             /\ s.OF = IsNegative(v, w)
<1> DEFINE s == ShiftRight(v, n, w)  p == Pow(n)  q == v \div p
<1>1. /\ w \in Nat /\ v \in Int /\ v >= 0 /\ n - 1 \in Nat
      /\ Values(w) = 0 .. Pow(w) - 1 /\ p \in Nat \ {0} /\ Pow(w) \in Nat
  <2>1. w \in Nat /\ Values(w) = 0 .. Pow(w) - 1
    BY WidthsInBits
  <2>2. Pow(w) \in Nat /\ Pow(n) \in Nat \ {0}
    BY <2>1, PowNat
  <2> QED
    BY <2>1, <2>2
<1>2. s = Shifted(q, BitOf(v, n - 1) = 1, IsNegative(v, w))
  BY DEF ShiftRight, Pow, BitOf
<1>3. \A k \in 0 .. w - 1 : BitOf(q, k) = BitOf(v, k + n)
  <2>1. \A k \in 0 .. w - 1 : k \in Nat
    BY <1>1
  <2> QED
    BY <1>1, <2>1, BitOfQuotient
<1> HIDE DEF p
<1>4. q \in Values(w)
  <2> DEFINE r == v % p
  <2>1. q \in Int /\ r \in 0 .. p - 1 /\ v = p * q + r
    BY <1>1, DivModBasics
  <2> HIDE DEF q, r
  <2>2. q >= 0
    <3>1. ASSUME q <= -1 PROVE FALSE
      <4>1. p * q <= -p
        BY <1>1, <2>1, <3>1, Z3
      <4>2. p * q \in Int
        BY <1>1, <2>1
      <4> QED
        BY <1>1, <2>1, <4>1, <4>2
    <3> QED
      BY <2>1, <3>1
  <2>3. p * q >= q /\ p * q \in Int
    <3>1. p * q >= q
      BY <1>1, <2>1, <2>2, Z3
    <3> QED
      BY <1>1, <2>1, <3>1
  <2> QED
    BY <1>1, <2>1, <2>2, <2>3
<1> HIDE DEF q, s
<1>5. s.result = q /\ s.CF = (BitOf(v, n - 1) = 1) /\ s.OF = IsNegative(v, w)
  BY <1>2 DEF Shifted
<1> QED
  BY <1>3, <1>4, <1>5 DEF s

\* Shifted to the right with its sign.
LEMMA SignedRightBits ==
  ASSUME SignsAreBits, NEW w \in Widths, NEW v \in Values(w), NEW n \in Nat \ {0}
  PROVE  LET s == ShiftArithmeticRight(v, n, w)
         IN  /\ s.result \in Values(w)
             /\ \A k \in 0 .. w - 1 :
                  BitOf(s.result, k) = BitOf(v, IF k + n < w THEN k + n ELSE w - 1)
             /\ s.CF <=> BitOf(v, IF n - 1 < w THEN n - 1 ELSE w - 1) = 1
             /\ s.OF = FALSE
<1> DEFINE s == ShiftArithmeticRight(v, n, w)  u == SignedValue(v, w)  q == u \div Pow(n)
<1>1. w \in Nat /\ n - 1 \in Nat /\ v \in Int /\ Pow(n) \in Nat \ {0}
  <2>1. w \in Nat /\ Values(w) = 0 .. Pow(w) - 1
    BY WidthsInBits
  <2>2. Pow(w) \in Nat /\ Pow(n) \in Nat \ {0}
    BY <2>1, PowNat
  <2> QED
    BY <2>1, <2>2
<1>2. \A k \in Nat : u \in Int /\ BitOf(u, k) = BitOf(v, IF k < w THEN k ELSE w - 1)
  BY SignedBits
<1>3. s = Shifted(Low(q, w), BitOf(u, n - 1) = 1, FALSE)
  BY DEF ShiftArithmeticRight, Pow, BitOf
<1>4. \A k \in 0 .. w - 1 : k \in Nat /\ k + n \in Nat
  BY <1>1
<1>5. u \in Int
  BY <1>1, <1>2
<1> HIDE DEF u
<1>6. q \in Int
  BY <1>5, BitIsBit
<1>7. \A k \in 0 .. w - 1 : BitOf(q, k) = BitOf(u, k + n)
  BY <1>4, <1>5, BitOfQuotient
<1> HIDE DEF q
<1>8. Low(q, w) \in Values(w) /\ \A k \in 0 .. w - 1 : BitOf(Low(q, w), k) = BitOf(q, k)
  BY <1>6, LowBits
<1>9. \A k \in 0 .. w - 1 :
        BitOf(Low(q, w), k) = BitOf(v, IF k + n < w THEN k + n ELSE w - 1)
  BY <1>2, <1>4, <1>7, <1>8
<1> HIDE DEF s
<1>10. s.result = Low(q, w) /\ s.CF = (BitOf(u, n - 1) = 1) /\ s.OF = FALSE
  BY <1>3 DEF Shifted
<1>11. BitOf(u, n - 1) = BitOf(v, IF n - 1 < w THEN n - 1 ELSE w - 1)
  BY <1>1, <1>2
<1> QED
  BY <1>8, <1>9, <1>10, <1>11 DEF s

\* Rotated.
LEMMA LeftTurnBits ==
  ASSUME SignsAreBits, NEW w \in Widths, NEW v \in Values(w), NEW n \in Nat \ {0}
  PROVE  LET s == RotateLeft(v, n, w)  p == n % w
         IN  /\ s.result \in Values(w)
             /\ p \in 0 .. w - 1
             /\ \A k \in 0 .. w - 1 :
                  BitOf(s.result, k) = BitOf(v, IF k < p THEN k + (w - p) ELSE k - p)
             /\ s.CF <=> BitOf(s.result, 0) = 1
             /\ s.OF = (IsNegative(s.result, w) # s.CF)
<1> DEFINE s == RotateLeft(v, n, w)  p == n % w  r == Turned(v, p, w)
<1>1. /\ w \in Nat /\ w > 1 /\ v \in Int /\ v \in 0 .. Pow(w) - 1
      /\ Values(w) = 0 .. Pow(w) - 1
  BY WidthsInBits
<1>2. p \in 0 .. w - 1
  BY <1>1
<1> HIDE DEF p
<1>3. v * Pow(p) \in Int
  BY <1>1, <1>2, PowNat
<1>4. Low(v * Pow(p), w) = (v * Pow(p)) % Pow(w)
  <2> DEFINE a == v * Pow(p)
  <2> HIDE DEF a
  <2>1. a \in Int
    BY <1>3 DEF a
  <2>2. Low(a, w) = a % Pow(w)
    BY <2>1, LowBits
  <2> QED
    BY <2>2 DEF a
<1>5. s = Shifted(r, r % 2 = 1, IsNegative(r, w) # (r % 2 = 1))
  BY <1>4 DEF RotateLeft, Turned, Pow, p
<1>6. /\ r \in 0 .. Pow(w) - 1
      /\ \A k \in 0 .. w - 1 : BitOf(r, k) = BitOf(v, IF k < p THEN k + (w - p) ELSE k - p)
  <2>1. p \in 0 .. w
    BY <1>1, <1>2
  <2> QED
    BY <1>1, <2>1, TurnedBits
<1> HIDE DEF r, s
<1>7. s.result = r /\ s.CF = (r % 2 = 1) /\ s.OF = (IsNegative(r, w) # (r % 2 = 1))
  BY <1>5 DEF Shifted
<1>8. BitOf(r, 0) = r % 2
  <2>1. r \div 1 = r
    BY <1>1, <1>6
  <2> QED
    BY <2>1, PowZero DEF BitOf
<1> QED
  BY <1>1, <1>2, <1>6, <1>7, <1>8 DEF s, p

LEMMA RightTurnBits ==
  ASSUME SignsAreBits, NEW w \in Widths, NEW v \in Values(w), NEW n \in Nat \ {0}
  PROVE  LET s == RotateRight(v, n, w)  p == n % w
         IN  /\ s.result \in Values(w)
             /\ p \in 0 .. w - 1
             /\ \A k \in 0 .. w - 1 :
                  BitOf(s.result, k) = BitOf(v, IF k < w - p THEN k + p ELSE k - (w - p))
             /\ s.CF <=> BitOf(s.result, w - 1) = 1
             /\ s.OF <=> BitOf(s.result, w - 1) # BitOf(s.result, w - 2)
<1> DEFINE s == RotateRight(v, n, w)  p == n % w  t == w - p  r == Turned(v, t, w)
           d == 2 * r
<1>1. /\ w \in Nat /\ w > 1 /\ v \in Int /\ v \in 0 .. Pow(w) - 1
      /\ Values(w) = 0 .. Pow(w) - 1 /\ Pow(w) \in Nat
  <2>1. w \in Nat /\ w > 1 /\ Values(w) = 0 .. Pow(w) - 1
    BY WidthsInBits
  <2>2. Pow(w) \in Nat
    BY <2>1, PowNat
  <2> QED
    BY <2>1, <2>2
<1>2. p \in 0 .. w - 1
  BY <1>1
<1> HIDE DEF p
<1>3. t \in 0 .. w /\ w - t = p
  BY <1>1, <1>2
<1> HIDE DEF t
<1>4. Low(v * Pow(t), w) = (v * Pow(t)) % Pow(w) /\ Low(v * Pow(t), w) \in Int
  <2> DEFINE a == v * Pow(t)
  <2>1. a \in Int
    <3>1. t \in Nat
      BY <1>1, <1>3
    <3> QED
      BY <1>1, <3>1, PowNat
  <2> HIDE DEF a
  <2>2. Low(a, w) = a % Pow(w) /\ Low(a, w) \in Values(w)
    BY <2>1, LowBits
  <2>3. Low(a, w) = a % Pow(w) /\ Low(a, w) \in Int
    BY <1>1, <2>2
  <2> QED
    BY <2>3 DEF a
<1>5. (v \div Pow(p)) + Low(v * Pow(t), w) = r
  <2>1. v \div Pow(p) \in Int
    BY <1>1, <1>2, BitIsBit
  <2>2. r = ((v * Pow(t)) % Pow(w)) + (v \div Pow(p))
    BY <1>3 DEF Turned
  <2> QED
    BY <1>4, <2>1, <2>2
<1>6. s = Shifted(r, IsNegative(r, w), IsNegative(r, w) # IsNegative(Low(d, w), w))
  <2> DEFINE e == (v \div 2^p) + Low(v * 2^t, w)
  <2>1. s = Shifted(e, IsNegative(e, w), IsNegative(e, w) # IsNegative(Low(2 * e, w), w))
    BY DEF RotateRight, p, t
  <2>2. e = r
    BY <1>5 DEF Pow
  <2> HIDE DEF e
  <2> QED
    BY <2>1, <2>2
<1>7. /\ r \in 0 .. Pow(w) - 1
      /\ \A k \in 0 .. w - 1 : BitOf(r, k) = BitOf(v, IF k < t THEN k + (w - t) ELSE k - t)
  BY <1>1, <1>3, TurnedBits
<1> HIDE DEF r, s
<1>8. BitOf(Low(d, w), w - 1) = BitOf(r, w - 2) /\ Low(d, w) \in Values(w)
  <2>1. r \in Int /\ w - 1 \in 0 .. w - 1 /\ w - 1 \in Nat /\ (w - 1) - 1 = w - 2 /\ ~(w - 1 < 1)
    BY <1>1, <1>7
  <2>2. BitOf(r * Pow(1), w - 1) = BitOf(r, w - 2)
    BY <2>1, MultipleBits
  <2>3. r * Pow(1) = d /\ d \in Int
    BY <2>1, PowZero
  <2> HIDE DEF d
  <2>4. Low(d, w) \in Values(w) /\ BitOf(Low(d, w), w - 1) = BitOf(d, w - 1)
    BY <2>1, <2>3, LowBits
  <2> QED
    BY <2>2, <2>3, <2>4
<1> HIDE DEF d
<1>9. /\ IsNegative(r, w) <=> BitOf(r, w - 1) = 1
      /\ IsNegative(Low(d, w), w) <=> BitOf(r, w - 2) = 1
  BY <1>1, <1>7, <1>8, SignIsHighestBit
<1>10. s.result = r /\ s.CF = IsNegative(r, w)
       /\ s.OF = (IsNegative(r, w) # IsNegative(Low(d, w), w))
  BY <1>6 DEF Shifted
<1>11. BitOf(r, w - 1) \in 0 .. 1 /\ BitOf(r, w - 2) \in 0 .. 1
  <2>1. r \in Int /\ w - 1 \in Nat /\ w - 2 \in Nat
    BY <1>1, <1>7
  <2> QED
    BY <2>1, BitIsBit
<1>12. IsNegative(r, w) \in BOOLEAN /\ IsNegative(Low(d, w), w) \in BOOLEAN
  BY DEF IsNegative
<1>13. s.OF <=> BitOf(r, w - 1) # BitOf(r, w - 2)
  <2> DEFINE a == BitOf(r, w - 1)  b == BitOf(r, w - 2)
             A == IsNegative(r, w)  B == IsNegative(Low(d, w), w)
  <2>1. /\ A \in BOOLEAN /\ B \in BOOLEAN /\ (A <=> a = 1) /\ (B <=> b = 1)
        /\ a \in 0 .. 1 /\ b \in 0 .. 1 /\ s.OF = (A # B)
    BY <1>9, <1>10, <1>11, <1>12
  <2> HIDE DEF a, b, A, B
  <2>2. (A # B) <=> a # b
    <3>1. CASE A
      BY <2>1, <3>1
    <3>2. CASE ~A
      BY <2>1, <3>2
    <3> QED
      BY <3>1, <3>2
  <2> QED
    BY <2>1, <2>2 DEF a, b
<1>14. \A k \in 0 .. w - 1 : BitOf(r, k) = BitOf(v, IF k < w - p THEN k + p ELSE k - (w - p))
  BY <1>3, <1>7 DEF t
<1> QED
  BY <1>1, <1>2, <1>7, <1>9, <1>10, <1>13, <1>14 DEF s, p

-----------------------------------------------------------------------------
(* The same with sets of bits. *)

LEMMA InBits ==
  ASSUME SignsAreBits, NEW w \in Widths, NEW v \in Values(w)
  PROVE  Bits(v) = {k \in 0 .. w - 1 : BitOf(v, k) = 1}
<1>1. /\ w \in Nat /\ Dword \in Nat /\ w <= Dword /\ v \in 0 .. Pow(w) - 1
  BY WidthsInBits
<1>2. \A k \in 0 .. Dword - 1 : k >= w => BitOf(v, k) = 0
  <2>1. \A k \in 0 .. Dword - 1 : k \in Nat
    BY <1>1
  <2> QED
    BY <1>1, <2>1, BitAbove
<1>3. Bits(v) = {k \in 0 .. Dword - 1 : BitOf(v, k) = 1}
  BY DEF Bits, BitOf, Pow
<1>4. \A k : k \in 0 .. Dword - 1 /\ BitOf(v, k) = 1 <=> k \in 0 .. w - 1 /\ BitOf(v, k) = 1
  BY <1>1, <1>2
<1> QED
  BY <1>3, <1>4

LEMMA FlagsOfBits ==
  ASSUME SignsAreBits, NEW w \in Widths, NEW v \in Values(w)
  PROVE  (v = 0) = (Bits(v) = {}) /\ IsNegative(v, w) = (w - 1 \in Bits(v))
<1>1. w \in Nat /\ w - 1 \in 0 .. w - 1 /\ v \in 0 .. Pow(w) - 1
  BY WidthsInBits
<1>2. Bits(v) = {k \in 0 .. w - 1 : BitOf(v, k) = 1}
  BY InBits
<1>3. \A k \in 0 .. w - 1 : k \in Nat /\ BitOf(v, k) \in 0 .. 1
  <2>1. v \in Int /\ \A k \in 0 .. w - 1 : k \in Nat
    BY <1>1
  <2> QED
    BY <2>1, BitIsBit
<1>4. Bits(v) = {} => v = 0
  <2>1. Bits(v) = {} => \A k \in 0 .. w - 1 : BitOf(v, k) = 0
    BY <1>2, <1>3
  <2> QED
    BY <1>1, <2>1, NoBits
<1>5. v = 0 => Bits(v) = {}
  <2>1. v = 0 => \A k \in 0 .. w - 1 : BitOf(v, k) = 0
    <3>1. 0 \in 0 .. Pow(0) - 1
      BY PowZero
    <3>2. \A k \in 0 .. w - 1 : BitOf(0, k) = 0
      BY <1>3, <3>1, BitAbove
    <3> QED
      BY <3>2
  <2> QED
    BY <1>2, <2>1
<1>6. IsNegative(v, w) <=> w - 1 \in Bits(v)
  BY <1>1, <1>2, SignIsHighestBit
<1>7. IsNegative(v, w) \in BOOLEAN
  BY DEF IsNegative
<1> QED
  BY <1>4, <1>5, <1>6, <1>7

MovedTo(op, before, n, w) == {Moved(op, k, n, w) : k \in before}

Signs(op, before, n, w) ==
  IF op = "SAR" /\ w - 1 \in before THEN {k \in 0 .. w - 1 : k >= w - n} ELSE {}

LastOut(op, before, after, n, w) ==
  CASE op \in {"SHL", "SAL"} -> w - n \in before
    [] op \in {"SHR", "SAR"} -> n - 1 \in before
    [] op = "ROL" -> 0 \in after
    [] op = "ROR" -> w - 1 \in after

MovesBits(op, v, n, w) ==
  LET s == Shift(op, v, n, w)
      before == Bits(v)
      after == Bits(s.result)
  IN  /\ s.result \in Values(w)
      /\ after = (MovedTo(op, before, n, w) \cap 0 .. w - 1) \cup Signs(op, before, n, w)
      /\ (op \in ShiftOps => n < w) => (s.CF <=> LastOut(op, before, after, n, w))
      /\ n = 1 => (s.OF <=> ((w - 1 \in before) # (w - 1 \in after)))

LEMMA SameTruth ==
  ASSUME NEW c \in BOOLEAN, NEW e, NEW S, c <=> e \in S
  PROVE  c = (e \in S)
<1>1. CASE c = TRUE
  BY <1>1, Zenon
<1>2. CASE c = FALSE
  <2>1. ~(e \in S)
    BY <1>2, Zenon
  <2>2. (e \in S) = FALSE
    BY <2>1
  <2> QED
    BY <1>2, <2>2
<1> QED
  BY <1>1, <1>2

LEMMA MovesLeft ==
  ASSUME SignsAreBits, NEW w \in Widths, NEW v \in Values(w), NEW n \in Nat \ {0},
         NEW op \in {"SHL", "SAL"}
  PROVE  MovesBits(op, v, n, w)
<1> DEFINE s == Shift(op, v, n, w)  R == s.result  before == Bits(v)  after == Bits(R)
<1>0. s.CF \in BOOLEAN /\ s.OF \in BOOLEAN
  <2>1. v \in Nat /\ n \in Nat /\ n > 0 /\ op \in ShiftOps \cup RotateOps
    BY LowOfValue DEF ShiftOps
  <2> QED
    BY <2>1, ShiftedNumber
<1>1. w \in Nat /\ w > 1
  BY WidthsInBits
<1>2. s = ShiftLeft(v, n, w)
  BY DEF Shift
<1>3. /\ R \in Values(w)
      /\ \A k \in 0 .. w - 1 : BitOf(R, k) = IF k < n THEN 0 ELSE BitOf(v, k - n)
      /\ s.CF <=> (n <= w /\ BitOf(v, w - n) = 1)
      /\ s.OF = (IsNegative(R, w) # s.CF)
  BY <1>2, LeftBits
<1> HIDE DEF s, R
<1>4. before = {k \in 0 .. w - 1 : BitOf(v, k) = 1} /\ after = {k \in 0 .. w - 1 : BitOf(R, k) = 1}
  BY <1>3, InBits
<1>5. MovedTo(op, before, n, w) = {k + n : k \in before} /\ Signs(op, before, n, w) = {}
      /\ (LastOut(op, before, after, n, w) <=> w - n \in before)
  BY DEF MovedTo, Moved, Signs, LastOut
<1>6. IsNegative(R, w) = (w - 1 \in after)
  BY <1>3, FlagsOfBits
<1> HIDE DEF before, after
<1>7. \A k \in 0 .. w - 1 : k \in after <=> k \in {j + n : j \in before}
  <2> SUFFICES ASSUME NEW k \in 0 .. w - 1
               PROVE  k \in after <=> k \in {j + n : j \in before}
    OBVIOUS
  <2>1. k \in after <=> (k >= n /\ BitOf(v, k - n) = 1)
    BY <1>1, <1>3, <1>4
  <2>2. k >= n => k - n \in 0 .. w - 1
    BY <1>1
  <2>3. k \in after <=> (k >= n /\ k - n \in before)
    BY <1>4, <2>1, <2>2
  <2>4. k >= n /\ k - n \in before => k \in {j + n : j \in before}
    <3>1. k = (k - n) + n
      OBVIOUS
    <3> QED
      BY <3>1
  <2>5. ASSUME NEW j \in before, k = j + n
        PROVE  k >= n /\ k - n \in before
    <3>1. j \in 0 .. w - 1
      BY <1>4
    <3>2. k - n = j /\ k >= n
      BY <1>1, <2>5, <3>1
    <3> QED
      BY <3>2
  <2> QED
    BY <2>3, <2>4, <2>5
<1>8. n < w => (s.CF <=> w - n \in before)
  <2>1. n < w => n <= w /\ (w - n \in before <=> BitOf(v, w - n) = 1)
    BY <1>1, <1>4
  <2> QED
    BY <1>3, <2>1, Zenon
<1>9. n = 1 => (s.OF <=> ((w - 1 \in before) # (w - 1 \in after)))
  <2>1. n = 1 => n < w /\ w - n = w - 1
    BY <1>1
  <2>2. n = 1 => (s.CF <=> w - 1 \in before)
    BY <1>8, <2>1, Zenon
  <2>3. ASSUME n = 1
        PROVE  s.OF <=> ((w - 1 \in before) # (w - 1 \in after))
    <3>1. (s.CF <=> w - 1 \in before) /\ s.CF \in BOOLEAN
      BY <1>0, <2>2, <2>3
    <3>2. s.OF = ((w - 1 \in after) # s.CF)
      BY <1>3, <1>6, Zenon
    <3>3. s.CF = (w - 1 \in before)
      BY <3>1, SameTruth
    <3>4. s.OF = ((w - 1 \in after) # (w - 1 \in before))
      BY <3>2, <3>3, Zenon
    <3> QED
      BY <3>4, Zenon
  <2> QED
    BY <2>3
<1>10. after \subseteq 0 .. w - 1
  BY <1>4
<1>11. after = (MovedTo(op, before, n, w) \cap 0 .. w - 1) \cup Signs(op, before, n, w)
  BY <1>5, <1>7, <1>10
<1> QED
  BY <1>3, <1>5, <1>8, <1>9, <1>11 DEF MovesBits, ShiftOps, before, after, R, s

LEMMA MovesRight ==
  ASSUME SignsAreBits, NEW w \in Widths, NEW v \in Values(w), NEW n \in Nat \ {0}
  PROVE  MovesBits("SHR", v, n, w)
<1> DEFINE op == "SHR"
           s == Shift(op, v, n, w)  R == s.result  before == Bits(v)  after == Bits(R)
<1>0. s.CF \in BOOLEAN /\ s.OF \in BOOLEAN
  <2>1. v \in Nat /\ n \in Nat /\ n > 0 /\ op \in ShiftOps \cup RotateOps
    BY LowOfValue DEF ShiftOps
  <2> QED
    BY <2>1, ShiftedNumber
<1>1. w \in Nat /\ w > 1 /\ n - 1 \in Nat /\ v \in 0 .. Pow(w) - 1
  BY WidthsInBits
<1>2. s = ShiftRight(v, n, w)
  BY DEF Shift
<1>3. /\ R \in Values(w)
      /\ \A k \in 0 .. w - 1 : BitOf(R, k) = BitOf(v, k + n)
      /\ s.CF <=> BitOf(v, n - 1) = 1
      /\ s.OF = IsNegative(v, w)
  BY <1>2, RightBits
<1> HIDE DEF s, R
<1>4. before = {k \in 0 .. w - 1 : BitOf(v, k) = 1} /\ after = {k \in 0 .. w - 1 : BitOf(R, k) = 1}
  BY <1>3, InBits
<1>5. MovedTo(op, before, n, w) = {k - n : k \in before} /\ Signs(op, before, n, w) = {}
      /\ (LastOut(op, before, after, n, w) <=> n - 1 \in before)
  BY DEF MovedTo, Moved, Signs, LastOut
<1>6. IsNegative(v, w) = (w - 1 \in before)
  BY FlagsOfBits
<1> HIDE DEF before, after
<1>7. \A k \in 0 .. w - 1 : k \in after <=> k \in {j - n : j \in before}
  <2> SUFFICES ASSUME NEW k \in 0 .. w - 1
               PROVE  k \in after <=> k \in {j - n : j \in before}
    OBVIOUS
  <2>1. k + n \in Nat
    BY <1>1
  <2>2. k + n >= w => BitOf(v, k + n) = 0
    BY <1>1, <2>1, BitAbove
  <2>3. k \in after <=> k + n \in before
    <3>1. k + n < w => k + n \in 0 .. w - 1
      BY <1>1, <2>1
    <3>2. k \in after <=> BitOf(v, k + n) = 1
      BY <1>3, <1>4
    <3> QED
      BY <1>1, <1>4, <2>1, <2>2, <3>1, <3>2
  <2>4. k + n \in before => k \in {j - n : j \in before}
    <3>1. k = (k + n) - n
      OBVIOUS
    <3> QED
      BY <3>1
  <2>5. ASSUME NEW j \in before, k = j - n
        PROVE  k + n \in before
    <3>1. j \in 0 .. w - 1
      BY <1>4
    <3>2. k + n = j
      BY <1>1, <2>5, <3>1
    <3> QED
      BY <3>2
  <2> QED
    BY <2>3, <2>4, <2>5
<1>8. n < w => (s.CF <=> n - 1 \in before)
  <2>1. n < w => (n - 1 \in before <=> BitOf(v, n - 1) = 1)
    BY <1>1, <1>4
  <2> QED
    BY <1>3, <2>1, Zenon
<1>9. n = 1 => (s.OF <=> ((w - 1 \in before) # (w - 1 \in after)))
  <2>1. ASSUME n = 1
        PROVE  w - 1 \notin after
    <3>1. w - 1 \in 0 .. w - 1 /\ (w - 1) + n = w
      BY <1>1, <2>1
    <3>2. BitOf(v, w) = 0
      BY <1>1, BitAbove
    <3>3. BitOf(R, w - 1) = BitOf(v, (w - 1) + n)
      BY <1>3, <3>1
    <3> QED
      BY <1>4, <3>1, <3>2, <3>3
  <2>2. w - 1 \notin after => ((w - 1 \in before) # (w - 1 \in after) <=> w - 1 \in before)
    OBVIOUS
  <2>3. s.OF <=> w - 1 \in before
    BY <1>3, <1>6, Zenon
  <2> QED
    BY <2>1, <2>2, <2>3, Zenon
<1>10. after \subseteq 0 .. w - 1
  BY <1>4
<1>11. after = (MovedTo(op, before, n, w) \cap 0 .. w - 1) \cup Signs(op, before, n, w)
  BY <1>5, <1>7, <1>10
<1> QED
  BY <1>3, <1>5, <1>8, <1>9, <1>11 DEF MovesBits, ShiftOps, before, after, R, s

LEMMA MovesSigned ==
  ASSUME SignsAreBits, NEW w \in Widths, NEW v \in Values(w), NEW n \in Nat \ {0}
  PROVE  MovesBits("SAR", v, n, w)
<1> DEFINE op == "SAR"
           s == Shift(op, v, n, w)  R == s.result  before == Bits(v)  after == Bits(R)
           signs == Signs(op, before, n, w)
<1>1. w \in Nat /\ w > 1 /\ n - 1 \in Nat /\ w - 1 \in 0 .. w - 1
  BY WidthsInBits
<1>2. s = ShiftArithmeticRight(v, n, w)
  BY DEF Shift
<1>3. /\ R \in Values(w)
      /\ \A k \in 0 .. w - 1 : BitOf(R, k) = BitOf(v, IF k + n < w THEN k + n ELSE w - 1)
      /\ s.CF <=> BitOf(v, IF n - 1 < w THEN n - 1 ELSE w - 1) = 1
      /\ s.OF = FALSE
  <2> DEFINE t == ShiftArithmeticRight(v, n, w)
  <2>1. /\ t.result \in Values(w)
        /\ \A k \in 0 .. w - 1 :
             BitOf(t.result, k) = BitOf(v, IF k + n < w THEN k + n ELSE w - 1)
        /\ t.CF <=> BitOf(v, IF n - 1 < w THEN n - 1 ELSE w - 1) = 1
        /\ t.OF = FALSE
    BY SignedRightBits
  <2>2. s = t /\ R = t.result
    BY <1>2
  <2> HIDE DEF s, R, t
  <2> QED
    BY <2>1, <2>2
<1> HIDE DEF s, R
<1>4. before = {k \in 0 .. w - 1 : BitOf(v, k) = 1} /\ after = {k \in 0 .. w - 1 : BitOf(R, k) = 1}
  BY <1>3, InBits
<1>5. MovedTo(op, before, n, w) = {k - n : k \in before}
      /\ signs = (IF w - 1 \in before THEN {k \in 0 .. w - 1 : k >= w - n} ELSE {})
      /\ (LastOut(op, before, after, n, w) <=> n - 1 \in before)
  BY DEF MovedTo, Moved, Signs, LastOut
<1> HIDE DEF before, after, signs
<1>7. \A k \in 0 .. w - 1 : k \in after <=> k \in {j - n : j \in before} \cup signs
  <2> SUFFICES ASSUME NEW k \in 0 .. w - 1
               PROVE  k \in after <=> k \in {j - n : j \in before} \cup signs
    OBVIOUS
  <2>1. k + n \in Nat
    BY <1>1
  <2>2. k \in {j - n : j \in before} <=> k + n \in before
    <3>1. k = (k + n) - n
      OBVIOUS
    <3>2. ASSUME NEW j \in before, k = j - n
          PROVE  k + n \in before
      <4>1. j \in 0 .. w - 1
        BY <1>4
      <4>2. k + n = j
        BY <1>1, <3>2, <4>1
      <4> QED
        BY <4>2
    <3> QED
      BY <3>1, <3>2
  <2>3. k \in after <=> BitOf(v, IF k + n < w THEN k + n ELSE w - 1) = 1
    BY <1>3, <1>4
  <2>4. CASE k + n < w
    <3>1. k \in after <=> k + n \in before
      BY <1>1, <1>4, <2>1, <2>3, <2>4
    <3>2. k \notin signs
      BY <1>1, <1>5, <2>4
    <3> QED
      BY <2>2, <3>1, <3>2
  <2>5. CASE ~(k + n < w)
    <3>1. k \in after <=> w - 1 \in before
      BY <1>1, <1>4, <2>3, <2>5
    <3>2. k + n \notin before
      BY <1>1, <1>4, <2>5
    <3>3. k \in signs <=> w - 1 \in before
      BY <1>1, <1>5, <2>5
    <3> QED
      BY <2>2, <3>1, <3>2, <3>3
  <2> QED
    BY <2>4, <2>5
<1>8. n < w => (s.CF <=> n - 1 \in before)
  <2>1. n < w => /\ (n - 1 \in before <=> BitOf(v, n - 1) = 1)
                 /\ BitOf(v, IF n - 1 < w THEN n - 1 ELSE w - 1) = BitOf(v, n - 1)
    BY <1>1, <1>4
  <2> QED
    BY <1>3, <2>1, Zenon
<1>9. n = 1 => (s.OF <=> ((w - 1 \in before) # (w - 1 \in after)))
  <2>1. ASSUME n = 1
        PROVE  w - 1 \in after <=> w - 1 \in before
    <3>1. ~((w - 1) + n < w)
      BY <1>1, <2>1
    <3> QED
      BY <1>1, <1>3, <1>4, <3>1
  <2>2. (w - 1 \in after <=> w - 1 \in before) => (w - 1 \in before) = (w - 1 \in after)
    <3> DEFINE A == w - 1 \in before  B == w - 1 \in after
    <3>1. CASE w - 1 \in before
      BY <3>1
    <3>2. CASE w - 1 \notin before
      BY <3>2
    <3> QED
      BY <3>1, <3>2
  <2> QED
    BY <1>3, <2>1, <2>2
<1>10. after \subseteq 0 .. w - 1 /\ signs \subseteq 0 .. w - 1
  BY <1>4, <1>5
<1>11. after = (MovedTo(op, before, n, w) \cap 0 .. w - 1) \cup signs
  BY <1>5, <1>7, <1>10
<1> QED
  BY <1>3, <1>5, <1>8, <1>9, <1>11 DEF MovesBits, ShiftOps, before, after, R, s, signs

\* Around a ring of w places.
LEMMA Around ==
  ASSUME NEW w \in Nat \ {0}, NEW n \in Nat, NEW j \in 0 .. w - 1
  PROVE  LET p == n % w
         IN  /\ (j + n) % w = IF j + p < w THEN j + p ELSE j + p - w
             /\ (j - n) % w = IF j >= p THEN j - p ELSE j - p + w
<1> DEFINE p == n % w  q == n \div w
<1>1. q \in Int /\ p \in 0 .. w - 1 /\ n = w * q + p
  BY DivModBasics
<1> HIDE DEF p, q
<1>2. w \in Nat /\ w > 0 /\ w * q \in Int /\ w * q = q * w /\ (-q) * w = -(w * q) /\ -q \in Int
  BY <1>1, Z3
<1>3. j + n = (j + p) + q * w /\ j - n = (j - p) + (-q) * w
  BY <1>1, <1>2
<1>4. (j + n) % w = (j + p) % w
  <2> DEFINE u == j + p
  <2>1. u \in Int
    BY <1>1
  <2> HIDE DEF u
  <2>2. (u + q * w) % w = u % w
    BY <1>1, <1>2, <2>1, AddingMultiples
  <2> QED
    BY <1>3, <2>2 DEF u
<1>5. (j - n) % w = (j - p) % w
  <2> DEFINE u == j - p  e == -q
  <2>1. u \in Int /\ e \in Int
    BY <1>1, <1>2
  <2> HIDE DEF u, e
  <2>2. (u + e * w) % w = u % w
    BY <1>2, <2>1, AddingMultiples
  <2> QED
    BY <1>3, <2>2 DEF u, e
<1>6. ASSUME NEW u \in Int, NEW e \in Int, NEW r \in 0 .. w - 1, u = w * e + r
      PROVE  u % w = r
  BY <1>2, <1>6, DivModUnique
<1>7. (j + p) % w = IF j + p < w THEN j + p ELSE j + p - w
  <2>1. CASE j + p < w
    <3>1. j + p \in 0 .. w - 1 /\ j + p = w * 0 + (j + p) /\ j + p \in Int
      BY <1>1, <2>1
    <3> QED
      BY <1>6, <2>1, <3>1
  <2>2. CASE ~(j + p < w)
    <3>1. j + p - w \in 0 .. w - 1 /\ j + p = w * 1 + (j + p - w) /\ j + p \in Int
      BY <1>1, <2>2
    <3> QED
      BY <1>6, <2>2, <3>1
  <2> QED
    BY <2>1, <2>2
<1>8. (j - p) % w = IF j >= p THEN j - p ELSE j - p + w
  <2>1. CASE j >= p
    <3>1. j - p \in 0 .. w - 1 /\ j - p = w * 0 + (j - p) /\ j - p \in Int
      BY <1>1, <2>1
    <3> QED
      BY <1>6, <2>1, <3>1
  <2>2. CASE ~(j >= p)
    <3>1. j - p + w \in 0 .. w - 1 /\ j - p = w * (-1) + (j - p + w) /\ j - p \in Int
      BY <1>1, <2>2
    <3> QED
      BY <1>6, <2>2, <3>1
  <2> QED
    BY <2>1, <2>2
<1> QED
  BY <1>4, <1>5, <1>7, <1>8 DEF p

LEMMA TurnsLeft ==
  ASSUME SignsAreBits, NEW w \in Widths, NEW v \in Values(w), NEW n \in Nat \ {0}
  PROVE  MovesBits("ROL", v, n, w)
<1> DEFINE op == "ROL"  p == n % w
           s == Shift(op, v, n, w)  R == s.result  before == Bits(v)  after == Bits(R)
           moved == MovedTo(op, before, n, w)
<1>0. s.CF \in BOOLEAN /\ s.OF \in BOOLEAN
  <2>1. v \in Nat /\ n \in Nat /\ n > 0 /\ op \in ShiftOps \cup RotateOps
    BY LowOfValue DEF RotateOps
  <2> QED
    BY <2>1, ShiftedNumber
<1>1. w \in Nat \ {0} /\ w > 1 /\ 0 \in 0 .. w - 1 /\ w - 1 \in 0 .. w - 1
  BY WidthsInBits
<1>2. s = RotateLeft(v, n, w)
  BY DEF Shift
<1>3. /\ R \in Values(w) /\ p \in 0 .. w - 1
      /\ \A k \in 0 .. w - 1 : BitOf(R, k) = BitOf(v, IF k < p THEN k + (w - p) ELSE k - p)
      /\ s.CF <=> BitOf(R, 0) = 1
      /\ s.OF = (IsNegative(R, w) # s.CF)
  <2> DEFINE t == RotateLeft(v, n, w)
  <2>1. /\ t.result \in Values(w) /\ p \in 0 .. w - 1
        /\ \A k \in 0 .. w - 1 :
             BitOf(t.result, k) = BitOf(v, IF k < p THEN k + (w - p) ELSE k - p)
        /\ t.CF <=> BitOf(t.result, 0) = 1
        /\ t.OF = (IsNegative(t.result, w) # t.CF)
    BY LeftTurnBits
  <2>2. s = t /\ R = t.result
    BY <1>2
  <2> HIDE DEF s, R, t, p
  <2> QED
    BY <2>1, <2>2
<1>4. \A j \in 0 .. w - 1 : (j + n) % w = IF j + p < w THEN j + p ELSE j + p - w
  BY <1>1, Around
<1> HIDE DEF s, R, p
<1>5. before = {k \in 0 .. w - 1 : BitOf(v, k) = 1} /\ after = {k \in 0 .. w - 1 : BitOf(R, k) = 1}
  BY <1>3, InBits
<1>6. moved = {(k + n) % w : k \in before} /\ Signs(op, before, n, w) = {}
      /\ (LastOut(op, before, after, n, w) <=> 0 \in after)
  BY DEF MovedTo, Moved, Signs, LastOut
<1>7. IsNegative(R, w) = (w - 1 \in after)
  BY <1>3, FlagsOfBits
<1> HIDE DEF before, after, moved
<1>8. \A k \in 0 .. w - 1 : k \in after <=> k \in moved
  <2> SUFFICES ASSUME NEW k \in 0 .. w - 1
               PROVE  k \in after <=> k \in moved
    OBVIOUS
  <2> DEFINE o == IF k < p THEN k + (w - p) ELSE k - p
  <2>1. o \in 0 .. w - 1 /\ (o + p < w => o + p = k) /\ (~(o + p < w) => o + p - w = k)
    BY <1>1, <1>3
  <2>2. \A j \in 0 .. w - 1 : (j + n) % w = k => j = o
    BY <1>1, <1>3, <1>4
  <2>3. k \in after <=> BitOf(v, o) = 1
    BY <1>3, <1>5
  <2> HIDE DEF o
  <2>4. k \in after <=> o \in before
    BY <1>5, <2>1, <2>3
  <2>5. (o + n) % w = k
    BY <1>4, <2>1
  <2>6. o \in before => k \in moved
    BY <1>6, <2>5
  <2>7. k \in moved => o \in before
    <3>1. ASSUME NEW j \in before, (j + n) % w = k
          PROVE  j = o
      <4>1. j \in 0 .. w - 1
        BY <1>5
      <4> QED
        BY <2>2, <3>1, <4>1
    <3> QED
      BY <1>6, <3>1
  <2> QED
    BY <2>4, <2>6, <2>7
<1>9. s.CF <=> 0 \in after
  BY <1>1, <1>3, <1>5
<1>10. ASSUME n = 1
       PROVE  s.OF <=> ((w - 1 \in before) # (w - 1 \in after))
  <2>1. p = 1
    <3>1. n \in 0 .. w - 1
      BY <1>1, <1>10
    <3>2. n % w = n
      BY <1>1, <3>1, SmallQuotient
    <3> QED
      BY <1>10, <3>2 DEF p
  <2>2. BitOf(R, 0) = BitOf(v, w - 1)
    <3>1. BitOf(R, 0) = BitOf(v, IF 0 < p THEN 0 + (w - p) ELSE 0 - p)
      BY <1>1, <1>3
    <3>2. (IF 0 < p THEN 0 + (w - p) ELSE 0 - p) = w - 1
      BY <1>1, <2>1
    <3> QED
      BY <3>1, <3>2
  <2>3. s.CF <=> w - 1 \in before
    BY <1>1, <1>3, <1>5, <2>2
  <2>4. s.OF = ((w - 1 \in after) # s.CF)
    BY <1>3, <1>7, Zenon
  <2>5. s.CF = (w - 1 \in before)
    BY <1>0, <2>3, SameTruth
  <2>6. s.OF = ((w - 1 \in after) # (w - 1 \in before))
    BY <2>4, <2>5, Zenon
  <2> QED
    BY <2>6, Zenon
<1>11. after \subseteq 0 .. w - 1
  BY <1>5
<1>12. after = (moved \cap 0 .. w - 1) \cup Signs(op, before, n, w)
  BY <1>6, <1>8, <1>11
<1> QED
  BY <1>3, <1>6, <1>9, <1>10, <1>12 DEF MovesBits, before, after, R, s, moved

LEMMA TurnsRight ==
  ASSUME SignsAreBits, NEW w \in Widths, NEW v \in Values(w), NEW n \in Nat \ {0}
  PROVE  MovesBits("ROR", v, n, w)
<1> DEFINE op == "ROR"  p == n % w
           s == Shift(op, v, n, w)  R == s.result  before == Bits(v)  after == Bits(R)
           moved == MovedTo(op, before, n, w)
<1>1. w \in Nat \ {0} /\ w > 1 /\ w - 2 \in 0 .. w - 1 /\ w - 1 \in 0 .. w - 1
  BY WidthsInBits
<1>2. s = RotateRight(v, n, w)
  BY DEF Shift
<1>3. /\ R \in Values(w) /\ p \in 0 .. w - 1
      /\ \A k \in 0 .. w - 1 : BitOf(R, k) = BitOf(v, IF k < w - p THEN k + p ELSE k - (w - p))
      /\ s.CF <=> BitOf(R, w - 1) = 1
      /\ s.OF <=> BitOf(R, w - 1) # BitOf(R, w - 2)
  <2> DEFINE t == RotateRight(v, n, w)
  <2>1. /\ t.result \in Values(w) /\ p \in 0 .. w - 1
        /\ \A k \in 0 .. w - 1 :
             BitOf(t.result, k) = BitOf(v, IF k < w - p THEN k + p ELSE k - (w - p))
        /\ t.CF <=> BitOf(t.result, w - 1) = 1
        /\ t.OF <=> BitOf(t.result, w - 1) # BitOf(t.result, w - 2)
    BY RightTurnBits
  <2>2. s = t /\ R = t.result
    BY <1>2
  <2> HIDE DEF s, R, t, p
  <2> QED
    BY <2>1, <2>2
<1>4. \A j \in 0 .. w - 1 : (j - n) % w = IF j >= p THEN j - p ELSE j - p + w
  BY <1>1, Around
<1> HIDE DEF s, R, p
<1>5. before = {k \in 0 .. w - 1 : BitOf(v, k) = 1} /\ after = {k \in 0 .. w - 1 : BitOf(R, k) = 1}
  BY <1>3, InBits
<1>6. moved = {(k - n) % w : k \in before} /\ Signs(op, before, n, w) = {}
      /\ (LastOut(op, before, after, n, w) <=> w - 1 \in after)
  BY DEF MovedTo, Moved, Signs, LastOut
<1> HIDE DEF before, after, moved
<1>8. \A k \in 0 .. w - 1 : k \in after <=> k \in moved
  <2> SUFFICES ASSUME NEW k \in 0 .. w - 1
               PROVE  k \in after <=> k \in moved
    OBVIOUS
  <2> DEFINE o == IF k < w - p THEN k + p ELSE k - (w - p)
  <2>1. o \in 0 .. w - 1 /\ (o >= p => o - p = k) /\ (~(o >= p) => o - p + w = k)
    BY <1>1, <1>3
  <2>2. \A j \in 0 .. w - 1 : (j - n) % w = k => j = o
    BY <1>1, <1>3, <1>4
  <2>3. k \in after <=> BitOf(v, o) = 1
    BY <1>3, <1>5
  <2> HIDE DEF o
  <2>4. k \in after <=> o \in before
    BY <1>5, <2>1, <2>3
  <2>5. (o - n) % w = k
    BY <1>4, <2>1
  <2>6. o \in before => k \in moved
    BY <1>6, <2>5
  <2>7. k \in moved => o \in before
    <3>1. ASSUME NEW j \in before, (j - n) % w = k
          PROVE  j = o
      <4>1. j \in 0 .. w - 1
        BY <1>5
      <4> QED
        BY <2>2, <3>1, <4>1
    <3> QED
      BY <1>6, <3>1
  <2> QED
    BY <2>4, <2>6, <2>7
<1>9. s.CF <=> w - 1 \in after
  BY <1>1, <1>3, <1>5
<1>10. ASSUME n = 1
       PROVE  s.OF <=> ((w - 1 \in before) # (w - 1 \in after))
  <2>1. p = 1
    <3>1. n \in 0 .. w - 1
      BY <1>1, <1>10
    <3>2. n % w = n
      BY <1>1, <3>1, SmallQuotient
    <3> QED
      BY <1>10, <3>2 DEF p
  <2>2. BitOf(R, w - 2) = BitOf(v, w - 1)
    <3>1. BitOf(R, w - 2) = BitOf(v, IF w - 2 < w - p THEN (w - 2) + p ELSE (w - 2) - (w - p))
      BY <1>1, <1>3
    <3>2. (IF w - 2 < w - p THEN (w - 2) + p ELSE (w - 2) - (w - p)) = w - 1
      BY <1>1, <2>1
    <3> QED
      BY <3>1, <3>2
  <2>3. BitOf(R, w - 1) \in 0 .. 1 /\ BitOf(v, w - 1) \in 0 .. 1
    <3>1. R \in Int /\ v \in Int /\ w - 1 \in Nat
      BY <1>1, <1>3, LowOfValue
    <3> QED
      BY <3>1, BitIsBit
  <2>4. /\ w - 1 \in before <=> BitOf(v, w - 1) = 1
        /\ w - 1 \in after <=> BitOf(R, w - 1) = 1
    BY <1>1, <1>5
  <2>5. s.OF <=> BitOf(R, w - 1) # BitOf(v, w - 1)
    BY <1>3, <2>2
  <2>6. (BitOf(R, w - 1) # BitOf(v, w - 1)) <=> ((w - 1 \in before) # (w - 1 \in after))
    <3>1. CASE w - 1 \in before
      BY <2>3, <2>4, <3>1
    <3>2. CASE w - 1 \notin before
      BY <2>3, <2>4, <3>2
    <3> QED
      BY <3>1, <3>2
  <2> QED
    BY <2>5, <2>6
<1>11. after \subseteq 0 .. w - 1
  BY <1>5
<1>12. after = (moved \cap 0 .. w - 1) \cup Signs(op, before, n, w)
  BY <1>6, <1>8, <1>11
<1> QED
  BY <1>3, <1>6, <1>9, <1>10, <1>12 DEF MovesBits, before, after, R, s, moved

LEMMA EveryShiftMoves ==
  ASSUME SignsAreBits, NEW w \in Widths, NEW v \in Values(w), NEW n \in Nat \ {0},
         NEW op \in ShiftOps \cup RotateOps
  PROVE  MovesBits(op, v, n, w)
<1>1. op \in {"SHL", "SAL"} \/ op = "SHR" \/ op = "SAR" \/ op = "ROL" \/ op = "ROR"
  BY DEF ShiftOps, RotateOps
<1>2. op \in {"SHL", "SAL"} => MovesBits(op, v, n, w)
  BY MovesLeft
<1>3. op = "SHR" => MovesBits(op, v, n, w)
  BY MovesRight
<1>4. op = "SAR" => MovesBits(op, v, n, w)
  BY MovesSigned
<1>5. op = "ROL" => MovesBits(op, v, n, w)
  BY TurnsLeft
<1>6. op = "ROR" => MovesBits(op, v, n, w)
  BY TurnsRight
<1> QED
  BY <1>1, <1>2, <1>3, <1>4, <1>5, <1>6

\* The flags a shift leaves, and which of them it leaves undefined.
LEMMA ShiftCpuShows ==
  ASSUME NEW c \in Cpus, NEW op \in ShiftOps \cup RotateOps, NEW shifted, NEW n, NEW w
  PROVE  LET d == ShiftCpu(c, op, shifted, n, w)
         IN  /\ d.origin["CF"] = Valid =>
                  d.flag["CF"] = shifted.CF /\ ~(op \in ShiftOps /\ n >= w)
             /\ d.origin["OF"] = Valid => d.flag["OF"] = shifted.OF /\ n = 1
             /\ op \in ShiftOps => /\ d.flag["ZF"] = (shifted.result = 0)
                                   /\ d.flag["SF"] = IsNegative(shifted.result, w)
<1> DEFINE flags == [CF |-> shifted.CF, OF |-> shifted.OF, ZF |-> shifted.result = 0,
                     SF |-> IsNegative(shifted.result, w)]
           undefined == ShiftUndefines(op, n, w)
           defined == (IF op \in ShiftOps THEN Flags ELSE {"CF", "OF"}) \ undefined
           values == [f \in defined |-> flags[f]]
           d == WriteFlags(c, values)
           e == MarkUndefined(d, undefined, op)
<1>1. ShiftCpu(c, op, shifted, n, w) = e
  BY DEF ShiftCpu
<1>2. /\ flags["CF"] = shifted.CF /\ flags["OF"] = shifted.OF
      /\ flags["ZF"] = (shifted.result = 0) /\ flags["SF"] = IsNegative(shifted.result, w)
  OBVIOUS
<1>3. /\ "CF" \in undefined <=> (op \in ShiftOps /\ n >= w)
      /\ "OF" \in undefined <=> n # 1
      /\ "ZF" \notin undefined /\ "SF" \notin undefined
  BY DEF ShiftUndefines
<1>4. op # Valid
  BY DEF Valid, ShiftOps, RotateOps
<1> HIDE DEF flags, undefined
<1>5. /\ "CF" \notin undefined => "CF" \in defined
      /\ "OF" \notin undefined => "OF" \in defined
      /\ op \in ShiftOps => "ZF" \in defined /\ "SF" \in defined
  BY <1>3 DEF Flags
<1> HIDE DEF defined
<1>6. DOMAIN values = defined /\ \A f \in defined : values[f] = flags[f]
  OBVIOUS
<1> HIDE DEF values
<1>7. \A f \in Flags : f \in defined => d.flag[f] = flags[f]
  BY <1>6 DEF WriteFlags, Cpus
<1>8. d.origin = [f \in Flags |-> IF f \in DOMAIN values THEN Valid ELSE c.origin[f]]
  BY DEF WriteFlags, Cpus
<1>9. e.flag = d.flag /\ e.origin = [f \in Flags |-> IF f \in undefined THEN op ELSE d.origin[f]]
  BY DEF MarkUndefined, WriteFlags, Cpus
<1> HIDE DEF d, e
<1>10. "CF" \in Flags /\ "OF" \in Flags /\ "ZF" \in Flags /\ "SF" \in Flags
  BY DEF Flags
<1>11. /\ e.origin["CF"] = Valid => "CF" \notin undefined
       /\ e.origin["OF"] = Valid => "OF" \notin undefined
  BY <1>4, <1>9, <1>10
<1>12. /\ "CF" \in defined => e.flag["CF"] = flags["CF"]
       /\ "OF" \in defined => e.flag["OF"] = flags["OF"]
       /\ "ZF" \in defined => e.flag["ZF"] = flags["ZF"]
       /\ "SF" \in defined => e.flag["SF"] = flags["SF"]
  BY <1>7, <1>9, <1>10
<1> QED
  BY <1>1, <1>2, <1>3, <1>5, <1>11, <1>12, Zenon

LEMMA ShiftExact ==
  ASSUME SignsAreBits, NEW x, IsMachine(x), NEW i \in Instructions,
         i.op \in ShiftOps \cup RotateOps, ShiftOutcome(i, x).status = "ok"
  PROVE  ShiftIsExact(i, x, ShiftOutcome(i, x).machine)
<1> DEFINE out == ShiftOutcome(i, x)
           y == out.machine
           op == i.op
           w == OperandWidth(i.dst)
           n == EffectiveCount(i, x)
           v == ReadOperand(x, i.dst, w)
           s == Shift(op, v, n, w)
           d == ShiftCpu(x.cpu, op, s, n, w)
           before == Bits(v)
           after == Bits(ReadOperand(y, i.dst, w))
<1>0. IsDestination(i.dst) /\ ShiftCountSupported(i) /\ n \in Nat
  BY ShiftAnswers
<1>1. /\ x.cpu \in Cpus /\ i.dst \in Operands /\ i.src \in Operands /\ w \in Widths
      /\ i.dst.kind # "none"
  BY <1>0, OperandWidths DEF Instructions, IsDestination, IsRegister, IsMemory, IsMachine
<1>2. out = IF n = 0 THEN Done(x)
            ELSE IF ~Readable(x, i.dst) THEN Outcome("memory-error", x)
            ELSE Commit(x, d, i.dst, w, s.result)
  BY <1>0 DEF ShiftOutcome
<1>3. CASE n = 0
  <2>1. y = x
    BY <1>2, <1>3 DEF Done, Outcome
  <2> QED
    BY <1>3, <2>1 DEF ShiftIsExact
<1>4. CASE n # 0
  <2>1. Readable(x, i.dst) /\ out = Commit(x, d, i.dst, w, s.result)
    BY <1>2, <1>4 DEF Outcome
  <2>2. v \in Values(w) /\ v \in Nat /\ n \in Nat \ {0}
    BY <1>0, <1>1, <1>4, <2>1, ReadOperandValue
  <2> DEFINE goal == ShiftIsExact(i, x, y)
  <2>3. goal <=>
          LET moved == MovedTo(op, before, n, w)
              signs == Signs(op, before, n, w)
          IN  /\ after = (moved \cap 0 .. w - 1) \cup signs
              /\ y.cpu.origin["CF"] = Valid => y.cpu.flag["CF"] = LastOut(op, before, after, n, w)
              /\ y.cpu.origin["OF"] = Valid =>
                    y.cpu.flag["OF"] = ((w - 1 \in before) # (w - 1 \in after))
              /\ op \in ShiftOps =>
                    /\ y.cpu.flag["ZF"] = (after = {})
                    /\ y.cpu.flag["SF"] = (w - 1 \in after)
    BY <1>4 DEF ShiftIsExact, MovedTo, Signs, LastOut
  <2> HIDE DEF goal
  <2>4. MovesBits(op, v, n, w)
    BY <1>1, <2>2, EveryShiftMoves
  <2>5. s.CF \in BOOLEAN /\ s.OF \in BOOLEAN /\ s.result \in Values(w)
    BY <1>1, <2>2, <2>4, ShiftedNumber DEF MovesBits
  <2>6. s.result \in Int /\ Low(s.result, w) = s.result
    BY <1>1, <2>5, LowOfValue
  <2>7. /\ before = Bits(v)
        /\ Bits(s.result) = (MovedTo(op, before, n, w) \cap 0 .. w - 1) \cup Signs(op, before, n, w)
        /\ (op \in ShiftOps => n < w) => (s.CF <=> LastOut(op, before, Bits(s.result), n, w))
        /\ n = 1 => (s.OF <=> ((w - 1 \in before) # (w - 1 \in Bits(s.result))))
    BY <2>4 DEF MovesBits
  <2>8. (s.result = 0) = (Bits(s.result) = {}) /\ IsNegative(s.result, w) = (w - 1 \in Bits(s.result))
    BY <1>1, <2>5, FlagsOfBits
  <2> HIDE DEF s
  <2>9. Tracks(x.cpu, d)
    BY <1>1, <2>5, ShiftCpuTracks
  <2>10. /\ d.origin["CF"] = Valid => d.flag["CF"] = s.CF /\ ~(op \in ShiftOps /\ n >= w)
         /\ d.origin["OF"] = Valid => d.flag["OF"] = s.OF /\ n = 1
         /\ op \in ShiftOps => /\ d.flag["ZF"] = (s.result = 0)
                               /\ d.flag["SF"] = IsNegative(s.result, w)
    BY <1>1, ShiftCpuShows
  <2> HIDE DEF d, out
  <2>11. ReadOperand(y, i.dst, w) = s.result /\ y.cpu.flag = d.flag /\ y.cpu.origin = d.origin
    BY <1>0, <1>1, <2>1, <2>6, <2>9, CommitReadBack DEF out
  <2>12. after = Bits(s.result)
    BY <2>11
  <2>13. ~(op \in ShiftOps /\ n >= w) => (op \in ShiftOps => n < w)
    BY <1>1, <2>2, Sizes
  <2> HIDE DEF y, before, after, v, n, w, op
  <2>14. y.cpu.origin["CF"] = Valid => y.cpu.flag["CF"] = LastOut(op, before, after, n, w)
    <3>1. LastOut(op, before, after, n, w) \in BOOLEAN
      <4>1. op \in {"SHL", "SAL"} \/ op \in {"SHR", "SAR"} \/ op = "ROL" \/ op = "ROR"
        BY DEF op, ShiftOps, RotateOps
      <4>2. CASE op \in {"SHL", "SAL"}
        <5>1. LastOut(op, before, after, n, w) = (w - n \in before)
          BY <4>2 DEF LastOut
        <5> QED
          BY <5>1
      <4>3. CASE op \in {"SHR", "SAR"}
        <5>1. LastOut(op, before, after, n, w) = (n - 1 \in before)
          BY <4>3 DEF LastOut
        <5> QED
          BY <5>1
      <4>4. CASE op = "ROL"
        <5>1. LastOut(op, before, after, n, w) = (0 \in after)
          BY <4>4 DEF LastOut
        <5> QED
          BY <5>1
      <4>5. CASE op = "ROR"
        <5>1. LastOut(op, before, after, n, w) = (w - 1 \in after)
          BY <4>5 DEF LastOut
        <5> QED
          BY <5>1
      <4> QED
        BY <4>1, <4>2, <4>3, <4>4, <4>5
    <3>2. y.cpu.origin["CF"] = Valid => (s.CF <=> LastOut(op, before, after, n, w))
      BY <2>7, <2>10, <2>11, <2>12, <2>13
    <3>3. y.cpu.origin["CF"] = Valid => y.cpu.flag["CF"] = s.CF
      BY <2>10, <2>11
    <3> HIDE DEF LastOut
    <3> QED
      BY <2>5, <3>1, <3>2, <3>3, SameTruth
  <2>15. y.cpu.origin["OF"] = Valid =>
           y.cpu.flag["OF"] = ((w - 1 \in before) # (w - 1 \in after))
    <3>1. y.cpu.origin["OF"] = Valid => y.cpu.flag["OF"] = s.OF /\ n = 1
      BY <2>10, <2>11
    <3>2. n = 1 => (s.OF <=> ((w - 1 \in before) # (w - 1 \in after)))
      BY <2>7, <2>12
    <3> QED
      BY <2>5, <3>1, <3>2
  <2>16. op \in ShiftOps => y.cpu.flag["ZF"] = (after = {}) /\ y.cpu.flag["SF"] = (w - 1 \in after)
    BY <2>8, <2>10, <2>11, <2>12
  <2>17. goal
    BY <2>3, <2>7, <2>12, <2>14, <2>15, <2>16
  <2> QED
    BY <2>17 DEF goal, y, out
<1> QED
  BY <1>3, <1>4

-----------------------------------------------------------------------------
(* Every instruction, again. *)

Plain(o) == o.status \in {"ok", "memory-error", "unsupported-operand"}

LEMMA PlainRefusals ==
  ASSUME NEW x
  PROVE  /\ Plain(Done(x)) /\ Plain(Outcome("memory-error", x))
         /\ Plain(Outcome("unsupported-operand", x))
BY DEF Plain, Done, Outcome

LEMMA PlainWrites ==
  ASSUME NEW x, NEW o, NEW w, NEW value, NEW c
  PROVE  Plain(WriteOperand(x, o, w, value)) /\ Plain(Commit(x, c, o, w, value))
<1>1. \A y : Plain(WriteOperand(y, o, w, value))
  BY PlainRefusals DEF WriteOperand
<1> DEFINE written == WriteOperand([x EXCEPT !.cpu = c], o, w, value)
<1>2. Commit(x, c, o, w, value) = IF written.status = "ok" THEN written ELSE Outcome(written.status, x)
  BY DEF Commit
<1>3. Plain(written)
  BY <1>1
<1> HIDE DEF written
<1>4. Plain(Commit(x, c, o, w, value))
  BY <1>2, <1>3 DEF Plain, Outcome
<1> QED
  BY <1>1, <1>4

\* Only a division is refused for its numbers.
LEMMA PlainHandlers ==
  ASSUME NEW x, NEW i \in Instructions
  PROVE  /\ i.op \in BinaryOps => Plain(BinaryOutcome(i, x))
         /\ i.op \in UnaryOps => Plain(UnaryOutcome(i, x))
         /\ Plain(ShiftOutcome(i, x)) /\ Plain(MovxOutcome(i, x)) /\ Plain(XchgOutcome(i, x))
         /\ Plain(ImplicitOutcome(i, x)) /\ Plain(LeaOutcome(i, x))
         /\ Plain(ExplicitImulOutcome(i, x))
         /\ i.op \in {"MUL", "IMUL"} => Plain(AccumulatorOutcome(i, x))
<1>0. /\ \A y : /\ Plain(Done(y)) /\ Plain(Outcome("memory-error", y))
                /\ Plain(Outcome("unsupported-operand", y))
      /\ \A y, c, o, w, value : Plain(WriteOperand(y, o, w, value)) /\ Plain(Commit(y, c, o, w, value))
  BY PlainRefusals, PlainWrites
<1>1. i.op \in BinaryOps => Plain(BinaryOutcome(i, x))
  BY <1>0 DEF BinaryOutcome
<1>2. i.op \in UnaryOps => Plain(UnaryOutcome(i, x))
  BY <1>0 DEF UnaryOutcome, UnaryOps
<1>3. Plain(ShiftOutcome(i, x))
  BY <1>0 DEF ShiftOutcome
<1>4. Plain(MovxOutcome(i, x))
  BY <1>0 DEF MovxOutcome
<1>5. Plain(XchgOutcome(i, x))
  BY <1>0 DEF XchgOutcome
<1>6. Plain(ImplicitOutcome(i, x))
  BY <1>0 DEF ImplicitOutcome
<1>7. Plain(LeaOutcome(i, x))
  BY <1>0 DEF LeaOutcome
<1>8. Plain(ExplicitImulOutcome(i, x))
  BY <1>0 DEF ExplicitImulOutcome
<1>9. i.op \in {"MUL", "IMUL"} => Plain(AccumulatorOutcome(i, x))
  BY <1>0 DEF AccumulatorOutcome, MultiplyOutcome
<1> QED
  BY <1>1, <1>2, <1>3, <1>4, <1>5, <1>6, <1>7, <1>8, <1>9

\* What ResultIsExact asks, by the kind of instruction.
LEMMA ExactByKind ==
  ASSUME NEW x, NEW y, NEW i \in Instructions
  PROVE  /\ i.op \in Arithmetic => ResultIsExact(i, x, y) = ArithmeticIsExact(i, x, y)
         /\ i.op \in ShiftOps \cup RotateOps => ResultIsExact(i, x, y) = ShiftIsExact(i, x, y)
         /\ i.op \in {"MUL", "IMUL"} /\ i.dst.kind = "none" =>
              ResultIsExact(i, x, y) = MultiplyIsExact(i, x, y)
         /\ i.op = "IMUL-IMMEDIATE" \/ (i.op = "IMUL" /\ i.dst.kind # "none") =>
              ResultIsExact(i, x, y) = ExplicitImulIsExact(i, x, y)
         /\ i.op \in {"DIV", "IDIV"} => ResultIsExact(i, x, y) = DivideIsExact(i, x, y)
         /\ i.op \notin Arithmetic \cup ShiftOps \cup RotateOps
                \cup {"MUL", "IMUL", "IMUL-IMMEDIATE", "DIV", "IDIV"} => ResultIsExact(i, x, y) = TRUE
<1> USE DEF Arithmetic, ShiftOps, RotateOps
<1>1. i.op \in Arithmetic => ResultIsExact(i, x, y) = ArithmeticIsExact(i, x, y)
  BY DEF ResultIsExact
<1>2. i.op \in ShiftOps \cup RotateOps => ResultIsExact(i, x, y) = ShiftIsExact(i, x, y)
  BY DEF ResultIsExact
<1>3. i.op \in {"MUL", "IMUL"} /\ i.dst.kind = "none" =>
        ResultIsExact(i, x, y) = MultiplyIsExact(i, x, y)
  BY DEF ResultIsExact
<1>4. i.op = "IMUL-IMMEDIATE" \/ (i.op = "IMUL" /\ i.dst.kind # "none") =>
        ResultIsExact(i, x, y) = ExplicitImulIsExact(i, x, y)
  BY DEF ResultIsExact
<1>5. i.op \in {"DIV", "IDIV"} => ResultIsExact(i, x, y) = DivideIsExact(i, x, y)
  BY DEF ResultIsExact
<1>6. i.op \notin Arithmetic \cup ShiftOps \cup RotateOps
          \cup {"MUL", "IMUL", "IMUL-IMMEDIATE", "DIV", "IDIV"} => ResultIsExact(i, x, y) = TRUE
  BY DEF ResultIsExact
<1> QED
  BY <1>1, <1>2, <1>3, <1>4, <1>5, <1>6

LEMMA InstructionExact ==
  ASSUME SignsAreBits, NEW x, IsMachine(x), NEW i \in Instructions
  PROVE  LET out == InstructionOutcome(i, x) IN
         /\ out.status = "ok" => ResultIsExact(i, x, out.machine)
         /\ out.status \in {"divide-by-zero", "quotient-overflow"} => NoQuotientFits(i, x)
<1> DEFINE out == InstructionOutcome(i, x)
           goal == /\ out.status = "ok" => ResultIsExact(i, x, out.machine)
                   /\ out.status \in {"divide-by-zero", "quotient-overflow"} => NoQuotientFits(i, x)
<1>0. Plain(out) => ~(out.status \in {"divide-by-zero", "quotient-overflow"})
  BY DEF Plain
<1>1. ASSUME i.op \in BinaryOps, out = BinaryOutcome(i, x)
      PROVE  goal
  <2>1. Plain(out)
    BY <1>1, PlainHandlers
  <2>2. CASE i.op \in {"ADD", "SUB", "CMP", "ADC", "SBB"}
    <3>1. i.op \in Arithmetic
      BY <2>2 DEF Arithmetic
    <3> HIDE DEF out
    <3>2. out.status = "ok" => ArithmeticIsExact(i, x, out.machine)
      BY <1>1, <2>2, BinaryExact
    <3> QED
      BY <1>0, <2>1, <3>1, <3>2, ExactByKind
  <2>3. CASE i.op \notin {"ADD", "SUB", "CMP", "ADC", "SBB"}
    <3>1. i.op \notin Arithmetic \cup ShiftOps \cup RotateOps
              \cup {"MUL", "IMUL", "IMUL-IMMEDIATE", "DIV", "IDIV"}
      BY <1>1, <2>3 DEF Arithmetic, ShiftOps, RotateOps, BinaryOps, LogicalOps
    <3> HIDE DEF out
    <3> QED
      BY <1>0, <2>1, <3>1, ExactByKind
  <2> QED
    BY <2>2, <2>3
<1>2. ASSUME i.op \in UnaryOps, out = UnaryOutcome(i, x)
      PROVE  goal
  <2>1. Plain(out)
    BY <1>2, PlainHandlers
  <2>2. CASE i.op \in {"NEG", "INC", "DEC"}
    <3>1. i.op \in Arithmetic
      BY <2>2 DEF Arithmetic
    <3> HIDE DEF out
    <3>2. out.status = "ok" => ArithmeticIsExact(i, x, out.machine)
      BY <1>2, <2>2, UnaryExact
    <3> QED
      BY <1>0, <2>1, <3>1, <3>2, ExactByKind
  <2>3. CASE i.op \notin {"NEG", "INC", "DEC"}
    <3>1. i.op \notin Arithmetic \cup ShiftOps \cup RotateOps
              \cup {"MUL", "IMUL", "IMUL-IMMEDIATE", "DIV", "IDIV"}
      BY <1>2, <2>3 DEF Arithmetic, ShiftOps, RotateOps, UnaryOps
    <3> HIDE DEF out
    <3> QED
      BY <1>0, <2>1, <3>1, ExactByKind
  <2> QED
    BY <2>2, <2>3
<1>3. ASSUME i.op \in ShiftOps \cup RotateOps, out = ShiftOutcome(i, x)
      PROVE  goal
  <2> HIDE DEF out
  <2>1. Plain(out)
    BY <1>3, PlainHandlers
  <2>2. out.status = "ok" => ShiftIsExact(i, x, out.machine)
    BY <1>3, ShiftExact
  <2> QED
    BY <1>0, <1>3, <2>1, <2>2, ExactByKind
<1>4. ASSUME i.op \in {"MOVSX", "MOVZX", "XCHG", "LEA"} \cup ImplicitOps, Plain(out)
      PROVE  goal
  <2>1. i.op \notin Arithmetic \cup ShiftOps \cup RotateOps
            \cup {"MUL", "IMUL", "IMUL-IMMEDIATE", "DIV", "IDIV"}
    BY <1>4 DEF Arithmetic, ShiftOps, RotateOps, ImplicitOps
  <2> HIDE DEF out
  <2> QED
    BY <1>0, <1>4, <2>1, ExactByKind
<1>5. ASSUME i.op = "IMUL-IMMEDIATE" \/ (i.op = "IMUL" /\ i.dst.kind # "none"),
             out = ExplicitImulOutcome(i, x)
      PROVE  goal
  <2> HIDE DEF out
  <2>1. Plain(out)
    BY <1>5, PlainHandlers
  <2>2. out.status = "ok" => ExplicitImulIsExact(i, x, out.machine)
    BY <1>5, ExplicitImulExact
  <2> QED
    BY <1>0, <1>5, <2>1, <2>2, ExactByKind
<1>6. ASSUME i.op \in AccumulatorOps, ~(i.op = "IMUL" /\ i.dst.kind # "none"),
             out = AccumulatorOutcome(i, x)
      PROVE  goal
  <2> HIDE DEF out
  <2>1. CASE i.op \in {"MUL", "IMUL"}
    <3>1. Plain(out)
      BY <1>6, <2>1, PlainHandlers
    <3>2. out.status = "ok" => i.dst.kind = "none"
      BY <1>6, AccumulatorRuns
    <3>3. out.status = "ok" => MultiplyIsExact(i, x, out.machine)
      BY <1>6, <2>1, MultiplyExact
    <3> QED
      BY <1>0, <2>1, <3>1, <3>2, <3>3, ExactByKind
  <2>2. CASE i.op \in {"DIV", "IDIV"}
    <3>1. /\ out.status = "ok" => DivideIsExact(i, x, out.machine)
          /\ out.status \in {"divide-by-zero", "quotient-overflow"} => NoQuotientFits(i, x)
      BY <1>6, <2>2, DivideExact
    <3> QED
      BY <2>2, <3>1, ExactByKind
  <2> QED
    BY <1>6, <2>1, <2>2 DEF AccumulatorOps
<1>7. /\ i.op \in {"MOVSX", "MOVZX"} /\ out = MovxOutcome(i, x) => Plain(out)
      /\ i.op \in ImplicitOps /\ out = ImplicitOutcome(i, x) => Plain(out)
      /\ i.op = "XCHG" /\ out = XchgOutcome(i, x) => Plain(out)
      /\ i.op = "LEA" /\ out = LeaOutcome(i, x) => Plain(out)
  <2> HIDE DEF out
  <2> QED
    BY PlainHandlers
<1> HIDE DEF goal, out
<1>8. goal
  BY <1>1, <1>2, <1>3, <1>4, <1>5, <1>6, <1>7, Dispatch DEF out
<1> QED
  BY <1>8 DEF goal, out

\* Where the sign of a number of w bits is its bit w - 1, as it is in the code, an
\* instruction that succeeds leaves the numbers, the bits and the valid flags it is defined
\* to leave; one that is refused leaves CPU and memory as they were; and a division is
\* refused for its numbers only when no quotient fits (the handlers of vm_exec.c and the
\* flag helpers of vm_cpu.c, at every width).
THEOREM ResultsExact ==
  ASSUME \A w \in Widths : SignBit[w] = 2^(w - 1)
  PROVE  Spec => ResultsAreExact
<1> DEFINE Exactly ==
      steps' # steps =>
        /\ last'.status = "ok" => ResultIsExact(last'.instruction, machine, machine')
        /\ last'.status # "ok" => machine' = machine
        /\ last'.status \in {"divide-by-zero", "quotient-overflow"} =>
               NoQuotientFits(last'.instruction, machine)
<1>1. ASSUME MachineInv, [Next]_vars, steps' # steps
      PROVE  Exactly
  <2>1. Step
    BY <1>1 DEF Next, Finished, vars
  <2>2. PICK i \in Instructions :
           /\ last'.instruction = i
           /\ \/ last'.status # "ok" /\ machine' = machine /\ Refuse(i)
              \/ Execute(i)
    BY <1>1, <2>1, StepTaken
  <2>3. CASE last'.status # "ok" /\ machine' = machine /\ Refuse(i)
    <3>1. last'.status \in {"undefined-shift", "undefined-flag-use"}
      BY <2>3 DEF Refuse, Verdict
    <3> QED
      BY <2>3, <3>1
  <2>4. CASE Execute(i)
    <3> DEFINE out == InstructionOutcome(i, machine)
    <3>1. machine' = out.machine /\ last'.status = out.status
      BY <2>4 DEF Execute
    <3>2. IsMachine(machine) /\ SignsAreBits
      BY <1>1 DEF MachineInv, SignsAreBits
    <3>3. out.status # "ok" => out.machine = machine
      BY <3>2, InstructionAnswers DEF Answers
    <3>4. /\ out.status = "ok" => ResultIsExact(i, machine, out.machine)
          /\ out.status \in {"divide-by-zero", "quotient-overflow"} => NoQuotientFits(i, machine)
      BY <3>2, InstructionExact
    <3> HIDE DEF out
    <3> QED
      BY <2>2, <3>1, <3>3, <3>4
  <2> QED
    BY <2>2, <2>3, <2>4
<1>2. MachineInv /\ [Next]_vars => [Exactly]_vars
  BY <1>1
<1>3. ResultsAreExact <=> [][Exactly]_vars
  BY DEF ResultsAreExact
<1> QED
  BY <1>2, <1>3, MachineAtStart, MachineSteps, PTL DEF Spec
=============================================================================
