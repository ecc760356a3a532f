------------------------------ MODULE MCVmAlu ------------------------------
(* VmAlu with bytes of four bits, words of eight and doublewords of twelve; *)
(* every instruction on operands around zero and around each sign bit,      *)
(* after an instruction that prepares flags or the upper register.          *)
EXTENDS VmAlu, TLC

MCByte == 4
MCWord == 8
MCDword == 12
MCSignBit == [w \in {4, 8, 12} |-> 2^(w - 1)]
MCNoBase == "none"

\* A cell that can be written, one that cannot; every other address is unmapped.
DataCell == 16
ConstCell == 32
MCWritable == {DataCell}

\* EAX and ECX at the start, and what every flag holds.
StartPairs ==
    {<<0, 0, TRUE>>, <<0, 1, FALSE>>, <<0, 4095, TRUE>>, <<1, 13, FALSE>>, <<127, 8, TRUE>>,
     <<128, 2048, FALSE>>, <<2048, 0, FALSE>>, <<2048, 4095, TRUE>>, <<4095, 1, FALSE>>,
     <<4095, 8, TRUE>>}

MCStarts ==
    {[cpu |-> StartupCpu([EAX |-> s[1], EBX |-> DataCell - 4, ECX |-> s[2], EDX |-> 1,
                          ESI |-> s[1], EDI |-> ConstCell, EBP |-> 0, ESP |-> 0],
                         [f \in Flags |-> s[3]]),
      mem |-> (DataCell :> s[2] @@ ConstCell :> s[1])] : s \in StartPairs}

MCPolicies == {[use |-> "error", shift |-> "strict"], [use |-> "error", shift |-> "warn"],
               [use |-> "off", shift |-> "warn"]}

Data(w) == Mem("EBX", 4, w)
Const(w) == Mem("EDI", 0, w)
Unmapped == Mem(MCNoBase, 48, Word)

Prepare ==
    {Instruction("SHL", Reg("EAX"), Imm(2)), Instruction("SAR", Reg("AL"), Reg("CL")),
     Instruction("ROR", Reg("AX"), Imm(3)), Instruction("CDQ", NoOperand, NoOperand),
     Instruction("CWD", NoOperand, NoOperand), Instruction("STC", NoOperand, NoOperand),
     Instruction("CMP", Reg("EAX"), Reg("ECX")), Instruction("SUB", Data(Word), Reg("AX"))}

Pairs == {<<Reg("EAX"), Reg("ECX")>>, <<Reg("AH"), Reg("CL")>>, <<Reg("DX"), Data(Word)>>,
          <<Data(Byte), Imm(9)>>, <<Const(Dword), Reg("EAX")>>}

Single == {Reg("EAX"), Reg("AH"), Data(Word), Const(Dword), Unmapped}

MCMenu(n) ==
    IF n = 0 THEN Prepare
    ELSE {Instruction(op, p[1], p[2]) : op \in BinaryOps, p \in Pairs} \cup
         {Instruction("XCHG", p[1], p[2]) :
            p \in Pairs \cup {<<Reg("EAX"), Const(Dword)>>, <<Reg("AL"), Reg("AH")>>}} \cup
         {Instruction(op, o, NoOperand) : op \in UnaryOps, o \in Single} \cup
         {Instruction(op, o, n2) : op \in ShiftOps \cup RotateOps,
                                   o \in {Reg("EAX"), Reg("AL"), Data(Word), Const(Dword)},
                                   n2 \in {Imm(0), Imm(1), Imm(5), Imm(12), Reg("CL"), Reg("DL")}} \cup
         {Instruction(op, NoOperand, o) : op \in AccumulatorOps, o \in {Reg("ECX"), Reg("CL"), Data(Word), Unmapped}} \cup
         {Instruction("IMUL", Reg("EAX"), Reg("ECX")), Instruction("IMUL", Reg("AX"), Data(Word)),
          [Instruction("IMUL-IMMEDIATE", Reg("AX"), Reg("CX")) EXCEPT !.factor = -3]} \cup
         {Instruction(op, NoOperand, NoOperand) : op \in ImplicitOps} \cup
         {Instruction(op, Reg("EDX"), o) : op \in {"MOVSX", "MOVZX"}, o \in {Reg("AH"), Data(Word), Reg("ECX")}} \cup
         {Instruction("LEA", Reg("ESI"), Data(Dword)), Instruction("LEA", Reg("SI"), Data(Dword))}
=============================================================================
