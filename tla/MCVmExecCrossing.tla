-------------------------- MODULE MCVmExecCrossing --------------------------
(***************************************************************************)
(* Procedures that end without a RET, and jumps and calls between them.    *)
(***************************************************************************)
EXTENDS VmExec, Programs

MCStart == {StartAt(StackLimit)}

CrossMain == {nop, call(2), jmp(2, 0), jmp(1, 0), jcc(1, 0), jcc(2, 1), push(imm(TokenBase + 2))}
CrossWork == {nop, ret(0), jmp(1, 0), jcc(1, 1), jmp(3, 0)}

CrossingSources ==
  {<<Main(0, main), Proc(<<>>, 0, work), Proc(<<>>, n, last)>> :
     main \in Straights(CrossMain, 2), work \in Straights(CrossWork, 1), n \in {0, 1},
     last \in {<<>>, <<nop>>, <<ret(0)>>}}

CrossingImages   == Lowered(CrossingSources)
CrossingSettings ==
  SettingsOver({"compatible"}, {"warn", "error"}, {"code-stream", "stop"}, {2})

=============================================================================
