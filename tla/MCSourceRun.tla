---------------------------- MODULE MCSourceRun -----------------------------
(* Variables of one and two bytes with a gap between them, one or two LOCALs, nibbles for     *)
(* bytes and two of them for a DWORD.                                                         *)
EXTENDS SourceRun

MCFixedBase == <<1, 8, 16, 24>>
MCFixedSize == <<2, 8, 4, 4, 14>>
MCRandom    == <<0, 63>>
MCMix       == [s \in Word |-> s]

\* Regions of other sizes, elsewhere.
Drawn == [DefaultPolicy EXCEPT !.mode = "seeded",
            !.regions[Code] = [@ EXCEPT !.base = 2, !.limit = 4],
            !.regions[Data] = [@ EXCEPT !.base = 5, !.limit = 11],
            !.regions[Const] = [@ EXCEPT !.base = 18, !.limit = 22],
            !.regions[Heap] = [@ EXCEPT !.base = 26, !.limit = 28],
            !.regions[StackRegion] = [@ EXCEPT !.base = 41, !.limit = 55]]
MCLayouts == {DefaultPolicy, Drawn}

Sym(k, a, n) == [region |-> k, address |-> a, size |-> n]
MCSources == {[symbols |-> <<Sym(Data, 8, 1), Sym(Data, 10, 2), Sym(Const, 16, 2)>>,
               image |-> [k \in {Data, Const} |-> IF k = Data THEN 4 ELSE 2],
               initialized |-> {<<8, Data>>, <<9, Data>>, <<16, Const>>, <<17, Const>>}]}

Set(c, i, o, u) == [capacity |-> c, image |-> i, objects |-> o, uninit |-> u]
MCSettings == {Set(Off, Off, Off, Off), Set(Off, Warn, Warn, Warn), Set(Off, Off, Strict, Warn),
               Set(Off, Strict, Off, Off), Set(Strict, Warn, Warn, Strict), Set(Warn, Off, Off, Warn)}

Local(n) == [alignment |-> n, size |-> n]
MCEntryLocals  == {<<>>, <<Local(1), Local(2)>>}
MCHelperLocals == {<<>>, <<Local(2)>>}

None == [kind |-> "none", address |-> 0, disp |-> 0]
At(a, k) == [kind |-> "address", address |-> a, disp |-> k]
InLocal(l, d) == [kind |-> "local", address |-> l, disp |-> d]
I(op, dst, src, n, v) == [op |-> op, dst |-> dst, src |-> src, width |-> n, value |-> v]

V == At(8, Data)
W == At(10, Data)
C == At(16, Const)

MCInstructions ==
  {I("mov", V, None, 1, 5), I("mov", W, None, 2, 20), I("mov", None, W, 2, 0),
   I("mov", At(9, Data), None, 2, 9), I("mov", None, At(12, Data), 1, 0), I("mov", C, None, 1, 1),
   I("mov", None, At(17, Const), 2, 0), I("mov", At(24, 0), None, 1, 3), I("mov", None, At(1, 0), 1, 0),
   I("update", W, None, 2, 3), I("compare", V, None, 1, 0), I("xchg", W, None, 1, 2),
   I("mov", InLocal(-4, -4), None, 2, 6), I("mov", None, InLocal(-4, -4), 2, 0),
   I("mov", InLocal(-2, -1), None, 2, 6), I("mov", None, InLocal(-2, -2), 2, 0),
   I("update", InLocal(-2, -2), None, 1, 4),
   I("mov", InLocal(-1, -1), None, 1, 2), I("mov", None, InLocal(-1, -1), 2, 0),
   I("mov", TopOfStack(1), None, 1, 8), I("mov", TopOfStack(3), None, 2, 8), I("adjust", None, None, 2, 6),
   I("push", None, None, 2, 7), I("push", None, W, 2, 1), I("pop", None, None, 2, 0), I("pop", W, None, 2, 0),
   I("adjust", None, None, 2, -12), I("adjust", None, None, 2, 2),
   I("adjust", None, None, 2, 26), I("adjust", None, None, 2, 15), I("mov", None, TopOfStack(0), 2, 0),
   I("mov", None, InLocal(-4, -1), 1, 0), I("mov", None, TopOfStack(32), 1, 0),
   I("capture", None, W, 2, 0), I("capture", None, At(11, Data), 2, 0), I("invoke", None, None, 2, 3),
   I("call", None, None, 2, 0), I("ret", None, None, 2, 0), I("ret", None, None, 2, 2)}

=============================================================================
