-------------------------- MODULE VmConsole_proofs --------------------------
(***************************************************************************)
(* Invariance of VmConsole for every SIZE_MAX, every set of spans and      *)
(* every configured limit, and of the routines of VmIrvine that print on   *)
(* it: numbers are written right to every base, and WriteString warns      *)
(* about what it prints.                                                   *)
(***************************************************************************)
EXTENDS VmIrvine, Recursion, FiniteSetTheorems

\* OutputWithinLimits and RejectionStaysTrue of a console, and that a console without
\* limits has never rejected anything.
Good(c, last) ==
  /\ c.bytes <= OrDefault(c.maxBytes, DefaultBytes)
  /\ c.lines <= OrDefault(c.maxLines, DefaultLines)
  /\ c.bytes > 0 => c.bytes < c.capacity
  /\ c.exceeded <=> c.kind # "none"
  /\ c.kind = "byte" => c.bytes + last.bytes > c.maxBytes
  /\ c.kind = "line" => c.lines + last.lines > c.maxLines
  /\ c.kind # "none" => c.maxBytes > 0 /\ c.maxLines > 0

Inv == TypeOK /\ Good(console, rejected)

\* A console has a capacity inside SIZE_MAX with room for what was asked.
LEMMA GrownToBounds ==
  ASSUME NEW STATE c, c \in Console, NEW STATE need, need \in 0 .. SizeMax
  PROVE  GrownTo(c, need) \in 0 .. SizeMax /\ GrownTo(c, need) >= need
<1> DEFINE from == IF c.capacity > InitialCapacity THEN c.capacity ELSE InitialCapacity
           doublings == {n \in need .. SizeMax : /\ n = from \/ n < 2 * need
                                                /\ \E k \in 0 .. SizeMax : n = from * 2^k}
<1>1. c.capacity \in 0 .. SizeMax
  BY DEF Console
<1>2. doublings # {} => (CHOOSE n \in doublings : TRUE) \in need .. SizeMax
  OBVIOUS
<1>3. GrownTo(c, need) = IF c.capacity >= need THEN c.capacity
                         ELSE IF doublings = {} THEN need ELSE CHOOSE n \in doublings : TRUE
  BY DEF GrownTo
<1> HIDE DEF doublings, from
<1> QED
  BY <1>1, <1>2, <1>3, ConsoleAssumption

\* vm_console_ensure_default_limits keeps everything but a zero limit.
LEMMA WithLimitsKeeps ==
  ASSUME NEW STATE c, c \in Console
  PROVE  /\ WithLimits(c) \in Console
         /\ WithLimits(c).maxBytes = OrDefault(c.maxBytes, DefaultBytes)
         /\ WithLimits(c).maxLines = OrDefault(c.maxLines, DefaultLines)
         /\ WithLimits(c).maxBytes > 0 /\ WithLimits(c).maxLines > 0
         /\ WithLimits(c).text = c.text /\ WithLimits(c).capacity = c.capacity
         /\ WithLimits(c).bytes = c.bytes /\ WithLimits(c).lines = c.lines
         /\ WithLimits(c).exceeded = c.exceeded /\ WithLimits(c).kind = c.kind
<1>1. /\ OrDefault(c.maxBytes, DefaultBytes) \in 1 .. SizeMax
      /\ OrDefault(c.maxLines, DefaultLines) \in 1 .. SizeMax
  BY ConsoleAssumption DEF OrDefault, Console
<1>2. WithLimits(c) = [c EXCEPT !.maxBytes = OrDefault(c.maxBytes, DefaultBytes),
                                !.maxLines = OrDefault(c.maxLines, DefaultLines)]
  BY DEF WithLimits, Console
<1>3. WithLimits(c) \in Console
  <2>1. /\ OrDefault(c.maxBytes, DefaultBytes) \in 0 .. SizeMax
        /\ OrDefault(c.maxLines, DefaultLines) \in 0 .. SizeMax
    BY <1>1, ConsoleAssumption
  <2> QED
    BY <1>2, <2>1 DEF Console
<1> QED
  BY <1>1, <1>2, <1>3 DEF Console

\* Giving a console its default limits keeps the invariant.
LEMMA WithLimitsInv ==
  ASSUME Inv
  PROVE  /\ WithLimits(console) \in Console /\ Good(WithLimits(console), rejected)
         /\ WithLimits(console).maxBytes > 0 /\ WithLimits(console).maxLines > 0
<1>1. console \in Console
  BY DEF Inv, TypeOK
<1> DEFINE c == WithLimits(console)
<1>2. /\ c.maxBytes = OrDefault(console.maxBytes, DefaultBytes)
      /\ c.maxLines = OrDefault(console.maxLines, DefaultLines)
      /\ c.maxBytes > 0 /\ c.maxLines > 0 /\ c \in Console
      /\ c.capacity = console.capacity /\ c.bytes = console.bytes /\ c.lines = console.lines
      /\ c.exceeded = console.exceeded /\ c.kind = console.kind
  BY <1>1, WithLimitsKeeps
<1> HIDE DEF c
<1>3. /\ console.maxBytes \in Nat /\ console.maxLines \in Nat
      /\ c.maxBytes \in Nat /\ c.maxLines \in Nat
  BY <1>1, <1>2, ConsoleAssumption DEF Console
<1> QED
  BY <1>2, <1>3 DEF Inv, Good, OrDefault, c

\* vm_console_reset and vm_console_init.
LEMMA ClearInv ==
  ASSUME Inv, NEW STATE c, c \in Console, Good(c, rejected), c.maxBytes > 0, c.maxLines > 0, Clear(c)
  PROVE  Inv'
<1>1. CASE Return(c, "out-of-memory") /\ UNCHANGED rejected
  BY <1>1 DEF Inv, TypeOK, Return, Statuses, Good
<1>2. CASE /\ Return([c EXCEPT !.text = <<>>, !.capacity = GrownTo(c, 1), !.bytes = 0, !.lines = 0,
                               !.exceeded = FALSE, !.kind = "none"], "ok")
           /\ rejected' = NoSpan
  <2>1. GrownTo(c, 1) \in 0 .. SizeMax
    BY GrownToBounds, ConsoleAssumption
  <2>2. console' \in Console
    <3>1. 0 \in 0 .. SizeMax /\ <<>> \in Seq(Span) /\ "none" \in Kinds
      BY ConsoleAssumption DEF Kinds
    <3>2. console' = [c EXCEPT !.text = <<>>, !.capacity = GrownTo(c, 1), !.bytes = 0, !.lines = 0,
                               !.exceeded = FALSE, !.kind = "none"]
      BY <1>2 DEF Return
    <3> QED
      BY <2>1, <3>1, <3>2 DEF Console
  <2>3. /\ console'.bytes = 0 /\ console'.lines = 0 /\ console'.kind = "none"
        /\ console'.exceeded = FALSE
    BY <1>2 DEF Return, Console
  <2>4. TypeOK'
    BY <1>2, <2>2, ConsoleAssumption DEF TypeOK, Return, Statuses, NoSpan, Span
  <2>5. /\ OrDefault(console.maxBytes, DefaultBytes)' \in Nat
        /\ OrDefault(console.maxLines, DefaultLines)' \in Nat
    BY <2>2, ConsoleAssumption DEF Console, OrDefault
  <2> QED
    BY <2>3, <2>4, <2>5 DEF Inv, Good
<1> QED
  BY <1>1, <1>2 DEF Clear

\* vm_console_configure_limits.
LEMMA ConfigureInv ==
  ASSUME Inv, NEW l \in Limits, ConfigureLimits(l[1], l[2])
  PROVE  Inv'
<1>1. l[1] \in 0 .. SizeMax /\ l[2] \in 0 .. SizeMax /\ console \in Console
  BY ConsoleAssumption DEF Inv, TypeOK
<1>2. CASE Return(console, "invalid-argument") /\ UNCHANGED rejected
  BY <1>2 DEF Inv, TypeOK, Return, Statuses, Good
<1>3. CASE /\ l[1] > 0 /\ l[2] > 0 /\ console.bytes <= l[1] /\ console.lines <= l[2]
           /\ Return([console EXCEPT !.maxBytes = l[1], !.maxLines = l[2],
                                     !.exceeded = FALSE, !.kind = "none"], "ok")
           /\ rejected' = NoSpan
  <2>1. console' \in Console
    BY <1>1, <1>3 DEF Return, Console, Kinds
  <2>2. /\ console'.bytes = console.bytes /\ console'.lines = console.lines
        /\ console'.capacity = console.capacity /\ console'.kind = "none"
        /\ console'.exceeded = FALSE /\ console'.maxBytes = l[1] /\ console'.maxLines = l[2]
    BY <1>1, <1>3 DEF Return, Console
  <2>3. TypeOK'
    BY <1>3, <2>1, ConsoleAssumption DEF TypeOK, Return, Statuses, NoSpan, Span
  <2>4. console'.bytes > 0 => console'.bytes < console'.capacity
    BY <2>2 DEF Inv, Good
  <2>5. console'.maxBytes > 0 /\ console'.maxLines > 0
    BY <1>3, <2>2
  <2> QED
    BY <1>1, <1>3, <2>2, <2>3, <2>4, <2>5 DEF Inv, Good, OrDefault
<1> QED
  BY <1>2, <1>3 DEF ConfigureLimits

\* What callers append, and what the routines do: a span of any length.
Countable == {s \in [bytes : Nat, lines : Nat] : s.lines <= s.bytes}

LEMMA SpansCountable == Span \subseteq Countable
BY ConsoleAssumption DEF Span, Countable

\* vm_console_append.
LEMMA AppendInv ==
  ASSUME Inv, NEW STATE s, s \in Countable, AppendSpan(s)
  PROVE  Inv'
<1> DEFINE c == WithLimits(console)
<1>1. c \in Console /\ Good(c, rejected) /\ c.maxBytes > 0 /\ c.maxLines > 0
  BY WithLimitsInv
<1> HIDE DEF c
<1>2. /\ s.bytes \in Nat /\ s.lines \in Nat
      /\ SizeFits(c, s) => s \in Span
  <2>1. s \in [bytes : Nat, lines : Nat] /\ s.lines <= s.bytes
    BY DEF Countable
  <2>2. c.bytes \in Nat /\ SizeMax \in Nat
    BY <1>1, ConsoleAssumption DEF Console
  <2>3. SizeFits(c, s) => s.bytes \in 0 .. SizeMax /\ s.lines \in 0 .. SizeMax
    BY <2>1, <2>2 DEF SizeFits
  <2>4. s = [bytes |-> s.bytes, lines |-> s.lines]
    BY <2>1
  <2> QED
    BY <2>1, <2>3, <2>4 DEF Span
<1>3. /\ c.bytes \in Nat /\ c.lines \in Nat /\ c.maxBytes \in Nat /\ c.maxLines \in Nat
      /\ c.maxBytes <= SizeMax /\ c.maxLines <= SizeMax
  BY <1>1, ConsoleAssumption DEF Console
<1>4. CASE UNCHANGED rejected /\ \E r \in {"ok", "out-of-memory"} : Return(c, r)
  BY <1>1, <1>4 DEF Inv, TypeOK, Return, Statuses, Good
<1>5. CASE SizeFits(c, s) /\ ~Fits(c, s) /\ Return(Rejecting(c, s), "output-limit-exceeded") /\ rejected' = s
  <2>1. console' \in Console
    BY <1>1, <1>5 DEF Return, Rejecting, Console, RejectedBy, Kinds
  <2>2. /\ console'.bytes = c.bytes /\ console'.lines = c.lines
        /\ console'.capacity = c.capacity /\ console'.kind = RejectedBy(c, s)
        /\ console'.exceeded = TRUE
        /\ console'.maxBytes = c.maxBytes /\ console'.maxLines = c.maxLines
    BY <1>1, <1>5 DEF Return, Rejecting, Console
  <2> QED
    BY <1>1, <1>2, <1>3, <1>5, <2>1, <2>2
       DEF Inv, TypeOK, Return, Statuses, Good, OrDefault, RejectedBy, Fits
<1>6. CASE /\ SizeFits(c, s) /\ Fits(c, s) /\ Return(Committed(c, s), "ok") /\ UNCHANGED rejected
  <2> DEFINE need == c.bytes + s.bytes + 1
  <2>1. need \in 0 .. SizeMax
    BY <1>2, <1>3, <1>6, ConsoleAssumption DEF SizeFits
  <2>2. GrownTo(c, need) \in 0 .. SizeMax /\ GrownTo(c, need) >= need
    BY <1>1, <2>1, GrownToBounds
  <2>3. /\ c.bytes + s.bytes \in 0 .. SizeMax /\ c.lines + s.lines \in 0 .. SizeMax
        /\ c.bytes + s.bytes <= c.maxBytes /\ c.lines + s.lines <= c.maxLines
    BY <1>2, <1>3, <1>6, ConsoleAssumption DEF Fits
  <2>4. console' = [c EXCEPT !.text = Append(c.text, s), !.capacity = GrownTo(c, need),
                             !.bytes = c.bytes + s.bytes, !.lines = c.lines + s.lines]
    BY <1>6 DEF Return, Committed
  <2>5. Append(c.text, s) \in Seq(Span)
    BY <1>1, <1>2, <1>6 DEF Console
  <2>6. console' \in Console
    BY <1>1, <2>2, <2>3, <2>4, <2>5 DEF Console
  <2>7. /\ console'.bytes = c.bytes + s.bytes /\ console'.lines = c.lines + s.lines
        /\ console'.capacity = GrownTo(c, need) /\ console'.kind = c.kind
        /\ console'.exceeded = c.exceeded
        /\ console'.maxBytes = c.maxBytes /\ console'.maxLines = c.maxLines
    BY <1>1, <2>4 DEF Console
  <2>8. console'.bytes < console'.capacity
    BY <1>2, <1>3, <2>2, <2>7, ConsoleAssumption
  <2>9. rejected.bytes \in Nat /\ rejected.lines \in Nat
    BY ConsoleAssumption DEF Inv, TypeOK, Span
  <2> QED
    BY <1>1, <1>2, <1>3, <1>6, <2>3, <2>6, <2>7, <2>8, <2>9
       DEF Inv, TypeOK, Return, Statuses, Good, OrDefault
<1> QED
  BY <1>4, <1>5, <1>6 DEF AppendSpan, c

LEMMA StepInv == Inv /\ [Next]_vars => Inv'
<1> SUFFICES ASSUME Inv, [Next]_vars PROVE Inv'
  OBVIOUS
<1>1. Zeroed \in Console /\ NoSpan \in Span
  BY ConsoleAssumption DEF Console, Zeroed, Kinds, NoSpan, Span
<1>2. CASE Initialize \/ Reset
  <2>1. Clear(WithLimits(console))
    BY <1>2 DEF Initialize, Reset
  <2> QED
    BY <2>1, WithLimitsInv, ClearInv
<1>3. CASE Deinit
  BY <1>1, <1>3, ConsoleAssumption
     DEF Deinit, Inv, TypeOK, Good, Return, Statuses, Zeroed, OrDefault
<1>4. CASE \E l \in Limits : ConfigureLimits(l[1], l[2])
  BY <1>4, ConfigureInv
<1>5. ASSUME NEW s \in Spans, AppendSpan(s)
      PROVE  Inv'
  BY <1>5, ConsoleAssumption, SpansCountable, AppendInv
<1>6. CASE UNCHANGED vars
  BY <1>6 DEF vars, Inv, TypeOK, Good
<1> QED
  BY <1>2, <1>3, <1>4, <1>5, <1>6 DEF Next

LEMMA SpecInv == Spec => []Inv
<1>1. Init => Inv
  BY ConsoleAssumption DEF Init, Inv, TypeOK, Good, Console, Zeroed, NoSpan, Span, Kinds,
     Statuses, OrDefault
<1> QED
  BY <1>1, StepInv, PTL DEF Spec

\* The struct keeps its types: no count wraps past SIZE_MAX.
THEOREM TypeCorrect == Spec => []TypeOK
BY SpecInv, PTL DEF Inv

\* Committed output stays within the limits in force and leaves room for its terminator.
THEOREM StaysWithinLimits == Spec => []OutputWithinLimits
<1>1. Inv => OutputWithinLimits
  BY DEF Inv, Good, OutputWithinLimits
<1> QED
  BY <1>1, SpecInv, PTL

\* A recorded rejection would be repeated until the console is reset or reconfigured.
THEOREM RejectionsStayTrue == Spec => []RejectionStaysTrue
<1>1. Inv => RejectionStaysTrue
  BY DEF Inv, Good, RejectionStaysTrue
<1> QED
  BY <1>1, SpecInv, PTL

\* A call that fails leaves text, counts and storage alone.
THEOREM FailuresChangeNoOutput == Spec => FailureChangesNoOutput
<1> DEFINE Kept == /\ console'.text = console.text /\ console'.bytes = console.bytes
                   /\ console'.lines = console.lines /\ console'.capacity = console.capacity
           c == WithLimits(console)
<1>1. ASSUME Inv, Next, result' # "ok"
      PROVE  Kept
  <2>1. console \in Console
    BY <1>1 DEF Inv, TypeOK
  <2>2. /\ c \in Console /\ c.text = console.text /\ c.bytes = console.bytes
        /\ c.lines = console.lines /\ c.capacity = console.capacity
    BY <2>1, WithLimitsKeeps
  <2> HIDE DEF c
  <2>3. CASE Clear(c)
    BY <1>1, <2>2, <2>3 DEF Clear, Return
  <2>4. CASE Deinit
    BY <1>1, <2>4 DEF Deinit, Return
  <2>5. ASSUME NEW l \in Limits, ConfigureLimits(l[1], l[2]) PROVE Kept
    BY <1>1, <2>5 DEF ConfigureLimits, Return
  <2>6. ASSUME NEW s \in Spans, AppendSpan(s) PROVE Kept
    <3>1. console' = c \/ console' = Rejecting(c, s)
      BY <1>1, <2>6 DEF AppendSpan, Return, c
    <3> QED
      BY <2>2, <3>1 DEF Rejecting, Console
  <2> QED
    BY <1>1, <2>3, <2>4, <2>5, <2>6 DEF Next, Initialize, Reset, c
<1>2. Inv /\ [Next]_vars => [result' # "ok" => Kept]_vars
  BY <1>1
<1> QED
  BY <1>2, SpecInv, PTL DEF Spec, FailureChangesNoOutput

-----------------------------------------------------------------------------
(* Totals and digits *)

\* Totals, number by number.
TotalledThrough(g, t) ==
  /\ g[0] = 0 /\ Total(t) = g[Len(t)]
  /\ \A m \in 1 .. Len(t) : g[m] = g[m - 1] + t[m]

LEMMA TotalGoesThrough ==
  ASSUME NEW STATE t, t \in Seq(Nat)
  PROVE  \E g : TotalledThrough(g, t)
<1> DEFINE n == Len(t)
           Step(x, e) == x + e
           h == [p \in Nat \X Nat |-> Step(p[1], p[2])]
           G(f) == [s \in SUBSET DOMAIN t |->
                      IF s = {} THEN 0 ELSE Step(f[s \ {Max(s)}], t[Max(s)])]
           f == CHOOSE f : f = G(f)
<1>1. Total(t) = f[DOMAIN t]
  BY DEF Total, FoldLeft, MapThenFoldSet
<1>2. DOMAIN t = 1 .. n /\ n \in Nat
  OBVIOUS
<1>3. \A x, e \in Nat : Step(x, e) \in Nat
  OBVIOUS
<1> HIDE DEF Step
<1>4. h \in [Nat \X Nat -> Nat] /\ \A x, e \in Nat : h[<<x, e>>] = Step(x, e)
  BY <1>3
<1> HIDE DEF h, n
<1>5. \E e : e = G(e)
  <2>1. PICK e : IsFold(e, 0, h, t) /\ StaysIn(e, Nat, Nat, t)
    <3>1. 0 \in Nat
      OBVIOUS
    <3> QED
      BY <1>4, <3>1, FoldExists
  <2>2. ASSUME NEW s \in SUBSET DOMAIN t
        PROVE  e[s] = G(e)[s]
    <3>1. CASE s = {}
      BY <2>1, <3>1 DEF IsFold
    <3>2. CASE s # {}
      <4>1. e[s \ {Max(s)}] \in Nat /\ t[Max(s)] \in Nat
        BY <2>1, <3>2 DEF StaysIn
      <4>2. e[s] = h[<<e[s \ {Max(s)}], t[Max(s)]>>]
        BY <2>1, <3>2 DEF IsFold
      <4>3. e[s] = Step(e[s \ {Max(s)}], t[Max(s)])
        BY <1>4, <4>1, <4>2
      <4> QED
        BY <3>2, <4>3
    <3> QED
      BY <3>1, <3>2
  <2>3. e = G(e)
    <3> HIDE DEF G
    <3>1. DOMAIN G(e) = SUBSET DOMAIN t /\ G(e) = [s \in SUBSET DOMAIN t |-> G(e)[s]]
      BY DEF G
    <3> QED
      BY <2>1, <2>2, <3>1 DEF StaysIn
  <2> QED
    BY <2>3
<1>6. f = G(f)
  <2> HIDE DEF G
  <2> QED
    BY <1>5
<1> HIDE DEF f
<1> DEFINE g == [m \in 0 .. n |-> f[1 .. m]]
<1>7. g[0] = 0
  <2>1. 1 .. 0 = {} /\ 1 .. 0 \in SUBSET DOMAIN t
    OBVIOUS
  <2> QED
    BY <1>2, <1>6, <2>1
<1>8. ASSUME NEW m \in 1 .. n
      PROVE  g[m] = Step(g[m - 1], t[m])
  <2>1. Max(1 .. m) = m /\ (1 .. m) \ {m} = 1 .. m - 1
    BY GreatestOfPrefix
  <2>2. 1 .. m \in SUBSET DOMAIN t /\ 1 .. m # {}
    <3>1. m \in 1 .. m /\ \A i \in 1 .. m : i \in 1 .. n
      BY <1>2
    <3> QED
      BY <1>2, <3>1
  <2>3. f[1 .. m] = Step(f[1 .. m - 1], t[m])
    BY <1>6, <2>1, <2>2
  <2>4. m \in 0 .. n /\ m - 1 \in 0 .. n
    BY <1>2
  <2> QED
    BY <2>3, <2>4
<1>9. Total(t) = g[n]
  BY <1>1, <1>2
<1> HIDE DEF g
<1> QED
  BY <1>7, <1>8, <1>9 DEF n, Step, TotalledThrough

LEMMA TotalOfAppend ==
  ASSUME NEW STATE t, t \in Seq(Nat), NEW STATE d, d \in Nat
  PROVE  Total(t) \in Nat /\ Total(Append(t, d)) = Total(t) + d
<1> DEFINE n == Len(t)
           u == Append(t, d)
<1>1. /\ n \in Nat /\ u \in Seq(Nat) /\ Len(u) = n + 1 /\ u[n + 1] = d
      /\ \A m \in 1 .. n : u[m] = t[m] /\ t[m] \in Nat
  OBVIOUS
<1>2. PICK g : TotalledThrough(g, t)
  BY TotalGoesThrough
<1> HIDE DEF u
<1>3. PICK f : TotalledThrough(f, u)
  BY <1>1, TotalGoesThrough
<1> USE DEF TotalledThrough
<1> DEFINE S == {m \in 0 .. n : f[m] = g[m] /\ g[m] \in Nat}
<1>4. 0 \in S
  BY <1>1, <1>2, <1>3
<1>5. ASSUME NEW m \in 0 .. n - 1, m \in S
      PROVE  m + 1 \in S
  <2>1. m + 1 \in 1 .. n /\ m + 1 \in 1 .. Len(u) /\ (m + 1) - 1 = m /\ m + 1 \in 0 .. n
    BY <1>1
  <2>2. f[m + 1] = f[m] + u[m + 1] /\ g[m + 1] = g[m] + t[m + 1]
    BY <1>2, <1>3, <2>1
  <2>3. u[m + 1] = t[m + 1] /\ t[m + 1] \in Nat
    BY <1>1, <2>1
  <2>4. g[m + 1] \in Nat
    <3>1. g[m] \in Nat
      BY <1>5
    <3>2. \A x, e \in Nat : x + e \in Nat
      OBVIOUS
    <3> QED
      BY <2>2, <2>3, <3>1, <3>2
  <2> QED
    BY <1>5, <2>1, <2>2, <2>3, <2>4
<1>6. n \in S
  <2> HIDE DEF S
  <2>1. \A m \in 0 .. n : m \in S
    BY <1>1, <1>4, <1>5, Induction
  <2> QED
    BY <1>1, <2>1
<1>7. f[n + 1] = f[n] + d
  <2>1. n + 1 \in 1 .. Len(u) /\ (n + 1) - 1 = n
    BY <1>1
  <2> QED
    BY <1>1, <1>3, <2>1
<1> QED
  BY <1>1, <1>2, <1>3, <1>6, <1>7 DEF u

\* What digits stand for, digit by digit.
ReadThrough(g, t, base) ==
  /\ g[0] = 0 /\ ValueOf(t, base) = g[Len(t)]
  /\ \A m \in 1 .. Len(t) : g[m] = base * g[m - 1] + t[m]

LEMMA ValueGoesThrough ==
  ASSUME NEW base \in Nat, NEW STATE t, t \in Seq(Nat)
  PROVE  \E g : ReadThrough(g, t, base)
<1> DEFINE n == Len(t)
           Step(x, e) == base * x + e
           h == [p \in Nat \X Nat |-> Step(p[1], p[2])]
           G(f) == [s \in SUBSET DOMAIN t |->
                      IF s = {} THEN 0 ELSE Step(f[s \ {Max(s)}], t[Max(s)])]
           f == CHOOSE f : f = G(f)
<1>1. ValueOf(t, base) = f[DOMAIN t]
  BY DEF ValueOf, FoldLeft, MapThenFoldSet
<1>2. DOMAIN t = 1 .. n /\ n \in Nat
  OBVIOUS
<1>3. \A x, e \in Nat : Step(x, e) \in Nat
  OBVIOUS
<1> HIDE DEF Step
<1>4. h \in [Nat \X Nat -> Nat] /\ \A x, e \in Nat : h[<<x, e>>] = Step(x, e)
  BY <1>3
<1> HIDE DEF h, n
<1>5. \E e : e = G(e)
  <2>1. PICK e : IsFold(e, 0, h, t) /\ StaysIn(e, Nat, Nat, t)
    <3>1. 0 \in Nat
      OBVIOUS
    <3> QED
      BY <1>4, <3>1, FoldExists
  <2>2. ASSUME NEW s \in SUBSET DOMAIN t
        PROVE  e[s] = G(e)[s]
    <3>1. CASE s = {}
      BY <2>1, <3>1 DEF IsFold
    <3>2. CASE s # {}
      <4>1. e[s \ {Max(s)}] \in Nat /\ t[Max(s)] \in Nat
        BY <2>1, <3>2 DEF StaysIn
      <4>2. e[s] = h[<<e[s \ {Max(s)}], t[Max(s)]>>]
        BY <2>1, <3>2 DEF IsFold
      <4>3. e[s] = Step(e[s \ {Max(s)}], t[Max(s)])
        BY <1>4, <4>1, <4>2
      <4> QED
        BY <3>2, <4>3
    <3> QED
      BY <3>1, <3>2
  <2>3. e = G(e)
    <3> HIDE DEF G
    <3>1. DOMAIN G(e) = SUBSET DOMAIN t /\ G(e) = [s \in SUBSET DOMAIN t |-> G(e)[s]]
      BY DEF G
    <3> QED
      BY <2>1, <2>2, <3>1 DEF StaysIn
  <2> QED
    BY <2>3
<1>6. f = G(f)
  <2> HIDE DEF G
  <2> QED
    BY <1>5
<1> HIDE DEF f
<1> DEFINE g == [m \in 0 .. n |-> f[1 .. m]]
<1>7. g[0] = 0
  <2>1. 1 .. 0 = {} /\ 1 .. 0 \in SUBSET DOMAIN t
    OBVIOUS
  <2> QED
    BY <1>2, <1>6, <2>1
<1>8. ASSUME NEW m \in 1 .. n
      PROVE  g[m] = Step(g[m - 1], t[m])
  <2>1. Max(1 .. m) = m /\ (1 .. m) \ {m} = 1 .. m - 1
    BY GreatestOfPrefix
  <2>2. 1 .. m \in SUBSET DOMAIN t /\ 1 .. m # {}
    <3>1. m \in 1 .. m /\ \A i \in 1 .. m : i \in 1 .. n
      BY <1>2
    <3> QED
      BY <1>2, <3>1
  <2>3. f[1 .. m] = Step(f[1 .. m - 1], t[m])
    BY <1>6, <2>1, <2>2
  <2>4. m \in 0 .. n /\ m - 1 \in 0 .. n
    BY <1>2
  <2> QED
    BY <2>3, <2>4
<1>9. ValueOf(t, base) = g[n]
  BY <1>1, <1>2
<1> HIDE DEF g
<1> QED
  BY <1>7, <1>8, <1>9 DEF n, Step, ReadThrough

LEMMA ValueOfAppend ==
  ASSUME NEW base \in Nat, NEW STATE t, t \in Seq(Nat), NEW STATE d, d \in Nat
  PROVE  ValueOf(t, base) \in Nat /\ ValueOf(Append(t, d), base) = base * ValueOf(t, base) + d
<1> DEFINE n == Len(t)
           u == Append(t, d)
<1>1. /\ n \in Nat /\ u \in Seq(Nat) /\ Len(u) = n + 1 /\ u[n + 1] = d
      /\ \A m \in 1 .. n : u[m] = t[m] /\ t[m] \in Nat
  OBVIOUS
<1>2. PICK g : ReadThrough(g, t, base)
  BY ValueGoesThrough
<1> HIDE DEF u
<1>3. PICK f : ReadThrough(f, u, base)
  BY <1>1, ValueGoesThrough
<1> USE DEF ReadThrough
<1> DEFINE S == {m \in 0 .. n : f[m] = g[m] /\ g[m] \in Nat}
<1>4. 0 \in S
  BY <1>1, <1>2, <1>3
<1>5. ASSUME NEW m \in 0 .. n - 1, m \in S
      PROVE  m + 1 \in S
  <2>1. m + 1 \in 1 .. n /\ m + 1 \in 1 .. Len(u) /\ (m + 1) - 1 = m /\ m + 1 \in 0 .. n
    BY <1>1
  <2>2. f[m + 1] = base * f[m] + u[m + 1] /\ g[m + 1] = base * g[m] + t[m + 1]
    BY <1>2, <1>3, <2>1
  <2>3. u[m + 1] = t[m + 1] /\ t[m + 1] \in Nat
    BY <1>1, <2>1
  <2>4. g[m + 1] \in Nat
    <3>1. g[m] \in Nat
      BY <1>5
    <3>2. \A x, e \in Nat : base * x + e \in Nat
      OBVIOUS
    <3> QED
      BY <2>2, <2>3, <3>1, <3>2
  <2> QED
    BY <1>5, <2>1, <2>2, <2>3, <2>4
<1>6. n \in S
  <2> HIDE DEF S
  <2>1. \A m \in 0 .. n : m \in S
    BY <1>1, <1>4, <1>5, Induction
  <2> QED
    BY <1>1, <2>1
<1>7. f[n + 1] = base * f[n] + d
  <2>1. n + 1 \in 1 .. Len(u) /\ (n + 1) - 1 = n
    BY <1>1
  <2> QED
    BY <1>1, <1>3, <2>1
<1> QED
  BY <1>1, <1>2, <1>3, <1>6, <1>7 DEF u

-----------------------------------------------------------------------------
(* The counts of the console *)

Counted(c) ==
  /\ c.bytes = Total([k \in DOMAIN c.text |-> c.text[k].bytes])
  /\ c.lines = Total([k \in DOMAIN c.text |-> c.text[k].lines])

LEMMA EmptyTotal == Total([k \in DOMAIN <<>> |-> <<>>[k].bytes]) = 0 /\ Total([k \in DOMAIN <<>> |-> <<>>[k].lines]) = 0
<1> DEFINE o == <<>>
<1>1. o \in Seq(Nat) /\ Len(o) = 0
  OBVIOUS
<1>2. [k \in DOMAIN <<>> |-> <<>>[k].bytes] = o /\ [k \in DOMAIN <<>> |-> <<>>[k].lines] = o
  OBVIOUS
<1> HIDE DEF o
<1>3. PICK g : TotalledThrough(g, o)
  BY <1>1, TotalGoesThrough
<1>4. Total(o) = 0
  BY <1>1, <1>3 DEF TotalledThrough
<1> QED
  BY <1>2, <1>4

\* Nothing appended, nothing to count.
LEMMA CountedEmpty ==
  ASSUME NEW STATE c, c.text = <<>>, c.bytes = 0, c.lines = 0
  PROVE  Counted(c)
BY EmptyTotal DEF Counted

LEMMA CountedAppend ==
  ASSUME NEW STATE c, c.text \in Seq(Span), Counted(c), NEW STATE s, s \in Span,
         NEW STATE e, e.text = Append(c.text, s),
         e.bytes = c.bytes + s.bytes, e.lines = c.lines + s.lines
  PROVE  Counted(e)
<1> DEFINE n == Len(c.text)
           b == [k \in DOMAIN c.text |-> c.text[k].bytes]
           l == [k \in DOMAIN c.text |-> c.text[k].lines]
<1>1. /\ DOMAIN c.text = 1 .. n /\ n \in Nat
      /\ \A k \in 1 .. n : c.text[k].bytes \in Nat /\ c.text[k].lines \in Nat
  <2>1. \A x \in Span : x.bytes \in Nat /\ x.lines \in Nat
    BY ConsoleAssumption DEF Span
  <2>2. DOMAIN c.text = 1 .. n /\ n \in Nat /\ \A k \in 1 .. n : c.text[k] \in Span
    OBVIOUS
  <2> QED
    BY <2>1, <2>2
<1>2. s.bytes \in Nat /\ s.lines \in Nat
  BY ConsoleAssumption DEF Span
<1>3. /\ DOMAIN e.text = 1 .. n + 1 /\ e.text[n + 1] = s
      /\ \A k \in 1 .. n : e.text[k] = c.text[k]
  OBVIOUS
<1> HIDE DEF n
<1>4. b \in Seq(Nat) /\ l \in Seq(Nat) /\ Len(b) = n /\ Len(l) = n
  BY <1>1
<1>5. [k \in DOMAIN e.text |-> e.text[k].bytes] = Append(b, s.bytes)
  BY <1>1, <1>2, <1>3
<1>6. [k \in DOMAIN e.text |-> e.text[k].lines] = Append(l, s.lines)
  BY <1>1, <1>2, <1>3
<1>7. Total(b) = c.bytes /\ Total(l) = c.lines
  BY DEF Counted
<1> HIDE DEF b, l
<1>8. Total(Append(b, s.bytes)) = c.bytes + s.bytes /\ Total(Append(l, s.lines)) = c.lines + s.lines
  BY <1>2, <1>4, <1>7, TotalOfAppend
<1> QED
  BY <1>5, <1>6, <1>8 DEF Counted

LEMMA ClearCounted ==
  ASSUME NEW STATE c, c \in Console, Counted(c), Clear(c)
  PROVE  Counted(console)'
<1>1. CASE console' = c
  BY <1>1 DEF Counted
<1>2. CASE console' = [c EXCEPT !.text = <<>>, !.capacity = GrownTo(c, 1), !.bytes = 0, !.lines = 0,
                               !.exceeded = FALSE, !.kind = "none"]
  <2>1. console'.text = <<>> /\ console'.bytes = 0 /\ console'.lines = 0
    BY <1>2 DEF Console
  <2> QED
    BY <2>1, EmptyTotal DEF Counted
<1> QED
  BY <1>1, <1>2 DEF Clear, Return

LEMMA AppendCounted ==
  ASSUME Inv, Counted(console), NEW STATE s, s \in Countable, AppendSpan(s)
  PROVE  Counted(console)'
<1> DEFINE c == WithLimits(console)
<1>1. console \in Console
  BY DEF Inv, TypeOK
<1>2. c \in Console /\ c.text = console.text /\ c.bytes = console.bytes /\ c.lines = console.lines
  BY <1>1, WithLimitsKeeps
<1> HIDE DEF c
<1>3. Counted(c)
  BY <1>2 DEF Counted
<1>4. CASE console' = c
  BY <1>3, <1>4 DEF Counted
<1>5. CASE console' = Rejecting(c, s)
  <2>1. console'.text = c.text /\ console'.bytes = c.bytes /\ console'.lines = c.lines
    BY <1>2, <1>5 DEF Rejecting, Console
  <2> QED
    BY <1>3, <2>1 DEF Counted
<1>6. CASE SizeFits(c, s) /\ console' = Committed(c, s)
  <2> DEFINE e == Committed(c, s)
  <2>1. e.text = Append(c.text, s) /\ e.bytes = c.bytes + s.bytes /\ e.lines = c.lines + s.lines
    BY <1>2 DEF Committed, Console
  <2>2. c.text \in Seq(Span)
    BY <1>2 DEF Console
  <2>3. s \in Span
    <3>1. s.bytes \in Nat /\ s.lines \in Nat /\ s.lines <= s.bytes
          /\ s = [bytes |-> s.bytes, lines |-> s.lines]
      BY DEF Countable
    <3>2. c.bytes \in Nat
      BY <1>2, ConsoleAssumption DEF Console
    <3>3. s.bytes \in 0 .. SizeMax /\ s.lines \in 0 .. SizeMax
      BY <1>6, <3>1, <3>2, ConsoleAssumption DEF SizeFits
    <3> QED
      BY <3>1, <3>3 DEF Span
  <2> HIDE DEF e
  <2>4. Counted(e)
    BY <1>3, <2>1, <2>2, <2>3, CountedAppend
  <2>5. console' = e
    BY <1>6 DEF e
  <2> QED
    BY <2>4, <2>5 DEF Counted
<1> QED
  BY <1>4, <1>5, <1>6 DEF AppendSpan, Return, c

LEMMA CountedSteps == Inv /\ Counted(console) /\ [Next]_vars => Counted(console)'
<1> SUFFICES ASSUME Inv, Counted(console), [Next]_vars PROVE Counted(console)'
  OBVIOUS
<1>1. console \in Console
  BY DEF Inv, TypeOK
<1>2. CASE Initialize \/ Reset
  <2> DEFINE c == WithLimits(console)
  <2>1. Clear(c)
    BY <1>2 DEF Initialize, Reset
  <2>2. c \in Console /\ c.text = console.text /\ c.bytes = console.bytes /\ c.lines = console.lines
    BY <1>1, WithLimitsKeeps
  <2> HIDE DEF c
  <2>3. Counted(c)
    BY <2>2 DEF Counted
  <2> QED
    BY <2>1, <2>2, <2>3, ClearCounted
<1>3. CASE Deinit
  <2>1. console'.text = <<>> /\ console'.bytes = 0 /\ console'.lines = 0
    BY <1>3 DEF Deinit, Return, Zeroed
  <2> QED
    BY <2>1, EmptyTotal DEF Counted
<1>4. ASSUME NEW l \in Limits, ConfigureLimits(l[1], l[2])
      PROVE  Counted(console)'
  <2>1. console'.text = console.text /\ console'.bytes = console.bytes /\ console'.lines = console.lines
    BY <1>1, <1>4 DEF ConfigureLimits, Return, Console
  <2> QED
    BY <2>1 DEF Counted
<1>5. ASSUME NEW s \in Spans, AppendSpan(s)
      PROVE  Counted(console)'
  BY <1>5, ConsoleAssumption, SpansCountable, AppendCounted
<1>6. CASE UNCHANGED vars
  BY <1>6 DEF vars, Counted
<1> QED
  BY <1>2, <1>3, <1>4, <1>5, <1>6 DEF Next

-----------------------------------------------------------------------------
(* Numbers and their digits *)

LEMMA Powers ==
  ASSUME NEW base \in Nat \ {0}
  PROVE  /\ Power(base)[0] = 1
         /\ \A n \in Nat : /\ Power(base)[n] \in Nat \ {0}
                           /\ Power(base)[n + 1] = base * Power(base)[n]
<1> DEFINE h == [p \in (Nat \ {0}) \X Nat |-> base * p[2]]
           W(f) == [i \in Nat |-> IF i = 0 THEN 1 ELSE base * f[i - 1]]
           e == Power(base)
<1>1. \E f : f = W(f)
  <2>1. \A m \in Nat \ {0}, x \in Nat : h[<<m, x>>] \in Nat /\ h[<<m, x>>] = base * x
    OBVIOUS
  <2>2. AlwaysStepsIn(Nat, h)
    BY <2>1 DEF AlwaysStepsIn
  <2> HIDE DEF h
  <2>3. PICK f \in [Nat -> Nat] : AlwaysRecurs(f, 1, h)
    <3>1. 1 \in Nat
      OBVIOUS
    <3> QED
      BY <2>2, <3>1, RecursionOnNat
  <2>4. ASSUME NEW i \in Nat, i # 0
        PROVE  f[i] = base * f[i - 1]
    <3>1. f[i] = h[<<i, f[i - 1]>>] /\ f[i - 1] \in Nat
      BY <2>3, <2>4 DEF AlwaysRecurs
    <3> QED
      BY <2>1, <2>4, <3>1
  <2>5. f[0] = 1
    BY <2>3 DEF AlwaysRecurs
  <2>6. f = W(f)
    BY <2>3, <2>4, <2>5
  <2> QED
    BY <2>6
<1>2. e = W(e)
  <2>1. e = CHOOSE f : f = W(f)
    BY DEF Power
  <2> HIDE DEF W, e
  <2> QED
    BY <1>1, <2>1
<1> HIDE DEF e
<1>3. e[0] = 1 /\ \A n \in Nat : e[n + 1] = base * e[n]
  BY <1>2
<1>4. ASSUME NEW n \in Nat
      PROVE  e[n] \in Nat \ {0}
  <2> DEFINE S == {m \in 0 .. n : e[m] \in Nat \ {0}}
  <2>1. 0 \in S
    BY <1>3
  <2>2. ASSUME NEW m \in 0 .. n - 1, m \in S
        PROVE  m + 1 \in S
    <3>1. e[m + 1] = base * e[m] /\ e[m] \in Nat \ {0}
      BY <1>3, <2>2
    <3>2. \A x \in Nat \ {0} : base * x \in Nat \ {0}
      OBVIOUS
    <3> QED
      BY <3>1, <3>2
  <2>3. \A m \in 0 .. n : m \in S
    <3> HIDE DEF S
    <3> QED
      BY <2>1, <2>2, Induction
  <2> QED
    BY <2>3
<1> QED
  BY <1>3, <1>4 DEF e

\* The rule Digits follows.
DigitRule(base, f, n) == IF n < base THEN <<n>> ELSE Append(f[n \div base], n % base)

LEMMA DigitsExist ==
  ASSUME NEW base \in Nat \ {0, 1}, NEW k \in Nat
  PROVE  \E f : f = [n \in 0 .. k |-> DigitRule(base, f, n)]
<1> DEFINE Solves(f, m) == f = [n \in 0 .. m |-> DigitRule(base, f, n)]
           S == {m \in 0 .. k : \E f : Solves(f, m)}
<1>1. 0 \in S
  <2> DEFINE f == [n \in 0 .. 0 |-> <<n>>]
  <2>1. Solves(f, 0)
    BY DEF DigitRule
  <2> HIDE DEF Solves, f
  <2> QED
    BY <2>1
<1>2. ASSUME NEW m \in 0 .. k - 1, m \in S
      PROVE  m + 1 \in S
  <2>1. PICK f : Solves(f, m)
    BY <1>2
  <2> DEFINE g == [n \in 0 .. m + 1 |-> IF n = m + 1 THEN DigitRule(base, f, n) ELSE f[n]]
  <2>2. ASSUME NEW n \in 0 .. m + 1
        PROVE  g[n] = DigitRule(base, g, n)
    <3>1. g[n] = DigitRule(base, f, n)
      BY <2>1, <2>2
    <3>2. n >= base => g[n \div base] = f[n \div base]
      <4> SUFFICES ASSUME n >= base PROVE g[n \div base] = f[n \div base]
        OBVIOUS
      <4>1. n \div base \in 1 .. n - 1
        <5>1. n \in Nat
          OBVIOUS
        <5> QED
          BY <5>1, QuotientIsLess
      <4>2. \A x \in 1 .. n - 1 : x \in 0 .. m + 1 /\ x # m + 1
        OBVIOUS
      <4> QED
        BY <4>1, <4>2
    <3> HIDE DEF g
    <3>3. CASE n < base
      BY <3>1, <3>3 DEF DigitRule
    <3>4. CASE ~(n < base)
      <4>1. n >= base
        BY <3>4
      <4> QED
        BY <3>1, <3>2, <3>4, <4>1 DEF DigitRule
    <3> QED
      BY <3>3, <3>4
  <2>3. Solves(g, m + 1)
    <3>1. g = [n \in 0 .. m + 1 |-> g[n]]
      OBVIOUS
    <3> HIDE DEF g
    <3> QED
      BY <2>2, <3>1
  <2>4. \E e : Solves(e, m + 1)
    BY <2>3
  <2> HIDE DEF Solves
  <2> QED
    BY <2>4
<1>3. k \in S
  <2> HIDE DEF S
  <2>1. \A m \in 0 .. k : m \in S
    BY <1>1, <1>2, Induction
  <2> QED
    BY <2>1
<1> QED
  BY <1>3

LEMMA DigitsFollow ==
  ASSUME NEW base \in Nat \ {0, 1}, NEW n \in 0 .. WordSize
  PROVE  Digits(base)[n] = DigitRule(base, Digits(base), n)
<1> DEFINE D(f) == [m \in 0 .. WordSize |-> DigitRule(base, f, m)]
           d == Digits(base)
<1>1. \E f : f = D(f)
  BY DigitsExist, IrvineAssumption
<1>2. d = CHOOSE f : f = D(f)
  BY DEF Digits, DigitRule
<1>3. d = D(d)
  <2> HIDE DEF D, d
  <2> QED
    BY <1>1, <1>2
<1> HIDE DEF d
<1>4. d[n] = DigitRule(base, d, n)
  BY <1>3
<1> QED
  BY <1>4 DEF d

LEMMA ValueOfNothing ==
  ASSUME NEW base \in Nat
  PROVE  ValueOf(<<>>, base) = 0
<1> DEFINE o == <<>>
<1>1. o \in Seq(Nat) /\ Len(o) = 0
  OBVIOUS
<1> HIDE DEF o
<1>2. PICK g : ReadThrough(g, o, base)
  BY <1>1, ValueGoesThrough
<1>3. ValueOf(o, base) = 0
  BY <1>1, <1>2 DEF ReadThrough
<1> QED
  BY <1>3 DEF o

\* The digits t write n to the given base, without a leading zero.
Writes(t, n, base) ==
  /\ t \in Seq(0 .. base - 1) /\ t \in Seq(Nat) /\ Len(t) >= 1
  /\ ValueOf(t, base) = n
  /\ n # 0 => t[1] # 0
  /\ Power(base)[Len(t)] > n

LEMMA OneDigit ==
  ASSUME NEW base \in Nat \ {0, 1}, NEW n \in 0 .. base - 1
  PROVE  Writes(<<n>>, n, base)
<1> DEFINE t == <<n>>
           o == <<>>
<1>1. /\ o \in Seq(Nat) /\ Append(o, n) = t /\ n \in Nat /\ base \in Nat
      /\ t \in Seq(0 .. base - 1) /\ t \in Seq(Nat) /\ Len(t) = 1 /\ t[1] = n
  OBVIOUS
<1>2. ValueOf(o, base) = 0
  BY ValueOfNothing
<1> HIDE DEF o
<1>3. ValueOf(Append(o, n), base) = base * ValueOf(o, base) + n
  BY <1>1, ValueOfAppend
<1>4. base * 0 + n = n
  OBVIOUS
<1>5. Power(base)[1] = base * 1
  <2>1. Power(base)[0 + 1] = base * Power(base)[0] /\ Power(base)[0] = 1
    BY Powers
  <2> QED
    BY <2>1
<1>6. Power(base)[Len(t)] > n
  BY <1>1, <1>5
<1> HIDE DEF t
<1> QED
  BY <1>1, <1>2, <1>3, <1>4, <1>6 DEF t, Writes

LEMMA OneMoreDigit ==
  ASSUME NEW base \in Nat \ {0, 1}, NEW n \in Nat, n >= base,
         NEW t, Writes(t, n \div base, base)
  PROVE  Writes(Append(t, n % base), n, base)
<1> DEFINE q == n \div base
           r == n % base
           u == Append(t, r)
<1>1. q \in Int /\ r \in 0 .. base - 1 /\ n = base * q + r
  BY DivModBasics
<1>2. q >= 1
  <2>1. q \in 1 .. n - 1
    <3> DEFINE z == n \div base
    <3>1. z \in 1 .. n - 1
      BY QuotientIsLess
    <3> QED
      BY <3>1
  <2> QED
    BY <2>1
<1> HIDE DEF q, r
<1>3. /\ t \in Seq(0 .. base - 1) /\ t \in Seq(Nat) /\ Len(t) >= 1 /\ ValueOf(t, base) = q
      /\ t[1] # 0 /\ Power(base)[Len(t)] > q
  BY <1>1, <1>2 DEF Writes, q
<1>4. /\ u \in Seq(0 .. base - 1) /\ u \in Seq(Nat) /\ Len(u) = Len(t) + 1 /\ u[1] = t[1]
      /\ r \in Nat /\ base \in Nat /\ Len(t) \in Nat
  BY <1>1, <1>3
<1>5. ValueOf(u, base) = base * q + r
  BY <1>3, <1>4, ValueOfAppend
<1>6. Power(base)[Len(u)] > n
  <2> DEFINE p == Power(base)[Len(t)]
  <2>1. p \in Nat \ {0} /\ Power(base)[Len(u)] = base * p
    BY <1>4, Powers
  <2>2. p >= q + 1
    BY <1>1, <1>3, <2>1
  <2> HIDE DEF p
  <2>3. base * p >= base * (q + 1) /\ base * (q + 1) = base * q + base
    BY <1>1, <2>1, <2>2, Z3
  <2>4. base * p \in Int /\ base * q \in Int
    BY <1>1, <2>1
  <2> QED
    BY <1>1, <2>1, <2>3, <2>4
<1> HIDE DEF u
<1>7. Writes(u, n, base)
  BY <1>1, <1>3, <1>4, <1>5, <1>6 DEF Writes
<1> QED
  BY <1>7 DEF u, r

\* Digits writes every number a register holds, and the magnitude of the most negative.
LEMMA DigitsWrite ==
  ASSUME NEW base \in Nat \ {0, 1}, NEW n \in 0 .. WordSize
  PROVE  Writes(Digits(base)[n], n, base)
<1> DEFINE d == Digits(base)
           S == {k \in 0 .. WordSize : \A m \in 0 .. k : Writes(d[m], m, base)}
<1>0. WordSize \in Nat
  BY IrvineAssumption
<1>1. ASSUME NEW m \in 0 .. WordSize, m < base
      PROVE  Writes(d[m], m, base)
  <2>1. d[m] = <<m>>
    BY <1>1, DigitsFollow DEF DigitRule
  <2>2. m \in 0 .. base - 1
    BY <1>1
  <2>3. Writes(<<m>>, m, base)
    BY <2>2, OneDigit
  <2> HIDE DEF d
  <2> QED
    BY <2>1, <2>3
<1>2. ASSUME NEW m \in 0 .. WordSize, m >= base, Writes(d[m \div base], m \div base, base)
      PROVE  Writes(d[m], m, base)
  <2>1. d[m] = Append(d[m \div base], m % base)
    <3>1. ~(m < base)
      BY <1>2
    <3> QED
      BY <3>1, DigitsFollow DEF DigitRule
  <2>2. m \in Nat
    OBVIOUS
  <2> DEFINE t == d[m \div base]
  <2>3. Writes(t, m \div base, base)
    BY <1>2
  <2> HIDE DEF t
  <2>4. Writes(Append(t, m % base), m, base)
    BY <1>2, <2>2, <2>3, OneMoreDigit
  <2> HIDE DEF d
  <2> QED
    BY <2>1, <2>4 DEF t
<1> HIDE DEF d
<1>3. 0 \in S
  <2>1. 0 \in 0 .. WordSize /\ 0 < base /\ \A m \in 0 .. 0 : m = 0
    BY <1>0
  <2> QED
    BY <1>1, <2>1
<1>4. ASSUME NEW k \in 0 .. WordSize - 1, k \in S
      PROVE  k + 1 \in S
  <2> SUFFICES ASSUME NEW m \in 0 .. k + 1 PROVE Writes(d[m], m, base)
    BY <1>0
  <2>1. CASE m # k + 1
    <3>1. m \in 0 .. k
      BY <2>1
    <3> QED
      BY <1>4, <3>1
  <2>2. CASE m = k + 1
    <3>1. m \in 0 .. WordSize /\ m \in Nat
      BY <1>0
    <3>2. CASE m < base
      BY <1>1, <3>1, <3>2
    <3>3. CASE m >= base
      <4>1. m \div base \in 1 .. m - 1
        BY <3>1, <3>3, QuotientIsLess
      <4> DEFINE q == m \div base
      <4>2. q \in 0 .. k
        BY <2>2, <4>1
      <4> HIDE DEF q
      <4>3. Writes(d[q], q, base)
        BY <1>4, <4>2
      <4> QED
        BY <1>2, <3>1, <3>3, <4>3 DEF q
    <3> QED
      BY <3>1, <3>2, <3>3
  <2> QED
    BY <2>1, <2>2
<1>5. n \in S
  <2> HIDE DEF S
  <2>1. \A k \in 0 .. WordSize : k \in S
    BY <1>0, <1>3, <1>4, Induction
  <2> QED
    BY <2>1
<1>6. n \in 0 .. n
  BY <1>0
<1> QED
  BY <1>5, <1>6 DEF d

\* All the places of a word say what the word is, and there are enough of them.
LEMMA PlacesWrite ==
  ASSUME NEW base \in Nat \ {0, 1}, NEW v \in 0 .. WordSize - 1
  PROVE  LET t == Places(base, v) IN
         ValueOf(t, base) = v /\ Power(base)[Len(t)] >= WordSize
<1> DEFINE n == Len(Digits(base)[WordSize - 1])
           t == Places(base, v)
           p(k) == Power(base)[k]
<1>1. WordSize \in Nat \ {0} /\ WordSize - 1 \in 0 .. WordSize /\ v \in Nat
  BY IrvineAssumption
<1>2. n \in Nat /\ p(n) >= WordSize
  <2>1. Writes(Digits(base)[WordSize - 1], WordSize - 1, base)
    BY <1>1, DigitsWrite
  <2>2. n \in Nat /\ p(n) > WordSize - 1
    BY <2>1 DEF Writes
  <2>3. p(n) \in Nat
    BY <2>2, Powers
  <2> HIDE DEF p, n
  <2> QED
    BY <1>1, <2>2, <2>3
<1>3. t = [k \in 1 .. n |-> (v \div p(n - k)) % base]
  BY DEF Places
<1> HIDE DEF n, t, p
<1>4. /\ p(0) = 1
      /\ \A k \in Nat : p(k) \in Nat \ {0} /\ p(k + 1) = base * p(k)
  BY Powers DEF p
<1>5. ASSUME NEW k \in 1 .. n
      PROVE  (v \div p(n - k)) % base \in Nat
  <2>1. n - k \in Nat
    BY <1>2
  <2>2. p(n - k) \in Nat \ {0}
    BY <1>4, <2>1
  <2>3. v \div p(n - k) \in Int
    BY <1>1, <2>2, DivModBasics
  <2>4. (v \div p(n - k)) % base \in 0 .. base - 1
    BY <2>3, DivModBasics
  <2> QED
    BY <2>4
<1>6. t \in Seq(Nat) /\ Len(t) = n /\ \A k \in 1 .. n : t[k] = (v \div p(n - k)) % base
  BY <1>2, <1>3, <1>5
<1>7. PICK g : ReadThrough(g, t, base)
  BY <1>6, ValueGoesThrough
<1> DEFINE S == {k \in 0 .. n : g[k] = v \div p(n - k)}
<1>8. 0 \in S
  <2>1. p(n) \in Nat \ {0} /\ v < p(n)
    BY <1>1, <1>2, <1>4
  <2> DEFINE m == p(n)
  <2> HIDE DEF m
  <2>2. m \in Int /\ v \in 0 .. m - 1 /\ m > 0 /\ v = m * 0 + v /\ v \in Int
    BY <1>1, <2>1 DEF m
  <2>3. v \div m = 0
    BY <2>2, DivModUnique
  <2>4. n - 0 = n
    BY <1>2
  <2> QED
    BY <1>2, <1>7, <2>3, <2>4 DEF ReadThrough, m
<1>9. ASSUME NEW k \in 0 .. n - 1, k \in S
      PROVE  k + 1 \in S
  <2> DEFINE j == n - (k + 1)
  <2>1. k + 1 \in 1 .. n /\ (k + 1) - 1 = k /\ k + 1 \in 0 .. n /\ j \in Nat /\ n - k = j + 1
    BY <1>2
  <2>2. g[k + 1] = base * g[k] + t[k + 1]
    BY <1>6, <1>7, <2>1 DEF ReadThrough
  <2>3. t[k + 1] = (v \div p(j)) % base
    BY <1>6, <2>1
  <2>4. g[k] = v \div p(j + 1)
    BY <1>9, <2>1
  <2> HIDE DEF j
  <2>5. p(j) \in Nat \ {0} /\ p(j + 1) = base * p(j)
    BY <1>4, <2>1
  <2> DEFINE w == p(j)
             x == v \div w
  <2>6. x \in Int
    BY <1>1, <2>5, DivModBasics
  <2>7. g[k] = x \div base
    <3>1. v \in Int /\ base \in Nat \ {0} /\ w \in Nat \ {0}
      BY <1>1, <2>5
    <3> HIDE DEF w
    <3>2. (v \div w) \div base = v \div (base * w)
      BY <3>1, DividingTwice
    <3> QED
      BY <2>4, <2>5, <3>2 DEF w
  <2> HIDE DEF w, x
  <2>8. x = base * (x \div base) + (x % base)
    BY <2>6, DivModBasics
  <2>9. g[k + 1] = x
    BY <2>2, <2>3, <2>7, <2>8 DEF x, w
  <2> QED
    BY <2>1, <2>9 DEF x, w, j
<1>10. n \in S
  <2> HIDE DEF S
  <2>1. \A k \in 0 .. n : k \in S
    BY <1>2, <1>8, <1>9, Induction
  <2> QED
    BY <1>2, <2>1
<1>11. v \div 1 = v
  BY <1>1
<1>12. ValueOf(t, base) = v
  <2>1. n - n = 0
    BY <1>2
  <2> QED
    BY <1>4, <1>6, <1>7, <1>10, <1>11, <2>1 DEF ReadThrough
<1> QED
  BY <1>2, <1>6, <1>12 DEF t, p

-----------------------------------------------------------------------------
(* The routines *)

\* What a routine hands to the console can be counted.
LEMMA TextsCountable ==
  ASSUME NEW STATE t, NEW STATE n, n \in Nat, DOMAIN t = 1 .. n, Len(t) = n
  PROVE  SpanOf(t) \in Countable
<1> DEFINE B == {k \in 1 .. n : t[k] = LineFeed}
<1>1. IsFiniteSet(1 .. n) /\ Cardinality(1 .. n) = n
  <2>1. 1 \in Int /\ n \in Int
    OBVIOUS
  <2> QED
    BY <2>1, FS_Interval
<1>2. B \in SUBSET (1 .. n)
  OBVIOUS
<1> HIDE DEF B
<1>3. IsFiniteSet(B) /\ Cardinality(B) <= n
  <2> DEFINE I == 1 .. n
  <2>1. IsFiniteSet(I) /\ Cardinality(I) = n /\ B \in SUBSET I
    BY <1>1, <1>2
  <2> HIDE DEF I
  <2> QED
    BY <2>1, FS_Subset
<1>4. Cardinality(B) \in Nat
  BY <1>3, FS_CardinalityType
<1>5. SpanOf(t) = [bytes |-> n, lines |-> Cardinality(B)]
  BY DEF SpanOf, B
<1> QED
  BY <1>3, <1>4, <1>5 DEF Countable

\* The console of the routines is the console of VmConsole.
ConsoleInv == Inv /\ Counted(console)

LEMMA PrintsKeeps ==
  ASSUME ConsoleInv, NEW STATE t, NEW STATE n, n \in Nat, DOMAIN t = 1 .. n, Len(t) = n,
         AppendSpan(SpanOf(t))
  PROVE  ConsoleInv'
<1> DEFINE s == SpanOf(t)
<1>1. s \in Countable /\ AppendSpan(s)
  BY TextsCountable
<1> HIDE DEF s
<1> QED
  BY <1>1, AppendInv, AppendCounted DEF ConsoleInv

LEMMA StopsAre ==
  ASSUME NEW edx \in Addresses
  PROVE  /\ Stops(edx) \subseteq Nat
         /\ Stops(edx) # {} => Min(Stops(edx)) \in Stops(edx) /\ \A k \in Stops(edx) : Min(Stops(edx)) <= k
<1> DEFINE S == Stops(edx)
<1>1. S \subseteq Nat
  BY IrvineAssumption DEF Stops
<1> HIDE DEF S
<1>2. S # {} => \E m \in S : \A k \in S : m <= k
  BY <1>1, LeastElement
<1>3. S # {} => Min(S) \in S /\ \A k \in S : Min(S) <= k
  BY <1>2 DEF Min
<1> QED
  BY <1>1, <1>3 DEF S

\* A string ends at its first zero, inside the scan limit.
LEMMA StringEnds ==
  ASSUME NEW edx \in Addresses, ScanStatus(edx) = "ok"
  PROVE  LET t == StringAt(edx)
             n == Min(Stops(edx))
         IN  /\ n \in Nat /\ n < ScanLimit /\ DOMAIN t = 1 .. n /\ Len(t) = n
             /\ \A k \in 1 .. n : t[k] = Memory[edx + k - 1].byte /\ t[k] # 0
             /\ \A k \in 0 .. n : edx + k \in DOMAIN Memory
             /\ Memory[edx + n].byte = 0
<1> DEFINE t == StringAt(edx)
           n == Min(Stops(edx))
<1>1. Stops(edx) # {} /\ edx + n \in DOMAIN Memory
  BY DEF ScanStatus
<1>2. n \in Stops(edx) /\ \A k \in Stops(edx) : n <= k
  BY <1>1, StopsAre
<1>3. n \in 0 .. ScanLimit - 1 /\ Memory[edx + n].byte = 0
  BY <1>1, <1>2 DEF Stops
<1>4. n \in Nat /\ n < ScanLimit /\ ScanLimit \in Nat /\ edx \in Int
  BY <1>3, IrvineAssumption
<1>5. t = [k \in 1 .. n |-> Memory[edx + k - 1].byte]
  BY DEF StringAt
<1> HIDE DEF n, t
<1>6. ASSUME NEW k \in 0 .. n - 1
      PROVE  edx + k \in DOMAIN Memory /\ Memory[edx + k].byte # 0
  <2>1. k \in 0 .. ScanLimit - 1 /\ k \notin Stops(edx)
    BY <1>2, <1>4
  <2> QED
    BY <2>1 DEF Stops
<1>7. ASSUME NEW k \in 1 .. n
      PROVE  t[k] = Memory[edx + k - 1].byte /\ t[k] # 0
  <2>1. k - 1 \in 0 .. n - 1 /\ edx + (k - 1) = edx + k - 1
    BY <1>4
  <2> QED
    BY <1>5, <1>6, <2>1
<1>8. ASSUME NEW k \in 0 .. n
      PROVE  edx + k \in DOMAIN Memory
  <2>1. CASE k = n
    BY <1>1, <2>1 DEF n
  <2>2. CASE k # n
    <3>1. k \in 0 .. n - 1
      BY <1>4, <2>2
    <3> QED
      BY <1>6, <3>1
  <2> QED
    BY <2>1, <2>2
<1>9. DOMAIN t = 1 .. n /\ Len(t) = n
  BY <1>4, <1>5
<1> QED
  BY <1>3, <1>4, <1>7, <1>8, <1>9 DEF n, t

LEMMA Prefixed ==
  ASSUME NEW D, NEW t \in Seq(D), NEW x
  PROVE  LET u == <<x>> \o t IN
         u[1] = x /\ Tail(u) = t /\ DOMAIN u = 1 .. Len(t) + 1 /\ Len(u) = Len(t) + 1
<1> DEFINE E == D \cup {x}
           u == <<x>> \o t
<1>1. <<x>> \in Seq(E) /\ t \in Seq(E) /\ Len(<<x>>) = 1
  OBVIOUS
<1>2. u \in Seq(E) /\ Len(u) = Len(t) + 1 /\ u[1] = x /\ Len(t) \in Nat
  BY <1>1
<1>3. \A i \in 1 .. Len(t) : u[i + 1] = t[i]
  BY <1>1
<1> HIDE DEF u
<1>4. Tail(u) = [i \in 1 .. Len(t) |-> u[i + 1]]
  <2>1. u # <<>>
    BY <1>2
  <2>2. Tail(u) \in Seq(E) /\ Len(Tail(u)) = Len(u) - 1
    BY <1>2, <2>1
  <2>3. \A i \in 1 .. Len(u) - 1 : Tail(u)[i] = u[i + 1]
    BY <1>2, <2>1
  <2>4. Len(u) - 1 = Len(t)
    BY <1>2
  <2> DEFINE w == Tail(u)
  <2> HIDE DEF w
  <2>5. w \in Seq(E) /\ Len(w) = Len(t) /\ \A i \in 1 .. Len(t) : w[i] = u[i + 1]
    BY <2>2, <2>3, <2>4 DEF w
  <2>6. w = [i \in 1 .. Len(t) |-> w[i]]
    BY <2>5
  <2>7. w = [i \in 1 .. Len(t) |-> u[i + 1]]
    BY <2>5, <2>6
  <2> QED
    BY <2>7 DEF w
<1>5. t = [i \in 1 .. Len(t) |-> t[i]]
  BY <1>1
<1>6. Tail(u) = t
  BY <1>3, <1>4, <1>5
<1> QED
  BY <1>2, <1>6 DEF u

\* What WriteInt prints reads back as the signed value of the register.
LEMMA SignedWrites ==
  ASSUME NEW v \in 0 .. WordSize - 1
  PROVE  LET t == Signed(v) IN
         /\ \E n \in Nat : DOMAIN t = 1 .. n /\ Len(t) = n
         /\ IF t[1] = Minus THEN v - WordSize = -ValueOf(Tail(t), Decimal) /\ v # 0
            ELSE v = ValueOf(t, Decimal) /\ 2 * v < WordSize
<1> DEFINE d == Digits(Decimal)[Magnitude(v)]
           D == 0 .. Decimal - 1
           t == Signed(v)
<1>1. WordSize \in Nat \ {0} /\ Decimal \in Nat \ {0, 1} /\ Minus \notin D /\ v \in Int
  BY IrvineAssumption
<1>2. Magnitude(v) \in 0 .. WordSize
  BY <1>1 DEF Magnitude, Negative
<1>3. Writes(d, Magnitude(v), Decimal)
  BY <1>1, <1>2, DigitsWrite
<1> HIDE DEF d
<1>4. d \in Seq(D) /\ Len(d) >= 1 /\ ValueOf(d, Decimal) = Magnitude(v)
  BY <1>3 DEF Writes
<1>5. CASE Negative(v)
  <2>1. t = <<Minus>> \o d
    BY <1>5 DEF Signed, d
  <2>2. t[1] = Minus /\ Tail(t) = d /\ DOMAIN t = 1 .. Len(d) + 1 /\ Len(t) = Len(d) + 1
    BY <1>4, <2>1, Prefixed
  <2>3. v - WordSize = -Magnitude(v) /\ v # 0
    BY <1>1, <1>5 DEF Magnitude, Negative
  <2>4. Len(d) + 1 \in Nat
    BY <1>4
  <2> QED
    BY <1>4, <2>2, <2>3, <2>4
<1>6. CASE ~Negative(v)
  <2>1. t = d
    <3>1. t = <<>> \o d
      BY <1>6 DEF Signed, d
    <3> QED
      BY <1>4, <3>1
  <2>2. d[1] \in D /\ DOMAIN d = 1 .. Len(d) /\ Len(d) \in Nat
    <3>1. d \in Seq(D) /\ Len(d) >= 1
      BY <1>4
    <3> HIDE DEF D
    <3>2. DOMAIN d = 1 .. Len(d) /\ Len(d) \in Nat
      BY <3>1
    <3>3. 1 \in 1 .. Len(d)
      BY <3>1, <3>2
    <3> QED
      BY <3>1, <3>2, <3>3
  <2>3. v = Magnitude(v) /\ 2 * v < WordSize
    BY <1>1, <1>6 DEF Magnitude, Negative
  <2> QED
    BY <1>1, <1>4, <2>1, <2>2, <2>3
<1> QED
  BY <1>5, <1>6

\* PrintedTextIsExact and WarningsMatchOutput of one call.
Exact(c) ==
    c.status = "ok" =>
        LET t == c.text  n == Len(t)  v == c.register IN
        CASE c.name = "WriteDec" ->
                ValueOf(t, Decimal) = v /\ (n > 1 => t[1] # 0)
          [] c.name = "WriteInt" ->
                IF t[1] = Minus THEN v - WordSize = -ValueOf(Tail(t), Decimal) /\ v # 0
                ELSE v = ValueOf(t, Decimal) /\ 2 * v < WordSize
          [] c.name = "WriteHex" -> ValueOf(t, Nibble) = v /\ Power(Nibble)[n] >= WordSize
          [] c.name = "WriteBin" -> ValueOf(t, 2) = v /\ Power(2)[n] >= WordSize
          [] c.name = "WriteString" ->
                /\ n < ScanLimit
                /\ \A k \in 1 .. n : t[k] = Memory[v + k - 1].byte /\ t[k] # 0
                /\ Memory[v + n].byte = 0
          [] OTHER -> TRUE

Warned(c) ==
    (c.name = "WriteString" /\ c.mode = "warn" /\ c.status # "invalid-argument") =>
        (c.warned <=> /\ c.status = "ok"
                      /\ \E k \in 0 .. Len(c.text) : ~Memory[c.register + k].initialized)

\* A routine other than WriteString prints t and never warns.
LEMMA PlainRoutine ==
  ASSUME ConsoleInv, NEW name, name # "WriteString", NEW v, NEW t, NEW n \in Nat,
         DOMAIN t = 1 .. n, Len(t) = n, PrintsPlain(name, v, t)
  PROVE  /\ ConsoleInv' /\ Warned(call')
         /\ call'.name = name /\ call'.register = v /\ call'.text = t
<1>1. AppendSpan(SpanOf(t)) /\ call' = Call(name, v, "off", t, ExecStatus(result'), FALSE)
  BY DEF PrintsPlain, Prints
<1>2. ConsoleInv'
  BY <1>1, PrintsKeeps
<1>3. call'.name = name /\ call'.register = v /\ call'.text = t
  BY <1>1 DEF Call
<1> QED
  BY <1>2, <1>3 DEF Warned

\* The forecast of the source run is the answer of the console.
LEMMA Forecast ==
  ASSUME Inv, NEW t, SpanOf(t) \in Countable, AppendSpan(SpanOf(t))
  PROVE  /\ result' \in {"ok", "out-of-memory", "output-limit-exceeded"}
         /\ result' = "ok" => ~WouldExceed(t)
         /\ result' = "output-limit-exceeded" => WouldExceed(t)
<1> DEFINE s == SpanOf(t)
           c == WithLimits(console)
           mb == OrDefault(console.maxBytes, DefaultBytes)
           ml == OrDefault(console.maxLines, DefaultLines)
<1>1. console \in Console /\ Good(console, rejected)
  BY DEF Inv, TypeOK
<1>2. /\ c.maxBytes = mb /\ c.maxLines = ml /\ c.bytes = console.bytes /\ c.lines = console.lines
  BY <1>1, WithLimitsKeeps
<1>3. WouldExceed(t) <=> console.bytes + s.bytes > mb \/ console.lines + s.lines > ml
  BY DEF WouldExceed
<1>4. console.bytes <= mb /\ console.lines <= ml
  BY <1>1 DEF Good
<1>5. s.bytes \in Nat /\ s.lines \in Nat /\ s.lines <= s.bytes
  BY DEF Countable
<1>6. /\ console.bytes \in Nat /\ console.lines \in Nat /\ mb \in Nat /\ ml \in Nat
  BY <1>1, ConsoleAssumption DEF Console, OrDefault
<1>7. AppendSpan(s)
  OBVIOUS
<1> HIDE DEF s, mb, ml
<1>8. Fits(c, s) <=> ~(console.bytes + s.bytes > mb \/ console.lines + s.lines > ml)
  BY <1>2, <1>5, <1>6 DEF Fits
<1>9. s.bytes = 0 => ~(console.bytes + s.bytes > mb \/ console.lines + s.lines > ml)
  BY <1>4, <1>5, <1>6
<1> HIDE DEF c
<1>10. \/ s.bytes = 0 /\ result' = "ok"
       \/ result' = "out-of-memory"
       \/ ~Fits(c, s) /\ result' = "output-limit-exceeded"
       \/ Fits(c, s) /\ result' = "ok"
  BY <1>7 DEF AppendSpan, Return, c
<1> QED
  BY <1>3, <1>8, <1>9, <1>10

LEMMA WriteStringRight ==
  ASSUME ConsoleInv, NEW edx \in Addresses, NEW mode \in Modes, WriteString(edx, mode)
  PROVE  ConsoleInv' /\ Exact(call') /\ Warned(call')
<1>1. CASE StopsBefore(edx, mode)
  <2>1. /\ UNCHANGED vars
        /\ call'.status = "uninitialized-read" /\ call'.mode = "strict"
    BY <1>1 DEF StopsBefore, Call
  <2>2. ConsoleInv'
    BY <2>1 DEF ConsoleInv, Inv, TypeOK, Good, Counted, vars
  <2> QED
    BY <2>1, <2>2 DEF Exact, Warned
<1>2. CASE ScanStatus(edx) # "ok" /\ FailsToScan(edx, mode, ScanStatus(edx))
  <2>1. /\ UNCHANGED vars
        /\ call'.status # "ok" /\ call'.warned = Warns(edx, mode)
    BY <1>2 DEF FailsToScan, Call
  <2>2. ConsoleInv'
    BY <2>1 DEF ConsoleInv, Inv, TypeOK, Good, Counted, vars
  <2>3. ~Warns(edx, mode)
    BY <1>2 DEF Warns
  <2> QED
    BY <2>1, <2>2, <2>3 DEF Exact, Warned
<1>3. CASE FailsToScan(edx, mode, "invalid-argument")
  <2>1. UNCHANGED vars /\ call'.status = "invalid-argument"
    BY <1>3 DEF FailsToScan, Call
  <2>2. ConsoleInv'
    BY <2>1 DEF ConsoleInv, Inv, TypeOK, Good, Counted, vars
  <2> QED
    BY <2>1, <2>2 DEF Exact, Warned
<1>4. CASE /\ ScanStatus(edx) = "ok"
           /\ Prints("WriteString", edx, mode, StringAt(edx), Warns(edx, mode))
  <2> DEFINE t == StringAt(edx)
             n == Min(Stops(edx))
  <2>1. /\ n \in Nat /\ n < ScanLimit /\ DOMAIN t = 1 .. n /\ Len(t) = n
        /\ \A k \in 1 .. n : t[k] = Memory[edx + k - 1].byte /\ t[k] # 0
        /\ \A k \in 0 .. n : edx + k \in DOMAIN Memory
        /\ Memory[edx + n].byte = 0
    BY <1>4, StringEnds
  <2>2. /\ AppendSpan(SpanOf(t))
        /\ call' = Call("WriteString", edx, mode, t, ExecStatus(result'), Warns(edx, mode))
    BY <1>4 DEF Prints
  <2>3. Scanned(edx) = {edx + k : k \in 0 .. n}
    <3>1. Stops(edx) # {}
      BY <1>4 DEF ScanStatus
    <3>2. Scanned(edx) = {edx + k : k \in 0 .. n} \cap DOMAIN Memory
      BY <3>1 DEF Scanned
    <3> HIDE DEF n
    <3> QED
      BY <2>1, <3>2
  <2> HIDE DEF t, n
  <2>4. ConsoleInv' /\ SpanOf(t) \in Countable
    BY <2>1, <2>2, PrintsKeeps, TextsCountable
  <2>5. Exact(call')
    <3>1. call'.name = "WriteString" /\ call'.register = edx /\ call'.text = t
      BY <2>2 DEF Call
    <3> QED
      BY <2>1, <3>1 DEF Exact
  <2>6. Warned(call')
    <3>1. /\ call'.register = edx /\ call'.text = t /\ call'.mode = mode
          /\ call'.warned = Warns(edx, mode) /\ call'.status = ExecStatus(result')
      BY <2>2 DEF Call
    <3>2. /\ result' \in {"ok", "out-of-memory", "output-limit-exceeded"}
          /\ result' = "ok" => ~WouldExceed(t)
          /\ result' = "output-limit-exceeded" => WouldExceed(t)
      BY <2>2, <2>4, Forecast DEF ConsoleInv
    <3>3. Uninitialized(edx) # {} <=> \E k \in 0 .. n : ~Memory[edx + k].initialized
      BY <2>3 DEF Uninitialized
    <3>4. mode = "warn" =>
            (Warns(edx, mode) <=> ~WouldExceed(t) /\ \E k \in 0 .. n : ~Memory[edx + k].initialized)
      BY <1>4, <3>3 DEF Warns, t
    <3>5. CASE result' = "ok"
      <4>1. ExecStatus(result') = "ok"
        BY <3>5 DEF ExecStatus
      <4> QED
        BY <2>1, <3>1, <3>2, <3>4, <3>5, <4>1 DEF Warned
    <3>6. CASE result' = "out-of-memory"
      <4>1. ExecStatus(result') = "invalid-argument"
        BY <3>6 DEF ExecStatus
      <4> QED
        BY <3>1, <4>1 DEF Warned
    <3>7. CASE result' = "output-limit-exceeded"
      <4>1. ExecStatus(result') = "console-output-limit-exceeded"
        BY <3>7 DEF ExecStatus
      <4> QED
        BY <3>1, <3>2, <3>4, <3>7, <4>1 DEF Warned
    <3> QED
      BY <3>2, <3>5, <3>6, <3>7
  <2> QED
    BY <2>4, <2>5, <2>6
<1> QED
  BY <1>1, <1>2, <1>3, <1>4 DEF WriteString

IrvineInv == ConsoleInv /\ Exact(call) /\ Warned(call)

LEMMA RoutineKeeps ==
  ASSUME IrvineInv, Routine
  PROVE  IrvineInv'
<1>0. ConsoleInv
  BY DEF IrvineInv
<1>1. CASE Crlf
  <2> DEFINE t == <<LineFeed>>
  <2>1. PrintsPlain("Crlf", 0, t) /\ DOMAIN t = 1 .. 1 /\ Len(t) = 1
    BY <1>1 DEF Crlf
  <2>2. 1 \in Nat /\ "Crlf" # "WriteString"
    OBVIOUS
  <2> HIDE DEF t
  <2>3. ConsoleInv' /\ Warned(call') /\ call'.name = "Crlf"
    BY <1>0, <2>1, <2>2, PlainRoutine
  <2>4. Exact(call')
    BY <2>3 DEF Exact
  <2> QED
    BY <2>3, <2>4 DEF IrvineInv, Exact, Warned
<1>2. ASSUME NEW al \in Accumulators, WriteChar(al)
      PROVE  IrvineInv'
  <2> DEFINE t == <<al>>
  <2>1. PrintsPlain("WriteChar", al, t) /\ DOMAIN t = 1 .. 1 /\ Len(t) = 1
    BY <1>2 DEF WriteChar
  <2>2. 1 \in Nat /\ "WriteChar" # "WriteString"
    OBVIOUS
  <2> HIDE DEF t
  <2>3. ConsoleInv' /\ Warned(call') /\ call'.name = "WriteChar"
    BY <1>0, <2>1, <2>2, PlainRoutine
  <2>4. Exact(call')
    BY <2>3 DEF Exact
  <2> QED
    BY <2>3, <2>4 DEF IrvineInv, Exact, Warned
<1>3. ASSUME NEW eax \in Accumulators, WriteDec(eax)
      PROVE  IrvineInv'
  <2> DEFINE t == Digits(Decimal)[eax]
             n == Len(t)
  <2>1. Decimal \in Nat \ {0, 1} /\ eax \in 0 .. WordSize
    BY IrvineAssumption
  <2>2. Writes(t, eax, Decimal)
    BY <2>1, DigitsWrite
  <2>3. PrintsPlain("WriteDec", eax, t) /\ "WriteDec" # "WriteString"
    BY <1>3 DEF WriteDec
  <2> HIDE DEF t
  <2>4. /\ n \in Nat /\ DOMAIN t = 1 .. n /\ Len(t) = n
        /\ ValueOf(t, Decimal) = eax /\ (eax # 0 => t[1] # 0)
    BY <2>2 DEF Writes
  <2>5. n > 1 => t[1] # 0
    <3> SUFFICES ASSUME n > 1, eax = 0 PROVE FALSE
      BY <2>4
    <3>1. Digits(Decimal)[0] = <<0>>
      <4>1. 0 \in 0 .. WordSize /\ 0 < Decimal
        BY <2>1, IrvineAssumption
      <4> QED
        BY <2>1, <4>1, DigitsFollow DEF DigitRule
    <3> QED
      BY <3>1 DEF t
  <2> HIDE DEF n
  <2>6. ConsoleInv' /\ Warned(call') /\ call'.name = "WriteDec" /\ call'.register = eax /\ call'.text = t
    BY <1>0, <2>3, <2>4, PlainRoutine
  <2>7. Exact(call')
    BY <2>4, <2>5, <2>6 DEF Exact, n
  <2> QED
    BY <2>6, <2>7 DEF IrvineInv, Exact, Warned
<1>4. ASSUME NEW eax \in Accumulators, WriteInt(eax)
      PROVE  IrvineInv'
  <2> DEFINE t == Signed(eax)
  <2>1. eax \in 0 .. WordSize - 1
    BY IrvineAssumption
  <2>2. /\ \E n \in Nat : DOMAIN t = 1 .. n /\ Len(t) = n
        /\ IF t[1] = Minus THEN eax - WordSize = -ValueOf(Tail(t), Decimal) /\ eax # 0
           ELSE eax = ValueOf(t, Decimal) /\ 2 * eax < WordSize
    BY <2>1, SignedWrites
  <2>3. PrintsPlain("WriteInt", eax, t) /\ "WriteInt" # "WriteString"
    BY <1>4 DEF WriteInt
  <2> HIDE DEF t
  <2>4. PICK n \in Nat : DOMAIN t = 1 .. n /\ Len(t) = n
    BY <2>2
  <2>5. ConsoleInv' /\ Warned(call') /\ call'.name = "WriteInt" /\ call'.register = eax /\ call'.text = t
    BY <1>0, <2>3, <2>4, PlainRoutine
  <2>6. Exact(call')
    BY <2>2, <2>5 DEF Exact
  <2> QED
    BY <2>5, <2>6 DEF IrvineInv, Exact, Warned
<1>5. ASSUME NEW base \in Nat \ {0, 1}, NEW name, name # "WriteString", NEW eax \in Accumulators,
             PrintsPlain(name, eax, Places(base, eax))
      PROVE  /\ ConsoleInv' /\ Warned(call') /\ call'.name = name /\ call'.register = eax
             /\ ValueOf(call'.text, base) = eax /\ Power(base)[Len(call'.text)] >= WordSize
  <2> DEFINE t == Places(base, eax)
             n == Len(Digits(base)[WordSize - 1])
  <2>1. eax \in 0 .. WordSize - 1 /\ WordSize - 1 \in 0 .. WordSize
    BY IrvineAssumption
  <2>2. ValueOf(t, base) = eax /\ Power(base)[Len(t)] >= WordSize
    BY <2>1, PlacesWrite
  <2>3. n \in Nat /\ DOMAIN t = 1 .. n /\ Len(t) = n
    <3>1. Writes(Digits(base)[WordSize - 1], WordSize - 1, base)
      BY <2>1, DigitsWrite
    <3>2. n \in Nat
      BY <3>1 DEF Writes
    <3> HIDE DEF n
    <3> QED
      BY <3>2 DEF Places, n
  <2> HIDE DEF t, n
  <2>4. PrintsPlain(name, eax, t)
    BY <1>5 DEF t
  <2>5. ConsoleInv' /\ Warned(call') /\ call'.name = name /\ call'.register = eax /\ call'.text = t
    BY <1>0, <1>5, <2>3, <2>4, PlainRoutine
  <2> QED
    BY <2>2, <2>5
<1>6. ASSUME NEW eax \in Accumulators, WriteHex(eax)
      PROVE  IrvineInv'
  <2>1. Nibble \in Nat \ {0, 1} /\ "WriteHex" # "WriteString" /\ PrintsPlain("WriteHex", eax, Places(Nibble, eax))
    BY <1>6, IrvineAssumption DEF WriteHex
  <2>2. /\ ConsoleInv' /\ Warned(call') /\ call'.name = "WriteHex" /\ call'.register = eax
        /\ ValueOf(call'.text, Nibble) = eax /\ Power(Nibble)[Len(call'.text)] >= WordSize
    BY <1>5, <2>1
  <2>3. Exact(call')
    BY <2>2 DEF Exact
  <2> QED
    BY <2>2, <2>3 DEF IrvineInv, Exact, Warned
<1>7. ASSUME NEW eax \in Accumulators, WriteBin(eax)
      PROVE  IrvineInv'
  <2>1. 2 \in Nat \ {0, 1} /\ "WriteBin" # "WriteString" /\ PrintsPlain("WriteBin", eax, Places(2, eax))
    BY <1>7 DEF WriteBin
  <2>2. /\ ConsoleInv' /\ Warned(call') /\ call'.name = "WriteBin" /\ call'.register = eax
        /\ ValueOf(call'.text, 2) = eax /\ Power(2)[Len(call'.text)] >= WordSize
    BY <1>5, <2>1
  <2>3. Exact(call')
    BY <2>2 DEF Exact
  <2> QED
    BY <2>2, <2>3 DEF IrvineInv, Exact, Warned
<1>8. ASSUME NEW edx \in Addresses, NEW mode \in Modes, WriteString(edx, mode)
      PROVE  IrvineInv'
  BY <1>0, <1>8, WriteStringRight DEF IrvineInv, Exact, Warned
<1> QED
  BY <1>1, <1>2, <1>3, <1>4, <1>6, <1>7, <1>8 DEF Routine

LEMMA NoCallRight == Exact(NoCall) /\ Warned(NoCall)
BY DEF NoCall, Call, Exact, Warned

LEMMA IrvineSteps == IrvineInv /\ [IrvineNext]_irvineVars => IrvineInv'
<1> SUFFICES ASSUME IrvineInv, [IrvineNext]_irvineVars PROVE IrvineInv'
  OBVIOUS
<1>1. CASE Routine
  BY <1>1, RoutineKeeps
<1>2. CASE Host
  <2>1. Inv /\ Counted(console) /\ [Next]_vars /\ call' = NoCall
    BY <1>2 DEF Host, IrvineInv, ConsoleInv
  <2>2. Inv' /\ Counted(console)'
    BY <2>1, StepInv, CountedSteps
  <2> QED
    BY <2>1, <2>2, NoCallRight DEF IrvineInv, ConsoleInv, Exact, Warned
<1>3. CASE UNCHANGED irvineVars
  BY <1>3 DEF irvineVars, IrvineInv, ConsoleInv, Inv, TypeOK, Good, Counted, Exact, Warned
<1> QED
  BY <1>1, <1>2, <1>3 DEF IrvineNext

LEMMA AlwaysIrvine == IrvineSpec => []IrvineInv
<1>1. Init => Inv
  BY ConsoleAssumption DEF Init, Inv, TypeOK, Good, Console, Zeroed, NoSpan, Span, Kinds,
     Statuses, OrDefault
<1>2. Init => Counted(console)
  BY EmptyTotal DEF Init, Zeroed, Counted
<1>3. IrvineInit => IrvineInv
  BY <1>1, <1>2, NoCallRight DEF IrvineInit, IrvineInv, ConsoleInv, Exact, Warned
<1> QED
  BY <1>3, IrvineSteps, PTL DEF IrvineSpec

\* What a routine printed is what its register or its string holds, and the counts shown
\* beside the console are those of its text.
THEOREM PrintingIsExact == IrvineSpec => []PrintedTextIsExact
<1>1. IrvineInv => PrintedTextIsExact
  BY DEF IrvineInv, ConsoleInv, Counted, Exact, PrintedTextIsExact, CountsMatchText
<1> QED
  BY <1>1, AlwaysIrvine, PTL

\* In warning mode WriteString warns exactly when it prints an uninitialized byte.
THEOREM WarningsMatch == IrvineSpec => []WarningsMatchOutput
<1>1. IrvineInv => WarningsMatchOutput
  BY DEF IrvineInv, Warned, WarningsMatchOutput
<1> QED
  BY <1>1, AlwaysIrvine, PTL

\* The routines keep the console within its limits, its types and its rejections, as the
\* host's own calls do.
THEOREM RoutinesKeepConsole ==
  IrvineSpec => [](TypeOK /\ OutputWithinLimits /\ RejectionStaysTrue)
<1>1. IrvineInv => TypeOK /\ OutputWithinLimits /\ RejectionStaysTrue
  BY DEF IrvineInv, ConsoleInv, Inv, Good, OutputWithinLimits, RejectionStaysTrue
<1> QED
  BY <1>1, AlwaysIrvine, PTL

=============================================================================
