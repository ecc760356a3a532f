------------------------- MODULE ParserCode_proofs -------------------------
(***************************************************************************)
(* For every family of sources, every capacity and every name: what the    *)
(* parser accepts is an image the executor may load, its declarations stay *)
(* apart, its INVOKEs pass what their procedures remove, and its branches, *)
(* calls and returns lead where its source says.                           *)
(***************************************************************************)
EXTENDS ParserCode, FiniteSetTheorems, SequenceTheorems, WellFoundedInduction, TLAPS

Fields == {"phase", "line", "policy", "chosen", "disabled", "irvine", "equates", "symbols",
           "protos", "labels", "pending", "procs", "open", "code", "branches", "calls", "entry",
           "diagnostics", "refused", "overflowed", "stop", "go"}
LabelFields == {"name", "isProc", "target", "line"}
RangeFields == {"name", "start", "end", "runs", "uses", "locals", "plain", "pops", "line"}
CodeFields  == {"op", "line", "ref", "target", "back"}

IsSeq(q) == \E S : q \in Seq(S)

-----------------------------------------------------------------------------
(* Sequences and least elements *)

LEMMA SeqFacts ==
  ASSUME NEW q, IsSeq(q)
  PROVE  Len(q) \in Nat /\ DOMAIN q = 1 .. Len(q) /\ (q = <<>> <=> Len(q) = 0)
BY DEF IsSeq

LEMMA AppendSeq ==
  ASSUME NEW q, IsSeq(q), NEW e
  PROVE  /\ IsSeq(Append(q, e)) /\ Len(Append(q, e)) = Len(q) + 1
         /\ \A i \in 1 .. Len(q) : Append(q, e)[i] = q[i]
         /\ Append(q, e)[Len(q) + 1] = e
<1>1. PICK R : q \in Seq(R)
  BY DEF IsSeq
<1> DEFINE S == R \cup {e}
<1>2. q \in Seq(S) /\ e \in S
  BY <1>1, SeqMonotonic
<1> HIDE DEF S
<1>3. Append(q, e) \in Seq(S)
  BY <1>2
<1> QED
  BY <1>2, <1>3 DEF IsSeq

LEMMA ConcatSeq ==
  ASSUME NEW q, NEW r, IsSeq(q), IsSeq(r)
  PROVE  /\ IsSeq(q \o r) /\ Len(q \o r) = Len(q) + Len(r)
         /\ \A i \in 1 .. Len(q \o r) :
              (q \o r)[i] = IF i <= Len(q) THEN q[i] ELSE r[i - Len(q)]
<1>1. PICK R : q \in Seq(R)
  BY DEF IsSeq
<1>2. PICK T : r \in Seq(T)
  BY DEF IsSeq
<1> DEFINE S == R \cup T
<1>3. q \in Seq(S) /\ r \in Seq(S)
  BY <1>1, <1>2, SeqMonotonic
<1> HIDE DEF S
<1> QED
  BY <1>3, ConcatProperties DEF IsSeq

LEMMA PrefixSeq ==
  ASSUME NEW q, IsSeq(q), NEW n \in 0 .. Len(q)
  PROVE  /\ IsSeq(SubSeq(q, 1, n)) /\ Len(SubSeq(q, 1, n)) = n
         /\ \A i \in 1 .. n : SubSeq(q, 1, n)[i] = q[i]
<1>1. PICK S : q \in Seq(S)
  BY DEF IsSeq
<1>2. SubSeq(q, 1, n) \in Seq(S)
  BY <1>1
<1> QED
  BY <1>1, <1>2 DEF IsSeq

\* A function on an initial segment is a sequence.
LEMMA FunctionSeq ==
  ASSUME NEW n \in Nat, NEW f, f = [i \in 1 .. n |-> f[i]]
  PROVE  IsSeq(f) /\ Len(f) = n
<1> DEFINE S == {f[i] : i \in 1 .. n}
<1>1. f \in [1 .. n -> S]
  OBVIOUS
<1> HIDE DEF S
<1>2. f \in Seq(S)
  BY <1>1, SeqDef
<1> QED
  BY <1>1, <1>2 DEF IsSeq

LEMMA LessWellFounded == IsWellFoundedOn({s \in Nat \X Nat : s[1] < s[2]}, Nat)
BY NatLessThanWellFounded DEF OpToRel

LEMMA FirstIsMember ==
  ASSUME NEW S, S \subseteq Nat, S # {}
  PROVE  First(S) \in S
<1> DEFINE R == {s \in Nat \X Nat : s[1] < s[2]}
<1>1. PICK x \in S : \A y \in S : <<y, x>> \notin R
  BY LessWellFounded, WFMin
<1>2. ASSUME NEW y \in S
      PROVE  x <= y
  <2>1. <<y, x>> \in Nat \X Nat /\ <<y, x>> \notin R
    BY <1>1
  <2>2. ~ (<<y, x>>[1] < <<y, x>>[2])
    BY <2>1
  <2> QED
    BY <2>2
<1> QED
  BY <1>2 DEF First

-----------------------------------------------------------------------------
(* The inductive invariant, on a parser state s: its records have their fields; the open      *)
(* procedure is the last one and ranges lie in order; labels and code point into the code;     *)
(* reading only stops early for a fault; the fixups can be counted.                            *)

Faulty(s) == s.refused \/ s.overflowed \/ s.stop

Judged(s) ==
  /\ DOMAIN s = Fields
  /\ s.diagnostics \in 0 .. Capacity["diagnostics"]
  /\ s.refused \in BOOLEAN /\ s.overflowed \in BOOLEAN /\ s.stop \in BOOLEAN /\ s.go \in BOOLEAN
  /\ ~s.go => Faulty(s)
  /\ IsSeq(s.branches) /\ IsSeq(s.calls)

Settled(s) == s.line \in Nat /\ s.policy \in Policies /\ s.disabled \subseteq Disableable

GoodRange(r, size) == /\ DOMAIN r = RangeFields
                      /\ r.start \in Nat /\ r.end \in Nat
                      /\ r.start <= r.end /\ r.end <= size

Ordered(procs) == \A j, k \in 1 .. Len(procs) : j < k => procs[j].end <= procs[k].start

RangesFit(s) ==
  /\ IsSeq(s.procs)
  /\ s.open \in {0, Len(s.procs)} /\ s.entry \in 0 .. Len(s.procs)
  /\ \A k \in 1 .. Len(s.procs) : GoodRange(s.procs[k], Len(s.code))
  /\ Ordered(s.procs)

GoodCode(c, size) == DOMAIN c = CodeFields /\ c.target \in 0 .. size - 1 /\ c.back \in 0 .. size

CodeFits(s) ==
  /\ IsSeq(s.code) /\ Len(s.code) <= Capacity["code"]
  /\ \A i \in 1 .. Len(s.code) : GoodCode(s.code[i], Len(s.code))

GoodLabel(l, size) == DOMAIN l = LabelFields /\ l.target \in -1 .. size - 1

LabelsFit(s) ==
  /\ IsSeq(s.labels) /\ s.pending \subseteq 1 .. Len(s.labels)
  /\ \A i \in 1 .. Len(s.labels) : GoodLabel(s.labels[i], Len(s.code))

Sound(s) == Judged(s) /\ Settled(s) /\ RangesFit(s) /\ CodeFits(s) /\ LabelsFit(s)

\* A handler keeps the phase and a sound state; a declaration also code and ranges.
Handles(s, t)  == Sound(t) /\ t.phase = s.phase /\ t.line = s.line
Declares(s, t) == Handles(s, t) /\ t.code = s.code /\ t.procs = s.procs

\* t has the structure of s, whatever its tables of names and its diagnostics are.
Alike(s, t) ==
  /\ DOMAIN t = Fields /\ t.phase = s.phase /\ t.line = s.line
  /\ t.policy = s.policy /\ t.disabled = s.disabled
  /\ t.labels = s.labels /\ t.pending = s.pending /\ t.procs = s.procs /\ t.open = s.open
  /\ t.code = s.code /\ t.entry = s.entry

LEMMA AlikeSound ==
  ASSUME NEW s, NEW t, Sound(s), Alike(s, t), Judged(t)
  PROVE  Declares(s, t)
BY DEF Sound, Alike, Settled, RangesFit, CodeFits, LabelsFit, Declares, Handles

LEMMA Capacities == \A t \in Tables : Capacity[t] \in Nat
BY ParserAssumption

-----------------------------------------------------------------------------
(* Diagnostics *)

LEMMA DiagnoseSound ==
  ASSUME NEW s, Judged(s)
  PROVE  LET t == Diagnose(s)
         IN  Alike(s, t) /\ Judged(t) /\ Faulty(t) /\ t.go = s.go
<1>1. Capacity["diagnostics"] \in Nat
  BY Capacities DEF Tables
<1>2. CASE s.diagnostics >= Capacity["diagnostics"]
  BY <1>1, <1>2 DEF Diagnose, Judged, Alike, Faulty, Fields
<1>3. CASE ~(s.diagnostics >= Capacity["diagnostics"])
  BY <1>1, <1>3 DEF Diagnose, Judged, Alike, Faulty, Fields
<1> QED
  BY <1>2, <1>3

LEMMA WarnSound ==
  ASSUME NEW s, Judged(s)
  PROVE  Alike(s, Warn(s)) /\ Judged(Warn(s))
<1>1. Capacity["diagnostics"] \in Nat
  BY Capacities DEF Tables
<1>2. CASE s.diagnostics >= Capacity["diagnostics"]
  BY <1>1, <1>2 DEF Warn, Judged, Alike, Faulty, Fields
<1>3. CASE ~(s.diagnostics >= Capacity["diagnostics"])
  BY <1>1, <1>3 DEF Warn, Judged, Alike, Faulty, Fields
<1> QED
  BY <1>2, <1>3

LEMMA RefuseSound ==
  ASSUME NEW s, Judged(s)
  PROVE  /\ Alike(s, Refuse(s)) /\ Judged(Refuse(s)) /\ Faulty(Refuse(s))
         /\ Alike(s, Full(s)) /\ Judged(Full(s))
         /\ Alike(s, Exceed(s)) /\ Judged(Exceed(s))
<1> DEFINE t == Diagnose(s)
<1>1. Alike(s, t) /\ Judged(t) /\ Faulty(t)
  BY DiagnoseSound
<1> HIDE DEF t
<1>2. Alike(s, [t EXCEPT !.go = FALSE]) /\ Judged([t EXCEPT !.go = FALSE])
        /\ Faulty([t EXCEPT !.go = FALSE])
  BY <1>1 DEF Judged, Alike, Faulty, Fields
<1>3. Alike(s, [t EXCEPT !.stop = TRUE]) /\ Judged([t EXCEPT !.stop = TRUE])
  BY <1>1 DEF Judged, Alike, Faulty, Fields
<1>4. Alike(s, [t EXCEPT !.stop = TRUE, !.go = FALSE])
        /\ Judged([t EXCEPT !.stop = TRUE, !.go = FALSE])
  BY <1>1 DEF Judged, Alike, Faulty, Fields
<1> QED
  BY <1>2, <1>3, <1>4 DEF Refuse, Full, Exceed, t

LEMMA FaultsSound ==
  ASSUME NEW s, Sound(s)
  PROVE  /\ Declares(s, Diagnose(s)) /\ Declares(s, Warn(s)) /\ Declares(s, Refuse(s))
         /\ Declares(s, Full(s)) /\ Declares(s, Exceed(s))
<1>1. Judged(s)
  BY DEF Sound
<1> QED
  BY <1>1, DiagnoseSound, WarnSound, RefuseSound, AlikeSound

LEMMA CheckedSound ==
  ASSUME NEW s, NEW t, Handles(s, t)
  PROVE  Handles(s, Checked(t)) /\ (Declares(s, t) => Declares(s, Checked(t)))
<1>1. Sound(t) /\ Judged(t)
  BY DEF Handles, Sound
<1>2. Alike(t, Checked(t)) /\ Judged(Checked(t))
  BY <1>1 DEF Checked, Judged, Alike, Faulty, Fields
<1>3. Declares(t, Checked(t))
  BY <1>1, <1>2, AlikeSound
<1> QED
  BY <1>3 DEF Handles, Declares

-----------------------------------------------------------------------------
(* Labels and code *)

LEMMA AddLabelSound ==
  ASSUME NEW s, Sound(s), NEW n, NEW isProc
  PROVE  Declares(s, AddLabel(s, n, isProc)) /\ AddLabel(s, n, isProc).open = s.open
<1> DEFINE l == [name |-> n, isProc |-> isProc, target |-> -1, line |-> s.line]
           added == [s EXCEPT !.labels = Append(@, l)]
           stopped == [added EXCEPT !.stop = TRUE, !.go = FALSE]
           waiting == [added EXCEPT !.pending = @ \cup {Len(added.labels)}]
<1>1. /\ IsSeq(Append(s.labels, l)) /\ Len(Append(s.labels, l)) = Len(s.labels) + 1
      /\ \A i \in 1 .. Len(s.labels) : Append(s.labels, l)[i] = s.labels[i]
      /\ Append(s.labels, l)[Len(s.labels) + 1] = l /\ Len(s.labels) \in Nat
  BY AppendSeq, SeqFacts DEF Sound, LabelsFit
<1>2. DOMAIN s = Fields /\ Len(s.code) \in Nat
  BY SeqFacts DEF Sound, Judged, CodeFits
<1>3. GoodLabel(l, Len(s.code))
  BY <1>2 DEF GoodLabel, LabelFields
<1>4. \A i \in 1 .. Len(s.labels) + 1 : GoodLabel(Append(s.labels, l)[i], Len(s.code))
  BY <1>1, <1>3 DEF Sound, LabelsFit
<1> HIDE DEF l
<1>5. Declares(s, stopped) /\ stopped.open = s.open
  <2>1. LabelsFit(stopped)
    BY <1>1, <1>2, <1>4 DEF Sound, LabelsFit, Fields
  <2>2. Judged(stopped) /\ Settled(stopped) /\ RangesFit(stopped) /\ CodeFits(stopped)
    BY <1>2 DEF Sound, Judged, Settled, RangesFit, CodeFits, Faulty, Fields
  <2> QED
    BY <1>2, <2>1, <2>2 DEF Declares, Handles, Sound, Fields
<1>6. Declares(s, waiting) /\ waiting.open = s.open
  <2>1. added.labels = Append(s.labels, l)
    BY <1>2 DEF Fields
  <2>2. LabelsFit(waiting)
    BY <1>1, <1>2, <1>4, <2>1 DEF Sound, LabelsFit, Fields
  <2>3. Judged(waiting) /\ Settled(waiting) /\ RangesFit(waiting) /\ CodeFits(waiting)
    BY <1>2 DEF Sound, Judged, Settled, RangesFit, CodeFits, Faulty, Fields
  <2> QED
    BY <1>2, <2>2, <2>3 DEF Declares, Handles, Sound, Fields
<1>7. Refuse(s).open = s.open /\ Exceed(s).open = s.open
  BY RefuseSound DEF Sound, Alike
<1> QED
  BY <1>5, <1>6, <1>7, FaultsSound DEF AddLabel, l

LEMMA ForgetSound ==
  ASSUME NEW s, Sound(s)
  PROVE  Declares(s, Forget(s)) /\ Forget(s).open = s.open
<1>1. DOMAIN s = Fields
  BY DEF Sound, Judged
<1>2. LabelsFit(Forget(s))
  BY <1>1 DEF Sound, LabelsFit, Forget, Fields
<1>3. Judged(Forget(s)) /\ Settled(Forget(s)) /\ RangesFit(Forget(s)) /\ CodeFits(Forget(s))
  BY <1>1 DEF Sound, Judged, Settled, RangesFit, CodeFits, Faulty, Forget, Fields
<1> QED
  BY <1>1, <1>2, <1>3 DEF Declares, Handles, Sound, Forget, Fields

LEMMA FixupsSound ==
  ASSUME NEW s, Sound(s), NEW n, NEW invoke, NEW count
  PROVE  Handles(s, AddBranch(s, n)) /\ Handles(s, AddCall(s, n, invoke, count))
<1>1. DOMAIN s = Fields /\ Judged(s) /\ Handles(s, s)
  BY DEF Sound, Judged, Handles
<1> DEFINE b == [at |-> Len(s.code), name |-> n, policy |-> s.policy, disabled |-> s.disabled]
           c == [at |-> Len(s.code), name |-> n, policy |-> s.policy, invoke |-> invoke,
                 args |-> count]
<1>6. IsSeq(Append(s.branches, b)) /\ IsSeq(Append(s.calls, c))
  BY <1>1, AppendSeq DEF Judged
<1> HIDE DEF b, c
<1>2. Alike(s, [s EXCEPT !.branches = Append(@, b)]) /\ Judged([s EXCEPT !.branches = Append(@, b)])
  BY <1>1, <1>6 DEF Alike, Judged, Faulty, Fields
<1>3. Alike(s, [s EXCEPT !.calls = Append(@, c)]) /\ Judged([s EXCEPT !.calls = Append(@, c)])
  BY <1>1, <1>6 DEF Alike, Judged, Faulty, Fields
<1>4. Handles(s, [s EXCEPT !.branches = Append(@, b)]) /\ Handles(s, [s EXCEPT !.calls = Append(@, c)])
  BY <1>2, <1>3, AlikeSound DEF Declares
<1>5. Handles(s, Refuse(s))
  BY FaultsSound DEF Declares
<1> QED
  BY <1>1, <1>4, <1>5 DEF AddBranch, AddCall, b, c

\* The instructions a line lowers to have no target yet.
Fresh(instructions) ==
  /\ IsSeq(instructions)
  /\ \A i \in 1 .. Len(instructions) : GoodCode(instructions[i], 1)

LEMMA GoodCodeGrows ==
  ASSUME NEW c, NEW n \in Nat, NEW m \in Nat, n <= m, GoodCode(c, n)
  PROVE  GoodCode(c, m)
<1>1. c.target \in 0 .. n - 1 /\ c.back \in 0 .. n
  BY DEF GoodCode
<1> QED
  BY <1>1 DEF GoodCode

LEMMA InstructionFresh ==
  ASSUME NEW s, NEW op, NEW ref
  PROVE  Fresh(<<Instruction(s, op, ref)>>) /\ GoodCode(Instruction(s, op, ref), 1)
<1>1. GoodCode(Instruction(s, op, ref), 1)
  BY DEF Instruction, GoodCode, CodeFields
<1> HIDE DEF Instruction
<1> DEFINE i == Instruction(s, op, ref)
<1> HIDE DEF i
<1>2. <<i>> \in Seq({i}) /\ Len(<<i>>) = 1 /\ <<i>>[1] = i
  OBVIOUS
<1>3. IsSeq(<<i>>)
  BY <1>2 DEF IsSeq
<1>4. \A k \in 1 .. Len(<<i>>) : GoodCode(<<i>>[k], 1)
  BY <1>1, <1>2 DEF i
<1> QED
  BY <1>1, <1>3, <1>4 DEF Fresh, i

LEMMA FreshPrefix ==
  ASSUME NEW q, Fresh(q), NEW n \in 0 .. Len(q)
  PROVE  Fresh(SubSeq(q, 1, n))
<1>1. Len(q) \in Nat
  BY SeqFacts DEF Fresh
<1> QED
  BY <1>1, PrefixSeq DEF Fresh

\* Instructions added behind the code; waiting labels point to the first of them.
LEMMA CodeGrows ==
  ASSUME NEW s, Sound(s), NEW q, Fresh(q), q # <<>>, Len(s.code) + Len(q) <= Capacity["code"],
         NEW t, DOMAIN t = Fields,
         t.code = s.code \o q, t.pending = {},
         t.labels = [i \in DOMAIN s.labels |-> IF i \in s.pending
                                               THEN [s.labels[i] EXCEPT !.target = Len(s.code)]
                                               ELSE s.labels[i]],
         t.procs = [k \in DOMAIN s.procs |-> IF k = s.open THEN [s.procs[k] EXCEPT !.runs = TRUE]
                                             ELSE s.procs[k]],
         t.phase = s.phase, t.line = s.line, t.policy = s.policy, t.disabled = s.disabled,
         t.open = s.open, t.entry = s.entry, t.diagnostics = s.diagnostics,
         t.refused = s.refused, t.overflowed = s.overflowed, t.stop = s.stop, t.go = s.go,
         t.branches = s.branches, t.calls = s.calls
  PROVE  Handles(s, t)
<1> DEFINE size == Len(s.code) + Len(q)
<1>1. /\ Len(s.code) \in Nat /\ Len(q) \in Nat /\ Len(q) # 0 /\ size \in Nat
      /\ Len(s.procs) \in Nat /\ Len(s.labels) \in Nat
      /\ DOMAIN s.procs = 1 .. Len(s.procs) /\ DOMAIN s.labels = 1 .. Len(s.labels)
  BY SeqFacts DEF Sound, CodeFits, RangesFit, LabelsFit, Fresh
<1>2. /\ IsSeq(t.code) /\ Len(t.code) = size
      /\ \A i \in 1 .. size : t.code[i] = IF i <= Len(s.code) THEN s.code[i]
                                           ELSE q[i - Len(s.code)]
  BY ConcatSeq DEF Sound, CodeFits, Fresh
<1> HIDE DEF size
<1>3. Len(s.code) < size /\ 1 <= size
  BY <1>1 DEF size
<1>4. CodeFits(t)
  <2>1. ASSUME NEW i \in 1 .. size
        PROVE  GoodCode(t.code[i], size)
    <3>1. CASE i <= Len(s.code)
      <4>1. GoodCode(s.code[i], Len(s.code)) /\ t.code[i] = s.code[i]
        BY <1>1, <1>2, <1>3, <3>1 DEF Sound, CodeFits
      <4> QED
        BY <4>1, <1>1, <1>3, GoodCodeGrows
    <3>2. CASE ~(i <= Len(s.code))
      <4>1. i - Len(s.code) \in 1 .. Len(q) /\ t.code[i] = q[i - Len(s.code)]
        BY <1>1, <1>2, <3>2 DEF size
      <4>2. GoodCode(q[i - Len(s.code)], 1)
        BY <4>1 DEF Fresh
      <4> QED
        BY <4>1, <4>2, <1>1, <1>3, GoodCodeGrows
    <3> QED
      BY <3>1, <3>2
  <2> QED
    BY <2>1, <1>2, <1>3 DEF CodeFits, size
<1>5. LabelsFit(t)
  <2>1. IsSeq(t.labels) /\ Len(t.labels) = Len(s.labels)
    <3>1. t.labels = [i \in 1 .. Len(s.labels) |-> t.labels[i]]
      BY <1>1
    <3> QED
      BY <1>1, <3>1, FunctionSeq
  <2>2. ASSUME NEW i \in 1 .. Len(s.labels)
        PROVE  GoodLabel(t.labels[i], size)
    <3>1. GoodLabel(s.labels[i], Len(s.code))
      BY DEF Sound, LabelsFit
    <3>2. CASE i \in s.pending
      <4>1. t.labels[i] = [s.labels[i] EXCEPT !.target = Len(s.code)]
        BY <1>1, <3>2
      <4>2. DOMAIN t.labels[i] = LabelFields /\ t.labels[i].target = Len(s.code)
        BY <4>1, <3>1 DEF GoodLabel, LabelFields
      <4> QED
        BY <4>2, <1>1, <1>3 DEF GoodLabel
    <3>3. CASE i \notin s.pending
      <4>1. t.labels[i] = s.labels[i]
        BY <1>1, <3>3
      <4>2. DOMAIN t.labels[i] = LabelFields /\ t.labels[i].target \in -1 .. Len(s.code) - 1
        BY <4>1, <3>1 DEF GoodLabel
      <4> QED
        BY <4>2, <1>1, <1>3 DEF GoodLabel
    <3> QED
      BY <3>2, <3>3
  <2> QED
    BY <2>1, <2>2, <1>2 DEF LabelsFit
<1>6. RangesFit(t)
  <2>1. IsSeq(t.procs) /\ Len(t.procs) = Len(s.procs)
    <3>1. t.procs = [k \in 1 .. Len(s.procs) |-> t.procs[k]]
      BY <1>1
    <3> QED
      BY <1>1, <3>1, FunctionSeq
  <2>2. ASSUME NEW k \in 1 .. Len(s.procs)
        PROVE  /\ GoodRange(t.procs[k], size)
               /\ t.procs[k].start = s.procs[k].start /\ t.procs[k].end = s.procs[k].end
    <3>1. GoodRange(s.procs[k], Len(s.code))
      BY DEF Sound, RangesFit
    <3>2. t.procs[k] = s.procs[k] \/ t.procs[k] = [s.procs[k] EXCEPT !.runs = TRUE]
      BY <1>1
    <3>3. t.procs[k].start = s.procs[k].start /\ t.procs[k].end = s.procs[k].end
            /\ DOMAIN t.procs[k] = RangeFields
      BY <3>1, <3>2 DEF GoodRange, RangeFields
    <3> QED
      BY <3>1, <3>3, <1>1, <1>3 DEF GoodRange
  <2>3. Ordered(t.procs)
    BY <2>1, <2>2 DEF Sound, RangesFit, Ordered
  <2> QED
    BY <2>1, <2>2, <2>3, <1>2 DEF Sound, RangesFit
<1>7. Judged(t) /\ Settled(t)
  BY DEF Sound, Judged, Settled, Faulty
<1> QED
  BY <1>4, <1>5, <1>6, <1>7 DEF Handles, Sound

LEMMA EmitSound ==
  ASSUME NEW s, Sound(s), NEW instructions, Fresh(instructions)
  PROVE  Handles(s, Emit(s, instructions))
<1> DEFINE room == Capacity["code"] - Len(s.code)
           fit  == IF Len(instructions) <= room THEN instructions ELSE SubSeq(instructions, 1, room)
           kept == [s EXCEPT
                 !.code = @ \o fit,
                 !.pending = {},
                 !.labels = [i \in DOMAIN @ |-> IF i \in s.pending
                                                THEN [@[i] EXCEPT !.target = Len(s.code)]
                                                ELSE @[i]],
                 !.procs = [k \in DOMAIN @ |-> IF k = s.open THEN [@[k] EXCEPT !.runs = TRUE]
                                               ELSE @[k]]]
           t    == IF fit = <<>> THEN s ELSE kept
<1>1. /\ Len(s.code) \in Nat /\ Capacity["code"] \in Nat /\ Len(instructions) \in Nat
      /\ room \in Nat /\ DOMAIN s = Fields
  <2>1. /\ Len(s.code) \in Nat /\ Len(instructions) \in Nat
        /\ Len(s.code) <= Capacity["code"] /\ DOMAIN s = Fields
    BY SeqFacts DEF Sound, CodeFits, Fresh, Judged
  <2>2. Capacity["code"] \in Nat
    BY Capacities DEF Tables
  <2> QED
    BY <2>1, <2>2
<1>2. Fresh(fit) /\ Len(s.code) + Len(fit) <= Capacity["code"]
  <2>1. CASE Len(instructions) <= room
    BY <1>1, <2>1
  <2>2. CASE ~(Len(instructions) <= room)
    <3>1. room \in 0 .. Len(instructions)
      BY <1>1, <2>2
    <3>2. Fresh(SubSeq(instructions, 1, room)) /\ Len(SubSeq(instructions, 1, room)) = room
      BY <3>1, FreshPrefix, PrefixSeq DEF Fresh
    <3> QED
      BY <3>2, <2>2, <1>1
  <2> QED
    BY <2>1, <2>2
<1> HIDE DEF fit
<1>3. Handles(s, t)
  <2>1. CASE fit = <<>>
    BY <2>1 DEF Handles
  <2>2. CASE fit # <<>>
    <3>1. /\ DOMAIN kept = Fields /\ kept.code = s.code \o fit /\ kept.pending = {}
          /\ kept.labels = [i \in DOMAIN s.labels |->
               IF i \in s.pending THEN [s.labels[i] EXCEPT !.target = Len(s.code)] ELSE s.labels[i]]
          /\ kept.procs = [k \in DOMAIN s.procs |->
               IF k = s.open THEN [s.procs[k] EXCEPT !.runs = TRUE] ELSE s.procs[k]]
      BY <1>1 DEF Fields
    <3>2. /\ kept.phase = s.phase /\ kept.line = s.line /\ kept.policy = s.policy
          /\ kept.disabled = s.disabled /\ kept.open = s.open /\ kept.entry = s.entry
          /\ kept.diagnostics = s.diagnostics /\ kept.refused = s.refused
          /\ kept.overflowed = s.overflowed /\ kept.stop = s.stop /\ kept.go = s.go
          /\ kept.branches = s.branches /\ kept.calls = s.calls
      BY <1>1 DEF Fields
    <3> HIDE DEF kept
    <3>3. Handles(s, kept)
      BY <1>2, <2>2, <3>1, <3>2, CodeGrows
    <3> QED
      BY <2>2, <3>3
  <2> QED
    BY <2>1, <2>2
<1> HIDE DEF t
<1>4. Handles(s, Exceed(t))
  BY <1>3, FaultsSound DEF Handles, Declares
<1>5. Emit(s, instructions) = IF Len(instructions) <= room THEN t ELSE Exceed(t)
  BY DEF Emit, t, fit
<1> QED
  BY <1>3, <1>4, <1>5

-----------------------------------------------------------------------------
(* Lines *)

\* The range of the open procedure, the last one, is replaced by another from the same start.
LEMMA RangeReplaced ==
  ASSUME NEW s, Sound(s), s.open # 0,
         NEW r, GoodRange(r, Len(s.code)), r.start = s.procs[s.open].start,
         NEW t, t = [s EXCEPT !.procs[s.open] = r]
  PROVE  Handles(s, t) /\ Len(t.procs) = Len(s.procs) /\ t.open = s.open /\ t.code = s.code
<1>1. /\ DOMAIN s = Fields /\ Len(s.procs) \in Nat /\ DOMAIN s.procs = 1 .. Len(s.procs)
      /\ s.open = Len(s.procs) /\ s.open \in 1 .. Len(s.procs)
  BY SeqFacts DEF Sound, Judged, RangesFit
<1> DEFINE q == [s.procs EXCEPT ![s.open] = r]
<1>2. /\ DOMAIN t = Fields /\ t.procs = q /\ t.code = s.code /\ t.open = s.open
      /\ t.labels = s.labels /\ t.pending = s.pending /\ t.entry = s.entry
      /\ t.phase = s.phase /\ t.line = s.line /\ t.policy = s.policy /\ t.disabled = s.disabled
      /\ t.diagnostics = s.diagnostics /\ t.refused = s.refused
      /\ t.overflowed = s.overflowed /\ t.stop = s.stop /\ t.go = s.go
      /\ t.branches = s.branches /\ t.calls = s.calls
  BY <1>1 DEF Fields
<1>3. DOMAIN q = 1 .. Len(s.procs) /\ q[s.open] = r
        /\ \A k \in 1 .. Len(s.procs) : k # s.open => q[k] = s.procs[k]
  BY <1>1
<1>4. IsSeq(q) /\ Len(q) = Len(s.procs)
  <2>1. q = [k \in 1 .. Len(s.procs) |-> q[k]]
    BY <1>1
  <2> HIDE DEF q
  <2> QED
    BY <1>1, <2>1, FunctionSeq
<1> HIDE DEF q
<1>5. \A k \in 1 .. Len(q) : GoodRange(q[k], Len(s.code)) /\ q[k].start = s.procs[k].start
  BY <1>3, <1>4 DEF Sound, RangesFit
<1>6. Ordered(q)
  <2>1. ASSUME NEW j \in 1 .. Len(q), NEW k \in 1 .. Len(q), j < k
        PROVE  q[j].end <= q[k].start
    <3>1. j # s.open
      BY <1>1, <1>4, <2>1
    <3>2. q[j] = s.procs[j] /\ q[k].start = s.procs[k].start
      BY <1>3, <1>4, <1>5, <3>1
    <3>3. s.procs[j].end <= s.procs[k].start
      BY <1>4, <2>1 DEF Sound, RangesFit, Ordered
    <3> QED
      BY <3>2, <3>3
  <2> QED
    BY <2>1 DEF Ordered
<1>7. RangesFit(t)
  BY <1>1, <1>2, <1>4, <1>5, <1>6 DEF Sound, RangesFit
<1>8. Judged(t) /\ Settled(t) /\ CodeFits(t) /\ LabelsFit(t)
  BY <1>2 DEF Sound, Judged, Settled, CodeFits, LabelsFit, Faulty
<1> QED
  BY <1>2, <1>4, <1>7, <1>8 DEF Handles, Sound

LEMMA OpenRange ==
  ASSUME NEW s, Sound(s), s.open # 0
  PROVE  GoodRange(s.procs[s.open], Len(s.code)) /\ s.open \in DOMAIN s.procs
           /\ Len(s.code) \in Nat /\ DOMAIN s = Fields
BY SeqFacts DEF Sound, RangesFit, CodeFits, Judged

LEMMA LocalLineSound ==
  ASSUME NEW s, Sound(s), NEW l
  PROVE  Handles(s, LocalLine(s, l))
<1>1. CASE s.open = 0 \/ LocalRefused(s, l.name)
  BY <1>1, FaultsSound DEF LocalLine, Declares
<1>2. CASE ~(s.open = 0 \/ LocalRefused(s, l.name))
  <2> DEFINE e == [name |-> l.name, line |-> s.line]
             r == [s.procs[s.open] EXCEPT !.locals = Append(@, e)]
  <2> HIDE DEF e
  <2>1. GoodRange(r, Len(s.code)) /\ r.start = s.procs[s.open].start
    BY <1>2, OpenRange DEF GoodRange, RangeFields
  <2>2. [s EXCEPT !.procs[s.open].locals = Append(@, e)] = [s EXCEPT !.procs[s.open] = r]
    BY <1>2, OpenRange
  <2> HIDE DEF r
  <2>3. Handles(s, [s EXCEPT !.procs[s.open] = r])
    BY <1>2, <2>1, RangeReplaced
  <2> QED
    BY <1>2, <2>2, <2>3 DEF LocalLine, e
<1> QED
  BY <1>1, <1>2

LEMMA CloseRangeSound ==
  ASSUME NEW s, Sound(s)
  PROVE  LET t == CloseRange(s)
         IN  Handles(s, t) /\ Len(t.procs) = Len(s.procs) /\ t.code = s.code
<1>1. CASE s.open = 0
  BY <1>1 DEF CloseRange, Handles
<1>2. CASE s.open # 0
  <2> DEFINE e == Len(s.code) > s.procs[s.open].start
             r == [s.procs[s.open] EXCEPT !.end = Len(s.code), !.runs = e]
  <2> HIDE DEF e
  <2>1. GoodRange(r, Len(s.code)) /\ r.start = s.procs[s.open].start
    BY <1>2, OpenRange DEF GoodRange, RangeFields
  <2>2. [s EXCEPT !.procs[s.open].end = Len(s.code), !.procs[s.open].runs = e]
          = [s EXCEPT !.procs[s.open] = r]
    BY <1>2, OpenRange DEF Fields
  <2> HIDE DEF r
  <2> DEFINE t == [s EXCEPT !.procs[s.open] = r]
  <2>3. Handles(s, t) /\ Len(t.procs) = Len(s.procs) /\ t.code = s.code
    BY <1>2, <2>1, RangeReplaced
  <2>4. CloseRange(s) = t
    BY <1>2, <2>2 DEF CloseRange, e
  <2> QED
    BY <2>3, <2>4
<1> QED
  BY <1>1, <1>2

LEMMA EndpLineSound ==
  ASSUME NEW s, Sound(s), NEW l
  PROVE  Handles(s, EndpLine(s, l))
<1> DEFINE t == CloseRange(Forget(s))
<1>1. Handles(s, Forget(s)) /\ Sound(Forget(s))
  BY ForgetSound DEF Declares, Handles
<1>2. Handles(s, t)
  BY <1>1, CloseRangeSound DEF Handles
<1>3. Handles(s, Refuse(Forget(s)))
  BY <1>1, FaultsSound DEF Handles, Declares
<1> HIDE DEF t
<1>4. Handles(s, [t EXCEPT !.open = 0])
  BY <1>2 DEF Handles, Sound, Judged, Settled, RangesFit, CodeFits, LabelsFit, Faulty, Fields
<1> QED
  BY <1>3, <1>4 DEF EndpLine, t

LEMMA FirstMatch ==
  ASSUME NEW q, IsSeq(q), NEW n, NEW policy, First(Matches(q, n, policy)) # 0
  PROVE  First(Matches(q, n, policy)) \in 1 .. Len(q)
<1> DEFINE S == Matches(q, n, policy)
<1>1. DOMAIN q = 1 .. Len(q)
  BY SeqFacts
<1>2. S \subseteq 1 .. Len(q) /\ S \subseteq Nat
  BY <1>1 DEF Matches
<1>3. S # {}
  BY DEF First
<1> HIDE DEF S
<1>4. First(S) \in S
  BY <1>2, <1>3, FirstIsMember
<1> QED
  BY <1>2, <1>4 DEF S

LEMMA EndLineSound ==
  ASSUME NEW s, Sound(s), NEW l
  PROVE  LET t == EndLine(s, l)
         IN  Handles(s, t)
             \/ (Sound(t) /\ t.line = s.line /\ t.phase = "ended" /\ t.entry # 0)
<1> DEFINE t    == CloseRange(Forget(s))
           proc == First(Matches(s.procs, l.name, s.policy))
           u    == [t EXCEPT !.entry = proc, !.phase = "ended"]
<1>1. Declares(s, Forget(s)) /\ Sound(Forget(s)) /\ IsSeq(s.procs)
  BY ForgetSound DEF Declares, Handles, Sound, RangesFit
<1>2. Handles(s, t) /\ Len(t.procs) = Len(s.procs)
  BY <1>1, CloseRangeSound DEF Handles, Declares
<1>3. Handles(s, Refuse(t))
  BY <1>2, FaultsSound DEF Handles, Declares
<1> HIDE DEF t
<1>4. ASSUME proc # 0
      PROVE  Sound(u) /\ u.line = s.line /\ u.phase = "ended" /\ u.entry # 0
  <2>1. proc \in 1 .. Len(s.procs)
    BY <1>1, <1>4, FirstMatch
  <2> HIDE DEF proc
  <2> QED
    BY <1>2, <1>4, <2>1 DEF Handles, Sound, Judged, Settled, RangesFit, CodeFits, LabelsFit, Faulty,
                            Fields
<1> QED
  BY <1>3, <1>4 DEF EndLine, t

LEMMA ProcLineSound ==
  ASSUME NEW s, Sound(s), NEW l
  PROVE  Handles(s, ProcLine(s, l))
<1> DEFINE t == AddLabel(Forget(s), l.name, TRUE)
           here  == Len(s.code)
           range == [name |-> l.name, start |-> here, end |-> here, runs |-> FALSE,
                     uses |-> l.uses, locals |-> <<>>, plain |-> FALSE, pops |-> {},
                     line |-> s.line]
           u == [t EXCEPT !.procs = Append(@, range), !.open = Len(s.procs) + 1]
<1>1. Declares(s, Forget(s)) /\ Sound(Forget(s))
  BY ForgetSound DEF Declares, Handles
<1>2. Declares(s, t) /\ Sound(t) /\ Handles(s, t)
  <2> DEFINE forgot == Forget(s)
  <2> HIDE DEF forgot
  <2>1. Declares(forgot, AddLabel(forgot, l.name, TRUE))
    BY <1>1, AddLabelSound, Zenon DEF forgot
  <2>2. Declares(forgot, t)
    BY <2>1 DEF forgot
  <2> HIDE DEF t
  <2> QED
    BY <1>1, <2>2 DEF Declares, Handles, forgot
<1>3. Handles(s, Refuse(Forget(s))) /\ Handles(s, Exceed(t))
  BY <1>1, <1>2, FaultsSound DEF Handles, Declares
<1>4. Handles(s, u)
  <2> HIDE DEF t
  <2>1. /\ t.procs = s.procs /\ t.code = s.code /\ DOMAIN t = Fields /\ IsSeq(s.procs)
        /\ Len(s.code) \in Nat /\ Len(s.procs) \in Nat
    BY <1>2, SeqFacts DEF Declares, Sound, Judged, RangesFit, CodeFits
  <2>2. GoodRange(range, Len(s.code)) /\ range.start = Len(s.code)
    BY <2>1 DEF GoodRange, RangeFields
  <2> HIDE DEF range
  <2> DEFINE q == Append(s.procs, range)
  <2>3. /\ IsSeq(q) /\ Len(q) = Len(s.procs) + 1 /\ q[Len(s.procs) + 1] = range
        /\ \A k \in 1 .. Len(s.procs) : q[k] = s.procs[k]
    BY <2>1, AppendSeq
  <2>4. /\ DOMAIN u = Fields /\ u.procs = q /\ u.open = Len(q) /\ u.code = s.code
        /\ u.labels = t.labels /\ u.pending = t.pending /\ u.entry = t.entry
        /\ u.phase = t.phase /\ u.line = t.line /\ u.policy = t.policy /\ u.disabled = t.disabled
        /\ u.diagnostics = t.diagnostics /\ u.refused = t.refused
        /\ u.overflowed = t.overflowed /\ u.stop = t.stop /\ u.go = t.go
        /\ u.branches = t.branches /\ u.calls = t.calls
    BY <2>1, <2>3 DEF Fields
  <2> HIDE DEF q, u
  <2>5. \A k \in 1 .. Len(s.procs) + 1 : GoodRange(q[k], Len(s.code))
    BY <1>2, <2>1, <2>2, <2>3 DEF Sound, RangesFit
  <2>6. Ordered(q)
    <3>1. ASSUME NEW j \in 1 .. Len(q), NEW k \in 1 .. Len(q), j < k
          PROVE  q[j].end <= q[k].start
      <4>1. j \in 1 .. Len(s.procs) /\ q[j] = s.procs[j]
        BY <2>1, <2>3, <3>1
      <4>2. CASE k = Len(s.procs) + 1
        <5>1. q[k].start = Len(s.code)
          BY <2>2, <2>3, <4>2
        <5>2. GoodRange(s.procs[j], Len(s.code))
          BY <1>2, <2>1, <4>1 DEF Sound, RangesFit
        <5> QED
          BY <4>1, <5>1, <5>2 DEF GoodRange
      <4>3. CASE k # Len(s.procs) + 1
        <5>1. k \in 1 .. Len(s.procs) /\ q[k] = s.procs[k]
          BY <2>1, <2>3, <4>3
        <5> QED
          BY <1>2, <2>1, <3>1, <4>1, <5>1 DEF Sound, RangesFit, Ordered
      <4> QED
        BY <4>2, <4>3
    <3> QED
      BY <3>1 DEF Ordered
  <2>7. RangesFit(u)
    <3>1. t.entry \in 0 .. Len(s.procs)
      BY <1>2, <2>1 DEF Sound, RangesFit
    <3> QED
      BY <2>1, <2>3, <2>4, <2>5, <2>6, <3>1 DEF RangesFit
  <2>8. Judged(u) /\ Settled(u) /\ CodeFits(u) /\ LabelsFit(u)
    BY <1>2, <2>1, <2>4 DEF Sound, Judged, Settled, CodeFits, LabelsFit, Faulty
  <2> QED
    BY <1>2, <2>4, <2>7, <2>8 DEF Handles, Sound
<1> QED
  BY <1>2, <1>3, <1>4 DEF ProcLine

LEMMA RetLineSound ==
  ASSUME NEW s, Sound(s), NEW l
  PROVE  Handles(s, RetLine(s, l))
<1> DEFINE noted == IF s.open = 0 THEN s
               ELSE IF l.pops = -1 THEN [s EXCEPT !.procs[s.open].plain = TRUE]
               ELSE [s EXCEPT !.procs[s.open].pops = @ \cup {l.pops}]
           ret == Instruction(s, "ret", Nothing)
<1>1. Handles(s, noted)
  <2>1. CASE s.open = 0
    BY <2>1 DEF Handles
  <2>2. CASE s.open # 0
    <3> DEFINE r == [s.procs[s.open] EXCEPT !.plain = TRUE]
               q == [s.procs[s.open] EXCEPT !.pops = @ \cup {l.pops}]
    <3>1. /\ GoodRange(r, Len(s.code)) /\ r.start = s.procs[s.open].start
          /\ GoodRange(q, Len(s.code)) /\ q.start = s.procs[s.open].start
      BY <2>2, OpenRange DEF GoodRange, RangeFields
    <3>2. /\ [s EXCEPT !.procs[s.open].plain = TRUE] = [s EXCEPT !.procs[s.open] = r]
          /\ [s EXCEPT !.procs[s.open].pops = @ \cup {l.pops}] = [s EXCEPT !.procs[s.open] = q]
      BY <2>2, OpenRange
    <3> HIDE DEF r, q
    <3>3. Handles(s, [s EXCEPT !.procs[s.open] = r]) /\ Handles(s, [s EXCEPT !.procs[s.open] = q])
      BY <2>2, <3>1, RangeReplaced
    <3> QED
      BY <2>2, <3>2, <3>3
  <2> QED
    BY <2>1, <2>2
<1> HIDE DEF noted
<1>2. Fresh(<<ret>>)
  BY InstructionFresh
<1> HIDE DEF ret
<1>3. Handles(noted, Emit(noted, <<ret>>))
  BY <1>1, <1>2, EmitSound DEF Handles
<1> QED
  BY <1>1, <1>3 DEF Handles, RetLine, noted, ret

LEMMA OperandLineSound ==
  ASSUME NEW s, Sound(s), NEW l
  PROVE  Handles(s, OperandLine(s, l))
<1> DEFINE mov == Instruction(s, "mov", Operand(s, l))
<1>1. Fresh(<<mov>>)
  BY InstructionFresh
<1> HIDE DEF mov
<1>2. Handles(s, Emit(s, <<mov>>)) /\ Handles(s, Refuse(s))
  BY <1>1, EmitSound, FaultsSound DEF Declares
<1> QED
  BY <1>2 DEF OperandLine, mov

\* An instruction and its fixup.
LEMMA FixupLine ==
  ASSUME NEW s, Sound(s), NEW instructions, Fresh(instructions), NEW n, NEW invoke, NEW count
  PROVE  /\ Handles(s, AddBranch(Emit(s, instructions), n))
         /\ Handles(s, AddCall(Emit(s, instructions), n, invoke, count))
<1> DEFINE t == Emit(s, instructions)
<1>1. Handles(s, t)
  BY EmitSound
<1> HIDE DEF t
<1>2. Handles(t, AddBranch(t, n)) /\ Handles(t, AddCall(t, n, invoke, count))
  BY <1>1, FixupsSound DEF Handles
<1> QED
  BY <1>1, <1>2 DEF Handles, t

LEMMA TransferLinesSound ==
  ASSUME NEW s, Sound(s), NEW l
  PROVE  Handles(s, JumpLine(s, l)) /\ Handles(s, CallLine(s, l))
<1> DEFINE jmp == Instruction(s, "jmp", Nothing)
           call == Instruction(s, "call", Nothing)
           routine == Instruction(s, "routine", Nothing)
<1>1. Fresh(<<jmp>>) /\ Fresh(<<call>>) /\ Fresh(<<routine>>)
  BY InstructionFresh
<1> HIDE DEF jmp, call, routine
<1>2. /\ Handles(s, AddBranch(Emit(s, <<jmp>>), l.name))
      /\ Handles(s, AddCall(Emit(s, <<call>>), l.name, FALSE, 0))
      /\ Handles(s, Emit(s, <<routine>>)) /\ Handles(s, Refuse(s))
  BY <1>1, FixupLine, EmitSound, FaultsSound DEF Declares
<1> QED
  BY <1>2 DEF JumpLine, CallLine, jmp, call, routine

LEMMA InvokeLineSound ==
  ASSUME NEW s, Sound(s), NEW l, IsSeq(l.args)
  PROVE  Handles(s, InvokeLine(s, l))
<1> DEFINE n    == Len(l.args)
           refs == [i \in DOMAIN l.args |-> ArgumentOf(s, l.args[i])]
           captures == [i \in DOMAIN l.args |-> Instruction(s, "capture", refs[i])]
           last == Instruction(s, IF n = 0 THEN "call" ELSE "commit", Nothing)
           routine == Instruction(s, "routine", Nothing)
<1>1. n \in Nat /\ DOMAIN l.args = 1 .. n
  BY SeqFacts
<1> HIDE DEF n
<1>2. IsSeq(captures) /\ Len(captures) = n /\ \A i \in 1 .. n : GoodCode(captures[i], 1)
  <2>1. \A i \in 1 .. n : captures[i] = Instruction(s, "capture", refs[i])
    BY <1>1
  <2>2. captures = [i \in 1 .. n |-> captures[i]]
    BY <1>1
  <2> HIDE DEF captures, refs
  <2>3. IsSeq(captures) /\ Len(captures) = n
    BY <1>1, <2>2, FunctionSeq
  <2> QED
    BY <2>1, <2>3, InstructionFresh
<1>3. GoodCode(last, 1) /\ Fresh(<<routine>>)
  BY InstructionFresh
<1> HIDE DEF captures, last, routine
<1>4. Fresh(Append(captures, last))
  BY <1>1, <1>2, <1>3, AppendSeq DEF Fresh
<1>5. /\ Handles(s, AddCall(Emit(s, Append(captures, last)), l.name, TRUE, n))
      /\ Handles(s, Emit(s, <<routine>>)) /\ Handles(s, Diagnose(s))
  BY <1>3, <1>4, FixupLine, EmitSound, FaultsSound DEF Declares
<1> QED
  BY <1>5 DEF InvokeLine, n, captures, refs, last, routine

LEMMA EquateLineSound ==
  ASSUME NEW s, Sound(s), NEW l
  PROVE  Declares(s, EquateLine(s, l))
<1> DEFINE e == [name |-> l.name, line |-> s.line]
           t == [s EXCEPT !.equates = Append(@, e)]
<1> HIDE DEF e
<1>1. Alike(s, t) /\ Judged(t)
  BY DEF Sound, Alike, Judged, Faulty, Fields
<1>2. Declares(s, t)
  BY <1>1, AlikeSound
<1> HIDE DEF t
<1>3. Declares(s, Diagnose(t)) /\ Declares(s, Diagnose(s))
  BY <1>2, FaultsSound DEF Declares, Handles
<1> QED
  BY <1>2, <1>3 DEF EquateLine, t, e

LEMMA DataLineSound ==
  ASSUME NEW s, Sound(s), NEW l
  PROVE  Declares(s, DataLine(s, l))
<1> DEFINE e == [name |-> l.name, line |-> s.line]
           t == [s EXCEPT !.symbols = Append(@, e)]
<1> HIDE DEF e
<1>1. Alike(s, t) /\ Judged(t)
  BY DEF Sound, Alike, Judged, Faulty, Fields
<1>2. Declares(s, t)
  BY <1>1, AlikeSound
<1> QED
  BY <1>2, FaultsSound DEF DataLine, e

LEMMA ProtoLineSound ==
  ASSUME NEW s, Sound(s), NEW l
  PROVE  Declares(s, ProtoLine(s, l))
<1> DEFINE e == [name |-> l.name, count |-> l.count]
           t == [s EXCEPT !.protos = Append(@, e)]
<1> HIDE DEF e
<1>1. Alike(s, t) /\ Judged(t)
  BY DEF Sound, Alike, Judged, Faulty, Fields
<1>2. Declares(s, t)
  BY <1>1, AlikeSound
<1> QED
  BY <1>2, FaultsSound DEF ProtoLine, e

LEMMA CasemapLineSound ==
  ASSUME NEW s, Sound(s), NEW l, l.policy \in Policies
  PROVE  Declares(s, CasemapLine(s, l))
<1> DEFINE t == IF s.chosen /\ s.policy # l.policy THEN Warn(s) ELSE s
           u == [t EXCEPT !.policy = l.policy, !.chosen = TRUE]
<1>1. Declares(s, t)
  BY FaultsSound DEF Declares, Handles
<1> HIDE DEF t
<1>2. Declares(s, u)
  BY <1>1 DEF Declares, Handles, Sound, Judged, Settled, RangesFit, CodeFits, LabelsFit, Faulty,
              Fields
<1> QED
  BY <1>2 DEF CasemapLine, t

LEMMA NokeywordLineSound ==
  ASSUME NEW s, Sound(s), NEW l
  PROVE  Declares(s, NokeywordLine(s, l))
<1> DEFINE n == Fold[l.name]
           t == [s EXCEPT !.disabled = @ \cup {n}]
<1> HIDE DEF n
<1>1. ASSUME n \in Disableable
      PROVE  Declares(s, t)
  BY <1>1 DEF Declares, Handles, Sound, Judged, Settled, RangesFit, CodeFits, LabelsFit, Faulty,
              Fields
<1> QED
  BY <1>1, FaultsSound DEF NokeywordLine, n

LEMMA LabelLineSound ==
  ASSUME NEW s, Sound(s), NEW l
  PROVE  Handles(s, LabelLine(s, l))
<1> DEFINE t == AddLabel(s, l.name, FALSE)
           u == [t EXCEPT !.go = TRUE]
<1>1. Declares(s, t)
  BY AddLabelSound, Zenon
<1> HIDE DEF t
<1>2. Sound(u) /\ u.phase = t.phase /\ u.line = t.line
  BY <1>1 DEF Declares, Handles, Sound, Judged, Settled, RangesFit, CodeFits, LabelsFit, Faulty,
              Fields
<1> QED
  BY <1>1, <1>2 DEF Handles, Declares, LabelLine, t

-----------------------------------------------------------------------------
(* Resolution *)

LEMMA ReturnTokenFits ==
  ASSUME NEW s, Sound(s), NEW i \in 1 .. Len(s.code)
  PROVE  ReturnToken(s, i - 1) \in 0 .. Len(s.code)
<1>1. Len(s.code) \in Nat
  BY SeqFacts DEF Sound, CodeFits
<1>2. NextInstruction(s, i - 1) \in 0 .. Len(s.code)
  BY <1>1 DEF NextInstruction
<1> HIDE DEF NextInstruction
<1>3. Len(s.code) \in 0 .. Len(s.code)
  BY <1>1
<1> QED
  BY <1>2, <1>3 DEF ReturnToken

LEMMA ResolvedFits ==
  ASSUME NEW s, Sound(s), NEW i \in 1 .. Len(s.code)
  PROVE  GoodCode(Resolved(s, i), Len(s.code))
<1> DEFINE bs == {k \in DOMAIN s.branches : s.branches[k].at = i /\ ~BranchRefused(s, s.branches[k])}
           cs == {k \in DOMAIN s.calls : s.calls[k].at = i /\ ~CallRefused(s, s.calls[k])}
           b == s.branches[CHOOSE k \in bs : TRUE]
           c == s.calls[CHOOSE k \in cs : TRUE]
           label == First(Matches(s.labels, b.name, b.policy))
           proc  == First(Matches(s.procs, c.name, c.policy))
           back  == ReturnToken(s, i - 1)
<1>1. /\ GoodCode(s.code[i], Len(s.code)) /\ Len(s.code) \in Nat
      /\ IsSeq(s.labels) /\ IsSeq(s.procs)
  BY SeqFacts DEF Sound, CodeFits, LabelsFit, RangesFit
<1>2. CASE bs # {}
  <2>1. ~BranchRefused(s, b)
    BY <1>2
  <2>5. Resolved(s, i) = [s.code[i] EXCEPT !.target = s.labels[label].target]
    BY <1>2 DEF Resolved
  <2> HIDE DEF b, bs
  <2>2. label # 0 /\ s.labels[label].target # -1
    BY <2>1 DEF BranchRefused
  <2>3. GoodLabel(s.labels[label], Len(s.code))
    BY <1>1, <2>2, FirstMatch DEF Sound, LabelsFit
  <2> HIDE DEF label
  <2>4. s.labels[label].target \in 0 .. Len(s.code) - 1
    BY <1>1, <2>2, <2>3 DEF GoodLabel
  <2> QED
    BY <1>1, <2>4, <2>5 DEF GoodCode, CodeFields
<1>3. CASE bs = {} /\ cs # {}
  <2>1. ~CallRefused(s, c)
    BY <1>3
  <2>2. Resolved(s, i) = [s.code[i] EXCEPT !.target = s.procs[proc].start, !.back = back]
    BY <1>3 DEF Resolved
  <2> HIDE DEF c, cs, bs
  <2>3. proc # 0 /\ ~(s.procs[proc].start >= Len(s.code))
    BY <2>1 DEF CallRefused
  <2>4. GoodRange(s.procs[proc], Len(s.code))
    BY <1>1, <2>3, FirstMatch DEF Sound, RangesFit
  <2>5. back \in 0 .. Len(s.code)
    BY ReturnTokenFits
  <2> HIDE DEF proc, back
  <2>6. s.procs[proc].start \in 0 .. Len(s.code) - 1
    BY <1>1, <2>3, <2>4 DEF GoodRange
  <2> QED
    BY <1>1, <2>2, <2>5, <2>6 DEF GoodCode, CodeFields
<1>4. CASE bs = {} /\ cs = {}
  BY <1>1, <1>4 DEF Resolved
<1> QED
  BY <1>2, <1>3, <1>4

LEMMA FaultsCounted ==
  ASSUME NEW s, Sound(s)
  PROVE  Faults(s) \in Nat
<1> DEFINE bs == {k \in DOMAIN s.branches : BranchRefused(s, s.branches[k])}
           cs == {k \in DOMAIN s.calls : CallRefused(s, s.calls[k])}
<1>1. /\ DOMAIN s.branches = 1 .. Len(s.branches) /\ Len(s.branches) \in Nat
      /\ DOMAIN s.calls = 1 .. Len(s.calls) /\ Len(s.calls) \in Nat
  BY SeqFacts DEF Sound, Judged
<1>2. IsFiniteSet(DOMAIN s.branches) /\ IsFiniteSet(DOMAIN s.calls)
  BY <1>1, FS_Interval
<1>3. bs \in SUBSET DOMAIN s.branches /\ cs \in SUBSET DOMAIN s.calls
  OBVIOUS
<1> HIDE DEF bs, cs
<1>4. Cardinality(bs) \in Nat /\ Cardinality(cs) \in Nat
  BY <1>2, <1>3, FS_Subset, FS_CardinalityType
<1> QED
  BY <1>4 DEF Faults, bs, cs

LEMMA ResolveAllSound ==
  ASSUME NEW s, Sound(s), NEW more \in BOOLEAN
  PROVE  LET t == ResolveAll(s, more)
         IN  /\ Sound(t) /\ t.phase = "done" /\ t.line = s.line
             /\ t.entry = s.entry /\ (Faulty(s) => Faulty(t))
<1> DEFINE faults == Faults(s) + (IF more THEN 1 ELSE 0)
           room == Capacity["diagnostics"] - s.diagnostics
           code == [i \in DOMAIN s.code |-> Resolved(s, i)]
           count == IF faults <= room THEN s.diagnostics + faults ELSE Capacity["diagnostics"]
           refused == s.refused \/ (faults > 0 /\ room > 0)
           overflowed == s.overflowed \/ faults > room
           t == [s EXCEPT !.code = code, !.diagnostics = count, !.refused = refused,
                          !.overflowed = overflowed, !.phase = "done"]
<1>1. /\ Faults(s) \in Nat /\ Capacity["diagnostics"] \in Nat
      /\ s.diagnostics \in 0 .. Capacity["diagnostics"] /\ DOMAIN s = Fields
      /\ s.refused \in BOOLEAN /\ s.overflowed \in BOOLEAN
  BY FaultsCounted, Capacities DEF Sound, Judged, Tables
<1>2. faults \in Nat
  BY <1>1
<1> HIDE DEF faults
<1>3. count \in 0 .. Capacity["diagnostics"]
  BY <1>1, <1>2
<1>4. /\ refused \in BOOLEAN /\ overflowed \in BOOLEAN
      /\ (s.refused => refused) /\ (s.overflowed => overflowed)
  BY <1>1
<1>5. IsSeq(s.code) /\ Len(s.code) \in Nat /\ DOMAIN s.code = 1 .. Len(s.code)
  BY SeqFacts DEF Sound, CodeFits
<1>6. IsSeq(code) /\ Len(code) = Len(s.code)
  BY <1>5, FunctionSeq
<1>7. \A i \in 1 .. Len(s.code) : GoodCode(code[i], Len(s.code))
  BY <1>5, ResolvedFits
<1>8. ResolveAll(s, more) = t
  BY DEF ResolveAll, faults
<1> HIDE DEF count, refused, overflowed, code
<1>9. /\ DOMAIN t = Fields /\ t.code = code /\ t.diagnostics = count /\ t.refused = refused
      /\ t.overflowed = overflowed /\ t.phase = "done"
      /\ t.line = s.line /\ t.policy = s.policy /\ t.disabled = s.disabled
      /\ t.labels = s.labels /\ t.pending = s.pending /\ t.procs = s.procs /\ t.open = s.open
      /\ t.entry = s.entry /\ t.stop = s.stop /\ t.go = s.go
      /\ t.branches = s.branches /\ t.calls = s.calls
  BY <1>1 DEF Fields
<1> HIDE DEF t
<1>10. Faulty(s) => Faulty(t)
  BY <1>4, <1>9 DEF Faulty
<1>11. Judged(t)
  BY <1>3, <1>4, <1>9, <1>10 DEF Sound, Judged
<1>12. Settled(t) /\ RangesFit(t) /\ CodeFits(t) /\ LabelsFit(t)
  BY <1>6, <1>7, <1>9 DEF Sound, Settled, RangesFit, CodeFits, LabelsFit
<1> QED
  BY <1>8, <1>9, <1>10, <1>11, <1>12 DEF Sound

-----------------------------------------------------------------------------
(* The specification *)

Phases == Anywhere \cup {"ended", "done"}

\* Code begins with .code; END names the entry; a source that ends otherwise has a fault, or
\* nothing in it.
Phased(s) ==
  /\ s.phase \in Phases
  /\ s.phase \in {"preamble", "data"} => s.code = <<>> /\ s.procs = <<>>
  /\ s.phase = "ended" => s.entry # 0
  /\ s.phase = "done" => Faulty(s) \/ s.entry # 0 \/ (s.code = <<>> /\ s.procs = <<>>)

IInv == /\ topic \in Topics /\ source \in Seq(Line)
        /\ Sound(p) /\ Phased(p) /\ p.line <= Len(source)

LEMMA OfferedIsLine ==
  ASSUME NEW STATE l, topic \in Topics, source \in Seq(Line), l \in Offered
  PROVE  l \in Line
<1>1. /\ topic.first \in Seq(Line) /\ topic.last \in Seq(Line) /\ topic.lines \subseteq Line
      /\ topic.more \in Nat /\ Len(source) \in Nat
  BY TopicsAssumption
<1> QED
  BY <1>1 DEF Offered

LEMMA InitSound == Init => IInv
<1> SUFFICES ASSUME Init
             PROVE  IInv
  OBVIOUS
<1>1. Capacity["diagnostics"] \in Nat /\ Capacity["code"] \in Nat
  BY Capacities DEF Tables
<1>2. IsSeq(<<>>) /\ Len(<<>>) = 0 /\ <<>> \in Seq(Line)
  <2>1. <<>> \in Seq({})
    OBVIOUS
  <2> QED
    BY <2>1 DEF IsSeq
<1>3. Judged(Empty) /\ Settled(Empty)
  BY <1>1, <1>2 DEF Empty, Judged, Settled, Faulty, Fields, Policies
<1>4. RangesFit(Empty) /\ CodeFits(Empty) /\ LabelsFit(Empty)
  BY <1>1, <1>2 DEF Empty, RangesFit, CodeFits, LabelsFit, Ordered
<1>5. Phased(Empty) /\ Empty.line = 0
  BY DEF Empty, Phased, Phases, Anywhere
<1> QED
  BY <1>2, <1>3, <1>4, <1>5 DEF Init, IInv, Sound

\* The line a handler works on.
LEMMA NowSound ==
  ASSUME IInv
  PROVE  /\ Sound(Now) /\ Now.phase = p.phase /\ Now.line = p.line + 1
         /\ Now.code = p.code /\ Now.procs = p.procs
<1>1. DOMAIN p = Fields /\ p.line \in Nat
  BY DEF IInv, Sound, Judged, Settled
<1> QED
  BY <1>1 DEF IInv, Now, Sound, Judged, Settled, RangesFit, CodeFits, LabelsFit, Faulty, Fields

\* A line of code, and a line anywhere that emits none.
LEMMA TakeSound ==
  ASSUME IInv, NEW l \in Offered, NEW s, Take(l, s),
         \/ p.phase = "code" /\ Handles(Now, s)
         \/ p.phase \in Anywhere /\ Declares(Now, s)
  PROVE  IInv'
<1>1. l \in Line
  BY OfferedIsLine DEF IInv
<1>2. source' \in Seq(Line) /\ Len(source') = Len(source) + 1 /\ topic' = topic /\ p' = s
  BY <1>1 DEF Take, IInv
<1>3. Sound(s) /\ s.phase = p.phase /\ s.line = p.line + 1
  BY NowSound DEF Handles, Declares
<1>4. Phased(s)
  BY <1>3, NowSound DEF IInv, Declares, Phased, Phases, Anywhere
<1>5. p.line + 1 <= Len(source) + 1
  BY DEF IInv, Sound, Settled
<1> QED
  BY <1>2, <1>3, <1>4, <1>5 DEF IInv

LEMMA CodeLines ==
  ASSUME IInv, Local \/ Label \/ Proc \/ Endp \/ Plain \/ Access \/ Jump \/ Call \/ Invoke \/ Ret
  PROVE  IInv'
<1> DEFINE s == Now
<1>1. Sound(s)
  BY NowSound
<1> HIDE DEF s
<1>2. ASSUME Local
      PROVE  IInv'
  <2>1. PICK l \in Offered : p.phase = "code" /\ Take(l, Checked(LocalLine(s, l)))
    BY <1>2 DEF Local, Reading, Lines, s
  <2>2. Handles(s, Checked(LocalLine(s, l)))
    BY <1>1, LocalLineSound, CheckedSound
  <2> QED
    BY <2>1, <2>2, TakeSound DEF s
<1>3. ASSUME Label
      PROVE  IInv'
  <2>1. PICK l \in Offered : p.phase = "code" /\ Take(l, LabelLine(s, l))
    BY <1>3 DEF Label, Reading, Lines, s
  <2> QED
    BY <1>1, <2>1, LabelLineSound, TakeSound DEF s
<1>4. ASSUME Proc
      PROVE  IInv'
  <2>1. PICK l \in Offered : p.phase = "code" /\ Take(l, ProcLine(s, l))
    BY <1>4 DEF Proc, Reading, Lines, s
  <2> QED
    BY <1>1, <2>1, ProcLineSound, TakeSound DEF s
<1>5. ASSUME Endp
      PROVE  IInv'
  <2>1. PICK l \in Offered : p.phase = "code" /\ Take(l, EndpLine(s, l))
    BY <1>5 DEF Endp, Reading, Lines, s
  <2> QED
    BY <1>1, <2>1, EndpLineSound, TakeSound DEF s
<1>6. ASSUME Plain
      PROVE  IInv'
  <2> DEFINE nop == Instruction(s, "nop", Nothing)
  <2>1. Fresh(<<nop>>)
    BY InstructionFresh
  <2> HIDE DEF nop
  <2>2. PICK l \in Offered : p.phase = "code" /\ Take(l, Emit(s, <<nop>>))
    BY <1>6 DEF Plain, Reading, Lines, s, nop
  <2>3. Handles(s, Emit(s, <<nop>>))
    BY <1>1, <2>1, EmitSound
  <2> QED
    BY <2>2, <2>3, TakeSound DEF s
<1>7. ASSUME Access
      PROVE  IInv'
  <2>1. PICK l \in Offered : p.phase = "code" /\ Take(l, OperandLine(s, l))
    BY <1>7 DEF Access, Reading, Lines, s
  <2> QED
    BY <1>1, <2>1, OperandLineSound, TakeSound DEF s
<1>8. ASSUME Jump
      PROVE  IInv'
  <2>1. PICK l \in Offered : p.phase = "code" /\ Take(l, JumpLine(s, l))
    BY <1>8 DEF Jump, Reading, Lines, s
  <2> QED
    BY <1>1, <2>1, TransferLinesSound, TakeSound DEF s
<1>9. ASSUME Call
      PROVE  IInv'
  <2>1. PICK l \in Offered : p.phase = "code" /\ Take(l, CallLine(s, l))
    BY <1>9 DEF Call, Reading, Lines, s
  <2> QED
    BY <1>1, <2>1, TransferLinesSound, TakeSound DEF s
<1>10. ASSUME Invoke
       PROVE  IInv'
  <2>1. PICK l \in Offered : /\ p.phase = "code" /\ l.op = "invoke"
                             /\ Take(l, Checked(InvokeLine(s, l)))
    BY <1>10 DEF Invoke, Reading, Lines, s
  <2>2. l \in Line
    BY OfferedIsLine DEF IInv
  <2>3. IsSeq(l.args)
    BY <2>1, <2>2 DEF Line, IsSeq
  <2>4. Handles(s, Checked(InvokeLine(s, l)))
    BY <1>1, <2>3, InvokeLineSound, CheckedSound
  <2> QED
    BY <2>1, <2>4, TakeSound DEF s
<1>11. ASSUME Ret
       PROVE  IInv'
  <2>1. PICK l \in Offered : p.phase = "code" /\ Take(l, RetLine(s, l))
    BY <1>11 DEF Ret, Reading, Lines, s
  <2> QED
    BY <1>1, <2>1, RetLineSound, TakeSound DEF s
<1> QED
  BY <1>2, <1>3, <1>4, <1>5, <1>6, <1>7, <1>8, <1>9, <1>10, <1>11

LEMMA Declarations ==
  ASSUME IInv, Equate \/ Casemap \/ Nokeyword \/ Proto \/ DeclareData \/ Bad \/ Include
  PROVE  IInv'
<1> DEFINE s == Now
<1>1. Sound(s)
  BY NowSound
<1> HIDE DEF s
<1>2. ASSUME Equate
      PROVE  IInv'
  <2>1. PICK l \in Offered : p.phase \in Anywhere /\ Take(l, Checked(EquateLine(s, l)))
    BY <1>2 DEF Equate, Reading, Lines, s
  <2>2. Declares(s, Checked(EquateLine(s, l)))
    BY <1>1, EquateLineSound, CheckedSound DEF Declares
  <2> QED
    BY <2>1, <2>2, TakeSound DEF s
<1>3. ASSUME Casemap
      PROVE  IInv'
  <2>1. PICK l \in Offered : /\ p.phase \in Anywhere /\ l.op = "casemap"
                             /\ Take(l, Checked(CasemapLine(s, l)))
    BY <1>3 DEF Casemap, Reading, Lines, s
  <2>2. l.policy \in Policies
    <3>1. l \in Line
      BY OfferedIsLine DEF IInv
    <3> QED
      BY <2>1, <3>1 DEF Line
  <2>3. Declares(s, Checked(CasemapLine(s, l)))
    BY <1>1, <2>2, CasemapLineSound, CheckedSound DEF Declares
  <2> QED
    BY <2>1, <2>3, TakeSound DEF s
<1>4. ASSUME Nokeyword
      PROVE  IInv'
  <2>1. PICK l \in Offered : p.phase \in Anywhere /\ Take(l, Checked(NokeywordLine(s, l)))
    BY <1>4 DEF Nokeyword, Reading, Lines, s
  <2>2. Declares(s, Checked(NokeywordLine(s, l)))
    BY <1>1, NokeywordLineSound, CheckedSound DEF Declares
  <2> QED
    BY <2>1, <2>2, TakeSound DEF s
<1>5. ASSUME Proto
      PROVE  IInv'
  <2>1. PICK l \in Offered : p.phase \in Anywhere /\ Take(l, Checked(ProtoLine(s, l)))
    BY <1>5 DEF Proto, Reading, Lines, s
  <2>2. Declares(s, Checked(ProtoLine(s, l)))
    BY <1>1, ProtoLineSound, CheckedSound DEF Declares
  <2> QED
    BY <2>1, <2>2, TakeSound DEF s
<1>6. ASSUME DeclareData
      PROVE  IInv'
  <2>1. PICK l \in Offered : p.phase \in Anywhere /\ Take(l, DataLine(s, l))
    BY <1>6 DEF DeclareData, Reading, Lines, Anywhere, s
  <2> QED
    BY <1>1, <2>1, DataLineSound, TakeSound DEF s
<1>7. ASSUME Bad
      PROVE  IInv'
  <2>1. PICK l \in Offered : p.phase \in Anywhere /\ Take(l, Refuse(s))
    BY <1>7 DEF Bad, Reading, Lines, s
  <2> QED
    BY <1>1, <2>1, FaultsSound, TakeSound DEF s
<1>8. ASSUME Include
      PROVE  IInv'
  <2> DEFINE t == [s EXCEPT !.irvine = TRUE]
  <2>1. PICK l \in Offered : p.phase \in Anywhere /\ Take(l, Checked(t))
    BY <1>8 DEF Include, Reading, Lines, Anywhere, s
  <2>2. Declares(s, t)
    <3>1. Alike(s, t) /\ Judged(t)
      BY <1>1 DEF Sound, Alike, Judged, Faulty, Fields
    <3> QED
      BY <1>1, <3>1, AlikeSound
  <2> HIDE DEF t
  <2>3. Declares(s, Checked(t))
    BY <2>2, CheckedSound DEF Declares
  <2> QED
    BY <2>1, <2>3, TakeSound DEF s
<1> QED
  BY <1>2, <1>3, <1>4, <1>5, <1>6, <1>7, <1>8

\* The steps that change the phase.
LEMMA Phasing ==
  ASSUME IInv, StartData \/ StartCode \/ End \/ EndOfSource \/ Abandon \/ Resolve
  PROVE  IInv'
<1>1. /\ Sound(p) /\ DOMAIN p = Fields /\ p.line \in Nat /\ Len(source) \in Nat
      /\ p.line <= Len(source)
  BY DEF IInv, Sound, Judged, Settled
<1> DEFINE s == Now
<1>2. Sound(s) /\ s.phase = p.phase /\ s.line = p.line + 1 /\ s.code = p.code /\ s.procs = p.procs
        /\ DOMAIN s = Fields
  BY NowSound DEF Sound, Judged
<1> HIDE DEF s
<1>3. ASSUME NEW l \in Offered, NEW t, Take(l, t), Sound(t), Phased(t), t.line = p.line + 1
      PROVE  IInv'
  <2>1. l \in Line
    BY OfferedIsLine DEF IInv
  <2>2. source' \in Seq(Line) /\ Len(source') = Len(source) + 1 /\ topic' = topic /\ p' = t
    BY <1>3, <2>1 DEF Take, IInv
  <2> QED
    BY <1>1, <1>3, <2>2 DEF IInv
<1>4. ASSUME NEW t, t = [s EXCEPT !.phase = "data"] \/ t = [s EXCEPT !.phase = "code"]
      PROVE  Sound(t) /\ t.line = s.line /\ t.code = s.code /\ t.procs = s.procs
  BY <1>2, <1>4 DEF Sound, Judged, Settled, RangesFit, CodeFits, LabelsFit, Faulty, Fields
<1>5. ASSUME StartData
      PROVE  IInv'
  <2> DEFINE t == [s EXCEPT !.phase = "data"]
  <2>1. PICK l \in Offered : p.phase \in {"preamble", "data"} /\ Take(l, t)
    BY <1>5 DEF StartData, Reading, Lines, s
  <2>2. Sound(t) /\ t.line = s.line /\ t.code = s.code /\ t.procs = s.procs /\ t.phase = "data"
    BY <1>2, <1>4 DEF Fields
  <2> HIDE DEF t
  <2>3. Phased(t)
    BY <1>2, <2>1, <2>2 DEF IInv, Phased, Phases, Anywhere
  <2> QED
    BY <1>2, <1>3, <2>1, <2>2, <2>3
<1>6. ASSUME StartCode
      PROVE  IInv'
  <2> DEFINE t == [s EXCEPT !.phase = "code"]
  <2>1. PICK l \in Offered : Take(l, t)
    BY <1>6 DEF StartCode, Reading, Lines, s
  <2>2. Sound(t) /\ t.line = s.line /\ t.phase = "code"
    BY <1>2, <1>4 DEF Fields
  <2> HIDE DEF t
  <2>3. Phased(t)
    BY <2>2 DEF Phased, Phases, Anywhere
  <2> QED
    BY <1>2, <1>3, <2>1, <2>2, <2>3
<1>7. ASSUME End
      PROVE  IInv'
  <2>1. PICK l \in Offered : p.phase = "code" /\ Take(l, EndLine(s, l))
    BY <1>7 DEF End, Reading, Lines, s
  <2> DEFINE t == EndLine(s, l)
  <2>2. Handles(s, t) \/ (Sound(t) /\ t.line = s.line /\ t.phase = "ended" /\ t.entry # 0)
    BY <1>2, EndLineSound
  <2>3. Take(l, t)
    BY <2>1
  <2> HIDE DEF t
  <2>4. Sound(t) /\ t.line = p.line + 1 /\ Phased(t)
    BY <1>2, <2>1, <2>2 DEF Handles, Phased, Phases, Anywhere
  <2> QED
    BY <1>3, <2>3, <2>4
<1>8. ASSUME NEW t, Sound(t), t.phase = "done", t.line = p.line, UNCHANGED <<topic, source>>,
             Faulty(t) \/ t.entry # 0 \/ (t.code = <<>> /\ t.procs = <<>>), p' = t
      PROVE  IInv'
  BY <1>1, <1>8 DEF IInv, Phased, Phases
<1>9. ASSUME NEW u, Sound(u)
      PROVE  LET t == [u EXCEPT !.phase = "done"]
             IN  /\ Sound(t) /\ t.phase = "done" /\ t.line = u.line /\ t.code = u.code
                 /\ t.procs = u.procs /\ (Faulty(u) => Faulty(t))
  BY <1>9 DEF Sound, Judged, Settled, RangesFit, CodeFits, LabelsFit, Faulty, Fields
<1>10. ASSUME EndOfSource
       PROVE  IInv'
  <2> DEFINE u == IF p.phase = "preamble" /\ p.diagnostics > 0 THEN p ELSE Refuse(p)
             t == [u EXCEPT !.phase = "done"]
  <2>1. Declares(p, Refuse(p)) /\ Faulty(Refuse(p))
    BY <1>1, FaultsSound, RefuseSound DEF Sound
  <2>2. Sound(u) /\ u.line = p.line /\ (Faulty(u) \/ (u.code = <<>> /\ u.procs = <<>>))
    BY <1>1, <2>1 DEF IInv, Phased, Declares, Handles
  <2>3. p' = t /\ UNCHANGED <<topic, source>>
    BY <1>10 DEF EndOfSource
  <2> HIDE DEF u
  <2>4. /\ Sound(t) /\ t.phase = "done" /\ t.line = p.line
        /\ Faulty(t) \/ (t.code = <<>> /\ t.procs = <<>>)
    BY <1>9, <2>2
  <2> QED
    BY <1>8, <2>3, <2>4
<1>11. ASSUME Abandon
       PROVE  IInv'
  <2> DEFINE t == [p EXCEPT !.phase = "done"]
  <2>1. p' = t /\ UNCHANGED <<topic, source>> /\ ~p.go
    BY <1>11 DEF Abandon
  <2>2. Faulty(p)
    BY <1>1, <2>1 DEF Sound, Judged
  <2>3. Sound(t) /\ t.phase = "done" /\ t.line = p.line /\ Faulty(t)
    BY <1>1, <1>9, <2>2
  <2> QED
    BY <1>8, <2>1, <2>3
<1>12. ASSUME Resolve
       PROVE  IInv'
  <2>1. PICK more \in BOOLEAN : p' = ResolveAll(p, more)
    BY <1>12 DEF Resolve
  <2> DEFINE t == ResolveAll(p, more)
  <2>2. Sound(t) /\ t.phase = "done" /\ t.line = p.line /\ t.entry = p.entry
    BY <1>1, ResolveAllSound
  <2>3. p.entry # 0 /\ UNCHANGED <<topic, source>>
    BY <1>12 DEF Resolve, IInv, Phased
  <2> QED
    BY <1>8, <2>1, <2>2, <2>3
<1> QED
  BY <1>5, <1>6, <1>7, <1>10, <1>11, <1>12

LEMMA NextSound == IInv /\ [Next]_vars => IInv'
<1> SUFFICES ASSUME IInv, [Next]_vars
             PROVE  IInv'
  OBVIOUS
<1>1. CASE UNCHANGED vars
  BY <1>1 DEF vars, IInv
<1>2. CASE Next
  BY <1>2, CodeLines, Declarations, Phasing DEF Next
<1> QED
  BY <1>1, <1>2

LEMMA InvariantHolds == Spec => []IInv
BY InitSound, NextSound, PTL DEF Spec

\* The parser's counters and tables stay within their sizes, whatever the source.
THEOREM ParserTypeCorrect == Spec => []TypeOK
<1>1. ASSUME IInv
      PROVE  TypeOK
  <2>1. /\ topic \in Topics /\ source \in Seq(Line) /\ p.line \in Nat /\ p.line <= Len(source)
        /\ p.policy \in Policies /\ p.disabled \subseteq Disableable
        /\ p.diagnostics \in 0 .. Capacity["diagnostics"] /\ Len(p.code) <= Capacity["code"]
    BY <1>1 DEF IInv, Sound, Judged, Settled, CodeFits
  <2>2. /\ IsSeq(p.procs) /\ p.open \in {0, Len(p.procs)} /\ p.entry \in 0 .. Len(p.procs)
        /\ IsSeq(p.labels) /\ p.pending \subseteq 1 .. Len(p.labels)
    BY <1>1 DEF IInv, Sound, RangesFit, LabelsFit
  <2>3. Len(p.procs) \in Nat /\ DOMAIN p.labels = 1 .. Len(p.labels)
    BY <2>2, SeqFacts
  <2>4. Len(source) \in Nat
    BY <2>1
  <2> QED
    BY <2>1, <2>2, <2>3, <2>4 DEF TypeOK
<1> QED
  BY <1>1, InvariantHolds, PTL

\* Every accepted program is an image the executor may load: ordered, disjoint procedure ranges,
\* an entry, targets and return tokens inside the code.
THEOREM AcceptedImagesFit == Spec => []ImageFitsExecutor
<1>1. ASSUME IInv
      PROVE  ImageFitsExecutor
  <2> SUFFICES ASSUME Accepted
               PROVE  ImageFitsExecutor
    BY DEF ImageFitsExecutor
  <2>1. /\ IsSeq(p.procs) /\ IsSeq(p.code) /\ p.entry \in 0 .. Len(p.procs)
        /\ \A k \in 1 .. Len(p.procs) : GoodRange(p.procs[k], Len(p.code))
        /\ Ordered(p.procs)
        /\ \A i \in 1 .. Len(p.code) : GoodCode(p.code[i], Len(p.code))
    BY <1>1 DEF IInv, Sound, RangesFit, CodeFits
  <2>2. /\ DOMAIN p.procs = 1 .. Len(p.procs) /\ DOMAIN p.code = 1 .. Len(p.code)
        /\ Len(p.procs) \in Nat /\ Len(p.code) \in Nat
    BY <2>1, SeqFacts
  <2>3. p.entry # 0 \/ (p.code = <<>> /\ p.procs = <<>>)
    BY <1>1 DEF IInv, Accepted, Phased, Faulty
  <2>4. p.entry \in DOMAIN p.procs \/ (p.code = <<>> /\ p.procs = <<>>)
    BY <2>1, <2>2, <2>3
  <2>5. \A k \in DOMAIN p.procs : p.procs[k].start <= p.procs[k].end /\ p.procs[k].end <= Len(p.code)
    BY <2>1, <2>2 DEF GoodRange
  <2>6. \A j, k \in DOMAIN p.procs : j < k => p.procs[j].end <= p.procs[k].start
    BY <2>1, <2>2 DEF Ordered
  <2>7. \A i \in DOMAIN p.code :
          p.code[i].target \in 0 .. Len(p.code) - 1 /\ p.code[i].back \in 0 .. Len(p.code)
    BY <2>1, <2>2 DEF GoodCode
  <2> QED
    BY <2>4, <2>5, <2>6, <2>7 DEF ImageFitsExecutor
<1> QED
  BY <1>1, InvariantHolds, PTL

-----------------------------------------------------------------------------
(* The lines of a source *)

Where(q, ops) == {k \in DOMAIN q : q[k].op \in ops}
Switches(q, k) == {i \in Where(q, {"casemap"}) : i <= k}
PolicyIn(q, k) == IF Switches(q, k) = {} THEN "all" ELSE q[Highest(Switches(q, k))].policy
Agree(q, i, k) == Same(q[i].name, q[k].name, PolicyIn(q, k))

Edges(q) == Where(q, {"proc", "endp", "end"})
Unbroken(q, i, k) == \A b \in Edges(q) : ~(i < b /\ b <= k)
RetsIn(q, d) == {r \in Where(q, {"ret"}) : r > d /\ Unbroken(q, d, r)}

LEMMA HighestIsMember ==
  ASSUME NEW n \in Nat, NEW S, S \subseteq 1 .. n, S # {}
  PROVE  Highest(S) \in S /\ \A j \in S : j <= Highest(S)
<1> DEFINE T == {n - i : i \in S}
<1>1. T \subseteq Nat /\ T # {}
  <2>1. \A i \in S : n - i \in Nat
    OBVIOUS
  <2> QED
    BY <2>1
<1> HIDE DEF T
<1>2. First(T) \in T /\ \A j \in T : First(T) <= j
  <2> DEFINE R == {s \in Nat \X Nat : s[1] < s[2]}
  <2>1. PICK x \in T : \A y \in T : <<y, x>> \notin R
    BY <1>1, LessWellFounded, WFMin
  <2>2. ASSUME NEW y \in T
        PROVE  x <= y
    <3>1. <<y, x>> \in Nat \X Nat /\ <<y, x>> \notin R
      BY <1>1, <2>1
    <3>2. ~ (<<y, x>>[1] < <<y, x>>[2])
      BY <3>1
    <3> QED
      BY <1>1, <2>1, <3>2
  <2> QED
    BY <1>1, <2>2 DEF First
<1>3. PICK x \in S : First(T) = n - x
  BY <1>2 DEF T
<1>4. \A j \in S : j <= x
  <2>1. ASSUME NEW j \in S PROVE j <= x
    <3>1. n - j \in T
      BY DEF T
    <3>2. n - x <= n - j
      BY <1>2, <1>3, <3>1
    <3> QED
      BY <3>2
  <2> QED
    BY <2>1
<1> QED
  BY <1>4 DEF Highest

\* One line more.
LEMMA LineAdded ==
  ASSUME NEW q, q \in Seq(Line), NEW l \in Line, NEW ops
  PROVE  LET r == Append(q, l)
             n == Len(q)
         IN  /\ n \in Nat /\ r \in Seq(Line) /\ Len(r) = n + 1 /\ r[n + 1] = l
             /\ DOMAIN q = 1 .. n /\ DOMAIN r = 1 .. n + 1
             /\ \A i \in 1 .. n : r[i] = q[i]
             /\ Where(q, ops) \subseteq 1 .. n
             /\ Where(r, ops) = IF l.op \in ops THEN Where(q, ops) \cup {n + 1} ELSE Where(q, ops)
<1> DEFINE n == Len(q)
           r == Append(q, l)
<1>1. /\ n \in Nat /\ r \in Seq(Line) /\ Len(r) = n + 1 /\ r[n + 1] = l
      /\ DOMAIN q = 1 .. n /\ DOMAIN r = 1 .. n + 1
      /\ \A i \in 1 .. n : r[i] = q[i]
  OBVIOUS
<1> HIDE DEF n, r
<1>2. \A k : k \in 1 .. n + 1 <=> (k \in 1 .. n \/ k = n + 1)
  BY <1>1
<1>3. \A k : k \in Where(r, ops) <=> (k \in Where(q, ops) \/ (k = n + 1 /\ l.op \in ops))
  BY <1>1, <1>2 DEF Where
<1>4. Where(q, ops) \subseteq 1 .. n
  BY <1>1 DEF Where
<1>5. Where(r, ops) = IF l.op \in ops THEN Where(q, ops) \cup {n + 1} ELSE Where(q, ops)
  BY <1>3
<1> QED
  BY <1>1, <1>4, <1>5 DEF n, r

LEMMA LinesAdded ==
  ASSUME NEW q, q \in Seq(Line), NEW l \in Line
  PROVE  LET r == Append(q, l)
             n == Len(q)
         IN  /\ n \in Nat /\ r \in Seq(Line) /\ Len(r) = n + 1 /\ r[n + 1] = l
             /\ DOMAIN q = 1 .. n /\ DOMAIN r = 1 .. n + 1
             /\ \A i \in 1 .. n : r[i] = q[i]
BY LineAdded

LEMMA EdgesAdded ==
  ASSUME NEW q, q \in Seq(Line), NEW l \in Line
  PROVE  /\ Edges(q) \subseteq 1 .. Len(q)
         /\ Edges(Append(q, l)) = IF l.op \in {"proc", "endp", "end"} THEN Edges(q) \cup {Len(q) + 1}
                                  ELSE Edges(q)
<1> DEFINE ops == {"proc", "endp", "end"}
<1> HIDE DEF ops
<1>1. /\ Where(q, ops) \subseteq 1 .. Len(q)
      /\ Where(Append(q, l), ops) = IF l.op \in ops THEN Where(q, ops) \cup {Len(q) + 1}
                                    ELSE Where(q, ops)
  BY LineAdded
<1> QED
  BY <1>1 DEF Edges, ops

LEMMA KindAdded ==
  ASSUME NEW q, q \in Seq(Line), NEW l \in Line, NEW op
  PROVE  /\ Where(q, {op}) \subseteq 1 .. Len(q)
         /\ Where(Append(q, l), {op}) = IF l.op = op THEN Where(q, {op}) \cup {Len(q) + 1}
                                        ELSE Where(q, {op})
<1> DEFINE ops == {op}
<1> HIDE DEF ops
<1>1. /\ Where(q, ops) \subseteq 1 .. Len(q)
      /\ Where(Append(q, l), ops) = IF l.op \in ops THEN Where(q, ops) \cup {Len(q) + 1}
                                    ELSE Where(q, ops)
  BY LineAdded
<1> QED
  BY <1>1 DEF ops

LEMMA PolicyStays ==
  ASSUME NEW q, q \in Seq(Line), NEW l \in Line
  PROVE  LET r == Append(q, l)
             n == Len(q)
         IN  /\ \A k \in 1 .. n : PolicyIn(r, k) = PolicyIn(q, k)
             /\ PolicyIn(r, n + 1) = IF l.op = "casemap" THEN l.policy ELSE PolicyIn(q, n)
<1> DEFINE r == Append(q, l)
           n == Len(q)
           C == Where(q, {"casemap"})
           D == Where(r, {"casemap"})
<1>1. /\ n \in Nat /\ r[n + 1] = l /\ \A i \in 1 .. n : r[i] = q[i]
      /\ C \subseteq 1 .. n /\ D = IF l.op = "casemap" THEN C \cup {n + 1} ELSE C
  BY LineAdded
<1> HIDE DEF r, n, C, D
<1>2. ASSUME NEW k \in 1 .. n
      PROVE  PolicyIn(r, k) = PolicyIn(q, k)
  <2>1. Switches(r, k) = Switches(q, k) /\ Switches(q, k) \subseteq 1 .. n
    BY <1>1 DEF Switches, C, D
  <2>2. Switches(q, k) # {} => Highest(Switches(q, k)) \in 1 .. n
    BY <1>1, <2>1, HighestIsMember
  <2> QED
    BY <1>1, <2>1, <2>2 DEF PolicyIn
<1>3. CASE l.op = "casemap"
  <2>1. n + 1 \in Switches(r, n + 1) /\ Switches(r, n + 1) \subseteq 1 .. n + 1
    <3>1. D = C \cup {n + 1}
      BY <1>1, <1>3
    <3>2. n + 1 \in D /\ n + 1 <= n + 1 /\ D \subseteq 1 .. n + 1
      BY <1>1, <3>1
    <3> QED
      BY <3>2 DEF Switches, D
  <2>2. Highest(Switches(r, n + 1)) = n + 1
    BY <1>1, <2>1, HighestIsMember
  <2> QED
    BY <1>1, <1>2, <1>3, <2>1, <2>2 DEF PolicyIn, r, n
<1>4. CASE l.op # "casemap"
  <2>1. Switches(r, n + 1) = Switches(q, n) /\ Switches(q, n) \subseteq 1 .. n
    BY <1>1, <1>4 DEF Switches, C, D
  <2>2. Switches(q, n) # {} => Highest(Switches(q, n)) \in 1 .. n
    BY <1>1, <2>1, HighestIsMember
  <2>3. PolicyIn(r, n + 1) = PolicyIn(q, n)
    BY <1>1, <2>1, <2>2 DEF PolicyIn
  <2> QED
    BY <1>2, <1>4, <2>3 DEF r, n
<1> QED
  BY <1>3, <1>4

-----------------------------------------------------------------------------
(* A table tells the lines of some kinds: an entry for each, with its name. *)

Tells(table, q, ops) ==
  /\ IsSeq(table)
  /\ \A i \in Where(q, ops) : \E j \in 1 .. Len(table) : table[j].line = i
  /\ \A j \in 1 .. Len(table) : /\ table[j].line \in Where(q, ops)
                                /\ table[j].name = q[table[j].line].name
  /\ \A i, j \in 1 .. Len(table) : table[i].line = table[j].line => i = j

LEMMA TellsStill ==
  ASSUME NEW q, q \in Seq(Line), NEW l \in Line, NEW ops, l.op \notin ops,
         NEW table, Tells(table, q, ops), NEW other, IsSeq(other), Len(other) = Len(table),
         \A j \in 1 .. Len(table) : other[j].line = table[j].line /\ other[j].name = table[j].name
  PROVE  Tells(other, Append(q, l), ops)
<1>1. /\ Where(Append(q, l), ops) = Where(q, ops) /\ Where(q, ops) \subseteq 1 .. Len(q)
      /\ \A i \in 1 .. Len(q) : Append(q, l)[i] = q[i]
  BY LineAdded
<1> DEFINE r == Append(q, l)
<1> HIDE DEF r
<1> QED
  BY <1>1 DEF Tells, r

LEMMA TellsOneMore ==
  ASSUME NEW q, q \in Seq(Line), NEW l \in Line, NEW ops, l.op \in ops,
         NEW table, Tells(table, q, ops), NEW other, IsSeq(other), Len(other) = Len(table) + 1,
         \A j \in 1 .. Len(table) : other[j].line = table[j].line /\ other[j].name = table[j].name,
         other[Len(table) + 1].line = Len(q) + 1, other[Len(table) + 1].name = l.name
  PROVE  Tells(other, Append(q, l), ops)
<1> DEFINE r == Append(q, l)
           n == Len(q)
           k == Len(table)
<1>1. /\ Where(r, ops) = Where(q, ops) \cup {n + 1} /\ Where(q, ops) \subseteq 1 .. n
      /\ \A i \in 1 .. n : r[i] = q[i]
      /\ r[n + 1] = l /\ n \in Nat
  BY LineAdded
<1>2. k \in Nat
  BY SeqFacts DEF Tells
<1> HIDE DEF r, n
<1>3. \A j \in 1 .. k : /\ other[j].line \in Where(q, ops) /\ other[j].line \in 1 .. n
                        /\ other[j].name = r[other[j].line].name
  BY <1>1 DEF Tells
<1>4. /\ \A j \in 1 .. k + 1 : other[j].line \in Where(r, ops)
      /\ \A j \in 1 .. k + 1 : other[j].name = r[other[j].line].name
  <2>1. ASSUME NEW j \in 1 .. k + 1
        PROVE  other[j].line \in Where(r, ops) /\ other[j].name = r[other[j].line].name
    <3>1. CASE j = k + 1
      BY <1>1, <3>1 DEF n
    <3>2. CASE j # k + 1
      <4>1. j \in 1 .. k
        BY <1>2, <3>2
      <4> QED
        BY <1>1, <1>3, <4>1
    <3> QED
      BY <3>1, <3>2
  <2> QED
    BY <2>1
<1>5. ASSUME NEW i \in Where(r, ops)
      PROVE  \E j \in 1 .. k + 1 : other[j].line = i
  <2>1. CASE i = n + 1
    BY <1>2, <2>1 DEF n
  <2>2. CASE i \in Where(q, ops)
    <3>1. PICK j \in 1 .. k : table[j].line = i
      BY <2>2 DEF Tells
    <3>2. j \in 1 .. k + 1
      BY <1>2
    <3> QED
      BY <3>1, <3>2
  <2> QED
    BY <1>1, <2>1, <2>2
<1>6. ASSUME NEW i \in 1 .. k + 1, NEW j \in 1 .. k + 1, other[i].line = other[j].line
      PROVE  i = j
  <2>1. \A x \in 1 .. k + 1 : x \in 1 .. k \/ x = k + 1
    BY <1>2
  <2>2. \A x \in 1 .. k : other[x].line # n + 1
    BY <1>1, <1>3
  <2>3. \A x, y \in 1 .. k : other[x].line = other[y].line => x = y
    BY DEF Tells
  <2>4. other[k + 1].line = n + 1
    BY DEF n
  <2> QED
    BY <1>6, <2>1, <2>2, <2>3, <2>4
<1> QED
  BY <1>4, <1>5, <1>6 DEF Tells, r

\* A name that matches one line matches one entry.
LEMMA OneMatch ==
  ASSUME NEW q, NEW ops, NEW table, Tells(table, q, ops), NEW n, NEW policy
  PROVE  /\ \A x : {i \in Where(q, ops) : Same(q[i].name, n, policy)} = {x}
              => Only(Matches(table, n, policy)) # 0
         /\ Matches(table, n, policy) = {}
              => \A i \in Where(q, ops) : ~Same(q[i].name, n, policy)
<1>1. DOMAIN table = 1 .. Len(table) /\ Len(table) \in Nat
  BY SeqFacts DEF Tells
<1> DEFINE M == Matches(table, n, policy)
<1>2. ASSUME NEW x, {i \in Where(q, ops) : Same(q[i].name, n, policy)} = {x}
      PROVE  Only(M) # 0
  <2>1. x \in Where(q, ops) /\ Same(q[x].name, n, policy)
    BY <1>2
  <2>2. PICK j \in 1 .. Len(table) : table[j].line = x
    BY <2>1 DEF Tells
  <2>3. j \in M
    BY <1>1, <2>1, <2>2 DEF Tells, Matches
  <2>4. ASSUME NEW k \in M
        PROVE  k = j
    <3>1. k \in 1 .. Len(table) /\ Same(table[k].name, n, policy)
      BY <1>1 DEF Matches
    <3>2. table[k].line \in Where(q, ops) /\ Same(q[table[k].line].name, n, policy)
      BY <3>1 DEF Tells
    <3>3. table[k].line = x
      BY <1>2, <3>2
    <3> QED
      BY <2>2, <3>1, <3>3 DEF Tells
  <2>5. M = {j}
    BY <2>3, <2>4
  <2> HIDE DEF M
  <2> QED
    BY <1>1, <2>5 DEF Only
<1>3. ASSUME M = {}, NEW i \in Where(q, ops)
      PROVE  ~Same(q[i].name, n, policy)
  <2>1. PICK j \in 1 .. Len(table) : table[j].line = i
    BY DEF Tells
  <2> QED
    BY <1>1, <1>3, <2>1 DEF Tells, Matches
<1> QED
  BY <1>2, <1>3

-----------------------------------------------------------------------------
(* What the tables of names tell of the lines read *)

Declaring == {"data", "equate", "label", "proc"}

NamesTold(q, s) ==
  /\ Tells(s.equates, q, {"equate"}) /\ Tells(s.symbols, q, {"data"})
  /\ Tells(s.labels, q, {"label", "proc"})
  /\ \A j \in 1 .. Len(s.labels) : s.labels[j].isProc <=> q[s.labels[j].line].op = "proc"
  /\ s.policy = PolicyIn(q, Len(q))

\* No earlier declaration has the name on its own.
Free(s, n) == /\ Only(Matches(s.equates, n, s.policy)) = 0
              /\ Only(Matches(s.symbols, n, s.policy)) = 0
              /\ Matches(s.labels, n, s.policy) = {}

\* The properties of DeclarationsStayApart, for the lines q.
NamesApart(q) ==
  \A k \in Where(q, Declaring) : \A x :
    {i \in Where(q, Declaring) : i < k /\ Agree(q, i, k)} # {x}
LocalsApart(q) ==
  \A i \in Where(q, {"proc", "local", "label"}), k \in Where(q, {"local", "label"}) :
    i < k /\ Unbroken(q, i, k) /\ "local" \in {q[i].op, q[k].op} => ~Agree(q, i, k)

\* Of the tables of names only the one the line is for grows.
NamesGrow(s, t, l) ==
  /\ t.equates = IF l.op = "equate" THEN Append(s.equates, [name |-> l.name, line |-> s.line])
                 ELSE s.equates
  /\ t.symbols = IF l.op = "data" THEN Append(s.symbols, [name |-> l.name, line |-> s.line])
                 ELSE s.symbols
  /\ t.policy = IF l.op = "casemap" THEN l.policy ELSE s.policy
  /\ IsSeq(t.labels)
  /\ Len(t.labels) = IF l.op \in {"label", "proc"} THEN Len(s.labels) + 1 ELSE Len(s.labels)
  /\ \A j \in 1 .. Len(s.labels) : /\ t.labels[j].name = s.labels[j].name
                                   /\ t.labels[j].line = s.labels[j].line
                                   /\ t.labels[j].isProc = s.labels[j].isProc
  /\ l.op \in {"label", "proc"} => /\ t.labels[Len(s.labels) + 1].name = l.name
                                   /\ t.labels[Len(s.labels) + 1].line = s.line
                                   /\ t.labels[Len(s.labels) + 1].isProc <=> l.op = "proc"

LEMMA EntryTold ==
  ASSUME NEW q, q \in Seq(Line), NEW l \in Line, NEW op, NEW table, Tells(table, q, {op}),
         NEW other,
         other = IF l.op = op THEN Append(table, [name |-> l.name, line |-> Len(q) + 1]) ELSE table
  PROVE  Tells(other, Append(q, l), {op})
<1>1. CASE l.op = op
  <2> DEFINE e == [name |-> l.name, line |-> Len(q) + 1]
  <2>1. e.name = l.name /\ e.line = Len(q) + 1 /\ other = Append(table, e)
    BY <1>1
  <2> HIDE DEF e
  <2>2. /\ IsSeq(other) /\ Len(other) = Len(table) + 1
        /\ \A i \in 1 .. Len(table) : other[i] = table[i]
        /\ other[Len(table) + 1] = e
    BY <2>1, AppendSeq DEF Tells
  <2> QED
    BY <1>1, <2>1, <2>2, TellsOneMore
<1>2. CASE l.op # op
  <2>1. l.op \notin {op} /\ other = table /\ IsSeq(table)
    BY <1>2 DEF Tells
  <2> QED
    BY <2>1, TellsStill
<1> QED
  BY <1>1, <1>2

LEMMA NamesStep ==
  ASSUME NEW q, q \in Seq(Line), NEW l \in Line, NEW s, NEW t,
         NamesTold(q, s), s.line = Len(q) + 1, NamesGrow(s, t, l)
  PROVE  NamesTold(Append(q, l), t)
<1> DEFINE r == Append(q, l)
           n == Len(q)
<1>1. Tells(t.equates, r, {"equate"}) /\ Tells(t.symbols, r, {"data"})
  <2> DEFINE e == [name |-> l.name, line |-> Len(q) + 1]
  <2>1. /\ t.equates = IF l.op = "equate" THEN Append(s.equates, e) ELSE s.equates
        /\ t.symbols = IF l.op = "data" THEN Append(s.symbols, e) ELSE s.symbols
    BY DEF NamesGrow
  <2>2. Tells(s.equates, q, {"equate"}) /\ Tells(s.symbols, q, {"data"})
    BY DEF NamesTold
  <2> QED
    BY <2>1, <2>2, EntryTold
<1>2. Tells(t.labels, r, {"label", "proc"})
  <2> DEFINE a == s.labels
             b == t.labels
  <2>1. /\ Tells(a, q, {"label", "proc"}) /\ IsSeq(b)
        /\ Len(b) = IF l.op \in {"label", "proc"} THEN Len(a) + 1 ELSE Len(a)
        /\ \A j \in 1 .. Len(a) : b[j].line = a[j].line /\ b[j].name = a[j].name
        /\ l.op \in {"label", "proc"} => /\ b[Len(a) + 1].name = l.name
                                         /\ b[Len(a) + 1].line = Len(q) + 1
    BY DEF NamesTold, NamesGrow
  <2> HIDE DEF a, b
  <2>2. CASE l.op \in {"label", "proc"}
    <3>1. Len(b) = Len(a) + 1 /\ b[Len(a) + 1].name = l.name /\ b[Len(a) + 1].line = Len(q) + 1
      BY <2>1, <2>2
    <3> QED
      BY <2>1, <2>2, <3>1, TellsOneMore DEF b
  <2>3. CASE l.op \notin {"label", "proc"}
    <3>1. Len(b) = Len(a)
      BY <2>1, <2>3
    <3> QED
      BY <2>1, <2>3, <3>1, TellsStill DEF b
  <2> QED
    BY <2>2, <2>3
<1>3. /\ n \in Nat /\ r[n + 1] = l /\ \A i \in 1 .. n : r[i] = q[i]
      /\ Where(q, {"label", "proc"}) \subseteq 1 .. n /\ Len(r) = n + 1
  BY LineAdded
<1>4. Len(s.labels) \in Nat /\ \A j \in 1 .. Len(s.labels) : s.labels[j].line \in 1 .. n
  BY <1>3, SeqFacts DEF NamesTold, Tells
<1>5. t.policy = PolicyIn(r, Len(r))
  <2>1. PolicyIn(r, n + 1) = IF l.op = "casemap" THEN l.policy ELSE PolicyIn(q, n)
    BY PolicyStays
  <2> QED
    BY <1>3, <2>1 DEF NamesTold, NamesGrow
<1> HIDE DEF r, n
<1>6. ASSUME NEW j \in 1 .. Len(t.labels)
      PROVE  t.labels[j].isProc <=> r[t.labels[j].line].op = "proc"
  <2>1. CASE j \in 1 .. Len(s.labels)
    <3>1. /\ t.labels[j].isProc = s.labels[j].isProc /\ t.labels[j].line = s.labels[j].line
          /\ s.labels[j].isProc <=> q[s.labels[j].line].op = "proc"
      BY <2>1 DEF NamesTold, NamesGrow
    <3>2. r[t.labels[j].line] = q[s.labels[j].line]
      BY <1>3, <1>4, <2>1, <3>1
    <3> QED
      BY <3>1, <3>2, Zenon
  <2>2. CASE j \notin 1 .. Len(s.labels)
    <3>1. j = Len(s.labels) + 1 /\ l.op \in {"label", "proc"}
      BY <1>4, <2>2 DEF NamesGrow
    <3>2. t.labels[j].line = n + 1
      BY <3>1 DEF NamesGrow, n
    <3>3. t.labels[j].isProc <=> l.op = "proc"
      BY <3>1 DEF NamesGrow
    <3> QED
      BY <1>3, <3>2, <3>3
  <2> QED
    BY <2>1, <2>2
<1> QED
  BY <1>1, <1>2, <1>5, <1>6 DEF NamesTold, r

\* A name that is free is the only one of its kind, or has several already.
LEMMA NamesApartStep ==
  ASSUME NEW q, q \in Seq(Line), NEW l \in Line, NEW s, NamesTold(q, s), NamesApart(q),
         l.op \in Declaring => Free(s, l.name)
  PROVE  NamesApart(Append(q, l))
<1> DEFINE r == Append(q, l)
           n == Len(q)
           D == Where(q, Declaring)
<1>1. /\ n \in Nat /\ r[n + 1] = l /\ \A i \in 1 .. n : r[i] = q[i]
      /\ D \subseteq 1 .. n
      /\ Where(r, Declaring) = IF l.op \in Declaring THEN D \cup {n + 1} ELSE D
  BY LineAdded
<1>2. /\ \A k \in 1 .. n : PolicyIn(r, k) = PolicyIn(q, k)
      /\ l.op # "casemap" => PolicyIn(r, n + 1) = PolicyIn(q, n)
  BY PolicyStays
<1> HIDE DEF r, n
<1>3. \A i, k \in 1 .. n : Agree(r, i, k) <=> Agree(q, i, k)
  BY <1>1, <1>2 DEF Agree
<1>4. ASSUME NEW k \in D, NEW x
      PROVE  {i \in Where(r, Declaring) : i < k /\ Agree(r, i, k)} # {x}
  <2>1. k \in 1 .. n /\ \A i \in Where(r, Declaring) : i < k => i \in D
    BY <1>1
  <2>2. \A i : (i \in Where(r, Declaring) /\ i < k /\ Agree(r, i, k))
                <=> (i \in D /\ i < k /\ Agree(q, i, k))
    BY <1>1, <1>3, <2>1
  <2>3. {i \in Where(r, Declaring) : i < k /\ Agree(r, i, k)}
          = {i \in D : i < k /\ Agree(q, i, k)}
    BY <2>2
  <2> QED
    BY <2>3 DEF NamesApart
<1>5. ASSUME l.op \in Declaring, NEW x
      PROVE  {i \in Where(r, Declaring) : i < n + 1 /\ Agree(r, i, n + 1)} # {x}
  <2> DEFINE X == {i \in Where(r, Declaring) : i < n + 1 /\ Agree(r, i, n + 1)}
             Y(ops) == {i \in Where(q, ops) : Same(q[i].name, l.name, s.policy)}
  <2>1. l.op # "casemap" /\ PolicyIn(r, n + 1) = s.policy
    BY <1>2, <1>5 DEF Declaring, NamesTold, n
  <2>2. \A i \in 1 .. n : Agree(r, i, n + 1) <=> Same(q[i].name, l.name, s.policy)
    BY <1>1, <2>1 DEF Agree
  <2>3. \A i : i \in X <=> i \in D /\ Same(q[i].name, l.name, s.policy)
    BY <1>1, <2>2
  <2>4. \A i : i \in D <=> i \in Where(q, {"equate"}) \/ i \in Where(q, {"data"})
                            \/ i \in Where(q, {"label", "proc"})
    BY DEF Where, Declaring
  <2>5. /\ \A y : Y({"equate"}) # {y} /\ Y({"data"}) # {y}
        /\ \A i \in Where(q, {"label", "proc"}) : ~Same(q[i].name, l.name, s.policy)
    <3>1. /\ \A y : Y({"equate"}) = {y} => Only(Matches(s.equates, l.name, s.policy)) # 0
          /\ \A y : Y({"data"}) = {y} => Only(Matches(s.symbols, l.name, s.policy)) # 0
          /\ Matches(s.labels, l.name, s.policy) = {}
               => \A i \in Where(q, {"label", "proc"}) : ~Same(q[i].name, l.name, s.policy)
      BY OneMatch DEF NamesTold
    <3> QED
      BY <1>5, <3>1 DEF Free
  <2> HIDE DEF X
  <2>6. ASSUME X = {x}
        PROVE  FALSE
    <3>1. x \in D /\ Same(q[x].name, l.name, s.policy)
      BY <2>3, <2>6
    <3>2. \A i \in D : Same(q[i].name, l.name, s.policy) => i = x
      BY <2>3, <2>6
    <3>3. CASE x \in Where(q, {"equate"})
      <4>1. Y({"equate"}) = {x}
        BY <2>4, <3>1, <3>2, <3>3
      <4> QED
        BY <2>5, <4>1
    <3>4. CASE x \in Where(q, {"data"})
      <4>1. Y({"data"}) = {x}
        BY <2>4, <3>1, <3>2, <3>4
      <4> QED
        BY <2>5, <4>1
    <3> QED
      BY <2>4, <2>5, <3>1, <3>3, <3>4
  <2> QED
    BY <2>6 DEF X
<1> QED
  BY <1>1, <1>4, <1>5 DEF NamesApart, r

-----------------------------------------------------------------------------
(* What the procedures tell of the lines read *)

\* A procedure has noted the RETs of its body, and only those.
RetsTold(q, a) ==
  /\ a.plain <=> \E x \in RetsIn(q, a.line) : q[x].pops = -1
  /\ \A x \in RetsIn(q, a.line) : q[x].pops # -1 => q[x].pops \in a.pops
  /\ \A v \in a.pops : \E x \in RetsIn(q, a.line) : q[x].pops = v

ProcsTold(q, s) ==
  /\ Tells(s.procs, q, {"proc"})
  /\ \A k \in 1 .. Len(s.procs) : RetsTold(q, s.procs[k])

\* The open procedure is the one no PROC, ENDP or END follows; it has the LOCALs of its body.
OpenTold(q, s) ==
  /\ s.open \in 0 .. Len(s.procs)
  /\ \A k \in 1 .. Len(s.procs) : k # s.open => \E b \in Edges(q) : b > s.procs[k].line
  /\ s.open = 0 => \A i \in Where(q, {"local"}) : \E b \in Edges(q) : b > i
  /\ s.open # 0 =>
       LET a == s.procs[s.open]
       IN  /\ \A b \in Edges(q) : b <= a.line
           /\ IsSeq(a.locals)
           /\ \A i \in Where(q, {"local"}) : i > a.line =>
                \E j \in 1 .. Len(a.locals) : a.locals[j].name = q[i].name

SameRange(a, b) == /\ a.name = b.name /\ a.line = b.line /\ a.locals = b.locals
                   /\ a.plain = b.plain /\ a.pops = b.pops

\* PROC adds a procedure and opens it, ENDP closes it, LOCAL and RET are noted by the open one.
ProcsGrow(s, t, l) ==
  /\ IsSeq(t.procs)
  /\ Len(t.procs) = IF l.op = "proc" THEN Len(s.procs) + 1 ELSE Len(s.procs)
  /\ t.open = IF l.op = "proc" THEN Len(s.procs) + 1 ELSE IF l.op = "endp" THEN 0 ELSE s.open
  /\ \A k \in 1 .. Len(s.procs) :
       k # s.open \/ l.op \notin {"local", "ret"} => SameRange(t.procs[k], s.procs[k])
  /\ l.op = "proc" => LET b == t.procs[Len(s.procs) + 1]
                      IN  b.name = l.name /\ b.line = s.line /\ b.locals = <<>>
                            /\ ~b.plain /\ b.pops = {}
  /\ l.op \in {"local", "ret"} /\ s.open # 0 =>
       LET a == s.procs[s.open]
           b == t.procs[s.open]
       IN  /\ b.name = a.name /\ b.line = a.line
           /\ l.op = "local" => /\ b.plain = a.plain /\ b.pops = a.pops
                                /\ b.locals = Append(a.locals, [name |-> l.name, line |-> s.line])
           /\ l.op = "ret" => /\ b.locals = a.locals
                              /\ b.plain <=> (a.plain \/ l.pops = -1)
                              /\ b.pops = IF l.pops = -1 THEN a.pops ELSE a.pops \cup {l.pops}

\* A RET line joins the bodies nothing has ended.
LEMMA RetsLater ==
  ASSUME NEW q, q \in Seq(Line), NEW l \in Line, NEW d \in 1 .. Len(q)
  PROVE  LET r == Append(q, l)
         IN  /\ \A x \in RetsIn(q, d) : x \in 1 .. Len(q) /\ r[x] = q[x]
             /\ RetsIn(r, d) = IF l.op = "ret" /\ \A b \in Edges(q) : b <= d
                               THEN RetsIn(q, d) \cup {Len(q) + 1} ELSE RetsIn(q, d)
<1> DEFINE r == Append(q, l)
           n == Len(q)
           E == Edges(q)
           R == Where(q, {"ret"})
<1>1. /\ n \in Nat /\ r[n + 1] = l /\ \A i \in 1 .. n : r[i] = q[i]
      /\ E \subseteq 1 .. n /\ R \subseteq 1 .. n
      /\ Edges(r) = IF l.op \in {"proc", "endp", "end"} THEN E \cup {n + 1} ELSE E
      /\ Where(r, {"ret"}) = IF l.op = "ret" THEN R \cup {n + 1} ELSE R
  <2>1. n \in Nat /\ r[n + 1] = l /\ \A i \in 1 .. n : r[i] = q[i]
    BY LinesAdded
  <2>2. R \subseteq 1 .. n /\ Where(r, {"ret"}) = IF l.op = "ret" THEN R \cup {n + 1} ELSE R
    BY KindAdded
  <2>3. E \subseteq 1 .. n /\ Edges(r) = IF l.op \in {"proc", "endp", "end"} THEN E \cup {n + 1} ELSE E
    BY EdgesAdded
  <2> QED
    BY <2>1, <2>2, <2>3
<1> HIDE DEF r, n, E, R
<1>2. \A x \in RetsIn(q, d) : x \in 1 .. n /\ r[x] = q[x]
  BY <1>1 DEF RetsIn, R
<1>3. ASSUME NEW x \in R
      PROVE  Unbroken(r, d, x) <=> Unbroken(q, d, x)
  BY <1>1 DEF Unbroken, E
<1>5. d \in 1 .. n
  BY DEF n
<1>4. l.op = "ret" => (Unbroken(r, d, n + 1) <=> \A b \in E : b <= d)
  <2>1. ASSUME l.op = "ret"
        PROVE  Unbroken(r, d, n + 1) <=> \A b \in E : b <= d
    <3>1. Edges(r) = E
      BY <1>1, <2>1
    <3>2. \A b \in E : (b <= n + 1) /\ (~(d < b) <=> b <= d)
      BY <1>1, <1>5
    <3> QED
      BY <3>1, <3>2 DEF Unbroken
  <2> QED
    BY <2>1
<1>6. ASSUME NEW x
      PROVE  x \in RetsIn(r, d) <=> \/ x \in RetsIn(q, d)
                                    \/ x = n + 1 /\ l.op = "ret" /\ \A b \in E : b <= d
  <2>1. CASE x \in R
    <3>1. x \in 1 .. n /\ x \in Where(r, {"ret"}) /\ x # n + 1
      BY <1>1, <2>1
    <3> QED
      BY <1>3, <2>1, <3>1 DEF RetsIn, R
  <2>2. CASE x = n + 1
    <3>1. x \notin R /\ n + 1 > d /\ (l.op = "ret" <=> x \in Where(r, {"ret"}))
      BY <1>1, <1>5, <2>2
    <3> QED
      BY <1>4, <2>2, <3>1 DEF RetsIn, R
  <2>3. CASE x \notin R /\ x # n + 1
    BY <1>1, <2>3 DEF RetsIn, R
  <2> QED
    BY <2>1, <2>2, <2>3
<1>7. RetsIn(r, d) = IF l.op = "ret" /\ \A b \in E : b <= d
                     THEN RetsIn(q, d) \cup {n + 1} ELSE RetsIn(q, d)
  BY <1>6
<1> QED
  BY <1>2, <1>7 DEF r, n, E

\* A procedure nothing is added to, and one that notes a RET.
LEMMA RetsStep ==
  ASSUME NEW q, q \in Seq(Line), NEW l \in Line, NEW a, NEW b,
         a.line \in 1 .. Len(q), b.line = a.line, RetsTold(q, a),
         l.op = "ret" /\ (\A e \in Edges(q) : e <= a.line) =>
           /\ b.plain <=> (a.plain \/ l.pops = -1)
           /\ b.pops = IF l.pops = -1 THEN a.pops ELSE a.pops \cup {l.pops},
         l.op # "ret" \/ (\E e \in Edges(q) : ~(e <= a.line)) => b.plain = a.plain /\ b.pops = a.pops
  PROVE  RetsTold(Append(q, l), b)
<1> DEFINE r == Append(q, l)
           n == Len(q)
           joins == l.op = "ret" /\ \A e \in Edges(q) : e <= a.line
<1>1. /\ \A x \in RetsIn(q, a.line) : x \in 1 .. n /\ r[x] = q[x]
      /\ RetsIn(r, a.line) = IF joins THEN RetsIn(q, a.line) \cup {n + 1} ELSE RetsIn(q, a.line)
  BY RetsLater
<1>2. r[n + 1] = l
  OBVIOUS
<1>3. /\ joins => /\ b.plain <=> (a.plain \/ l.pops = -1)
                  /\ b.pops = IF l.pops = -1 THEN a.pops ELSE a.pops \cup {l.pops}
      /\ ~joins => b.plain = a.plain /\ b.pops = a.pops
  OBVIOUS
<1> HIDE DEF r, n, joins
<1>4. CASE joins
  <2>1. \A x : x \in RetsIn(r, a.line) <=> x \in RetsIn(q, a.line) \/ x = n + 1
    BY <1>1, <1>4
  <2>2. b.plain <=> \E x \in RetsIn(r, a.line) : r[x].pops = -1
    <3>1. a.plain <=> \E x \in RetsIn(q, a.line) : r[x].pops = -1
      BY <1>1 DEF RetsTold
    <3>2. (\E x \in RetsIn(r, a.line) : r[x].pops = -1)
            <=> ((\E x \in RetsIn(q, a.line) : r[x].pops = -1) \/ l.pops = -1)
      BY <1>2, <2>1
    <3>3. b.plain <=> (a.plain \/ l.pops = -1)
      BY <1>3, <1>4
    <3> QED
      BY <3>1, <3>2, <3>3, Zenon
  <2>3. \A x \in RetsIn(r, a.line) : r[x].pops # -1 => r[x].pops \in b.pops
    BY <1>1, <1>2, <1>3, <1>4, <2>1 DEF RetsTold
  <2>4. \A v \in b.pops : \E x \in RetsIn(r, a.line) : r[x].pops = v
    BY <1>1, <1>2, <1>3, <1>4, <2>1 DEF RetsTold
  <2> QED
    BY <2>2, <2>3, <2>4 DEF RetsTold, r
<1>5. CASE ~joins
  <2>1. RetsIn(r, a.line) = RetsIn(q, a.line)
    BY <1>1, <1>5
  <2>2. b.plain <=> \E x \in RetsIn(r, a.line) : r[x].pops = -1
    <3>1. a.plain <=> \E x \in RetsIn(r, a.line) : r[x].pops = -1
      BY <1>1, <2>1 DEF RetsTold
    <3>2. b.plain = a.plain
      BY <1>3, <1>5
    <3> QED
      BY <3>1, <3>2, Zenon
  <2>3. \A x \in RetsIn(r, a.line) : r[x].pops # -1 => r[x].pops \in b.pops
    BY <1>1, <1>3, <1>5, <2>1 DEF RetsTold
  <2>4. \A v \in b.pops : \E x \in RetsIn(r, a.line) : r[x].pops = v
    BY <1>1, <1>3, <1>5, <2>1 DEF RetsTold
  <2> QED
    BY <2>2, <2>3, <2>4 DEF RetsTold, r
<1> QED
  BY <1>4, <1>5

LEMMA ProcsStep ==
  ASSUME NEW q, q \in Seq(Line), NEW l \in Line, NEW s, NEW t,
         ProcsTold(q, s), OpenTold(q, s), s.line = Len(q) + 1, ProcsGrow(s, t, l)
  PROVE  ProcsTold(Append(q, l), t)
<1> DEFINE r == Append(q, l)
           n == Len(q)
           a == s.procs
           b == t.procs
<1>1. /\ n \in Nat /\ r[n + 1] = l /\ \A i \in 1 .. n : r[i] = q[i]
      /\ Where(q, {"proc"}) \subseteq 1 .. n
      /\ Where(r, {"ret"}) = IF l.op = "ret" THEN Where(q, {"ret"}) \cup {n + 1}
                             ELSE Where(q, {"ret"})
      /\ Where(q, {"ret"}) \subseteq 1 .. n
  <2>1. n \in Nat /\ r[n + 1] = l /\ \A i \in 1 .. n : r[i] = q[i]
    BY LinesAdded
  <2>3. /\ Where(q, {"ret"}) \subseteq 1 .. n
        /\ Where(r, {"ret"}) = IF l.op = "ret" THEN Where(q, {"ret"}) \cup {n + 1}
                               ELSE Where(q, {"ret"})
    BY KindAdded
  <2>2. Where(q, {"proc"}) \subseteq 1 .. n
    BY KindAdded
  <2> QED
    BY <2>1, <2>2, <2>3
<1>2. /\ Tells(a, q, {"proc"}) /\ IsSeq(b) /\ Len(a) \in Nat
      /\ Len(b) = IF l.op = "proc" THEN Len(a) + 1 ELSE Len(a)
      /\ \A k \in 1 .. Len(a) : b[k].line = a[k].line /\ b[k].name = a[k].name
      /\ l.op = "proc" => b[Len(a) + 1].name = l.name /\ b[Len(a) + 1].line = n + 1
      /\ \A k \in 1 .. Len(a) : a[k].line \in 1 .. n
  <2>1. Tells(a, q, {"proc"}) /\ IsSeq(b) /\ Len(a) \in Nat
    BY SeqFacts DEF ProcsTold, ProcsGrow, Tells
  <2>2. \A k \in 1 .. Len(a) : b[k].line = a[k].line /\ b[k].name = a[k].name
    <3>1. ASSUME NEW k \in 1 .. Len(a)
          PROVE  b[k].line = a[k].line /\ b[k].name = a[k].name
      <4>1. CASE k # s.open \/ l.op \notin {"local", "ret"}
        BY <3>1, <4>1 DEF ProcsGrow, SameRange
      <4>2. CASE k = s.open /\ l.op \in {"local", "ret"}
        <5>1. s.open # 0
          BY <4>2
        <5> QED
          BY <4>2, <5>1 DEF ProcsGrow
      <4> QED
        BY <4>1, <4>2
    <3> QED
      BY <3>1
  <2>3. /\ Len(b) = IF l.op = "proc" THEN Len(a) + 1 ELSE Len(a)
        /\ l.op = "proc" => b[Len(a) + 1].name = l.name /\ b[Len(a) + 1].line = n + 1
    BY DEF ProcsGrow
  <2>4. \A k \in 1 .. Len(a) : a[k].line \in 1 .. n
    BY <1>1, <2>1 DEF Tells
  <2> QED
    BY <2>1, <2>2, <2>3, <2>4
<1>3. Tells(b, r, {"proc"})
  <2> HIDE DEF a, b
  <2>1. CASE l.op = "proc"
    <3>1. l.op \in {"proc"} /\ Len(b) = Len(a) + 1 /\ b[Len(a) + 1].line = Len(q) + 1
      BY <1>2, <2>1
    <3> QED
      BY <1>2, <2>1, <3>1, TellsOneMore
  <2>2. CASE l.op # "proc"
    <3>1. l.op \notin {"proc"} /\ Len(b) = Len(a)
      BY <1>2, <2>2
    <3> QED
      BY <1>2, <3>1, TellsStill
  <2> QED
    BY <2>1, <2>2
<1>4. ASSUME NEW k \in 1 .. Len(a)
      PROVE  RetsTold(r, b[k])
  <2>1. RetsTold(q, a[k]) /\ a[k].line \in 1 .. Len(q) /\ b[k].line = a[k].line
    BY <1>2, <1>4 DEF ProcsTold
  <2>2. CASE l.op = "ret" /\ \A e \in Edges(q) : e <= a[k].line
    <3>1. k = s.open
      <4>1. ASSUME k # s.open
            PROVE  FALSE
        <5>1. PICK e \in Edges(q) : e > a[k].line
          BY <1>4, <4>1 DEF OpenTold
        <5>2. e <= a[k].line /\ e \in Int /\ a[k].line \in Int
          <6>1. Edges(q) \subseteq 1 .. n
            BY EdgesAdded
          <6> QED
            BY <2>1, <2>2, <5>1, <6>1
        <5> QED
          BY <5>1, <5>2
      <4> QED
        BY <4>1
    <3>2. s.open # 0 /\ l.op \in {"local", "ret"} /\ l.op = "ret"
      BY <1>4, <2>2, <3>1
    <3>3. /\ b[k].plain <=> (a[k].plain \/ l.pops = -1)
          /\ b[k].pops = IF l.pops = -1 THEN a[k].pops ELSE a[k].pops \cup {l.pops}
      BY <3>1, <3>2 DEF ProcsGrow
    <3> HIDE DEF a, b
    <3> QED
      BY <2>1, <2>2, <3>3, RetsStep
  <2>3. CASE ~(l.op = "ret" /\ \A e \in Edges(q) : e <= a[k].line)
    <3>1. b[k].plain = a[k].plain /\ b[k].pops = a[k].pops
      <4>1. CASE k # s.open \/ l.op \notin {"local", "ret"}
        BY <1>4, <4>1 DEF ProcsGrow, SameRange
      <4>2. CASE k = s.open /\ l.op = "local"
        <5>1. s.open # 0 /\ l.op \in {"local", "ret"}
          BY <1>4, <4>2
        <5> QED
          BY <4>2, <5>1 DEF ProcsGrow
      <4>3. CASE k = s.open /\ l.op = "ret"
        <5>1. s.open # 0
          BY <1>4, <4>3
        <5> QED
          BY <2>3, <4>3, <5>1 DEF OpenTold
      <4> QED
        BY <4>1, <4>2, <4>3
    <3> HIDE DEF a, b
    <3> QED
      BY <2>1, <2>3, <3>1, RetsStep
  <2> QED
    BY <2>2, <2>3
<1>5. l.op = "proc" => RetsTold(r, b[Len(a) + 1])
  <2>1. ASSUME l.op = "proc"
        PROVE  RetsTold(r, b[Len(a) + 1])
    <3>1. b[Len(a) + 1].line = n + 1 /\ ~b[Len(a) + 1].plain /\ b[Len(a) + 1].pops = {}
      BY <2>1 DEF ProcsGrow
    <3>2. RetsIn(r, n + 1) = {}
      BY <1>1, <2>1 DEF RetsIn
    <3> HIDE DEF a, b, r, n
    <3> QED
      BY <3>1, <3>2 DEF RetsTold
  <2> QED
    BY <2>1
<1> HIDE DEF a, b, r, n
<1>6. \A k \in 1 .. Len(b) : RetsTold(r, b[k])
  <2>1. \A k \in 1 .. Len(b) : k \in 1 .. Len(a) \/ (l.op = "proc" /\ k = Len(a) + 1)
    BY <1>2
  <2> QED
    BY <1>4, <1>5, <2>1
<1> QED
  BY <1>3, <1>6 DEF ProcsTold, b, r

LEMMA OpenStep ==
  ASSUME NEW q, q \in Seq(Line), NEW l \in Line, l.op # "end", NEW s, NEW t,
         ProcsTold(q, s), OpenTold(q, s), s.line = Len(q) + 1, ProcsGrow(s, t, l),
         l.op = "local" => s.open # 0
  PROVE  OpenTold(Append(q, l), t)
<1> DEFINE r == Append(q, l)
           n == Len(q)
           E == Edges(q)
           L == Where(q, {"local"})
<1>1. /\ n \in Nat /\ r[n + 1] = l /\ \A i \in 1 .. n : r[i] = q[i]
      /\ E \subseteq 1 .. n /\ L \subseteq 1 .. n
      /\ Edges(r) = IF l.op \in {"proc", "endp", "end"} THEN E \cup {n + 1} ELSE E
      /\ Where(r, {"local"}) = IF l.op = "local" THEN L \cup {n + 1} ELSE L
      /\ Where(q, {"proc"}) \subseteq 1 .. n
  <2>1. n \in Nat /\ r[n + 1] = l /\ \A i \in 1 .. n : r[i] = q[i]
    BY LinesAdded
  <2>4. L \subseteq 1 .. n /\ Where(r, {"local"}) = IF l.op = "local" THEN L \cup {n + 1} ELSE L
    BY KindAdded
  <2>2. E \subseteq 1 .. n /\ Edges(r) = IF l.op \in {"proc", "endp", "end"} THEN E \cup {n + 1} ELSE E
    BY EdgesAdded
  <2>3. Where(q, {"proc"}) \subseteq 1 .. n
    BY KindAdded
  <2> QED
    BY <2>1, <2>2, <2>3, <2>4
<1>2. /\ Len(s.procs) \in Nat /\ s.open \in 0 .. Len(s.procs)
      /\ \A k \in 1 .. Len(s.procs) : s.procs[k].line \in 1 .. n
      /\ \A k \in 1 .. Len(s.procs) : t.procs[k].line = s.procs[k].line
      /\ Len(t.procs) = IF l.op = "proc" THEN Len(s.procs) + 1 ELSE Len(s.procs)
      /\ t.open = IF l.op = "proc" THEN Len(s.procs) + 1 ELSE IF l.op = "endp" THEN 0 ELSE s.open
  <2>1. Tells(s.procs, q, {"proc"}) /\ Len(s.procs) \in Nat
    BY SeqFacts DEF ProcsTold, Tells
  <2>2. \A k \in 1 .. Len(s.procs) : s.procs[k].line \in 1 .. n
    BY <1>1, <2>1 DEF Tells
  <2>3. ASSUME NEW k \in 1 .. Len(s.procs)
        PROVE  t.procs[k].line = s.procs[k].line
    <3>1. CASE k # s.open \/ l.op \notin {"local", "ret"}
      BY <2>3, <3>1 DEF ProcsGrow, SameRange
    <3>2. CASE k = s.open /\ l.op \in {"local", "ret"}
      <4>1. s.open # 0
        BY <3>2
      <4> QED
        BY <3>2, <4>1 DEF ProcsGrow
    <3> QED
      BY <3>1, <3>2
  <2> QED
    BY <2>1, <2>2, <2>3 DEF ProcsGrow, OpenTold
<1> HIDE DEF r, n, E, L
<1>3. t.open \in 0 .. Len(t.procs)
  BY <1>2
<1>4. CASE l.op = "proc"
  <2> DEFINE k1 == Len(s.procs) + 1
  <2>1. /\ t.open = k1 /\ Len(t.procs) = k1 /\ k1 # 0 /\ t.procs[k1].line = n + 1
        /\ t.procs[k1].locals = <<>> /\ Edges(r) = E \cup {n + 1} /\ Where(r, {"local"}) = L
    BY <1>1, <1>2, <1>4 DEF ProcsGrow, n
  <2>2. ASSUME NEW k \in 1 .. Len(t.procs), k # t.open
        PROVE  \E b \in Edges(r) : b > t.procs[k].line
    <3>1. k \in 1 .. Len(s.procs)
      BY <1>2, <2>1, <2>2
    <3>2. n + 1 > t.procs[k].line
      BY <1>1, <1>2, <3>1
    <3> QED
      BY <2>1, <3>2
  <2>6. t.procs[k1].line = n + 1
    BY <2>1
  <2> HIDE DEF k1
  <2>3. \A b \in Edges(r) : b <= t.procs[k1].line
    <3>1. \A b \in Edges(r) : b \in 1 .. n \/ b = n + 1
      BY <1>1, <2>1
    <3>2. \A b \in Edges(r) : b <= n + 1
      BY <1>1, <3>1
    <3> QED
      BY <2>6, <3>2
  <2>4. \A i \in Where(r, {"local"}) : ~(i > t.procs[k1].line)
    <3>1. \A i \in Where(r, {"local"}) : i \in 1 .. n
      BY <1>1, <2>1
    <3>2. \A i \in Where(r, {"local"}) : ~(i > n + 1)
      BY <1>1, <3>1
    <3> QED
      BY <2>6, <3>2
  <2>5. IsSeq(t.procs[k1].locals)
    <3>1. <<>> \in Seq({})
      OBVIOUS
    <3> QED
      BY <2>1, <3>1 DEF IsSeq
  <2> HIDE DEF k1
  <2> QED
    BY <1>3, <2>1, <2>2, <2>3, <2>4, <2>5 DEF OpenTold, r
<1>5. CASE l.op = "endp"
  <2>1. t.open = 0 /\ Edges(r) = E \cup {n + 1} /\ Where(r, {"local"}) = L /\ Len(t.procs) = Len(s.procs)
    BY <1>1, <1>2, <1>5
  <2>2. ASSUME NEW k \in 1 .. Len(t.procs)
        PROVE  \E b \in Edges(r) : b > t.procs[k].line
    <3>1. n + 1 > t.procs[k].line
      BY <1>1, <1>2, <2>1
    <3> QED
      BY <2>1, <3>1
  <2>3. ASSUME NEW i \in Where(r, {"local"})
        PROVE  \E b \in Edges(r) : b > i
    <3>1. n + 1 > i
      BY <1>1, <2>1
    <3> QED
      BY <2>1, <3>1
  <2> QED
    BY <1>3, <2>1, <2>2, <2>3 DEF OpenTold, r
<1>6. CASE l.op \notin {"proc", "endp"}
  <2>1. /\ t.open = s.open /\ Len(t.procs) = Len(s.procs)
        /\ Edges(r) = E
    BY <1>1, <1>2, <1>6
  <2>2. \A k \in 1 .. Len(t.procs) : k # t.open => \E b \in Edges(r) : b > t.procs[k].line
    <3>1. \A k \in 1 .. Len(s.procs) : k # s.open => \E b \in E : b > s.procs[k].line
      BY DEF OpenTold, E
    <3> QED
      BY <1>2, <2>1, <3>1
  <2>3. CASE t.open = 0
    <3>1. l.op # "local" /\ Where(r, {"local"}) = L
      BY <1>1, <2>1, <2>3
    <3>2. \A i \in L : \E b \in E : b > i
      BY <2>1, <2>3 DEF OpenTold, E, L
    <3> QED
      BY <1>3, <2>1, <2>2, <2>3, <3>1, <3>2 DEF OpenTold, r
  <2>4. CASE t.open # 0
    <3> DEFINE o == s.open
               a == s.procs[o]
               b == t.procs[o]
    <3>1. /\ o \in 1 .. Len(s.procs) /\ b.line = a.line /\ t.procs[t.open] = b
          /\ \A e \in E : e <= a.line
          /\ IsSeq(a.locals)
          /\ \A i \in L : i > a.line => \E j \in 1 .. Len(a.locals) : a.locals[j].name = q[i].name
      BY <1>2, <2>1, <2>4 DEF OpenTold, E, L
    <3>2. Len(a.locals) \in Nat
      BY <3>1, SeqFacts
    <3>3. CASE l.op = "local"
      <4> DEFINE e == [name |-> l.name, line |-> s.line]
      <4>1. b.locals = Append(a.locals, e) /\ e.name = l.name
        BY <2>1, <2>4, <3>3 DEF ProcsGrow
      <4> HIDE DEF e, a, b
      <4>2. /\ IsSeq(b.locals) /\ Len(b.locals) = Len(a.locals) + 1
            /\ \A i \in 1 .. Len(a.locals) : b.locals[i] = a.locals[i]
            /\ b.locals[Len(a.locals) + 1] = e
        BY <3>1, <4>1, AppendSeq
      <4>3. ASSUME NEW i \in Where(r, {"local"}), i > b.line
            PROVE  \E j \in 1 .. Len(b.locals) : b.locals[j].name = r[i].name
        <5>1. CASE i = n + 1
          <6>1. Len(a.locals) + 1 \in 1 .. Len(b.locals)
            BY <3>2, <4>2
          <6> QED
            BY <1>1, <4>1, <4>2, <5>1, <6>1
        <5>2. CASE i # n + 1
          <6>1. i \in L /\ i > a.line /\ r[i] = q[i]
            BY <1>1, <3>1, <3>3, <4>3, <5>2
          <6>2. PICK j \in 1 .. Len(a.locals) : a.locals[j].name = q[i].name
            BY <3>1, <6>1
          <6>3. j \in 1 .. Len(b.locals)
            BY <3>2, <4>2
          <6> QED
            BY <4>2, <6>1, <6>2, <6>3
        <5> QED
          BY <5>1, <5>2
      <4> QED
        BY <1>3, <2>1, <2>2, <2>4, <3>1, <4>2, <4>3 DEF OpenTold, r
    <3>4. CASE l.op # "local"
      <4>1. b.locals = a.locals
        <5>1. CASE l.op = "ret"
          BY <2>1, <2>4, <5>1 DEF ProcsGrow
        <5>2. CASE l.op # "ret"
          BY <3>1, <3>4, <5>2 DEF ProcsGrow, SameRange
        <5> QED
          BY <5>1, <5>2
      <4>2. Where(r, {"local"}) = L
        BY <1>1, <3>4
      <4> HIDE DEF a, b
      <4>3. \A i \in Where(r, {"local"}) :
              i > b.line => \E j \in 1 .. Len(b.locals) : b.locals[j].name = r[i].name
        BY <1>1, <3>1, <4>1, <4>2
      <4> QED
        BY <1>3, <2>1, <2>2, <2>4, <3>1, <4>1, <4>3 DEF OpenTold, r
    <3> QED
      BY <3>3, <3>4
  <2> QED
    BY <2>3, <2>4
<1> QED
  BY <1>4, <1>5, <1>6

LEMMA NoneIsFirst ==
  ASSUME NEW table, IsSeq(table), NEW n, NEW policy, First(Matches(table, n, policy)) = 0
  PROVE  \A j \in 1 .. Len(table) : ~Same(table[j].name, n, policy)
<1> DEFINE M == Matches(table, n, policy)
<1>1. DOMAIN table = 1 .. Len(table) /\ Len(table) \in Nat
  BY SeqFacts
<1>2. M \subseteq 1 .. Len(table)
  BY <1>1 DEF Matches
<1> HIDE DEF M
<1>3. M = {}
  <2>1. ASSUME M # {}
        PROVE  FALSE
    <3>3. M \subseteq Nat
      BY <1>1, <1>2
    <3>1. First(M) \in M
      BY <2>1, <3>3, FirstIsMember
    <3>2. First(M) = 0
      BY DEF M
    <3> QED
      BY <1>1, <1>2, <3>1, <3>2
  <2> QED
    BY <2>1
<1> QED
  BY <1>1, <1>3 DEF M, Matches

LEMMA LocalsApartStep ==
  ASSUME NEW q, q \in Seq(Line), NEW l \in Line, NEW s,
         NamesTold(q, s), ProcsTold(q, s), OpenTold(q, s), LocalsApart(q),
         l.op = "local" => s.open # 0 /\ ~LocalRefused(s, l.name),
         l.op = "label" => LocalOf(s, l.name) = 0
  PROVE  LocalsApart(Append(q, l))
<1> DEFINE r == Append(q, l)
           n == Len(q)
           A == {"proc", "local", "label"}
           B == {"local", "label"}
<1>1. n \in Nat /\ r[n + 1] = l /\ \A i \in 1 .. n : r[i] = q[i]
  BY LinesAdded
<1>2. /\ Where(q, A) \subseteq 1 .. n
      /\ Where(r, A) = IF l.op \in A THEN Where(q, A) \cup {n + 1} ELSE Where(q, A)
  <2> HIDE DEF A
  <2> QED
    BY LineAdded
<1>3. /\ Where(q, B) \subseteq 1 .. n
      /\ Where(r, B) = IF l.op \in B THEN Where(q, B) \cup {n + 1} ELSE Where(q, B)
  <2> HIDE DEF B
  <2> QED
    BY LineAdded
<1>4. /\ Edges(q) \subseteq 1 .. n
      /\ Edges(r) = IF l.op \in {"proc", "endp", "end"} THEN Edges(q) \cup {n + 1} ELSE Edges(q)
  BY EdgesAdded
<1>5. /\ \A k \in 1 .. n : PolicyIn(r, k) = PolicyIn(q, k)
      /\ l.op # "casemap" => PolicyIn(r, n + 1) = s.policy
  BY PolicyStays DEF NamesTold
<1>6. /\ \A i \in Where(q, A) : q[i].op \in A
      /\ \A i \in Where(q, B) : q[i].op \in B
      /\ \A i \in Where(q, A) : q[i].op = "proc" => i \in Edges(q)
      /\ \A i \in Where(q, A) : q[i].op = "local" => i \in Where(q, {"local"})
      /\ \A i \in Where(q, A) : q[i].op = "label" => i \in Where(q, {"label", "proc"})
  BY DEF Where, Edges
<1> HIDE DEF r, n
<1>7. ASSUME NEW i \in Where(r, A), NEW k \in Where(q, B), i < k, Unbroken(r, i, k),
             "local" \in {r[i].op, r[k].op}
      PROVE  ~Agree(r, i, k)
  <2>1. i \in Where(q, A) /\ i \in 1 .. n /\ k \in 1 .. n
    BY <1>1, <1>2, <1>3, <1>7
  <2>2. Unbroken(q, i, k)
    BY <1>4, <1>7 DEF Unbroken
  <2>3. ~Agree(q, i, k)
    BY <1>1, <1>7, <2>1, <2>2 DEF LocalsApart
  <2> QED
    BY <1>1, <1>5, <2>1, <2>3 DEF Agree
<1>8. ASSUME l.op \in B, NEW i \in Where(r, A), i < n + 1, Unbroken(r, i, n + 1),
             "local" \in {r[i].op, l.op}
      PROVE  ~Agree(r, i, n + 1)
  <2>1. i \in Where(q, A) /\ i \in 1 .. n /\ r[i] = q[i]
    BY <1>1, <1>2, <1>8
  <2>2. \A b \in Edges(q) : ~(i < b)
    BY <1>1, <1>4, <1>8 DEF Unbroken
  <2>3. Agree(r, i, n + 1) <=> Same(q[i].name, l.name, s.policy)
    BY <1>1, <1>5, <1>8, <2>1 DEF Agree
  <2>4. s.open # 0
    <3>1. CASE l.op = "local"
      BY <3>1
    <3>2. CASE l.op # "local"
      <4>1. i \in Where(q, {"local"})
        BY <1>6, <1>8, <2>1, <3>2
      <4> QED
        BY <2>2, <4>1, <1>4, <2>1 DEF OpenTold
    <3> QED
      BY <3>1, <3>2
  <2> DEFINE a == s.procs[s.open]
  <2>5. /\ \A b \in Edges(q) : b <= a.line
        /\ IsSeq(a.locals)
        /\ \A j \in Where(q, {"local"}) : j > a.line =>
             \E x \in 1 .. Len(a.locals) : a.locals[x].name = q[j].name
        /\ s.open \in 1 .. Len(s.procs)
    <3>1. Len(s.procs) \in Nat
      BY SeqFacts DEF ProcsTold, Tells
    <3> QED
      BY <2>4, <3>1 DEF OpenTold
  <2>6. a.line \in Edges(q) /\ q[a.line].op = "proc" /\ a.name = q[a.line].name
    BY <2>5 DEF ProcsTold, Tells, Where, Edges
  <2>7. i >= a.line /\ a.line \in 1 .. n
    BY <1>4, <2>1, <2>2, <2>6
  <2>8. Locals(s) = a.locals
    BY <2>4 DEF Locals
  <2> HIDE DEF a
  <2>9. CASE q[i].op = "proc"
    <3>1. l.op = "local" /\ i \in Edges(q)
      BY <1>6, <1>8, <2>1, <2>9
    <3>2. i = a.line
      BY <2>5, <2>7, <3>1, <1>4
    <3>3. ~Same(l.name, a.name, s.policy)
      BY <3>1 DEF LocalRefused, a
    <3> QED
      BY <2>3, <2>6, <3>2, <3>3 DEF Same
  <2>10. CASE q[i].op = "local"
    <3>1. i \in Where(q, {"local"}) /\ i > a.line
      <4>1. i # a.line
        BY <2>6, <2>10
      <4> QED
        BY <1>6, <2>1, <2>7, <2>10, <4>1
    <3>2. PICK x \in 1 .. Len(a.locals) : a.locals[x].name = q[i].name
      BY <2>5, <3>1
    <3>3. LocalOf(s, l.name) = 0
      <4>1. CASE l.op = "label"
        BY <4>1
      <4>2. CASE l.op = "local"
        BY <4>2 DEF LocalRefused
      <4> QED
        BY <1>8, <4>1, <4>2
    <3>4. \A j \in 1 .. Len(a.locals) : ~Same(a.locals[j].name, l.name, s.policy)
      BY <2>5, <2>8, <3>3, NoneIsFirst DEF LocalOf
    <3> QED
      BY <2>3, <3>2, <3>4
  <2>11. CASE q[i].op = "label"
    <3>1. l.op = "local" /\ i \in Where(q, {"label", "proc"})
      BY <1>6, <1>8, <2>1, <2>11
    <3>2. i > a.line
      <4>1. i # a.line
        BY <2>6, <2>11
      <4> QED
        BY <2>1, <2>7, <4>1
    <3>3. PICK j \in 1 .. Len(s.labels) : s.labels[j].line = i
      BY <3>1 DEF NamesTold, Tells
    <3>4. s.labels[j].name = q[i].name /\ ~s.labels[j].isProc
      BY <2>11, <3>3 DEF NamesTold, Tells
    <3>5. j \in DOMAIN s.labels
      BY SeqFacts DEF NamesTold, Tells
    <3>6. \A x \in Matches(s.labels, l.name, s.policy) :
            ~(~s.labels[x].isProc /\ s.labels[x].line > a.line)
      BY <3>1 DEF LocalRefused, a
    <3>7. ~Same(q[i].name, l.name, s.policy)
      BY <3>2, <3>3, <3>4, <3>5, <3>6 DEF Matches
    <3> QED
      BY <2>3, <3>7
  <2> QED
    BY <1>6, <2>1, <2>9, <2>10, <2>11
<1>9. \A k \in Where(r, B) : k \in Where(q, B) \/ (k = n + 1 /\ l.op \in B)
  BY <1>3
<1> QED
  BY <1>1, <1>7, <1>8, <1>9 DEF LocalsApart, r

-----------------------------------------------------------------------------
(* Prototypes and calls *)

\* A prototype line has its entry; under one policy no two entries agree.
ProtosTold(q, s) ==
  /\ IsSeq(s.protos)
  /\ \A d \in Where(q, {"proto"}) : \E j \in 1 .. Len(s.protos) :
       s.protos[j].name = q[d].name /\ s.protos[j].count = q[d].count
  /\ Where(q, {"casemap"}) = {} =>
       \A i, j \in 1 .. Len(s.protos) : Same(s.protos[i].name, s.protos[j].name, "all") => i = j

ProtosGrow(s, t, l) ==
  /\ t.protos = IF l.op = "proto" THEN Append(s.protos, [name |-> l.name, count |-> l.count])
                ELSE s.protos
  /\ l.op = "proto" => Matches(s.protos, l.name, s.policy) = {}

LEMMA ProtosStep ==
  ASSUME NEW q, q \in Seq(Line), NEW l \in Line, NEW s, NEW t,
         NamesTold(q, s), ProtosTold(q, s), ProtosGrow(s, t, l)
  PROVE  ProtosTold(Append(q, l), t)
<1> DEFINE r == Append(q, l)
           n == Len(q)
           P == Where(q, {"proto"})
           C == Where(q, {"casemap"})
           a == s.protos
           b == t.protos
<1>1. n \in Nat /\ r[n + 1] = l /\ \A i \in 1 .. n : r[i] = q[i]
  BY LinesAdded
<1>2. P \subseteq 1 .. n /\ Where(r, {"proto"}) = IF l.op = "proto" THEN P \cup {n + 1} ELSE P
  BY KindAdded
<1>3. Where(r, {"casemap"}) = IF l.op = "casemap" THEN C \cup {n + 1} ELSE C
  BY KindAdded
<1>4. C = {} => s.policy = "all"
  BY DEF NamesTold, PolicyIn, Switches
<1>5. /\ IsSeq(a) /\ Len(a) \in Nat /\ DOMAIN a = 1 .. Len(a)
      /\ \A d \in P : \E j \in 1 .. Len(a) : a[j].name = q[d].name /\ a[j].count = q[d].count
      /\ C = {} => \A i, j \in 1 .. Len(a) : Same(a[i].name, a[j].name, "all") => i = j
  BY SeqFacts DEF ProtosTold
<1>6. /\ b = IF l.op = "proto" THEN Append(a, [name |-> l.name, count |-> l.count]) ELSE a
      /\ l.op = "proto" => Matches(a, l.name, s.policy) = {}
  BY DEF ProtosGrow
<1> HIDE DEF r, n, P, C, a, b
<1>7. CASE l.op = "proto"
  <2> DEFINE e == [name |-> l.name, count |-> l.count]
             k == Len(a) + 1
  <2>1. e.name = l.name /\ e.count = l.count /\ b = Append(a, e)
    BY <1>6, <1>7
  <2> HIDE DEF e
  <2>2. IsSeq(b) /\ Len(b) = k /\ b[k] = e /\ \A i \in 1 .. Len(a) : b[i] = a[i]
    BY <1>5, <2>1, AppendSeq
  <2>3. \A i \in 1 .. k : i \in 1 .. Len(a) \/ i = k
    BY <1>5
  <2>9. k \in 1 .. k /\ \A i \in 1 .. Len(a) : i \in 1 .. k
    BY <1>5
  <2> HIDE DEF k
  <2>4. ASSUME NEW d \in Where(r, {"proto"})
        PROVE  \E j \in 1 .. Len(b) : b[j].name = r[d].name /\ b[j].count = r[d].count
    <3>1. CASE d = n + 1
      BY <1>1, <2>1, <2>2, <2>9, <3>1
    <3>2. CASE d # n + 1
      <4>1. d \in P /\ r[d] = q[d]
        BY <1>1, <1>2, <3>2
      <4>2. PICK j \in 1 .. Len(a) : a[j].name = q[d].name /\ a[j].count = q[d].count
        BY <1>5, <4>1
      <4> QED
        BY <2>2, <2>9, <4>1, <4>2
    <3> QED
      BY <3>1, <3>2
  <2>5. Where(r, {"casemap"}) = C
    BY <1>3, <1>7
  <2>6. ASSUME C = {}
        PROVE  \A i, j \in 1 .. Len(b) : Same(b[i].name, b[j].name, "all") => i = j
    <3>1. \A i \in 1 .. Len(a) : ~Same(a[i].name, l.name, "all")
      BY <1>4, <1>5, <1>6, <1>7, <2>6 DEF Matches
    <3>2. \A i \in 1 .. Len(a) : ~Same(l.name, a[i].name, "all")
      BY <3>1 DEF Same
    <3>3. \A i, j \in 1 .. Len(a) : Same(a[i].name, a[j].name, "all") => i = j
      BY <1>5, <2>6
    <3>4. ASSUME NEW i \in 1 .. k, NEW j \in 1 .. k, Same(b[i].name, b[j].name, "all")
          PROVE  i = j
      <4>1. CASE i = k /\ j = k
        BY <4>1
      <4>2. CASE i = k /\ j # k
        <5>1. j \in 1 .. Len(a) /\ b[j] = a[j] /\ b[i].name = l.name
          BY <2>1, <2>2, <2>3, <4>2
        <5> QED
          BY <3>2, <3>4, <5>1
      <4>3. CASE i # k /\ j = k
        <5>1. i \in 1 .. Len(a) /\ b[i] = a[i] /\ b[j].name = l.name
          BY <2>1, <2>2, <2>3, <4>3
        <5> QED
          BY <3>1, <3>4, <5>1
      <4>4. CASE i # k /\ j # k
        <5>1. i \in 1 .. Len(a) /\ b[i] = a[i] /\ j \in 1 .. Len(a) /\ b[j] = a[j]
          BY <2>2, <2>3, <4>4
        <5> QED
          BY <3>3, <3>4, <5>1
      <4> QED
        BY <4>1, <4>2, <4>3, <4>4
    <3> QED
      BY <2>2, <3>4
  <2> QED
    BY <2>2, <2>4, <2>5, <2>6 DEF ProtosTold, r, b
<1>8. CASE l.op # "proto"
  <2>1. b = a /\ Where(r, {"proto"}) = P
    BY <1>2, <1>6, <1>8
  <2>2. \A d \in P : r[d] = q[d]
    BY <1>1, <1>2
  <2>3. Where(r, {"casemap"}) = {} => C = {}
    BY <1>3
  <2>4. \A d \in P : \E j \in 1 .. Len(b) : b[j].name = r[d].name /\ b[j].count = r[d].count
    BY <1>5, <2>1, <2>2
  <2>5. C = {} => \A i, j \in 1 .. Len(b) : Same(b[i].name, b[j].name, "all") => i = j
    BY <1>5, <2>1
  <2>6. IsSeq(b)
    BY <1>5, <2>1
  <2> QED
    BY <2>1, <2>3, <2>4, <2>5, <2>6 DEF ProtosTold, r, b
<1> QED
  BY <1>7, <1>8

\* An INVOKE line waits for its procedure.
Waits(c, q, k) == /\ c.name = q[k].name /\ c.policy = PolicyIn(q, k)
                  /\ c.invoke /\ c.args = Len(q[k].args)

CallsTold(q, s) ==
  \A k \in Where(q, {"invoke"}) : q[k].name \notin Routines =>
    \E c \in 1 .. Len(s.calls) : Waits(s.calls[c], q, k)

CallsGrow(s, t, l) ==
  /\ Len(s.calls) \in Nat /\ Len(t.calls) \in Nat /\ Len(s.calls) <= Len(t.calls)
  /\ \A c \in 1 .. Len(s.calls) : t.calls[c] = s.calls[c]
  /\ l.op = "invoke" /\ l.name \notin Routines =>
       \E c \in 1 .. Len(t.calls) :
         LET f == t.calls[c]
         IN  f.name = l.name /\ f.policy = s.policy /\ f.invoke /\ f.args = Len(l.args)

LEMMA CallsStep ==
  ASSUME NEW q, q \in Seq(Line), NEW l \in Line, NEW s, NEW t,
         NamesTold(q, s), CallsTold(q, s), CallsGrow(s, t, l)
  PROVE  CallsTold(Append(q, l), t)
<1> DEFINE r == Append(q, l)
           n == Len(q)
           I == Where(q, {"invoke"})
<1>1. n \in Nat /\ r[n + 1] = l /\ \A i \in 1 .. n : r[i] = q[i]
  BY LinesAdded
<1>2. I \subseteq 1 .. n /\ Where(r, {"invoke"}) = IF l.op = "invoke" THEN I \cup {n + 1} ELSE I
  BY KindAdded
<1>3. /\ \A k \in 1 .. n : PolicyIn(r, k) = PolicyIn(q, k)
      /\ l.op # "casemap" => PolicyIn(r, n + 1) = s.policy
  BY PolicyStays DEF NamesTold
<1> HIDE DEF r, n
<1>4. ASSUME NEW k \in I, r[k].name \notin Routines
      PROVE  \E c \in 1 .. Len(t.calls) : Waits(t.calls[c], r, k)
  <2>1. k \in 1 .. n /\ r[k] = q[k] /\ PolicyIn(r, k) = PolicyIn(q, k)
    BY <1>1, <1>2, <1>3, <1>4
  <2>2. PICK c \in 1 .. Len(s.calls) : Waits(s.calls[c], q, k)
    BY <1>4, <2>1 DEF CallsTold
  <2>3. c \in 1 .. Len(t.calls) /\ t.calls[c] = s.calls[c]
    BY DEF CallsGrow
  <2> QED
    BY <2>1, <2>2, <2>3 DEF Waits
<1>5. ASSUME l.op = "invoke", r[n + 1].name \notin Routines
      PROVE  \E c \in 1 .. Len(t.calls) : Waits(t.calls[c], r, n + 1)
  <2>1. l.op # "casemap" /\ l.name \notin Routines
    BY <1>1, <1>5
  <2>2. PICK c \in 1 .. Len(t.calls) :
          /\ t.calls[c].name = l.name /\ t.calls[c].policy = s.policy
          /\ t.calls[c].invoke /\ t.calls[c].args = Len(l.args)
    BY <1>5, <2>1 DEF CallsGrow
  <2>3. Waits(t.calls[c], r, n + 1)
    BY <1>1, <1>3, <2>1, <2>2 DEF Waits
  <2> QED
    BY <2>3
<1>6. \A k \in Where(r, {"invoke"}) : k \in I \/ (k = n + 1 /\ l.op = "invoke")
  BY <1>2
<1> QED
  BY <1>4, <1>5, <1>6 DEF CallsTold, r

-----------------------------------------------------------------------------
(* What a line without a fault adds to the tables *)

Allowed(s, l) ==
  /\ l.op \in Declaring => Free(s, l.name)
  /\ l.op = "local" => s.open # 0 /\ ~LocalRefused(s, l.name)
  /\ l.op = "label" => LocalOf(s, l.name) = 0

Grown(s, t, l) ==
  ~Faulty(t) => /\ ~Faulty(s) /\ Allowed(s, l)
                /\ NamesGrow(s, t, l) /\ ProcsGrow(s, t, l)
                /\ ProtosGrow(s, t, l) /\ CallsGrow(s, t, l)

Told(q, s) ==
  /\ NamesTold(q, s) /\ ProcsTold(q, s) /\ ProtosTold(q, s) /\ CallsTold(q, s)
  /\ NamesApart(q) /\ LocalsApart(q)

LEMMA ToldStep ==
  ASSUME NEW q, q \in Seq(Line), NEW l \in Line, NEW s, NEW t, s.line = Len(q) + 1,
         ~Faulty(s) => Told(q, s) /\ OpenTold(q, s), Grown(s, t, l), ~Faulty(t)
  PROVE  /\ Told(Append(q, l), t)
         /\ l.op # "end" => OpenTold(Append(q, l), t)
<1>1. /\ Told(q, s) /\ OpenTold(q, s) /\ Allowed(s, l)
      /\ NamesGrow(s, t, l) /\ ProcsGrow(s, t, l) /\ ProtosGrow(s, t, l) /\ CallsGrow(s, t, l)
  BY DEF Grown
<1>2. NamesTold(Append(q, l), t) /\ ProcsTold(Append(q, l), t)
  BY <1>1, NamesStep, ProcsStep DEF Told
<1>3. ProtosTold(Append(q, l), t) /\ CallsTold(Append(q, l), t)
  BY <1>1, ProtosStep, CallsStep DEF Told
<1>4. NamesApart(Append(q, l))
  BY <1>1, NamesApartStep DEF Told, Allowed
<1>5. LocalsApart(Append(q, l))
  BY <1>1, LocalsApartStep DEF Told, Allowed
<1>6. l.op # "end" => OpenTold(Append(q, l), t)
  BY <1>1, OpenStep DEF Told, Allowed
<1> QED
  BY <1>2, <1>3, <1>4, <1>5, <1>6 DEF Told

\* x and y agree on the tables and on whether there was a fault.
Equal(x, y) ==
  /\ y.refused = x.refused /\ y.overflowed = x.overflowed /\ y.stop = x.stop
  /\ y.equates = x.equates /\ y.symbols = x.symbols /\ y.policy = x.policy
  /\ y.labels = x.labels /\ y.procs = x.procs /\ y.open = x.open
  /\ y.protos = x.protos /\ y.calls = x.calls

LEMMA EqualGrown ==
  ASSUME NEW s, NEW l, NEW x, NEW y, Equal(x, y), Grown(s, x, l)
  PROVE  Grown(s, y, l)
<1> SUFFICES ASSUME ~Faulty(y)
             PROVE  Grown(s, y, l)
  BY DEF Grown
<1>1. ~Faulty(x)
  BY DEF Equal, Faulty
<1>2. /\ ~Faulty(s) /\ Allowed(s, l)
      /\ NamesGrow(s, x, l) /\ ProcsGrow(s, x, l) /\ ProtosGrow(s, x, l) /\ CallsGrow(s, x, l)
  BY <1>1 DEF Grown
<1>3. NamesGrow(s, y, l)
  BY <1>2 DEF Equal, NamesGrow
<1>4. ProcsGrow(s, y, l)
  BY <1>2 DEF Equal, ProcsGrow
<1>5. ProtosGrow(s, y, l)
  BY <1>2 DEF Equal, ProtosGrow
<1>6. CallsGrow(s, y, l)
  BY <1>2 DEF Equal, CallsGrow
<1> QED
  BY <1>2, <1>3, <1>4, <1>5, <1>6 DEF Grown

LEMMA ControlEqual ==
  ASSUME NEW x, DOMAIN x = Fields, NEW e
  PROVE  /\ Equal(x, [x EXCEPT !.go = e]) /\ Equal(x, [x EXCEPT !.phase = e])
         /\ Equal(x, [x EXCEPT !.irvine = e]) /\ Equal(x, [x EXCEPT !.disabled = e])
         /\ Equal(x, [x EXCEPT !.pending = e]) /\ Equal(x, [x EXCEPT !.branches = e])
         /\ Equal(x, Checked(x))
<1> USE DEF Fields
<1>1. Equal(x, [x EXCEPT !.go = e]) /\ Equal(x, [x EXCEPT !.phase = e])
  BY DEF Equal
<1>2. Equal(x, [x EXCEPT !.irvine = e]) /\ Equal(x, [x EXCEPT !.disabled = e])
  BY DEF Equal
<1>3. Equal(x, [x EXCEPT !.pending = e]) /\ Equal(x, [x EXCEPT !.branches = e])
  BY DEF Equal
<1>4. Equal(x, Checked(x))
  BY DEF Equal, Checked
<1> QED
  BY <1>1, <1>2, <1>3, <1>4

\* Every diagnostic of an error is a fault.
LEMMA FaultsStay ==
  ASSUME NEW s, Judged(s)
  PROVE  Faulty(Diagnose(s)) /\ Faulty(Refuse(s)) /\ Faulty(Full(s)) /\ Faulty(Exceed(s))
<1>1. Faulty(Diagnose(s)) /\ Faulty(Refuse(s)) /\ DOMAIN Diagnose(s) = Fields
  BY DiagnoseSound, RefuseSound DEF Judged
<1>2. Faulty(Full(s)) /\ Faulty(Exceed(s))
  BY <1>1 DEF Full, Exceed, Faulty, Fields
<1> QED
  BY <1>1, <1>2

\* The tables of names stay as they are, for all that is told of them; calls are only added.
Keeps(s, t) ==
  /\ t.equates = s.equates /\ t.symbols = s.symbols /\ t.policy = s.policy
  /\ t.protos = s.protos /\ t.open = s.open
  /\ IsSeq(t.labels) /\ Len(t.labels) = Len(s.labels)
  /\ \A j \in 1 .. Len(s.labels) : /\ t.labels[j].name = s.labels[j].name
                                   /\ t.labels[j].line = s.labels[j].line
                                   /\ t.labels[j].isProc = s.labels[j].isProc
  /\ IsSeq(t.procs) /\ Len(t.procs) = Len(s.procs)
  /\ \A k \in 1 .. Len(s.procs) : SameRange(t.procs[k], s.procs[k])
  /\ Len(s.calls) \in Nat /\ Len(t.calls) \in Nat /\ Len(s.calls) <= Len(t.calls)
  /\ \A c \in 1 .. Len(s.calls) : t.calls[c] = s.calls[c]

Keeping(s, t) == ~Faulty(t) => ~Faulty(s) /\ Keeps(s, t)

LEMMA EqualKeeps ==
  ASSUME NEW s, Sound(s), NEW t, Equal(s, t)
  PROVE  Keeping(s, t)
<1>1. IsSeq(s.labels) /\ IsSeq(s.procs) /\ Len(s.calls) \in Nat
  BY SeqFacts DEF Sound, Judged, LabelsFit, RangesFit
<1> QED
  BY <1>1 DEF Equal, Keeping, Keeps, Faulty, SameRange

LEMMA FaultyKeeps ==
  ASSUME NEW s, NEW t, Faulty(t)
  PROVE  Keeping(s, t) /\ \A l : Grown(s, t, l)
BY DEF Keeping, Grown

Silent == {".data", ".code", "include", "plain", "bad", "nokeyword", "write", "read", "offset",
           "jump", "call"}

LEMMA KeepingGrown ==
  ASSUME NEW s, NEW t, NEW l, Keeping(s, t),
         l.op \in Silent \/ (l.op = "invoke" /\ l.name \in Routines)
  PROVE  Grown(s, t, l)
<1> SUFFICES ASSUME ~Faulty(t)
             PROVE  Grown(s, t, l)
  BY DEF Grown
<1>1. ~Faulty(s) /\ Keeps(s, t)
  BY DEF Keeping
<1>2. l.op \notin {"equate", "data", "casemap", "label", "proc", "endp", "end", "local", "ret", "proto"}
  BY DEF Silent
<1>3. Allowed(s, l)
  BY <1>2 DEF Allowed, Declaring
<1>4. NamesGrow(s, t, l)
  BY <1>1, <1>2 DEF NamesGrow, Keeps
<1>5. ProcsGrow(s, t, l)
  BY <1>1, <1>2 DEF ProcsGrow, Keeps
<1>6. ProtosGrow(s, t, l)
  BY <1>1, <1>2 DEF ProtosGrow, Keeps
<1>7. CallsGrow(s, t, l)
  BY <1>1, <1>2 DEF CallsGrow, Keeps, Silent
<1> QED
  BY <1>1, <1>3, <1>4, <1>5, <1>6, <1>7 DEF Grown

LEMMA EmitKeeps ==
  ASSUME NEW s, Sound(s), NEW instructions, Fresh(instructions)
  PROVE  Keeping(s, Emit(s, instructions))
<1> DEFINE room == Capacity["code"] - Len(s.code)
           fit  == IF Len(instructions) <= room THEN instructions ELSE SubSeq(instructions, 1, room)
           kept == [s EXCEPT
                 !.code = @ \o fit,
                 !.pending = {},
                 !.labels = [i \in DOMAIN @ |-> IF i \in s.pending
                                                THEN [@[i] EXCEPT !.target = Len(s.code)]
                                                ELSE @[i]],
                 !.procs = [k \in DOMAIN @ |-> IF k = s.open THEN [@[k] EXCEPT !.runs = TRUE]
                                               ELSE @[k]]]
           t    == IF fit = <<>> THEN s ELSE kept
<1>1. /\ DOMAIN s = Fields /\ IsSeq(s.labels) /\ IsSeq(s.procs) /\ Len(s.calls) \in Nat
      /\ Len(s.labels) \in Nat /\ Len(s.procs) \in Nat
      /\ DOMAIN s.labels = 1 .. Len(s.labels) /\ DOMAIN s.procs = 1 .. Len(s.procs)
      /\ \A i \in 1 .. Len(s.labels) : DOMAIN s.labels[i] = LabelFields
      /\ \A k \in 1 .. Len(s.procs) : DOMAIN s.procs[k] = RangeFields
  BY SeqFacts DEF Sound, Judged, LabelsFit, RangesFit, GoodLabel, GoodRange
<1>2. Keeping(s, kept)
  <2> DEFINE a == [i \in DOMAIN s.labels |-> IF i \in s.pending
                                             THEN [s.labels[i] EXCEPT !.target = Len(s.code)]
                                             ELSE s.labels[i]]
             b == [k \in DOMAIN s.procs |-> IF k = s.open THEN [s.procs[k] EXCEPT !.runs = TRUE]
                                            ELSE s.procs[k]]
  <2>1. /\ kept.labels = a /\ kept.procs = b /\ kept.equates = s.equates
        /\ kept.symbols = s.symbols /\ kept.policy = s.policy /\ kept.protos = s.protos
        /\ kept.open = s.open /\ kept.calls = s.calls /\ kept.refused = s.refused
        /\ kept.overflowed = s.overflowed /\ kept.stop = s.stop
    BY <1>1 DEF Fields
  <2> HIDE DEF kept, fit
  <2>2. IsSeq(a) /\ Len(a) = Len(s.labels)
    <3>1. a = [i \in 1 .. Len(s.labels) |-> a[i]]
      BY <1>1
    <3> HIDE DEF a
    <3> QED
      BY <1>1, <3>1, FunctionSeq
  <2>3. IsSeq(b) /\ Len(b) = Len(s.procs)
    <3>1. b = [k \in 1 .. Len(s.procs) |-> b[k]]
      BY <1>1
    <3> HIDE DEF b
    <3> QED
      BY <1>1, <3>1, FunctionSeq
  <2>4. \A j \in 1 .. Len(s.labels) : /\ a[j].name = s.labels[j].name
                                      /\ a[j].line = s.labels[j].line
                                      /\ a[j].isProc = s.labels[j].isProc
    BY <1>1 DEF LabelFields
  <2>5. \A k \in 1 .. Len(s.procs) : SameRange(b[k], s.procs[k])
    BY <1>1 DEF RangeFields, SameRange
  <2> HIDE DEF a, b
  <2>6. Keeps(s, kept)
    BY <1>1, <2>1, <2>2, <2>3, <2>4, <2>5 DEF Keeps
  <2> QED
    BY <2>1, <2>6 DEF Keeping, Faulty
<1>3. Keeping(s, s)
  BY EqualKeeps DEF Equal
<1>4. Keeping(s, t)
  BY <1>2, <1>3
<1>5. CASE Len(instructions) <= room
  BY <1>4, <1>5 DEF Emit
<1>6. CASE ~(Len(instructions) <= room)
  <2>1. Emit(s, instructions) = Exceed(t)
    BY <1>6 DEF Emit
  <2>2. Judged(t)
    <3>1. Judged(s)
      BY DEF Sound
    <3> HIDE DEF fit
    <3>2. Judged(kept)
      BY <1>1, <3>1 DEF Judged, Faulty, Fields
    <3> QED
      BY <3>1, <3>2
  <2> HIDE DEF t
  <2> QED
    BY <2>1, <2>2, FaultsStay, FaultyKeeps
<1> QED
  BY <1>5, <1>6

LEMMA KeepingOn ==
  ASSUME NEW s, NEW t, NEW u, Keeping(s, t), Keeping(t, u)
  PROVE  Keeping(s, u)
<1> SUFFICES ASSUME ~Faulty(u)
             PROVE  Keeping(s, u)
  BY DEF Keeping
<1>1. ~Faulty(t) /\ Keeps(t, u) /\ ~Faulty(s) /\ Keeps(s, t)
  BY DEF Keeping
<1>2. \A k \in 1 .. Len(s.procs) : SameRange(u.procs[k], s.procs[k])
  BY <1>1 DEF Keeps, SameRange
<1>3. \A j \in 1 .. Len(s.labels) : /\ u.labels[j].name = s.labels[j].name
                                    /\ u.labels[j].line = s.labels[j].line
                                    /\ u.labels[j].isProc = s.labels[j].isProc
  BY <1>1 DEF Keeps
<1>4. \A c \in 1 .. Len(s.calls) : u.calls[c] = s.calls[c]
  BY <1>1 DEF Keeps
<1>5. Keeps(s, u)
  BY <1>1, <1>2, <1>3, <1>4 DEF Keeps
<1> QED
  BY <1>1, <1>5 DEF Keeping

\* A fixup is the last one.
LEMMA FixupsKeep ==
  ASSUME NEW s, Sound(s), NEW n, NEW invoke, NEW count
  PROVE  /\ Keeping(s, AddBranch(s, n))
         /\ LET t == AddCall(s, n, invoke, count)
            IN  /\ Keeping(s, t)
                /\ ~Faulty(t) => \E c \in 1 .. Len(t.calls) :
                     /\ t.calls[c].name = n /\ t.calls[c].policy = s.policy
                     /\ t.calls[c].invoke = invoke /\ t.calls[c].args = count
<1>1. DOMAIN s = Fields /\ Judged(s) /\ IsSeq(s.calls) /\ Len(s.calls) \in Nat
      /\ (~s.go => Faulty(s)) /\ IsSeq(s.labels) /\ IsSeq(s.procs)
  BY SeqFacts DEF Sound, Judged, LabelsFit, RangesFit
<1>2. Keeping(s, s)
  BY EqualKeeps DEF Equal
<1>3. Keeping(s, Refuse(s)) /\ Faulty(Refuse(s))
  BY <1>1, FaultsStay, FaultyKeeps
<1>4. Keeping(s, AddBranch(s, n))
  <2> DEFINE e == [at |-> Len(s.code), name |-> n, policy |-> s.policy, disabled |-> s.disabled]
             t == [s EXCEPT !.branches = Append(s.branches, e)]
  <2>1. Equal(s, t)
    BY <1>1, ControlEqual
  <2>2. Keeping(s, t)
    BY <2>1, EqualKeeps
  <2>3. AddBranch(s, n) \in {s, Refuse(s), t}
    BY DEF AddBranch
  <2> HIDE DEF t
  <2> QED
    BY <1>2, <1>3, <2>2, <2>3
<1> DEFINE e == [at |-> Len(s.code), name |-> n, policy |-> s.policy, invoke |-> invoke,
                 args |-> count]
           u == [s EXCEPT !.calls = Append(s.calls, e)]
<1>5. /\ Keeping(s, u) /\ u.calls = Append(s.calls, e) /\ Len(u.calls) = Len(s.calls) + 1
      /\ u.calls[Len(s.calls) + 1] = e
      /\ e.name = n /\ e.policy = s.policy /\ e.invoke = invoke /\ e.args = count
  <2>1. /\ u.calls = Append(s.calls, e)
        /\ u.refused = s.refused /\ u.overflowed = s.overflowed /\ u.stop = s.stop
        /\ u.equates = s.equates /\ u.symbols = s.symbols /\ u.policy = s.policy
        /\ u.labels = s.labels /\ u.procs = s.procs /\ u.open = s.open /\ u.protos = s.protos
    BY <1>1 DEF Fields
  <2>2. e.name = n /\ e.policy = s.policy /\ e.invoke = invoke /\ e.args = count
    OBVIOUS
  <2> HIDE DEF e, u
  <2>3. /\ Len(Append(s.calls, e)) = Len(s.calls) + 1
        /\ \A i \in 1 .. Len(s.calls) : Append(s.calls, e)[i] = s.calls[i]
        /\ Append(s.calls, e)[Len(s.calls) + 1] = e
    BY <1>1, AppendSeq
  <2>4. Keeps(s, u)
    BY <1>1, <2>1, <2>3 DEF Keeps, SameRange
  <2> QED
    BY <2>1, <2>2, <2>3, <2>4 DEF Keeping, Faulty
<1> HIDE DEF e, u
<1>6. AddCall(s, n, invoke, count) = IF ~s.go THEN s
                                     ELSE IF Len(s.calls) >= Capacity["calls"] THEN Refuse(s) ELSE u
  BY DEF AddCall, u, e
<1>7. Len(s.calls) + 1 \in 1 .. Len(u.calls)
  BY <1>1, <1>5
<1> QED
  BY <1>1, <1>2, <1>3, <1>4, <1>5, <1>6, <1>7

-----------------------------------------------------------------------------
(* Line by line *)

LEMMA NoneIsAlone == Only({}) = 0
BY DEF Only

\* A declaration that touches none of labels, procedures and calls.
OneTable(s, t, l) ==
  /\ l.op \in {"equate", "data", "casemap", "proto"}
  /\ ~Faulty(t) => ~Faulty(s)
  /\ t.labels = s.labels /\ t.procs = s.procs /\ t.open = s.open /\ t.calls = s.calls
  /\ t.equates = IF l.op = "equate" THEN Append(s.equates, [name |-> l.name, line |-> s.line])
                 ELSE s.equates
  /\ t.symbols = IF l.op = "data" THEN Append(s.symbols, [name |-> l.name, line |-> s.line])
                 ELSE s.symbols
  /\ t.policy = IF l.op = "casemap" THEN l.policy ELSE s.policy
  /\ ProtosGrow(s, t, l)

LEMMA TableGrown ==
  ASSUME NEW s, Sound(s), NEW l, NEW t, OneTable(s, t, l), Allowed(s, l)
  PROVE  Grown(s, t, l)
<1> USE DEF OneTable
<1>1. IsSeq(s.labels) /\ IsSeq(s.procs) /\ Len(s.calls) \in Nat
  BY SeqFacts DEF Sound, Judged, LabelsFit, RangesFit
<1>2. NamesGrow(s, t, l)
  BY <1>1 DEF NamesGrow
<1>3. ProcsGrow(s, t, l)
  BY <1>1 DEF ProcsGrow, SameRange
<1>4. CallsGrow(s, t, l)
  BY <1>1 DEF CallsGrow
<1> QED
  BY <1>2, <1>3, <1>4 DEF Grown

LEMMA EquateGrown ==
  ASSUME NEW s, Sound(s), NEW l, l.op = "equate"
  PROVE  Grown(s, EquateLine(s, l), l)
<1>1. DOMAIN s = Fields /\ Judged(s)
  BY DEF Sound, Judged
<1>2. CASE IsReserved(l.name, s.disabled) \/ Taken(s, l.name) \/ Len(s.equates) >= Capacity["equates"]
  BY <1>1, <1>2, FaultsStay, FaultyKeeps DEF EquateLine
<1>3. CASE ~(IsReserved(l.name, s.disabled) \/ Taken(s, l.name)
               \/ Len(s.equates) >= Capacity["equates"])
  <2> DEFINE e == [name |-> l.name, line |-> s.line]
             t == [s EXCEPT !.equates = Append(@, e)]
  <2>1. EquateLine(s, l) \in {t, Diagnose(t)}
    BY <1>3 DEF EquateLine
  <2>2. Judged(t)
    BY <1>1 DEF Judged, Faulty, Fields
  <2>3. Allowed(s, l)
    BY <1>3, NoneIsAlone DEF Allowed, Taken, Free
  <2>4. Grown(s, t, l)
    <3>1. /\ t.equates = Append(s.equates, e) /\ t.symbols = s.symbols /\ t.policy = s.policy
          /\ t.labels = s.labels /\ t.procs = s.procs /\ t.open = s.open /\ t.calls = s.calls
          /\ t.protos = s.protos /\ (~Faulty(t) => ~Faulty(s))
      BY <1>1 DEF Fields, Faulty
    <3>2. ProtosGrow(s, t, l)
      BY <3>1 DEF ProtosGrow
    <3>4. OneTable(s, t, l)
      BY <3>1, <3>2 DEF OneTable
    <3> HIDE DEF t, e
    <3> QED
      BY <2>3, <3>4, TableGrown
  <2> HIDE DEF t
  <2>5. Grown(s, Diagnose(t), l)
    BY <2>2, FaultsStay, FaultyKeeps
  <2> QED
    BY <2>1, <2>4, <2>5
<1> QED
  BY <1>2, <1>3

LEMMA DataGrown ==
  ASSUME NEW s, Sound(s), NEW l, l.op = "data"
  PROVE  Grown(s, DataLine(s, l), l)
<1>1. DOMAIN s = Fields /\ Judged(s)
  BY DEF Sound, Judged
<1> DEFINE e == [name |-> l.name, line |-> s.line]
           t == [s EXCEPT !.symbols = Append(@, e)]
           unusable == IsReserved(l.name, s.disabled) \/ Taken(s, l.name)
<1>2. Grown(s, Diagnose(s), l) /\ Grown(s, Exceed(s), l)
  BY <1>1, FaultsStay, FaultyKeeps
<1>3. ~unusable => Grown(s, t, l)
  <2>1. ASSUME ~unusable
        PROVE  Grown(s, t, l)
    <3>1. Allowed(s, l)
      BY <2>1, NoneIsAlone DEF Allowed, Taken, Free
    <3>2. /\ t.symbols = Append(s.symbols, e) /\ t.equates = s.equates /\ t.policy = s.policy
          /\ t.labels = s.labels /\ t.procs = s.procs /\ t.open = s.open /\ t.calls = s.calls
          /\ t.protos = s.protos /\ (~Faulty(t) => ~Faulty(s))
      BY <1>1 DEF Fields, Faulty
    <3>3. ProtosGrow(s, t, l)
      BY <3>2 DEF ProtosGrow
    <3>4. OneTable(s, t, l)
      BY <3>1, <3>2, <3>3 DEF OneTable
    <3> HIDE DEF t, e
    <3> QED
      BY <3>1, <3>4, TableGrown
  <2> QED
    BY <2>1
<1>4. \/ unusable /\ DataLine(s, l) = Diagnose(s)
      \/ ~unusable /\ DataLine(s, l) \in {Exceed(s), t}
  BY DEF DataLine
<1> HIDE DEF t
<1> QED
  BY <1>2, <1>3, <1>4

LEMMA CasemapGrown ==
  ASSUME NEW s, Sound(s), NEW l, l.op = "casemap"
  PROVE  Grown(s, CasemapLine(s, l), l)
<1>1. DOMAIN s = Fields /\ Judged(s)
  BY DEF Sound, Judged
<1> DEFINE w == IF s.chosen /\ s.policy # l.policy THEN Warn(s) ELSE s
           t == [w EXCEPT !.policy = l.policy, !.chosen = TRUE]
<1>2. /\ DOMAIN w = Fields /\ (~Faulty(w) => ~Faulty(s))
      /\ w.equates = s.equates /\ w.symbols = s.symbols /\ w.protos = s.protos
      /\ w.labels = s.labels /\ w.procs = s.procs /\ w.open = s.open /\ w.calls = s.calls
  BY <1>1 DEF Warn, Fields, Faulty
<1>3. CasemapLine(s, l) = t
  BY DEF CasemapLine
<1> HIDE DEF w
<1>4. /\ t.policy = l.policy /\ (~Faulty(t) => ~Faulty(s))
      /\ t.equates = s.equates /\ t.symbols = s.symbols /\ t.protos = s.protos
      /\ t.labels = s.labels /\ t.procs = s.procs /\ t.open = s.open /\ t.calls = s.calls
  BY <1>2 DEF Fields, Faulty
<1>5. Allowed(s, l) /\ ProtosGrow(s, t, l)
  BY <1>4 DEF Allowed, Declaring, ProtosGrow
<1>6. OneTable(s, t, l)
  BY <1>4, <1>5 DEF OneTable
<1> HIDE DEF t
<1> QED
  BY <1>3, <1>5, <1>6, TableGrown

LEMMA ProtoGrown ==
  ASSUME NEW s, Sound(s), NEW l, l.op = "proto"
  PROVE  Grown(s, ProtoLine(s, l), l)
<1>1. DOMAIN s = Fields /\ Judged(s)
  BY DEF Sound, Judged
<1> DEFINE e == [name |-> l.name, count |-> l.count]
           t == [s EXCEPT !.protos = Append(@, e)]
           unusable == s.open # 0 \/ IsReserved(l.name, s.disabled)
                         \/ Matches(s.protos, l.name, s.policy) # {}
<1>2. Grown(s, Diagnose(s), l) /\ Grown(s, Full(s), l)
  BY <1>1, FaultsStay, FaultyKeeps
<1>3. ~unusable => Grown(s, t, l)
  <2>1. ASSUME ~unusable
        PROVE  Grown(s, t, l)
    <3>2. /\ t.protos = Append(s.protos, e) /\ t.equates = s.equates /\ t.policy = s.policy
          /\ t.labels = s.labels /\ t.procs = s.procs /\ t.open = s.open /\ t.calls = s.calls
          /\ t.symbols = s.symbols /\ (~Faulty(t) => ~Faulty(s))
      BY <1>1 DEF Fields, Faulty
    <3>3. ProtosGrow(s, t, l) /\ Allowed(s, l)
      BY <2>1, <3>2 DEF ProtosGrow, Allowed, Declaring
    <3>4. OneTable(s, t, l)
      BY <3>2, <3>3 DEF OneTable
    <3> HIDE DEF t, e
    <3> QED
      BY <3>3, <3>4, TableGrown
  <2> QED
    BY <2>1
<1>4. \/ unusable /\ ProtoLine(s, l) = Diagnose(s)
      \/ ~unusable /\ ProtoLine(s, l) \in {Full(s), t}
  BY DEF ProtoLine
<1> HIDE DEF t
<1> QED
  BY <1>2, <1>3, <1>4

\* A label that is not refused.
LEMMA AddLabelGrows ==
  ASSUME NEW s, Sound(s), NEW n, NEW isProc, ~Faulty(AddLabel(s, n, isProc))
  PROVE  LET t == AddLabel(s, n, isProc)
         IN  /\ ~LabelRefused(s, n, isProc) /\ ~Faulty(s) /\ DOMAIN t = Fields
             /\ IsSeq(t.labels) /\ Len(t.labels) = Len(s.labels) + 1
             /\ \A j \in 1 .. Len(s.labels) : t.labels[j] = s.labels[j]
             /\ t.labels[Len(s.labels) + 1].name = n
             /\ t.labels[Len(s.labels) + 1].line = s.line
             /\ t.labels[Len(s.labels) + 1].isProc = isProc
             /\ t.equates = s.equates /\ t.symbols = s.symbols /\ t.policy = s.policy
             /\ t.protos = s.protos /\ t.procs = s.procs /\ t.open = s.open /\ t.calls = s.calls
<1>1. DOMAIN s = Fields /\ Judged(s) /\ IsSeq(s.labels)
  BY DEF Sound, Judged, LabelsFit
<1> DEFINE e == [name |-> n, isProc |-> isProc, target |-> -1, line |-> s.line]
           added == [s EXCEPT !.labels = Append(@, e)]
           stopped == [added EXCEPT !.stop = TRUE, !.go = FALSE]
           t == [added EXCEPT !.pending = @ \cup {Len(added.labels)}]
<1>2. e.name = n /\ e.line = s.line /\ e.isProc = isProc
  OBVIOUS
<1> HIDE DEF e
<1>3. /\ IsSeq(Append(s.labels, e)) /\ Len(Append(s.labels, e)) = Len(s.labels) + 1
      /\ \A i \in 1 .. Len(s.labels) : Append(s.labels, e)[i] = s.labels[i]
      /\ Append(s.labels, e)[Len(s.labels) + 1] = e
  BY <1>1, AppendSeq
<1>4. Faulty(Refuse(s)) /\ Faulty(Exceed(s)) /\ Faulty(stopped)
  <2>1. Faulty(stopped)
    BY <1>1 DEF Faulty, Fields
  <2> QED
    BY <1>1, <2>1, FaultsStay
<1>5. \/ LabelRefused(s, n, isProc) /\ AddLabel(s, n, isProc) = Refuse(s)
      \/ ~LabelRefused(s, n, isProc) /\ AddLabel(s, n, isProc) \in {Exceed(s), stopped, t}
  BY DEF AddLabel, e
<1>6. /\ t.labels = Append(s.labels, e) /\ (~Faulty(t) => ~Faulty(s)) /\ DOMAIN t = Fields
      /\ t.equates = s.equates /\ t.symbols = s.symbols /\ t.policy = s.policy
      /\ t.protos = s.protos /\ t.procs = s.procs /\ t.open = s.open /\ t.calls = s.calls
  BY <1>1 DEF Faulty, Fields
<1> HIDE DEF t, stopped
<1>7. AddLabel(s, n, isProc) = t /\ ~LabelRefused(s, n, isProc)
  BY <1>4, <1>5
<1> QED
  BY <1>2, <1>3, <1>6, <1>7

LEMMA LabelGrown ==
  ASSUME NEW s, Sound(s), NEW l, l.op = "label"
  PROVE  Grown(s, LabelLine(s, l), l)
<1> DEFINE no == FALSE
           t == AddLabel(s, l.name, no)
<1>0. no = FALSE
  OBVIOUS
<1> HIDE DEF no
<1>1. DOMAIN t = Fields
  BY AddLabelSound DEF Declares, Handles, Sound, Judged
<1>2. Equal(t, LabelLine(s, l))
  BY <1>0, <1>1, ControlEqual DEF LabelLine
<1>3. ASSUME ~Faulty(t)
      PROVE  Grown(s, t, l)
  <2>1. /\ ~LabelRefused(s, l.name, no) /\ ~Faulty(s)
        /\ IsSeq(t.labels) /\ Len(t.labels) = Len(s.labels) + 1
        /\ \A j \in 1 .. Len(s.labels) : t.labels[j] = s.labels[j]
        /\ t.labels[Len(s.labels) + 1].name = l.name
        /\ t.labels[Len(s.labels) + 1].line = s.line
        /\ t.labels[Len(s.labels) + 1].isProc = no
        /\ t.equates = s.equates /\ t.symbols = s.symbols /\ t.policy = s.policy
        /\ t.protos = s.protos /\ t.procs = s.procs /\ t.open = s.open /\ t.calls = s.calls
    BY <1>3, AddLabelGrows
  <2> HIDE DEF t
  <2>2. IsSeq(s.procs) /\ Len(s.calls) \in Nat
    BY SeqFacts DEF Sound, Judged, RangesFit
  <2>3. Allowed(s, l)
    BY <1>0, <2>1 DEF Allowed, LabelRefused, Free
  <2>4. NamesGrow(s, t, l)
    BY <1>0, <2>1 DEF NamesGrow
  <2>5. ProcsGrow(s, t, l) /\ ProtosGrow(s, t, l) /\ CallsGrow(s, t, l)
    BY <2>1, <2>2 DEF ProcsGrow, ProtosGrow, CallsGrow, SameRange
  <2> QED
    BY <2>1, <2>3, <2>4, <2>5 DEF Grown
<1>4. Grown(s, t, l)
  BY <1>3 DEF Grown
<1> HIDE DEF t
<1> QED
  BY <1>2, <1>4, EqualGrown

\* Another entry for the open procedure.
Noting(s, a, t) == s.open # 0 /\ t = [s EXCEPT !.procs[s.open] = a]

LEMMA OpenChanged ==
  ASSUME NEW s, Sound(s), NEW a, NEW t, Noting(s, a, t)
  PROVE  /\ DOMAIN t = Fields /\ (~Faulty(t) => ~Faulty(s))
         /\ t.equates = s.equates /\ t.symbols = s.symbols /\ t.policy = s.policy
         /\ t.protos = s.protos /\ t.open = s.open /\ t.calls = s.calls /\ t.labels = s.labels
         /\ IsSeq(t.procs) /\ Len(t.procs) = Len(s.procs) /\ t.procs[s.open] = a
         /\ \A k \in 1 .. Len(s.procs) : k # s.open => t.procs[k] = s.procs[k]
         /\ s.open \in 1 .. Len(s.procs) /\ DOMAIN s.procs[s.open] = RangeFields
         /\ IsSeq(s.labels) /\ Len(s.calls) \in Nat
<1> USE DEF Noting
<1>1. /\ DOMAIN s = Fields /\ Len(s.procs) \in Nat /\ DOMAIN s.procs = 1 .. Len(s.procs)
      /\ s.open \in 1 .. Len(s.procs) /\ DOMAIN s.procs[s.open] = RangeFields
      /\ IsSeq(s.labels) /\ Len(s.calls) \in Nat
  BY SeqFacts DEF Sound, Judged, RangesFit, LabelsFit, GoodRange
<1> DEFINE b == [s.procs EXCEPT ![s.open] = a]
<1>2. /\ DOMAIN t = Fields /\ (~Faulty(t) => ~Faulty(s))
      /\ t.equates = s.equates /\ t.symbols = s.symbols /\ t.policy = s.policy
      /\ t.protos = s.protos /\ t.open = s.open /\ t.calls = s.calls /\ t.labels = s.labels
      /\ t.procs = b
  BY <1>1 DEF Fields, Faulty
<1>3. b[s.open] = a /\ \A k \in 1 .. Len(s.procs) : k # s.open => b[k] = s.procs[k]
  BY <1>1
<1>4. IsSeq(b) /\ Len(b) = Len(s.procs)
  <2>1. b = [k \in 1 .. Len(s.procs) |-> b[k]]
    BY <1>1
  <2> HIDE DEF b
  <2> QED
    BY <1>1, <2>1, FunctionSeq
<1> HIDE DEF b
<1> QED
  BY <1>1, <1>2, <1>3, <1>4

LEMMA LocalGrown ==
  ASSUME NEW s, Sound(s), NEW l, l.op = "local"
  PROVE  Grown(s, LocalLine(s, l), l)
<1>1. CASE s.open = 0 \/ LocalRefused(s, l.name)
  <2>1. Judged(s)
    BY DEF Sound
  <2> QED
    BY <1>1, <2>1, FaultsStay, FaultyKeeps DEF LocalLine
<1>2. CASE ~(s.open = 0 \/ LocalRefused(s, l.name))
  <2> DEFINE e == [name |-> l.name, line |-> s.line]
             a == s.procs[s.open]
             b == [a EXCEPT !.locals = Append(@, e)]
             t == [s EXCEPT !.procs[s.open] = b]
  <2>1. LocalLine(s, l) = t
    BY <1>2, OpenRange DEF LocalLine
  <2> HIDE DEF e
  <2>2. /\ (~Faulty(t) => ~Faulty(s))
        /\ t.equates = s.equates /\ t.symbols = s.symbols /\ t.policy = s.policy
        /\ t.protos = s.protos /\ t.open = s.open /\ t.calls = s.calls /\ t.labels = s.labels
        /\ IsSeq(t.procs) /\ Len(t.procs) = Len(s.procs) /\ t.procs[s.open] = b
        /\ \A k \in 1 .. Len(s.procs) : k # s.open => t.procs[k] = s.procs[k]
        /\ DOMAIN a = RangeFields /\ IsSeq(s.labels) /\ Len(s.calls) \in Nat
    <3>1. Noting(s, b, t)
      BY <1>2 DEF Noting
    <3> HIDE DEF b, t
    <3> QED
      BY <3>1, OpenChanged DEF a
  <2>3. /\ b.name = a.name /\ b.line = a.line /\ b.plain = a.plain /\ b.pops = a.pops
        /\ b.locals = Append(a.locals, e)
    BY <2>2 DEF RangeFields
  <2> HIDE DEF a, b, t
  <2>4. Allowed(s, l)
    BY <1>2 DEF Allowed, Declaring
  <2>5. NamesGrow(s, t, l) /\ ProtosGrow(s, t, l) /\ CallsGrow(s, t, l)
    BY <2>2 DEF NamesGrow, ProtosGrow, CallsGrow
  <2>6. ProcsGrow(s, t, l)
    BY <2>2, <2>3 DEF ProcsGrow, SameRange, a, e
  <2> QED
    BY <2>1, <2>2, <2>4, <2>5, <2>6 DEF Grown
<1> QED
  BY <1>1, <1>2

LEMMA CloseRangeKeeps ==
  ASSUME NEW s, Sound(s)
  PROVE  Keeping(s, CloseRange(s)) /\ DOMAIN CloseRange(s) = Fields
<1>1. CASE s.open = 0
  BY <1>1, EqualKeeps DEF CloseRange, Equal, Sound, Judged
<1>2. CASE s.open # 0
  <2> DEFINE e == Len(s.code) > s.procs[s.open].start
             a == s.procs[s.open]
             b == [a EXCEPT !.end = Len(s.code), !.runs = e]
             t == [s EXCEPT !.procs[s.open] = b]
  <2> HIDE DEF e
  <2>1. [s EXCEPT !.procs[s.open].end = Len(s.code), !.procs[s.open].runs = e] = t
    BY <1>2, OpenRange DEF Fields
  <2>2. CloseRange(s) = t
    BY <1>2, <2>1 DEF CloseRange, e
  <2>3. /\ (~Faulty(t) => ~Faulty(s)) /\ DOMAIN t = Fields
        /\ t.equates = s.equates /\ t.symbols = s.symbols /\ t.policy = s.policy
        /\ t.protos = s.protos /\ t.open = s.open /\ t.calls = s.calls /\ t.labels = s.labels
        /\ IsSeq(t.procs) /\ Len(t.procs) = Len(s.procs) /\ t.procs[s.open] = b
        /\ \A k \in 1 .. Len(s.procs) : k # s.open => t.procs[k] = s.procs[k]
        /\ DOMAIN a = RangeFields /\ IsSeq(s.labels) /\ Len(s.calls) \in Nat
    <3>1. Noting(s, b, t)
      BY <1>2 DEF Noting
    <3> HIDE DEF b, t
    <3> QED
      BY <3>1, OpenChanged DEF a
  <2>4. SameRange(b, a)
    BY <2>3 DEF RangeFields, SameRange
  <2> HIDE DEF b, t
  <2>5. \A k \in 1 .. Len(s.procs) : SameRange(t.procs[k], s.procs[k])
    BY <2>3, <2>4 DEF SameRange
  <2> QED
    BY <2>2, <2>3, <2>5 DEF Keeping, Keeps
<1> QED
  BY <1>1, <1>2

\* ENDP and END behind a range that is closed.
LEMMA ClosedGrown ==
  ASSUME NEW s, NEW t, Keeping(s, t), DOMAIN t = Fields, NEW l, NEW e, NEW f
  PROVE  /\ l.op = "endp" => Grown(s, [t EXCEPT !.open = 0], l)
         /\ l.op = "end" => Grown(s, [t EXCEPT !.entry = e, !.phase = f], l)
<1> DEFINE u == [t EXCEPT !.open = 0]
           v == [t EXCEPT !.entry = e, !.phase = f]
<1>1. /\ u.refused = t.refused /\ u.overflowed = t.overflowed /\ u.stop = t.stop
      /\ u.equates = t.equates /\ u.symbols = t.symbols /\ u.policy = t.policy
      /\ u.labels = t.labels /\ u.procs = t.procs /\ u.open = 0
      /\ u.protos = t.protos /\ u.calls = t.calls
  BY DEF Fields
<1>2. Equal(t, v)
  BY DEF Fields, Equal
<1> HIDE DEF u, v
<1>3. ASSUME l.op = "endp", ~Faulty(u)
      PROVE  Grown(s, u, l)
  <2>1. ~Faulty(s) /\ Keeps(s, t)
    BY <1>1, <1>3 DEF Keeping, Faulty
  <2>2. Allowed(s, l)
    BY <1>3 DEF Allowed, Declaring
  <2>3. NamesGrow(s, u, l)
    BY <1>1, <1>3, <2>1 DEF Keeps, NamesGrow
  <2>4. ProtosGrow(s, u, l) /\ CallsGrow(s, u, l)
    BY <1>1, <1>3, <2>1 DEF Keeps, ProtosGrow, CallsGrow
  <2>5. ProcsGrow(s, u, l)
    BY <1>1, <1>3, <2>1 DEF Keeps, ProcsGrow
  <2> QED
    BY <2>1, <2>2, <2>3, <2>4, <2>5 DEF Grown
<1>4. ASSUME l.op = "end", ~Faulty(v)
      PROVE  Grown(s, v, l)
  <2>1. ~Faulty(s) /\ Keeps(s, t)
    BY <1>2, <1>4 DEF Keeping, Faulty, Equal
  <2>2. Allowed(s, l)
    BY <1>4 DEF Allowed, Declaring
  <2>3. NamesGrow(s, v, l)
    BY <1>2, <1>4, <2>1 DEF Keeps, NamesGrow, Equal
  <2>4. ProtosGrow(s, v, l) /\ CallsGrow(s, v, l)
    BY <1>2, <1>4, <2>1 DEF Keeps, ProtosGrow, CallsGrow, Equal
  <2>5. ProcsGrow(s, v, l)
    BY <1>2, <1>4, <2>1 DEF Keeps, ProcsGrow, Equal
  <2> QED
    BY <2>1, <2>2, <2>3, <2>4, <2>5 DEF Grown
<1> QED
  BY <1>3, <1>4 DEF Grown, u, v

\* Forgetting the waiting labels, then closing the range.
LEMMA ForgetKeeps ==
  ASSUME NEW s, Sound(s)
  PROVE  LET t == CloseRange(Forget(s))
         IN  /\ Keeping(s, t) /\ DOMAIN t = Fields /\ Faulty(Refuse(t))
             /\ Faulty(Refuse(Forget(s)))
             /\ Equal(s, Forget(s)) /\ Sound(Forget(s))
<1> DEFINE f == Forget(s)
<1>1. Sound(f) /\ Equal(s, f)
  BY ForgetSound, ControlEqual DEF Declares, Handles, Sound, Judged, Forget
<1> HIDE DEF f
<1>2. Keeping(s, f)
  BY <1>1, EqualKeeps
<1>3. Keeping(f, CloseRange(f)) /\ DOMAIN CloseRange(f) = Fields
  BY <1>1, CloseRangeKeeps
<1>4. Judged(f) /\ Judged(CloseRange(f))
  BY <1>1, CloseRangeSound DEF Handles, Sound
<1> HIDE DEF CloseRange
<1>5. Keeping(s, CloseRange(f))
  BY <1>2, <1>3, KeepingOn
<1> QED
  BY <1>1, <1>3, <1>4, <1>5, FaultsStay DEF f

LEMMA EndsGrown ==
  ASSUME NEW s, Sound(s), NEW l
  PROVE  /\ l.op = "endp" => Grown(s, EndpLine(s, l), l)
         /\ l.op = "end" => Grown(s, EndLine(s, l), l)
<1> DEFINE t == CloseRange(Forget(s))
           proc == First(Matches(s.procs, l.name, s.policy))
           u == [t EXCEPT !.open = 0]
           v == [t EXCEPT !.entry = proc, !.phase = "ended"]
<1>1. Keeping(s, t) /\ DOMAIN t = Fields /\ Faulty(Refuse(t)) /\ Faulty(Refuse(Forget(s)))
  BY ForgetKeeps
<1>2. EndpLine(s, l) \in {Refuse(Forget(s)), u} /\ EndLine(s, l) \in {Refuse(t), v}
  BY DEF EndpLine, EndLine
<1> HIDE DEF t, proc
<1>3. /\ l.op = "endp" => Grown(s, u, l)
      /\ l.op = "end" => Grown(s, v, l)
  BY <1>1, ClosedGrown
<1>4. Grown(s, Refuse(t), l) /\ Grown(s, Refuse(Forget(s)), l)
  BY <1>1, FaultyKeeps
<1> HIDE DEF u, v
<1> QED
  BY <1>2, <1>3, <1>4

LEMMA ProcGrown ==
  ASSUME NEW s, Sound(s), NEW l, l.op = "proc"
  PROVE  Grown(s, ProcLine(s, l), l)
<1> DEFINE yes == TRUE
           f == Forget(s)
           t == AddLabel(f, l.name, yes)
           here == Len(s.code)
           range == [name |-> l.name, start |-> here, end |-> here, runs |-> FALSE,
                     uses |-> l.uses, locals |-> <<>>, plain |-> FALSE, pops |-> {},
                     line |-> s.line]
           u == [t EXCEPT !.procs = Append(@, range), !.open = Len(s.procs) + 1]
<1>1. yes = TRUE
  OBVIOUS
<1>2. \/ ProcLine(s, l) \in {Refuse(f), Exceed(t), u}
      \/ ProcLine(s, l) = t /\ ~t.go
  <2>1. CASE ~GoodUses(l.uses)
    BY <2>1 DEF ProcLine
  <2>2. CASE GoodUses(l.uses) /\ ~t.go
    BY <2>2 DEF ProcLine
  <2>3. CASE GoodUses(l.uses) /\ t.go
    <3>1. ProcLine(s, l) = IF Len(s.procs) >= Capacity["procs"] THEN Exceed(t) ELSE u
      BY <2>3 DEF ProcLine
    <3> HIDE DEF t, u
    <3> QED
      BY <3>1
  <2> QED
    BY <2>1, <2>2, <2>3
<1> HIDE DEF yes
<1>3. Sound(f) /\ Equal(s, f) /\ Faulty(Refuse(f))
  BY ForgetKeeps
<1>4. Sound(t) /\ DOMAIN t = Fields /\ Judged(t) /\ (~t.go => Faulty(t))
  <2> HIDE DEF f
  <2>1. Declares(f, t)
    BY <1>3, AddLabelSound
  <2> HIDE DEF t
  <2> QED
    BY <2>1 DEF Declares, Handles, Sound, Judged
<1>5. range.name = l.name /\ range.line = s.line /\ range.locals = <<>>
        /\ ~range.plain /\ range.pops = {}
  OBVIOUS
<1> HIDE DEF range
<1>6. ASSUME ~Faulty(u)
      PROVE  Grown(s, u, l)
  <2>1. /\ u.procs = Append(t.procs, range) /\ u.open = Len(s.procs) + 1
        /\ u.labels = t.labels /\ u.equates = t.equates /\ u.symbols = t.symbols
        /\ u.policy = t.policy /\ u.protos = t.protos /\ u.calls = t.calls /\ ~Faulty(t)
    <3> HIDE DEF t
    <3> QED
      BY <1>4, <1>6 DEF Fields, Faulty
  <2>2. /\ ~LabelRefused(f, l.name, yes) /\ ~Faulty(f)
        /\ IsSeq(t.labels) /\ Len(t.labels) = Len(f.labels) + 1
        /\ \A j \in 1 .. Len(f.labels) : t.labels[j] = f.labels[j]
        /\ t.labels[Len(f.labels) + 1].name = l.name
        /\ t.labels[Len(f.labels) + 1].line = f.line
        /\ t.labels[Len(f.labels) + 1].isProc = yes
        /\ t.equates = f.equates /\ t.symbols = f.symbols /\ t.policy = f.policy
        /\ t.protos = f.protos /\ t.procs = f.procs /\ t.open = f.open /\ t.calls = f.calls
    <3> HIDE DEF f
    <3> QED
      BY <1>3, <2>1, AddLabelGrows
  <2>3. f.line = s.line
    BY ForgetSound DEF Declares, Handles
  <2> HIDE DEF u, t, f
  <2>4. IsSeq(s.procs) /\ Len(s.calls) \in Nat /\ ~Faulty(s)
    BY <1>3, <2>2, SeqFacts DEF Sound, Judged, RangesFit, Equal, Faulty
  <2>5. /\ IsSeq(u.procs) /\ Len(u.procs) = Len(s.procs) + 1
        /\ \A k \in 1 .. Len(s.procs) : u.procs[k] = s.procs[k]
        /\ u.procs[Len(s.procs) + 1] = range
    <3>1. u.procs = Append(s.procs, range)
      BY <1>3, <2>1, <2>2 DEF Equal
    <3> QED
      BY <2>4, <3>1, AppendSeq
  <2>6. Allowed(s, l)
    <3>1. Free(s, l.name)
      BY <1>3, <2>2 DEF LabelRefused, Free, Equal
    <3> QED
      BY <3>1 DEF Allowed
  <2>7. NamesGrow(s, u, l)
    BY <1>1, <1>3, <2>1, <2>2, <2>3 DEF NamesGrow, Equal
  <2>8. ProcsGrow(s, u, l)
    BY <1>5, <2>1, <2>5 DEF ProcsGrow, SameRange
  <2>9. ProtosGrow(s, u, l) /\ CallsGrow(s, u, l)
    BY <1>3, <2>1, <2>2, <2>4 DEF ProtosGrow, CallsGrow, Equal
  <2> QED
    BY <2>4, <2>6, <2>7, <2>8, <2>9 DEF Grown
<1>7. Grown(s, u, l)
  BY <1>6 DEF Grown
<1>8. Grown(s, Refuse(f), l) /\ Grown(s, Exceed(t), l) /\ (~t.go => Grown(s, t, l))
  BY <1>3, <1>4, FaultsStay, FaultyKeeps
<1> HIDE DEF u, t, f
<1> QED
  BY <1>2, <1>7, <1>8

LEMMA RetGrown ==
  ASSUME NEW s, Sound(s), NEW l, l.op = "ret"
  PROVE  Grown(s, RetLine(s, l), l)
<1> DEFINE a == s.procs[s.open]
           b == IF l.pops = -1 THEN [a EXCEPT !.plain = TRUE]
                ELSE [a EXCEPT !.pops = @ \cup {l.pops}]
           noted == IF s.open = 0 THEN s ELSE [s EXCEPT !.procs[s.open] = b]
           ret == Instruction(s, "ret", Nothing)
           t == Emit(noted, <<ret>>)
<1>1. RetLine(s, l) = t
  BY OpenRange DEF RetLine
<1>2. Fresh(<<ret>>)
  BY InstructionFresh
<1> HIDE DEF ret
<1>3. Sound(noted)
  <2>1. CASE s.open = 0
    BY <2>1
  <2>2. CASE s.open # 0
    <3>1. GoodRange(b, Len(s.code)) /\ b.start = s.procs[s.open].start
      BY <2>2, OpenRange DEF GoodRange, RangeFields
    <3> HIDE DEF b
    <3>2. Handles(s, [s EXCEPT !.procs[s.open] = b])
      BY <2>2, <3>1, RangeReplaced
    <3> QED
      BY <2>2, <3>2 DEF Handles
  <2> QED
    BY <2>1, <2>2
<1>4. /\ (~Faulty(noted) => ~Faulty(s))
      /\ noted.equates = s.equates /\ noted.symbols = s.symbols /\ noted.policy = s.policy
      /\ noted.protos = s.protos /\ noted.open = s.open /\ noted.calls = s.calls
      /\ noted.labels = s.labels /\ Len(noted.procs) = Len(s.procs)
      /\ \A k \in 1 .. Len(s.procs) : k # s.open => noted.procs[k] = s.procs[k]
  <2>1. CASE s.open = 0
    BY <2>1
  <2>2. CASE s.open # 0
    <3>1. Noting(s, b, noted)
      BY <2>2 DEF Noting
    <3> HIDE DEF b, noted
    <3> QED
      BY <3>1, OpenChanged
  <2> QED
    BY <2>1, <2>2
<1>5. s.open # 0 => noted.procs[s.open] = b /\ DOMAIN a = RangeFields /\ s.open \in 1 .. Len(s.procs)
  <2>1. s.open # 0 => Noting(s, b, noted)
    BY DEF Noting
  <2> HIDE DEF b, noted
  <2> QED
    BY <2>1, OpenChanged
<1>6. s.open # 0 =>
        /\ b.name = a.name /\ b.line = a.line /\ b.locals = a.locals
        /\ b.plain <=> (a.plain \/ l.pops = -1)
        /\ b.pops = IF l.pops = -1 THEN a.pops ELSE a.pops \cup {l.pops}
  <2>1. ASSUME s.open # 0, l.pops = -1
        PROVE  b.name = a.name /\ b.line = a.line /\ b.locals = a.locals
                 /\ b.plain = TRUE /\ b.pops = a.pops
    BY <1>5, <2>1 DEF RangeFields
  <2>2. ASSUME s.open # 0, l.pops # -1
        PROVE  b.name = a.name /\ b.line = a.line /\ b.locals = a.locals
                 /\ b.plain = a.plain /\ b.pops = a.pops \cup {l.pops}
    BY <1>5, <2>2 DEF RangeFields
  <2> HIDE DEF b
  <2> QED
    BY <2>1, <2>2
<1> HIDE DEF noted, b
<1>7. Keeping(noted, t)
  BY <1>2, <1>3, EmitKeeps
<1> HIDE DEF t
<1>8. ASSUME ~Faulty(t)
      PROVE  Grown(s, t, l)
  <2>1. Keeps(noted, t) /\ ~Faulty(s)
    BY <1>4, <1>7, <1>8 DEF Keeping
  <2>2. Allowed(s, l)
    BY DEF Allowed, Declaring
  <2>3. NamesGrow(s, t, l)
    BY <1>4, <2>1 DEF NamesGrow, Keeps
  <2>4. ProtosGrow(s, t, l) /\ CallsGrow(s, t, l)
    BY <1>4, <2>1 DEF ProtosGrow, CallsGrow, Keeps
  <2>5. ProcsGrow(s, t, l)
    <3>1. \A k \in 1 .. Len(s.procs) : k # s.open => SameRange(t.procs[k], s.procs[k])
      BY <1>4, <2>1 DEF Keeps, SameRange
    <3>2. s.open # 0 => SameRange(t.procs[s.open], b)
      BY <1>4, <1>5, <2>1 DEF Keeps
    <3>3. s.open # 0 =>
            LET x == t.procs[s.open]
            IN  /\ x.name = a.name /\ x.line = a.line /\ x.locals = a.locals
                /\ x.plain <=> (a.plain \/ l.pops = -1)
                /\ x.pops = IF l.pops = -1 THEN a.pops ELSE a.pops \cup {l.pops}
      BY <1>6, <3>2 DEF SameRange
    <3> QED
      BY <1>4, <2>1, <3>1, <3>3 DEF Keeps, ProcsGrow
  <2> QED
    BY <2>1, <2>2, <2>3, <2>4, <2>5 DEF Grown
<1>9. Grown(s, t, l)
  BY <1>8 DEF Grown
<1> QED
  BY <1>1, <1>9

\* Code, and what waits for END.
LEMMA CodeGrown ==
  ASSUME NEW s, Sound(s), NEW l
  PROVE  /\ l.op = "plain" => Grown(s, Emit(s, <<Instruction(s, "nop", Nothing)>>), l)
         /\ l.op \in {"write", "read", "offset"} => Grown(s, OperandLine(s, l), l)
         /\ l.op = "jump" => Grown(s, JumpLine(s, l), l)
         /\ l.op = "call" => Grown(s, CallLine(s, l), l)
<1> DEFINE nop == Instruction(s, "nop", Nothing)
           mov == Instruction(s, "mov", Operand(s, l))
           jmp == Instruction(s, "jmp", Nothing)
           call == Instruction(s, "call", Nothing)
           routine == Instruction(s, "routine", Nothing)
           no == FALSE
<1>1. Fresh(<<nop>>) /\ Fresh(<<mov>>) /\ Fresh(<<jmp>>) /\ Fresh(<<call>>) /\ Fresh(<<routine>>)
  BY InstructionFresh
<1>2. /\ OperandLine(s, l) \in {Refuse(s), Emit(s, <<mov>>)}
      /\ JumpLine(s, l) \in {Refuse(s), AddBranch(Emit(s, <<jmp>>), l.name)}
      /\ CallLine(s, l) \in {Refuse(s), Emit(s, <<routine>>), AddCall(Emit(s, <<call>>), l.name, no, 0)}
  BY DEF OperandLine, JumpLine, CallLine
<1> HIDE DEF nop, mov, jmp, call, routine, no
<1>3. /\ Keeping(s, Emit(s, <<nop>>)) /\ Keeping(s, Emit(s, <<mov>>))
      /\ Keeping(s, Emit(s, <<routine>>))
      /\ Keeping(s, Emit(s, <<jmp>>)) /\ Keeping(s, Emit(s, <<call>>))
      /\ Sound(Emit(s, <<jmp>>)) /\ Sound(Emit(s, <<call>>))
  BY <1>1, EmitKeeps, EmitSound DEF Handles
<1>4. Keeping(s, AddBranch(Emit(s, <<jmp>>), l.name))
  BY <1>3, FixupsKeep, KeepingOn
<1>5. Keeping(s, AddCall(Emit(s, <<call>>), l.name, no, 0))
  <2> DEFINE t == Emit(s, <<call>>)
             u == AddCall(t, l.name, no, 0)
  <2> HIDE DEF t
  <2>1. Keeping(t, u)
    BY <1>3, FixupsKeep DEF t
  <2> HIDE DEF u
  <2>2. Keeping(s, u)
    BY <1>3, <2>1, KeepingOn DEF t
  <2> QED
    BY <2>2 DEF t, u
<1>6. Keeping(s, Refuse(s))
  BY FaultsStay, FaultyKeeps DEF Sound
<1>7. \A t : Keeping(s, t) /\ l.op \in {"plain", "write", "read", "offset", "jump", "call"}
        => Grown(s, t, l)
  BY KeepingGrown DEF Silent
<1> QED
  BY <1>2, <1>3, <1>4, <1>5, <1>6, <1>7 DEF nop

LEMMA InvokeGrown ==
  ASSUME NEW s, Sound(s), NEW l, l.op = "invoke", IsSeq(l.args)
  PROVE  Grown(s, InvokeLine(s, l), l)
<1> DEFINE n    == Len(l.args)
           refs == [i \in DOMAIN l.args |-> ArgumentOf(s, l.args[i])]
           captures == [i \in DOMAIN l.args |-> Instruction(s, "capture", refs[i])]
           last == Instruction(s, IF n = 0 THEN "call" ELSE "commit", Nothing)
           routine == Instruction(s, "routine", Nothing)
           yes == TRUE
           t == Emit(s, Append(captures, last))
           u == AddCall(t, l.name, yes, n)
<1>0. \/ InvokeLine(s, l) = Diagnose(s)
      \/ l.name \in Routines /\ InvokeLine(s, l) = Emit(s, <<routine>>)
      \/ l.name \notin Routines /\ InvokeLine(s, l) = u
  BY DEF InvokeLine
<1>1. n \in Nat /\ DOMAIN l.args = 1 .. n
  BY SeqFacts
<1>2. IsSeq(captures) /\ Len(captures) = n /\ \A i \in 1 .. n : GoodCode(captures[i], 1)
  <2> HIDE DEF n
  <2>1. \A i \in 1 .. n : captures[i] = Instruction(s, "capture", refs[i])
    BY <1>1
  <2>2. captures = [i \in 1 .. n |-> captures[i]]
    BY <1>1
  <2> HIDE DEF captures, refs
  <2>3. IsSeq(captures) /\ Len(captures) = n
    BY <1>1, <2>2, FunctionSeq
  <2> QED
    BY <2>1, <2>3, InstructionFresh
<1>3. GoodCode(last, 1) /\ Fresh(<<routine>>)
  BY InstructionFresh
<1> HIDE DEF captures, last, routine
<1>4. Fresh(Append(captures, last))
  BY <1>1, <1>2, <1>3, AppendSeq DEF Fresh
<1>5. Keeping(s, t) /\ Sound(t)
  BY <1>4, EmitKeeps, EmitSound DEF Handles
<1>9. yes
  OBVIOUS
<1> HIDE DEF t, n, yes
<1>6. /\ Keeping(t, u)
      /\ ~Faulty(u) => \E c \in 1 .. Len(u.calls) :
           /\ u.calls[c].name = l.name /\ u.calls[c].policy = t.policy
           /\ u.calls[c].invoke = yes /\ u.calls[c].args = n
  BY <1>5, FixupsKeep
<1> HIDE DEF u
<1>7. ASSUME l.name \notin Routines, ~Faulty(u)
      PROVE  Grown(s, u, l)
  <2>1. Keeps(s, u) /\ ~Faulty(s) /\ t.policy = s.policy
    <3>1. Keeping(s, u)
      BY <1>5, <1>6, KeepingOn
    <3> QED
      BY <1>5, <1>6, <1>7, <3>1 DEF Keeping, Keeps
  <2>2. Allowed(s, l)
    BY DEF Allowed, Declaring
  <2>3. NamesGrow(s, u, l)
    BY <2>1 DEF NamesGrow, Keeps
  <2>4. ProtosGrow(s, u, l) /\ ProcsGrow(s, u, l)
    BY <2>1 DEF ProtosGrow, ProcsGrow, Keeps
  <2>5. CallsGrow(s, u, l)
    <3>1. PICK c \in 1 .. Len(u.calls) :
            /\ u.calls[c].name = l.name /\ u.calls[c].policy = s.policy
            /\ u.calls[c].invoke = yes /\ u.calls[c].args = n
      BY <1>6, <1>7, <2>1
    <3>2. u.calls[c].invoke
      BY <1>9, <3>1, Zenon
    <3> QED
      BY <2>1, <3>1, <3>2 DEF CallsGrow, Keeps, n
  <2> QED
    BY <2>1, <2>2, <2>3, <2>4, <2>5 DEF Grown
<1>8. l.name \notin Routines => Grown(s, u, l)
  BY <1>7 DEF Grown
<1>10. Grown(s, Diagnose(s), l)
  BY FaultsStay, FaultyKeeps DEF Sound
<1>11. l.name \in Routines => Grown(s, Emit(s, <<routine>>), l)
  <2>1. Keeping(s, Emit(s, <<routine>>))
    BY <1>3, EmitKeeps
  <2> QED
    BY <2>1, KeepingGrown
<1> QED
  BY <1>0, <1>8, <1>10, <1>11

-----------------------------------------------------------------------------
(* As long as nothing was refused, the tables tell the lines read.  INVOKE is a line of code;  *)
(* after END every call was resolved.                                                          *)

Resolving(s) == \A c \in 1 .. Len(s.calls) : ~CallRefused(s, s.calls[c])

Mirrored(q, s) ==
  /\ s.line = Len(q)
  /\ ~Faulty(s) => Told(q, s)
  /\ s.phase \in Anywhere /\ ~Faulty(s) => OpenTold(q, s)
  /\ s.phase \in {"preamble", "data"} => Where(q, {"invoke"}) = {}
  /\ s.phase = "done" /\ ~Faulty(s) => Where(q, {"invoke"}) = {} \/ Resolving(s)

LEMMA EqualTold ==
  ASSUME NEW q, NEW x, NEW y, Equal(x, y)
  PROVE  /\ Faulty(x) <=> Faulty(y)
         /\ Told(q, x) => Told(q, y)
         /\ OpenTold(q, x) => OpenTold(q, y)
<1>1. Faulty(x) <=> Faulty(y)
  BY DEF Equal, Faulty
<1>2. NamesTold(q, x) => NamesTold(q, y)
  BY DEF Equal, NamesTold
<1>3. ProcsTold(q, x) => ProcsTold(q, y)
  BY DEF Equal, ProcsTold
<1>4. ProtosTold(q, x) => ProtosTold(q, y)
  BY DEF Equal, ProtosTold
<1>5. CallsTold(q, x) => CallsTold(q, y)
  BY DEF Equal, CallsTold
<1>6. OpenTold(q, x) => OpenTold(q, y)
  BY DEF Equal, OpenTold
<1> QED
  BY <1>1, <1>2, <1>3, <1>4, <1>5, <1>6 DEF Told

LEMMA TakeTold ==
  ASSUME IInv, Mirrored(source, p), NEW l \in Offered, NEW s, Take(l, s), s.line = p.line + 1,
         Grown(Now, s, l), p.phase \in Anywhere, s.phase # "done",
         s.phase \in Anywhere /\ ~Faulty(s) => l.op # "end",
         s.phase \in {"preamble", "data"} => p.phase \in {"preamble", "data"} /\ l.op # "invoke"
  PROVE  Mirrored(source, p)'
<1> DEFINE q == source
           r == Append(q, l)
           u == Now
<1>1. source' = r /\ p' = s /\ l \in Line /\ q \in Seq(Line) /\ Len(r) = Len(q) + 1
  BY OfferedIsLine DEF Take, IInv
<1>2. u.line = Len(q) + 1 /\ s.line = Len(q) + 1
  BY NowSound DEF Mirrored
<1>3. Equal(p, u)
  BY DEF IInv, Sound, Judged, Fields, Now, Equal
<1>4. Grown(u, s, l)
  OBVIOUS
<1> HIDE DEF u
<1>5. ~Faulty(u) => Told(q, u) /\ OpenTold(q, u)
  BY <1>3, EqualTold DEF Mirrored
<1>6. ~Faulty(s) => Told(r, s) /\ (l.op # "end" => OpenTold(r, s))
  BY <1>1, <1>2, <1>4, <1>5, ToldStep
<1>7. s.phase \in {"preamble", "data"} => Where(r, {"invoke"}) = {}
  <2>1. Where(r, {"invoke"}) = IF l.op = "invoke" THEN Where(q, {"invoke"}) \cup {Len(q) + 1}
                               ELSE Where(q, {"invoke"})
    BY <1>1, KindAdded
  <2> QED
    BY <2>1 DEF Mirrored
<1>8. Mirrored(r, s)
  BY <1>1, <1>2, <1>6, <1>7 DEF Mirrored
<1> QED
  BY <1>1, <1>8

\* A line that leaves the phase as it is.
LEMMA LineTold ==
  ASSUME IInv, Mirrored(source, p), NEW l \in Offered, NEW s, Take(l, s), Handles(Now, s),
         Grown(Now, s, l), p.phase \in Anywhere, l.op # "end", l.op = "invoke" => p.phase = "code"
  PROVE  Mirrored(source, p)'
<1>1. s.line = p.line + 1 /\ s.phase = p.phase
  BY NowSound DEF Handles
<1>2. s.phase # "done" /\ (s.phase \in {"preamble", "data"} => l.op # "invoke")
  BY <1>1 DEF Anywhere
<1> QED
  BY <1>1, <1>2, TakeTold

\* The check behind a line.
LEMMA CheckedGrown ==
  ASSUME NEW s, NEW x, NEW l, Handles(s, x), Grown(s, x, l)
  PROVE  Handles(s, Checked(x)) /\ Grown(s, Checked(x), l)
<1>1. Handles(s, Checked(x))
  BY CheckedSound
<1>2. DOMAIN x = Fields
  BY DEF Handles, Sound, Judged
<1>3. Equal(x, Checked(x))
  BY <1>2, ControlEqual
<1> QED
  BY <1>1, <1>3, EqualGrown

LEMMA LinesTold ==
  ASSUME IInv, Mirrored(source, p),
         Local \/ Label \/ Proc \/ Endp \/ Access \/ Jump \/ Call \/ Ret \/ Equate \/ Proto \/ DeclareData
  PROVE  Mirrored(source, p)'
<1> DEFINE s == Now
<1>1. Sound(s)
  BY NowSound
<1> HIDE DEF s
<1>2. ASSUME Local
      PROVE  Mirrored(source, p)'
  <2>1. PICK l \in Offered : p.phase = "code" /\ l.op = "local" /\ Take(l, Checked(LocalLine(s, l)))
    BY <1>2 DEF Local, Reading, Lines, Anywhere, s
  <2>2. Handles(s, LocalLine(s, l)) /\ Grown(s, LocalLine(s, l), l)
    BY <1>1, <2>1, LocalGrown, LocalLineSound DEF Declares
  <2>3. Handles(s, Checked(LocalLine(s, l))) /\ Grown(s, Checked(LocalLine(s, l)), l)
    BY <2>2, CheckedGrown
  <2> QED
    BY <2>1, <2>3, LineTold DEF s, Anywhere
<1>3. ASSUME Label
      PROVE  Mirrored(source, p)'
  <2>1. PICK l \in Offered : p.phase = "code" /\ l.op = "label" /\ Take(l, LabelLine(s, l))
    BY <1>3 DEF Label, Reading, Lines, Anywhere, s
  <2>2. Handles(s, LabelLine(s, l)) /\ Grown(s, LabelLine(s, l), l)
    BY <1>1, <2>1, LabelGrown, LabelLineSound DEF Declares
  <2> QED
    BY <2>1, <2>2, LineTold DEF s, Anywhere
<1>4. ASSUME Proc
      PROVE  Mirrored(source, p)'
  <2>1. PICK l \in Offered : p.phase = "code" /\ l.op = "proc" /\ Take(l, ProcLine(s, l))
    BY <1>4 DEF Proc, Reading, Lines, Anywhere, s
  <2>2. Handles(s, ProcLine(s, l)) /\ Grown(s, ProcLine(s, l), l)
    BY <1>1, <2>1, ProcGrown, ProcLineSound DEF Declares
  <2> QED
    BY <2>1, <2>2, LineTold DEF s, Anywhere
<1>5. ASSUME Endp
      PROVE  Mirrored(source, p)'
  <2>1. PICK l \in Offered : p.phase = "code" /\ l.op = "endp" /\ Take(l, EndpLine(s, l))
    BY <1>5 DEF Endp, Reading, Lines, Anywhere, s
  <2>2. Handles(s, EndpLine(s, l)) /\ Grown(s, EndpLine(s, l), l)
    BY <1>1, <2>1, EndsGrown, EndpLineSound DEF Declares
  <2> QED
    BY <2>1, <2>2, LineTold DEF s, Anywhere
<1>6. ASSUME Access
      PROVE  Mirrored(source, p)'
  <2>1. PICK l \in Offered : p.phase = "code" /\ l.op \in {"write", "read", "offset"} /\ Take(l, OperandLine(s, l))
    BY <1>6 DEF Access, Reading, Lines, Anywhere, s
  <2>2. Handles(s, OperandLine(s, l)) /\ Grown(s, OperandLine(s, l), l)
    BY <1>1, <2>1, CodeGrown, OperandLineSound DEF Declares
  <2> QED
    BY <2>1, <2>2, LineTold DEF s, Anywhere
<1>7. ASSUME Jump
      PROVE  Mirrored(source, p)'
  <2>1. PICK l \in Offered : p.phase = "code" /\ l.op = "jump" /\ Take(l, JumpLine(s, l))
    BY <1>7 DEF Jump, Reading, Lines, Anywhere, s
  <2>2. Handles(s, JumpLine(s, l)) /\ Grown(s, JumpLine(s, l), l)
    BY <1>1, <2>1, CodeGrown, TransferLinesSound DEF Declares
  <2> QED
    BY <2>1, <2>2, LineTold DEF s, Anywhere
<1>8. ASSUME Call
      PROVE  Mirrored(source, p)'
  <2>1. PICK l \in Offered : p.phase = "code" /\ l.op = "call" /\ Take(l, CallLine(s, l))
    BY <1>8 DEF Call, Reading, Lines, Anywhere, s
  <2>2. Handles(s, CallLine(s, l)) /\ Grown(s, CallLine(s, l), l)
    BY <1>1, <2>1, CodeGrown, TransferLinesSound DEF Declares
  <2> QED
    BY <2>1, <2>2, LineTold DEF s, Anywhere
<1>9. ASSUME Ret
      PROVE  Mirrored(source, p)'
  <2>1. PICK l \in Offered : p.phase = "code" /\ l.op = "ret" /\ Take(l, RetLine(s, l))
    BY <1>9 DEF Ret, Reading, Lines, Anywhere, s
  <2>2. Handles(s, RetLine(s, l)) /\ Grown(s, RetLine(s, l), l)
    BY <1>1, <2>1, RetGrown, RetLineSound DEF Declares
  <2> QED
    BY <2>1, <2>2, LineTold DEF s, Anywhere
<1>10. ASSUME Equate
      PROVE  Mirrored(source, p)'
  <2>1. PICK l \in Offered : p.phase \in Anywhere /\ l.op = "equate" /\ Take(l, Checked(EquateLine(s, l)))
    BY <1>10 DEF Equate, Reading, Lines, Anywhere, s
  <2>2. Handles(s, EquateLine(s, l)) /\ Grown(s, EquateLine(s, l), l)
    BY <1>1, <2>1, EquateGrown, EquateLineSound DEF Declares
  <2>3. Handles(s, Checked(EquateLine(s, l))) /\ Grown(s, Checked(EquateLine(s, l)), l)
    BY <2>2, CheckedGrown
  <2> QED
    BY <2>1, <2>3, LineTold DEF s, Anywhere
<1>11. ASSUME Proto
      PROVE  Mirrored(source, p)'
  <2>1. PICK l \in Offered : p.phase \in Anywhere /\ l.op = "proto" /\ Take(l, Checked(ProtoLine(s, l)))
    BY <1>11 DEF Proto, Reading, Lines, Anywhere, s
  <2>2. Handles(s, ProtoLine(s, l)) /\ Grown(s, ProtoLine(s, l), l)
    BY <1>1, <2>1, ProtoGrown, ProtoLineSound DEF Declares
  <2>3. Handles(s, Checked(ProtoLine(s, l))) /\ Grown(s, Checked(ProtoLine(s, l)), l)
    BY <2>2, CheckedGrown
  <2> QED
    BY <2>1, <2>3, LineTold DEF s, Anywhere
<1>12. ASSUME DeclareData
      PROVE  Mirrored(source, p)'
  <2>1. PICK l \in Offered : p.phase \in Anywhere /\ l.op = "data" /\ Take(l, DataLine(s, l))
    BY <1>12 DEF DeclareData, Reading, Lines, Anywhere, s
  <2>2. Handles(s, DataLine(s, l)) /\ Grown(s, DataLine(s, l), l)
    BY <1>1, <2>1, DataGrown, DataLineSound DEF Declares
  <2> QED
    BY <2>1, <2>2, LineTold DEF s, Anywhere
<1> QED
  BY <1>2, <1>3, <1>4, <1>5, <1>6, <1>7, <1>8, <1>9, <1>10, <1>11, <1>12

LEMMA OtherLinesTold ==
  ASSUME IInv, Mirrored(source, p), Plain \/ Invoke \/ Casemap \/ Nokeyword \/ Bad \/ Include
  PROVE  Mirrored(source, p)'
<1> DEFINE s == Now
<1>1. Sound(s) /\ Judged(s) /\ DOMAIN s = Fields
  BY NowSound DEF Sound, Judged
<1> HIDE DEF s
<1>2. ASSUME Plain
      PROVE  Mirrored(source, p)'
  <2> DEFINE nop == Instruction(s, "nop", Nothing)
  <2>1. PICK l \in Offered : p.phase = "code" /\ l.op = "plain" /\ Take(l, Emit(s, <<nop>>))
    BY <1>2 DEF Plain, Reading, Lines, s
  <2>2. Grown(s, Emit(s, <<nop>>), l)
    BY <1>1, <2>1, CodeGrown
  <2>3. Fresh(<<nop>>)
    BY InstructionFresh
  <2> HIDE DEF nop
  <2>4. Handles(s, Emit(s, <<nop>>))
    BY <1>1, <2>3, EmitSound
  <2> QED
    BY <2>1, <2>2, <2>4, LineTold DEF s, Anywhere
<1>3. ASSUME Invoke
      PROVE  Mirrored(source, p)'
  <2>1. PICK l \in Offered : p.phase = "code" /\ l.op = "invoke" /\ Take(l, Checked(InvokeLine(s, l)))
    BY <1>3 DEF Invoke, Reading, Lines, s
  <2>2. IsSeq(l.args)
    <3>1. l \in Line
      BY OfferedIsLine DEF IInv
    <3> QED
      BY <2>1, <3>1 DEF Line, IsSeq
  <2>3. Handles(s, InvokeLine(s, l)) /\ Grown(s, InvokeLine(s, l), l)
    BY <1>1, <2>1, <2>2, InvokeGrown, InvokeLineSound
  <2>4. Handles(s, Checked(InvokeLine(s, l))) /\ Grown(s, Checked(InvokeLine(s, l)), l)
    BY <2>3, CheckedGrown
  <2> QED
    BY <2>1, <2>4, LineTold DEF s, Anywhere
<1>4. ASSUME Casemap
      PROVE  Mirrored(source, p)'
  <2>1. PICK l \in Offered : /\ p.phase \in Anywhere /\ l.op = "casemap"
                             /\ Take(l, Checked(CasemapLine(s, l)))
    BY <1>4 DEF Casemap, Reading, Lines, s
  <2>2. l.policy \in Policies
    <3>1. l \in Line
      BY OfferedIsLine DEF IInv
    <3> QED
      BY <2>1, <3>1 DEF Line
  <2>3. Handles(s, CasemapLine(s, l)) /\ Grown(s, CasemapLine(s, l), l)
    BY <1>1, <2>1, <2>2, CasemapGrown, CasemapLineSound DEF Declares
  <2>4. Handles(s, Checked(CasemapLine(s, l))) /\ Grown(s, Checked(CasemapLine(s, l)), l)
    BY <2>3, CheckedGrown
  <2> QED
    BY <2>1, <2>4, LineTold DEF s, Anywhere
<1>5. ASSUME Nokeyword
      PROVE  Mirrored(source, p)'
  <2>1. PICK l \in Offered : /\ p.phase \in Anywhere /\ l.op = "nokeyword"
                             /\ Take(l, Checked(NokeywordLine(s, l)))
    BY <1>5 DEF Nokeyword, Reading, Lines, s
  <2> DEFINE e == s.disabled \cup {Fold[l.name]}
             t == [s EXCEPT !.disabled = e]
  <2>2. NokeywordLine(s, l) \in {t, Diagnose(s)}
    BY DEF NokeywordLine
  <2> HIDE DEF e
  <2>3. Keeping(s, t)
    BY <1>1, ControlEqual, EqualKeeps
  <2>4. Keeping(s, Diagnose(s))
    BY <1>1, FaultsStay, FaultyKeeps
  <2> HIDE DEF t
  <2>5. Grown(s, NokeywordLine(s, l), l)
    <3>1. Keeping(s, NokeywordLine(s, l))
      BY <2>2, <2>3, <2>4
    <3> QED
      BY <2>1, <3>1, KeepingGrown DEF Silent
  <2>6. Handles(s, NokeywordLine(s, l))
    BY <1>1, NokeywordLineSound DEF Declares
  <2>7. Handles(s, Checked(NokeywordLine(s, l))) /\ Grown(s, Checked(NokeywordLine(s, l)), l)
    BY <2>5, <2>6, CheckedGrown
  <2> QED
    BY <2>1, <2>7, LineTold DEF s, Anywhere
<1>6. ASSUME Bad
      PROVE  Mirrored(source, p)'
  <2>1. PICK l \in Offered : p.phase \in Anywhere /\ l.op = "bad" /\ Take(l, Refuse(s))
    BY <1>6 DEF Bad, Reading, Lines, s
  <2>2. Handles(s, Refuse(s)) /\ Grown(s, Refuse(s), l)
    BY <1>1, FaultsSound, FaultsStay, FaultyKeeps DEF Declares
  <2> QED
    BY <2>1, <2>2, LineTold DEF s, Anywhere
<1>7. ASSUME Include
      PROVE  Mirrored(source, p)'
  <2> DEFINE yes == TRUE
             t == [s EXCEPT !.irvine = yes]
  <2>1. PICK l \in Offered : p.phase \in Anywhere /\ l.op = "include" /\ Take(l, Checked(t))
    BY <1>7 DEF Include, Reading, Lines, Anywhere, s
  <2>2. Handles(s, t)
    <3>1. Alike(s, t) /\ Judged(t)
      BY <1>1 DEF Sound, Alike, Judged, Faulty, Fields
    <3> QED
      BY <1>1, <3>1, AlikeSound DEF Declares
  <2> HIDE DEF yes
  <2>3. Keeping(s, t)
    BY <1>1, ControlEqual, EqualKeeps
  <2> HIDE DEF t
  <2>4. Grown(s, t, l)
    BY <2>1, <2>3, KeepingGrown DEF Silent
  <2>5. Handles(s, Checked(t)) /\ Grown(s, Checked(t), l)
    BY <2>2, <2>4, CheckedGrown
  <2> QED
    BY <2>1, <2>5, LineTold DEF s, Anywhere
<1> QED
  BY <1>2, <1>3, <1>4, <1>5, <1>6, <1>7

\* Nothing was refused, so every fixup is resolved.
AllResolve(s) ==
  /\ \A c \in DOMAIN s.branches : ~BranchRefused(s, s.branches[c])
  /\ \A c \in DOMAIN s.calls : ~CallRefused(s, s.calls[c])

LEMMA AllResolved ==
  ASSUME NEW s, Sound(s), NEW more \in BOOLEAN, ~Faulty(ResolveAll(s, more))
  PROVE  LET t == ResolveAll(s, more)
         IN  /\ ~Faulty(s) /\ AllResolve(s)
             /\ t.code = [i \in 1 .. Len(s.code) |-> Resolved(s, i)] /\ Len(t.code) = Len(s.code)
<1> DEFINE faults == Faults(s) + (IF more THEN 1 ELSE 0)
           room == Capacity["diagnostics"] - s.diagnostics
           code == [i \in DOMAIN s.code |-> Resolved(s, i)]
           count == IF faults <= room THEN s.diagnostics + faults ELSE Capacity["diagnostics"]
           refused == s.refused \/ (faults > 0 /\ room > 0)
           overflowed == s.overflowed \/ faults > room
           t == [s EXCEPT !.code = code, !.diagnostics = count, !.refused = refused,
                          !.overflowed = overflowed, !.phase = "done"]
           bs == {k \in DOMAIN s.branches : BranchRefused(s, s.branches[k])}
           cs == {k \in DOMAIN s.calls : CallRefused(s, s.calls[k])}
<1>1. /\ Faults(s) \in Nat /\ Capacity["diagnostics"] \in Nat
      /\ s.diagnostics \in 0 .. Capacity["diagnostics"] /\ DOMAIN s = Fields
      /\ s.refused \in BOOLEAN /\ s.overflowed \in BOOLEAN
  BY FaultsCounted, Capacities DEF Sound, Judged, Tables
<1>2. ResolveAll(s, more) = t
  BY DEF ResolveAll
<1>3. /\ DOMAIN s.branches = 1 .. Len(s.branches) /\ Len(s.branches) \in Nat
      /\ DOMAIN s.calls = 1 .. Len(s.calls) /\ Len(s.calls) \in Nat
      /\ IsSeq(s.code) /\ Len(s.code) \in Nat /\ DOMAIN s.code = 1 .. Len(s.code)
  BY SeqFacts DEF Sound, Judged, CodeFits
<1>4. code = [i \in 1 .. Len(s.code) |-> Resolved(s, i)] /\ Len(code) = Len(s.code)
  <2>1. code = [i \in 1 .. Len(s.code) |-> code[i]]
    BY <1>3
  <2>2. code = [i \in 1 .. Len(s.code) |-> Resolved(s, i)]
    BY <1>3
  <2> HIDE DEF code
  <2> QED
    BY <1>3, <2>1, <2>2, FunctionSeq
<1> HIDE DEF faults, room, code, count
<1>5. t.refused = refused /\ t.overflowed = overflowed /\ t.stop = s.stop /\ t.code = code
  BY <1>1 DEF Fields
<1> HIDE DEF t
<1>6. ~refused /\ ~overflowed /\ ~s.stop
  BY <1>2, <1>5 DEF Faulty
<1>7. faults <= 0
  BY <1>1, <1>6 DEF room, faults
<1>8. Faults(s) = 0
  BY <1>1, <1>7 DEF faults
<1>9. /\ IsFiniteSet(bs) /\ IsFiniteSet(cs)
      /\ Cardinality(bs) \in Nat /\ Cardinality(cs) \in Nat
  <2>1. IsFiniteSet(DOMAIN s.branches) /\ IsFiniteSet(DOMAIN s.calls)
    <3>1. 0 \in Int /\ 1 \in Int /\ Len(s.branches) \in Int /\ Len(s.calls) \in Int
      BY <1>3
    <3>2. IsFiniteSet(1 .. Len(s.branches)) /\ IsFiniteSet(1 .. Len(s.calls))
      BY <3>1, FS_Interval
    <3> QED
      BY <1>3, <3>2
  <2>2. bs \in SUBSET DOMAIN s.branches /\ cs \in SUBSET DOMAIN s.calls
    OBVIOUS
  <2> HIDE DEF bs, cs
  <2>3. IsFiniteSet(bs) /\ IsFiniteSet(cs)
    BY <2>1, <2>2, FS_Subset
  <2> QED
    BY <2>3, FS_CardinalityType
<1>10. Faults(s) = Cardinality(bs) + Cardinality(cs)
  BY DEF Faults
<1> HIDE DEF bs, cs
<1>11. Cardinality(bs) = 0 /\ Cardinality(cs) = 0
  BY <1>8, <1>9, <1>10
<1>12. bs = {} /\ cs = {}
  BY <1>9, <1>11, FS_EmptySet
<1>13. AllResolve(s)
  BY <1>12 DEF AllResolve, bs, cs
<1> QED
  BY <1>2, <1>4, <1>5, <1>6, <1>13 DEF Faulty

\* Calls that nothing refused, once all were resolved.
LEMMA ResolvedCalls ==
  ASSUME NEW s, Sound(s), NEW more \in BOOLEAN, ~Faulty(ResolveAll(s, more))
  PROVE  LET t == ResolveAll(s, more)
         IN  Resolving(t) /\ ~Faulty(s) /\ Equal(s, t)
<1> DEFINE t == ResolveAll(s, more)
<1>1. ~Faulty(s) /\ AllResolve(s) /\ Len(t.code) = Len(s.code)
  BY AllResolved
<1>2. DOMAIN s.calls = 1 .. Len(s.calls) /\ DOMAIN s = Fields
  BY SeqFacts DEF Sound, Judged
<1>3. /\ t.stop = s.stop /\ t.procs = s.procs /\ t.protos = s.protos /\ t.policy = s.policy
      /\ t.calls = s.calls /\ t.equates = s.equates /\ t.symbols = s.symbols
      /\ t.labels = s.labels /\ t.open = s.open
  BY <1>2 DEF ResolveAll, Fields
<1>4. /\ s.refused \in BOOLEAN /\ s.overflowed \in BOOLEAN /\ t.refused \in BOOLEAN
      /\ t.overflowed \in BOOLEAN
  BY ResolveAllSound DEF Sound, Judged
<1>5. ~Faulty(t)
  OBVIOUS
<1> HIDE DEF t
<1>6. Resolving(t)
  <2>1. \A f, proc : InvokeFits(t, f, proc) <=> InvokeFits(s, f, proc)
    BY <1>3 DEF InvokeFits
  <2>2. \A f : CallRefused(t, f) <=> CallRefused(s, f)
    BY <1>1, <1>3, <2>1 DEF CallRefused
  <2> QED
    BY <1>1, <1>2, <1>3, <2>2 DEF Resolving, AllResolve
<1>7. Equal(s, t)
  <2>1. t.refused = s.refused /\ t.overflowed = s.overflowed
    BY <1>1, <1>4, <1>5 DEF Faulty
  <2> QED
    BY <1>3, <2>1 DEF Equal
<1> QED
  BY <1>1, <1>6, <1>7 DEF t

LEMMA PhasesTold ==
  ASSUME IInv, Mirrored(source, p), StartData \/ StartCode \/ End \/ EndOfSource \/ Abandon \/ Resolve
  PROVE  Mirrored(source, p)'
<1> DEFINE s == Now
<1>1. /\ Sound(s) /\ Judged(s) /\ DOMAIN s = Fields /\ s.line = p.line + 1 /\ s.phase = p.phase
      /\ Sound(p) /\ Judged(p) /\ DOMAIN p = Fields
  BY NowSound DEF IInv, Sound, Judged
<1> HIDE DEF s
<1>2. ASSUME NEW t, Equal(p, t), t.line = p.line, t.phase = "done",
             Faulty(t) \/ p.phase \in {"preamble", "data"} \/ Resolving(t),
             p' = t, UNCHANGED source
      PROVE  Mirrored(source, p)'
  <2>1. ~Faulty(t) => Told(source, t)
    BY <1>2, EqualTold DEF Mirrored
  <2>2. Mirrored(source, t)
    BY <1>2, <2>1 DEF Mirrored, Anywhere
  <2> QED
    BY <1>2, <2>2
<1>3. ASSUME NEW t, Faulty(t), t.line = p.line, t.phase = "done", p' = t, UNCHANGED source
      PROVE  Mirrored(source, p)'
  <2>1. Mirrored(source, t)
    BY <1>3 DEF Mirrored
  <2> QED
    BY <1>3, <2>1
<1>4. ASSUME StartData
      PROVE  Mirrored(source, p)'
  <2> DEFINE e == "data"
             t == [s EXCEPT !.phase = e]
  <2>1. PICK l \in Offered : p.phase \in {"preamble", "data"} /\ l.op = ".data" /\ Take(l, t)
    BY <1>4 DEF StartData, Reading, Lines, s
  <2>2. t.phase = "data" /\ t.line = p.line + 1
    BY <1>1 DEF Fields
  <2> HIDE DEF e
  <2>3. Keeping(s, t)
    BY <1>1, ControlEqual, EqualKeeps
  <2> HIDE DEF t
  <2>4. Grown(s, t, l)
    BY <2>1, <2>3, KeepingGrown DEF Silent
  <2> QED
    BY <2>1, <2>2, <2>4, TakeTold DEF s, Anywhere
<1>5. ASSUME StartCode
      PROVE  Mirrored(source, p)'
  <2> DEFINE e == "code"
             t == [s EXCEPT !.phase = e]
  <2>1. PICK l \in Offered : p.phase \in {"preamble", "data"} /\ l.op = ".code" /\ Take(l, t)
    BY <1>5 DEF StartCode, Reading, Lines, s
  <2>2. t.phase = "code" /\ t.line = p.line + 1
    BY <1>1 DEF Fields
  <2> HIDE DEF e
  <2>3. Keeping(s, t)
    BY <1>1, ControlEqual, EqualKeeps
  <2> HIDE DEF t
  <2>4. Grown(s, t, l)
    BY <2>1, <2>3, KeepingGrown DEF Silent
  <2> QED
    BY <2>1, <2>2, <2>4, TakeTold DEF s, Anywhere
<1>6. ASSUME End
      PROVE  Mirrored(source, p)'
  <2>1. PICK l \in Offered : p.phase = "code" /\ l.op = "end" /\ Take(l, EndLine(s, l))
    BY <1>6 DEF End, Reading, Lines, s
  <2> DEFINE t == EndLine(s, l)
  <2>2. Grown(s, t, l) /\ Take(l, t)
    BY <1>1, <2>1, EndsGrown
  <2>3. /\ t.line = s.line
        /\ (Faulty(t) /\ t.phase = s.phase) \/ t.phase = "ended"
    <3> DEFINE u == CloseRange(Forget(s))
               proc == First(Matches(s.procs, l.name, s.policy))
               v == [u EXCEPT !.entry = proc, !.phase = "ended"]
    <3>1. t = Refuse(u) \/ t = v
      BY DEF EndLine
    <3>2. Handles(s, u) /\ Faulty(Refuse(u)) /\ DOMAIN u = Fields
      <4>1. Sound(Forget(s)) /\ Handles(s, Forget(s))
        BY <1>1, ForgetSound DEF Declares, Handles
      <4> HIDE DEF CloseRange
      <4>2. Handles(s, u)
        BY <4>1, CloseRangeSound DEF Handles
      <4> QED
        BY <4>2, FaultsStay DEF Handles, Sound, Judged
    <3> HIDE DEF u, proc, t
    <3>3. v.phase = "ended" /\ v.line = s.line
      BY <3>2 DEF Handles, Fields
    <3>4. Handles(u, Refuse(u))
      BY <3>2, FaultsSound DEF Declares, Handles
    <3> QED
      BY <3>1, <3>2, <3>3, <3>4 DEF Handles
  <2> HIDE DEF t
  <2>4. t.line = p.line + 1 /\ t.phase # "done" /\ ~(t.phase \in {"preamble", "data"})
        /\ (t.phase \in Anywhere /\ ~Faulty(t) => l.op # "end")
    BY <1>1, <2>1, <2>3 DEF Anywhere
  <2> QED
    BY <2>1, <2>2, <2>4, TakeTold DEF s, Anywhere
<1>7. ASSUME EndOfSource
      PROVE  Mirrored(source, p)'
  <2> DEFINE e == "done"
             t == [p EXCEPT !.phase = e]
             u == [Refuse(p) EXCEPT !.phase = e]
  <2>1. /\ UNCHANGED source /\ p' = IF p.phase = "preamble" /\ p.diagnostics > 0 THEN t ELSE u
    BY <1>7 DEF EndOfSource
  <2>2. Faulty(Refuse(p)) /\ DOMAIN Refuse(p) = Fields /\ Refuse(p).line = p.line
    BY <1>1, FaultsStay, FaultsSound DEF Declares, Handles, Sound, Judged
  <2>3. Faulty(u) /\ u.line = p.line /\ u.phase = "done"
    BY <2>2 DEF Faulty, Fields
  <2>4. t.line = p.line /\ t.phase = "done"
    BY <1>1 DEF Fields
  <2> HIDE DEF e
  <2>5. Equal(p, t)
    BY <1>1, ControlEqual
  <2> HIDE DEF t, u
  <2> QED
    BY <1>2, <1>3, <2>1, <2>3, <2>4, <2>5
<1>8. ASSUME Abandon
      PROVE  Mirrored(source, p)'
  <2> DEFINE t == [p EXCEPT !.phase = "done"]
  <2>1. p' = t /\ UNCHANGED source /\ ~p.go
    BY <1>8 DEF Abandon
  <2>2. Faulty(p)
    BY <1>1, <2>1 DEF Judged
  <2>3. Faulty(t) /\ t.line = p.line /\ t.phase = "done"
    BY <1>1, <2>2 DEF Faulty, Fields
  <2> HIDE DEF t
  <2> QED
    BY <1>3, <2>1, <2>3
<1>9. ASSUME Resolve
      PROVE  Mirrored(source, p)'
  <2>1. PICK more \in BOOLEAN : p' = ResolveAll(p, more)
    BY <1>9 DEF Resolve
  <2> DEFINE t == ResolveAll(p, more)
  <2>2. t.line = p.line /\ t.phase = "done"
    BY <1>1, ResolveAllSound
  <2>3. ~Faulty(t) => Resolving(t) /\ Equal(p, t)
    BY <1>1, ResolvedCalls
  <2>4. p' = t /\ UNCHANGED source
    BY <1>9, <2>1 DEF Resolve
  <2> HIDE DEF t
  <2> QED
    BY <1>2, <1>3, <2>2, <2>3, <2>4
<1> QED
  BY <1>4, <1>5, <1>6, <1>7, <1>8, <1>9

LEMMA InitTold == Init => Mirrored(source, p)
<1> SUFFICES ASSUME Init
             PROVE  Mirrored(source, p)
  OBVIOUS
<1> DEFINE q == <<>>
<1>1. IsSeq(<<>>) /\ Len(<<>>) = 0
  <2>1. <<>> \in Seq({})
    OBVIOUS
  <2> QED
    BY <2>1 DEF IsSeq
<1>2. \A ops : Where(q, ops) = {}
  BY DEF Where
<1>3. PolicyIn(q, Len(q)) = "all"
  BY <1>2 DEF PolicyIn, Switches
<1> HIDE DEF q
<1>4. NamesTold(q, Empty)
  BY <1>1, <1>2, <1>3 DEF NamesTold, Tells, Empty
<1>5. ProcsTold(q, Empty) /\ OpenTold(q, Empty)
  BY <1>1, <1>2 DEF ProcsTold, OpenTold, Tells, Empty
<1>6. ProtosTold(q, Empty) /\ CallsTold(q, Empty)
  BY <1>1, <1>2 DEF ProtosTold, CallsTold, Empty
<1>7. NamesApart(q) /\ LocalsApart(q)
  BY <1>2 DEF NamesApart, LocalsApart
<1>8. Mirrored(q, Empty)
  BY <1>1, <1>2, <1>4, <1>5, <1>6, <1>7 DEF Mirrored, Told, Empty, q
<1> QED
  BY <1>8 DEF Init, q

LEMMA LinesMirrored == Spec => [](IInv /\ Mirrored(source, p))
<1>1. Init => IInv /\ Mirrored(source, p)
  BY InitSound, InitTold
<1>2. IInv /\ Mirrored(source, p) /\ [Next]_vars => (IInv /\ Mirrored(source, p))'
  <2> SUFFICES ASSUME IInv, Mirrored(source, p), [Next]_vars
               PROVE  Mirrored(source, p)'
    BY NextSound
  <2>1. CASE UNCHANGED vars
    BY <2>1 DEF vars
  <2>2. CASE Next
    BY <2>2, LinesTold, OtherLinesTold, PhasesTold DEF Next
  <2> QED
    BY <2>1, <2>2
<1> QED
  BY <1>1, <1>2, PTL DEF Spec

\* The properties speak of the lines read as the invariant does.
LEMMA LinesRead ==
  /\ \A ops : At(ops) = Where(source, ops)
  /\ \A k : PolicyAt(k) = PolicyIn(source, k)
  /\ \A i, k : Like(i, k) <=> Agree(source, i, k)
  /\ \A i, k : SameBody(i, k) <=> Unbroken(source, i, k)
<1>1. \A ops : At(ops) = Where(source, ops)
  BY DEF At, Where
<1>2. \A k : PolicyAt(k) = PolicyIn(source, k)
  BY <1>1 DEF PolicyAt, PolicyIn, Switches
<1>3. \A i, k : Like(i, k) <=> Agree(source, i, k)
  BY <1>2 DEF Like, Agree
<1>4. \A i, k : SameBody(i, k) <=> Unbroken(source, i, k)
  BY <1>1 DEF SameBody, Unbroken, Bounds, Edges
<1> QED
  BY <1>1, <1>2, <1>3, <1>4

LEMMA AcceptedTold ==
  ASSUME IInv, Mirrored(source, p), Accepted
  PROVE  /\ ~Faulty(p) /\ Told(source, p)
         /\ Where(source, {"invoke"}) = {} \/ Resolving(p)
BY DEF Accepted, Mirrored, Faulty

\* No accepted declaration took a name that meant one earlier declaration, and LOCALs share no
\* name within their procedure.
THEOREM DeclarationsApart == Spec => []DeclarationsStayApart
<1>1. ASSUME IInv, Mirrored(source, p)
      PROVE  DeclarationsStayApart
  <2> SUFFICES ASSUME Accepted
               PROVE  DeclarationsStayApart
    BY DEF DeclarationsStayApart
  <2>1. NamesApart(source) /\ LocalsApart(source)
    BY <1>1, AcceptedTold DEF Told
  <2> DEFINE D == At({"data", "equate", "label", "proc"})
             E(k) == {i \in D : i < k /\ Like(i, k)}
  <2>2. D = Where(source, Declaring)
    BY LinesRead DEF Declaring
  <2>3. ASSUME NEW k \in D
        PROVE  Cardinality(E(k)) # 1
    <3>1. \A x : E(k) # {x}
      <4>1. E(k) = {i \in Where(source, Declaring) : i < k /\ Agree(source, i, k)}
        BY <2>2, LinesRead
      <4> QED
        BY <2>1, <2>2, <2>3, <4>1 DEF NamesApart
    <3>2. IsFiniteSet(E(k))
      <4>1. source \in Seq(Line) /\ Len(source) \in Nat /\ DOMAIN source = 1 .. Len(source)
        BY <1>1 DEF IInv
      <4>2. IsFiniteSet(1 .. Len(source))
        <5>1. 1 \in Int /\ Len(source) \in Int
          BY <4>1
        <5> QED
          BY <5>1, FS_Interval
      <4>3. E(k) \subseteq 1 .. Len(source)
        BY <4>1 DEF At
      <4> HIDE DEF E
      <4> QED
        BY <4>2, <4>3, FS_Subset
    <3> HIDE DEF E
    <3> QED
      BY <3>1, <3>2, FS_Singleton
  <2>4. ASSUME NEW i \in At({"proc", "local", "label"}), NEW k \in At({"local", "label"}),
               i < k, SameBody(i, k), "local" \in {source[i].op, source[k].op}
        PROVE  ~Like(i, k)
    BY <2>1, <2>4, LinesRead DEF LocalsApart
  <2> HIDE DEF D
  <2>5. \A k \in D : Cardinality({i \in D : i < k /\ Like(i, k)}) # 1
    BY <2>3
  <2> QED
    BY <2>4, <2>5 DEF DeclarationsStayApart, D
<1> QED
  BY <1>1, LinesMirrored, PTL

\* What INVOKE passes is what its procedure removes: the RET lines of the one procedure the name
\* means, and the parameters of the prototype.
THEOREM InvokesMatch == Spec => []InvokeMatchesCallee
<1>1. ASSUME IInv, Mirrored(source, p)
      PROVE  InvokeMatchesCallee
  <2> SUFFICES ASSUME Accepted, NEW k \in At({"invoke"}), source[k].name \notin Routines
               PROVE  LET n == Len(source[k].args)
                          callees == {d \in At({"proc"}) : Like(d, k)}
                          rets(d) == {r \in At({"ret"}) : r > d /\ SameBody(d, r)}
                      IN  /\ n > 0 => \A d \in callees : callees = {d} =>
                               rets(d) # {} /\ \A r \in rets(d) : source[r].pops = 4 * n
                          /\ At({"casemap"}) = {} =>
                               \A d \in At({"proto"}) : Like(d, k) => source[d].count = n
    BY DEF InvokeMatchesCallee
  <2> DEFINE n == Len(source[k].args)
             callees == {d \in At({"proc"}) : Like(d, k)}
             rets(d) == {r \in At({"ret"}) : r > d /\ SameBody(d, r)}
  <2>1. Told(source, p) /\ Resolving(p) /\ k \in Where(source, {"invoke"})
    BY <1>1, AcceptedTold, LinesRead
  <2>2. PICK c \in 1 .. Len(p.calls) : Waits(p.calls[c], source, k)
    BY <2>1 DEF Told, CallsTold
  <2> DEFINE f == p.calls[c]
             M == Matches(p.procs, f.name, f.policy)
             a == p.procs[First(M)]
  <2>3. f.name = source[k].name /\ f.policy = PolicyIn(source, k) /\ f.invoke /\ f.args = n
    BY <2>2 DEF Waits
  <2>4. ~CallRefused(p, f)
    BY <2>1 DEF Resolving
  <2> HIDE DEF f, n
  <2>5. First(M) # 0 /\ InvokeFits(p, f, a)
    BY <2>3, <2>4 DEF CallRefused
  <2>6. n \in Nat
    <3>1. source[k] \in Line /\ source[k].op = "invoke"
      BY <1>1 DEF IInv, At
    <3>2. source[k].args \in Seq(Argument)
      BY <3>1 DEF Line
    <3> QED
      BY <3>2 DEF n
  <2>7. IsSeq(p.procs) /\ DOMAIN p.procs = 1 .. Len(p.procs) /\ Len(p.procs) \in Nat
        /\ IsSeq(p.protos) /\ DOMAIN p.protos = 1 .. Len(p.protos) /\ Len(p.protos) \in Nat
    BY <2>1, SeqFacts DEF Told, ProcsTold, ProtosTold, Tells
  <2>8. First(M) \in M
    <3>1. M \subseteq Nat /\ M # {}
      BY <2>5, <2>7 DEF Matches, First
    <3> QED
      BY <3>1, FirstIsMember
  <2>9. /\ First(M) \in 1 .. Len(p.procs) /\ Same(a.name, source[k].name, PolicyIn(source, k))
        /\ a.line \in Where(source, {"proc"}) /\ a.name = source[a.line].name
        /\ RetsTold(source, a)
    BY <2>1, <2>3, <2>7, <2>8 DEF Matches, Told, ProcsTold, Tells
  <2>10. a.line \in callees
    BY <2>9, LinesRead DEF Agree
  <2> HIDE DEF M, a
  <2>11. ASSUME n > 0, NEW d \in callees, callees = {d}
         PROVE  rets(d) # {} /\ \A r \in rets(d) : source[r].pops = 4 * n
    <3>1. a.line = d
      BY <2>10, <2>11
    <3>2. rets(d) = RetsIn(source, a.line)
      BY <3>1, LinesRead DEF RetsIn
    <3>3. ~a.plain /\ a.pops = {4 * n}
      BY <2>3, <2>5, <2>6, <2>11 DEF InvokeFits
    <3> HIDE DEF rets
    <3> QED
      BY <2>9, <3>2, <3>3 DEF RetsTold
  <2>12. ASSUME At({"casemap"}) = {}, NEW d \in At({"proto"}), Like(d, k)
         PROVE  source[d].count = n
    <3>1. Where(source, {"casemap"}) = {} /\ d \in Where(source, {"proto"})
      BY <2>12, LinesRead
    <3>2. \A i : PolicyIn(source, i) = "all"
      BY <3>1 DEF PolicyIn, Switches
    <3>3. p.policy = "all"
      BY <2>1, <3>2 DEF Told, NamesTold
    <3>4. Fold[source[d].name] = Fold[source[k].name]
      BY <2>12, <3>2, LinesRead DEF Agree, Same
    <3>5. PICK j \in 1 .. Len(p.protos) :
            p.protos[j].name = source[d].name /\ p.protos[j].count = source[d].count
      BY <2>1, <3>1 DEF Told, ProtosTold
    <3> DEFINE P == Matches(p.protos, f.name, p.policy)
    <3>6. j \in P /\ P \subseteq Nat
      BY <2>3, <2>7, <3>3, <3>4, <3>5 DEF Matches, Same
    <3>7. First(P) \in P
      BY <3>6, FirstIsMember
    <3>8. First(P) = j
      <4>1. First(P) \in 1 .. Len(p.protos) /\ Fold[p.protos[First(P)].name] = Fold[f.name]
        BY <2>7, <3>3, <3>7 DEF Matches, Same
      <4>2. Same(p.protos[First(P)].name, p.protos[j].name, "all")
        BY <2>3, <3>4, <3>5, <4>1 DEF Same
      <4> HIDE DEF P
      <4> QED
        BY <2>1, <3>1, <3>5, <4>1, <4>2 DEF Told, ProtosTold
    <3>9. First(P) # 0 => p.protos[First(P)].count = f.args
      BY <2>5 DEF InvokeFits
    <3> HIDE DEF P
    <3> QED
      BY <2>3, <3>5, <3>8, <3>9
  <2> QED
    BY <2>11, <2>12 DEF n
<1> QED
  BY <1>1, LinesMirrored, PTL

-----------------------------------------------------------------------------
(* Where code, labels and procedure ranges stand in the source.  The code of a source in line  *)
(* order splits at any line that has none: a label without a target yet, PROC, ENDP and END.   *)

Splits(code, at, k) ==
  \A i \in 1 .. Len(code) : IF i <= at THEN code[i].line < k ELSE code[i].line > k

\* Every branch, or every call, has a fixup with the name of its line and the policy at it.
FixupsTold(fixups, ops, q, code) ==
  /\ \A c \in 1 .. Len(fixups) :
       LET f == fixups[c]
       IN  /\ f.at \in 1 .. Len(code) /\ code[f.at].op \in ops
           /\ f.name = q[code[f.at].line].name /\ f.policy = PolicyIn(q, code[f.at].line)
  /\ \A i \in 1 .. Len(code) : code[i].op \in ops =>
       \E c \in 1 .. Len(fixups) : fixups[c].at = i

CodeTold(q, s) ==
  /\ \A i \in 1 .. Len(s.code) : s.code[i].line \in 1 .. Len(q)
  /\ FixupsTold(s.branches, {"jmp"}, q, s.code)
  /\ FixupsTold(s.calls, {"call", "commit"}, q, s.code)

\* A waiting label has all the code before it, a label with a target the code before that.
LabelsPlaced(s) ==
  \A j \in 1 .. Len(s.labels) :
    /\ j \in s.pending => s.labels[j].target = -1 /\ Splits(s.code, Len(s.code), s.labels[j].line)
    /\ s.labels[j].target # -1 => Splits(s.code, s.labels[j].target, s.labels[j].line)

\* A procedure starts at its PROC line and ends at the ENDP or END line next to it.
Follows(q, e, d) == d < e /\ \A b \in Edges(q) : ~(d < b /\ b < e)
Closers(q) == Where(q, {"endp", "end"})
StartsPlaced(s) ==
  \A k \in 1 .. Len(s.procs) : Splits(s.code, s.procs[k].start, s.procs[k].line)
EndsPlaced(q, s) ==
  \A k \in 1 .. Len(s.procs), e \in Closers(q) :
    Follows(q, e, s.procs[k].line) => Splits(s.code, s.procs[k].end, e)

Traced(q, s) == CodeTold(q, s) /\ LabelsPlaced(s) /\ StartsPlaced(s) /\ EndsPlaced(q, s)

-----------------------------------------------------------------------------
(* What a line does to them *)

\* A line only adds code of its own, and fixups only for it.
FixupsMove(a, b, ops, s, t, l) ==
  /\ Len(a) \in Nat /\ Len(b) \in Nat /\ Len(a) <= Len(b)
  /\ \A c \in 1 .. Len(a) : b[c] = a[c]
  /\ \A c \in 1 .. Len(b) : c > Len(a) =>
       /\ b[c].at \in 1 .. Len(t.code) /\ b[c].at > Len(s.code) /\ t.code[b[c].at].op \in ops
       /\ b[c].name = l.name /\ b[c].policy = s.policy
  /\ \A i \in 1 .. Len(t.code) : i > Len(s.code) /\ t.code[i].op \in ops =>
       \E c \in 1 .. Len(b) : b[c].at = i

CodeMoves(s, t) ==
  /\ Len(s.code) \in Nat /\ Len(t.code) \in Nat /\ Len(s.code) <= Len(t.code)
  /\ \A i \in 1 .. Len(s.code) : t.code[i] = s.code[i]
  /\ \A i \in 1 .. Len(t.code) : i > Len(s.code) => t.code[i].line = s.line

\* A waiting label waits on, is forgotten, or has the next instruction as its target.
LabelsMove(s, t) ==
  /\ Len(s.labels) \in Nat /\ Len(t.labels) \in Nat
  /\ \A j \in 1 .. Len(s.labels) :
       /\ t.labels[j].line = s.labels[j].line
       /\ \/ /\ t.labels[j].target = s.labels[j].target
             /\ j \in t.pending => j \in s.pending /\ t.code = s.code
          \/ j \in s.pending /\ j \notin t.pending /\ t.labels[j].target = Len(s.code)
  /\ \A j \in 1 .. Len(t.labels) : j > Len(s.labels) =>
       t.labels[j].target = -1 /\ t.labels[j].line = s.line /\ t.code = s.code

\* Only ENDP and END end a range, that of the open procedure, and only where the code ends.
RangesMove(s, t, l) ==
  /\ Len(s.procs) \in Nat /\ Len(t.procs) \in Nat
  /\ \A k \in 1 .. Len(s.procs) :
       /\ t.procs[k].start = s.procs[k].start /\ t.procs[k].line = s.procs[k].line
       /\ t.procs[k].end = s.procs[k].end \/ (k = s.open /\ l.op \in {"endp", "end"})
  /\ \A k \in 1 .. Len(t.procs) : k > Len(s.procs) =>
       /\ t.procs[k].start = Len(s.code) /\ t.procs[k].line = s.line /\ t.code = s.code
       /\ l.op = "proc"
  /\ l.op \in {"endp", "end"} =>
       t.code = s.code /\ (s.open # 0 => t.procs[s.open].end = Len(s.code))

Moves(s, t, l) ==
  /\ CodeMoves(s, t) /\ LabelsMove(s, t) /\ RangesMove(s, t, l)
  /\ FixupsMove(s.branches, t.branches, {"jmp"}, s, t, l)
  /\ FixupsMove(s.calls, t.calls, {"call", "commit"}, s, t, l)
  /\ l.op = "casemap" => Len(t.code) = Len(s.code)

Moved(s, t, l) == ~Faulty(t) => ~Faulty(s) /\ Moves(s, t, l)

LEMMA SplitsAll ==
  ASSUME NEW code, NEW n \in Nat, Len(code) \in Nat, \A i \in 1 .. Len(code) : code[i].line \in 1 .. n
  PROVE  Splits(code, Len(code), n + 1)
BY DEF Splits

LEMMA SplitsGrow ==
  ASSUME NEW s, NEW t, CodeMoves(s, t), NEW k, s.line > k, NEW at \in Nat, at <= Len(s.code),
         Splits(s.code, at, k)
  PROVE  Splits(t.code, at, k)
<1>1. ASSUME NEW i \in 1 .. Len(t.code)
      PROVE  IF i <= at THEN t.code[i].line < k ELSE t.code[i].line > k
  <2>1. CASE i > Len(s.code)
    <3>1. t.code[i].line = s.line /\ ~(i <= at)
      BY <2>1 DEF CodeMoves
    <3> QED
      BY <3>1
  <2>2. CASE ~(i > Len(s.code))
    <3>1. i \in 1 .. Len(s.code) /\ t.code[i] = s.code[i]
      BY <2>2 DEF CodeMoves
    <3> QED
      BY <3>1 DEF Splits
  <2> QED
    BY <2>1, <2>2
<1> QED
  BY <1>1 DEF Splits

LEMMA FixupsStep ==
  ASSUME NEW q, q \in Seq(Line), NEW l \in Line, NEW s, NEW t, NEW a, NEW b, NEW ops,
         s.policy = PolicyIn(q, Len(q)), s.line = Len(q) + 1, CodeMoves(s, t),
         l.op = "casemap" => Len(t.code) = Len(s.code),
         \A i \in 1 .. Len(s.code) : s.code[i].line \in 1 .. Len(q),
         FixupsTold(a, ops, q, s.code), FixupsMove(a, b, ops, s, t, l)
  PROVE  FixupsTold(b, ops, Append(q, l), t.code)
<1> DEFINE r == Append(q, l)
           n == Len(q)
<1>1. n \in Nat /\ r[n + 1] = l /\ \A i \in 1 .. n : r[i] = q[i]
  BY LinesAdded
<1>2. /\ \A k \in 1 .. n : PolicyIn(r, k) = PolicyIn(q, k)
      /\ l.op # "casemap" => PolicyIn(r, n + 1) = s.policy
  BY PolicyStays
<1> HIDE DEF r
<1>3. ASSUME NEW c \in 1 .. Len(b)
      PROVE  LET f == b[c]
             IN  /\ f.at \in 1 .. Len(t.code) /\ t.code[f.at].op \in ops
                 /\ f.name = r[t.code[f.at].line].name /\ f.policy = PolicyIn(r, t.code[f.at].line)
  <2>1. CASE c > Len(a)
    <3>1. /\ b[c].at \in 1 .. Len(t.code) /\ b[c].at > Len(s.code) /\ t.code[b[c].at].op \in ops
          /\ b[c].name = l.name /\ b[c].policy = s.policy
      BY <2>1 DEF FixupsMove
    <3>2. t.code[b[c].at].line = n + 1 /\ l.op # "casemap"
      BY <3>1 DEF CodeMoves
    <3> QED
      BY <1>1, <1>2, <3>1, <3>2
  <2>2. CASE ~(c > Len(a))
    <3>1. c \in 1 .. Len(a) /\ b[c] = a[c]
      BY <2>2 DEF FixupsMove
    <3>2. /\ b[c].at \in 1 .. Len(s.code) /\ s.code[b[c].at].op \in ops
          /\ b[c].name = q[s.code[b[c].at].line].name
          /\ b[c].policy = PolicyIn(q, s.code[b[c].at].line)
      BY <3>1 DEF FixupsTold
    <3>3. b[c].at \in 1 .. Len(t.code) /\ t.code[b[c].at] = s.code[b[c].at]
      BY <3>2 DEF CodeMoves
    <3>4. s.code[b[c].at].line \in 1 .. n
      BY <3>2
    <3> QED
      BY <1>1, <1>2, <3>2, <3>3, <3>4
  <2> QED
    BY <2>1, <2>2
<1>4. ASSUME NEW i \in 1 .. Len(t.code), t.code[i].op \in ops
      PROVE  \E c \in 1 .. Len(b) : b[c].at = i
  <2>1. CASE i > Len(s.code)
    BY <1>4, <2>1 DEF FixupsMove
  <2>2. CASE ~(i > Len(s.code))
    <3>1. i \in 1 .. Len(s.code) /\ t.code[i] = s.code[i]
      BY <2>2 DEF CodeMoves
    <3>2. PICK c \in 1 .. Len(a) : a[c].at = i
      BY <1>4, <3>1 DEF FixupsTold
    <3>3. c \in 1 .. Len(b) /\ b[c] = a[c]
      BY DEF FixupsMove
    <3> QED
      BY <3>2, <3>3
  <2> QED
    BY <2>1, <2>2
<1> QED
  BY <1>3, <1>4 DEF FixupsTold, r

LEMMA CodeStep ==
  ASSUME NEW q, q \in Seq(Line), NEW l \in Line, NEW s, NEW t, NamesTold(q, s),
         s.line = Len(q) + 1, Moves(s, t, l), CodeTold(q, s)
  PROVE  CodeTold(Append(q, l), t)
<1> DEFINE r == Append(q, l)
<1>1. Len(q) \in Nat /\ Len(r) = Len(q) + 1
  BY LinesAdded
<1> HIDE DEF r
<1>2. CodeMoves(s, t) /\ s.policy = PolicyIn(q, Len(q))
        /\ (l.op = "casemap" => Len(t.code) = Len(s.code))
  BY DEF Moves, NamesTold
<1>3. ASSUME NEW i \in 1 .. Len(t.code)
      PROVE  t.code[i].line \in 1 .. Len(r)
  <2>1. CASE i > Len(s.code)
    BY <1>1, <1>2, <2>1 DEF CodeMoves
  <2>2. CASE ~(i > Len(s.code))
    <3>1. i \in 1 .. Len(s.code) /\ t.code[i] = s.code[i]
      BY <1>2, <2>2 DEF CodeMoves
    <3> QED
      BY <1>1, <3>1 DEF CodeTold
  <2> QED
    BY <2>1, <2>2
<1> DEFINE jumps == {"jmp"}
           calls == {"call", "commit"}
<1> HIDE DEF jumps, calls
<1>4. FixupsTold(t.branches, jumps, r, t.code)
  <2>1. FixupsTold(s.branches, jumps, q, s.code) /\ FixupsMove(s.branches, t.branches, jumps, s, t, l)
    BY DEF CodeTold, Moves, jumps
  <2>2. \A i \in 1 .. Len(s.code) : s.code[i].line \in 1 .. Len(q)
    BY DEF CodeTold
  <2> QED
    BY <1>2, <2>1, <2>2, FixupsStep DEF r
<1>5. FixupsTold(t.calls, calls, r, t.code)
  <2>1. FixupsTold(s.calls, calls, q, s.code) /\ FixupsMove(s.calls, t.calls, calls, s, t, l)
    BY DEF CodeTold, Moves, calls
  <2>2. \A i \in 1 .. Len(s.code) : s.code[i].line \in 1 .. Len(q)
    BY DEF CodeTold
  <2> QED
    BY <1>2, <2>1, <2>2, FixupsStep DEF r
<1> QED
  BY <1>3, <1>4, <1>5 DEF CodeTold, r, jumps, calls

LEMMA LabelsStep ==
  ASSUME NEW q, q \in Seq(Line), NEW l \in Line, NEW s, NEW t, Sound(s), NamesTold(q, s),
         s.line = Len(q) + 1, Moves(s, t, l), CodeTold(q, s), LabelsPlaced(s)
  PROVE  LabelsPlaced(t)
<1> DEFINE n == Len(q)
<1>1. /\ n \in Nat /\ Len(s.code) \in Nat /\ CodeMoves(s, t) /\ LabelsMove(s, t)
      /\ \A i \in 1 .. Len(s.code) : s.code[i].line \in 1 .. n
  BY LinesAdded DEF Moves, CodeMoves, CodeTold
<1>2. \A j \in 1 .. Len(s.labels) : s.labels[j].line \in 1 .. n /\ s.labels[j].target \in -1 .. Len(s.code) - 1
  <2> DEFINE ops == {"label", "proc"}
  <2> HIDE DEF ops
  <2>1. Where(q, ops) \subseteq 1 .. n
    BY LineAdded
  <2>2. Tells(s.labels, q, ops)
    BY DEF NamesTold, ops
  <2> QED
    BY <2>1, <2>2 DEF Tells, Sound, LabelsFit, GoodLabel
<1>3. ASSUME NEW j \in 1 .. Len(t.labels), j > Len(s.labels)
      PROVE  /\ t.labels[j].target = -1 /\ Splits(t.code, Len(t.code), t.labels[j].line)
  <2>1. t.labels[j].target = -1 /\ t.labels[j].line = n + 1 /\ t.code = s.code
    BY <1>1, <1>3 DEF LabelsMove
  <2>2. Splits(s.code, Len(s.code), n + 1)
    BY <1>1, SplitsAll
  <2> QED
    BY <2>1, <2>2
<1>4. ASSUME NEW j \in 1 .. Len(t.labels), ~(j > Len(s.labels))
      PROVE  /\ j \in t.pending => t.labels[j].target = -1 /\ Splits(t.code, Len(t.code), t.labels[j].line)
             /\ t.labels[j].target # -1 => Splits(t.code, t.labels[j].target, t.labels[j].line)
  <2>1. j \in 1 .. Len(s.labels) /\ t.labels[j].line = s.labels[j].line /\ s.labels[j].line < s.line
    BY <1>1, <1>2, <1>4 DEF LabelsMove
  <2>2. CASE t.labels[j].target = s.labels[j].target
               /\ (j \in t.pending => j \in s.pending /\ t.code = s.code)
    <3>1. j \in t.pending => t.labels[j].target = -1 /\ Splits(t.code, Len(t.code), t.labels[j].line)
      BY <2>1, <2>2 DEF LabelsPlaced
    <3>2. ASSUME t.labels[j].target # -1
          PROVE  Splits(t.code, t.labels[j].target, t.labels[j].line)
      <4>1. s.labels[j].target \in Nat /\ s.labels[j].target <= Len(s.code)
        BY <1>1, <1>2, <2>1, <2>2, <3>2
      <4>2. Splits(s.code, s.labels[j].target, s.labels[j].line)
        BY <2>1, <2>2, <3>2 DEF LabelsPlaced
      <4>3. Splits(t.code, s.labels[j].target, s.labels[j].line)
        BY <1>1, <2>1, <4>1, <4>2, SplitsGrow
      <4> QED
        BY <2>1, <2>2, <4>3
    <3> QED
      BY <3>1, <3>2
  <2>3. CASE j \in s.pending /\ j \notin t.pending /\ t.labels[j].target = Len(s.code)
    <3>1. Splits(s.code, Len(s.code), s.labels[j].line)
      BY <2>1, <2>3 DEF LabelsPlaced
    <3>2. Splits(t.code, Len(s.code), s.labels[j].line)
      BY <1>1, <2>1, <3>1, SplitsGrow
    <3> QED
      BY <2>1, <2>3, <3>2
  <2> QED
    BY <1>1, <2>1, <2>2, <2>3 DEF LabelsMove
<1> QED
  BY <1>3, <1>4 DEF LabelsPlaced

LEMMA StartsStep ==
  ASSUME NEW q, q \in Seq(Line), NEW l \in Line, NEW s, NEW t, Sound(s), ProcsTold(q, s),
         s.line = Len(q) + 1, Moves(s, t, l), CodeTold(q, s), StartsPlaced(s)
  PROVE  StartsPlaced(t)
<1> DEFINE n == Len(q)
<1>1. /\ n \in Nat /\ Len(s.code) \in Nat /\ CodeMoves(s, t) /\ RangesMove(s, t, l)
      /\ \A i \in 1 .. Len(s.code) : s.code[i].line \in 1 .. n
  BY LinesAdded DEF Moves, CodeMoves, CodeTold
<1>2. \A k \in 1 .. Len(s.procs) : /\ s.procs[k].line \in 1 .. n
                                   /\ s.procs[k].start \in Nat /\ s.procs[k].start <= Len(s.code)
  <2>1. Where(q, {"proc"}) \subseteq 1 .. n
    BY KindAdded
  <2>2. \A k \in 1 .. Len(s.procs) : GoodRange(s.procs[k], Len(s.code))
    BY DEF Sound, RangesFit
  <2>3. \A k \in 1 .. Len(s.procs) : s.procs[k].start \in Nat /\ s.procs[k].start <= Len(s.code)
    BY <1>1, <2>2 DEF GoodRange
  <2> QED
    BY <2>1, <2>3 DEF ProcsTold, Tells
<1>3. ASSUME NEW k \in 1 .. Len(t.procs)
      PROVE  Splits(t.code, t.procs[k].start, t.procs[k].line)
  <2>1. CASE k > Len(s.procs)
    <3>1. t.procs[k].start = Len(s.code) /\ t.procs[k].line = n + 1 /\ t.code = s.code
      BY <1>1, <2>1 DEF RangesMove
    <3>2. Splits(s.code, Len(s.code), n + 1)
      BY <1>1, SplitsAll
    <3> QED
      BY <3>1, <3>2
  <2>2. CASE ~(k > Len(s.procs))
    <3>1. k \in 1 .. Len(s.procs) /\ t.procs[k].start = s.procs[k].start /\ t.procs[k].line = s.procs[k].line
      BY <1>1, <2>2 DEF RangesMove
    <3>2. Splits(s.code, s.procs[k].start, s.procs[k].line) /\ s.line > s.procs[k].line
      BY <1>1, <1>2, <3>1 DEF StartsPlaced
    <3>3. Splits(t.code, s.procs[k].start, s.procs[k].line)
      BY <1>1, <1>2, <3>1, <3>2, SplitsGrow
    <3> QED
      BY <3>1, <3>3
  <2> QED
    BY <2>1, <2>2
<1> QED
  BY <1>3 DEF StartsPlaced

LEMMA EndsStep ==
  ASSUME NEW q, q \in Seq(Line), NEW l \in Line, NEW s, NEW t, Sound(s), ProcsTold(q, s),
         OpenTold(q, s), s.line = Len(q) + 1, Moves(s, t, l), CodeTold(q, s), EndsPlaced(q, s)
  PROVE  EndsPlaced(Append(q, l), t)
<1> DEFINE r == Append(q, l)
           n == Len(q)
<1>1. /\ n \in Nat /\ Len(s.code) \in Nat /\ CodeMoves(s, t) /\ RangesMove(s, t, l)
      /\ \A i \in 1 .. Len(s.code) : s.code[i].line \in 1 .. n
  BY LinesAdded DEF Moves, CodeMoves, CodeTold
<1>2. \A k \in 1 .. Len(s.procs) : /\ s.procs[k].line \in 1 .. n
                                   /\ s.procs[k].end \in Nat /\ s.procs[k].end <= Len(s.code)
  <2>1. Where(q, {"proc"}) \subseteq 1 .. n
    BY KindAdded
  <2>2. \A k \in 1 .. Len(s.procs) : GoodRange(s.procs[k], Len(s.code))
    BY DEF Sound, RangesFit
  <2>3. \A k \in 1 .. Len(s.procs) : s.procs[k].end \in Nat /\ s.procs[k].end <= Len(s.code)
    BY <1>1, <2>2 DEF GoodRange
  <2> QED
    BY <2>1, <2>3 DEF ProcsTold, Tells
<1>3. /\ Closers(q) \subseteq Edges(q) /\ Edges(q) \subseteq 1 .. n /\ Edges(q) \subseteq Edges(r)
      /\ \A e \in Closers(r) : e \in Closers(q) \/ (e = n + 1 /\ l.op \in {"endp", "end"})
  <2> DEFINE ops == {"endp", "end"}
  <2> HIDE DEF ops
  <2>1. Where(r, ops) = IF l.op \in ops THEN Where(q, ops) \cup {n + 1} ELSE Where(q, ops)
    BY LineAdded
  <2>2. Edges(q) \subseteq 1 .. n /\ Edges(q) \subseteq Edges(r)
    BY EdgesAdded
  <2>3. Closers(q) \subseteq Edges(q)
    BY DEF Closers, Edges, Where
  <2> QED
    BY <2>1, <2>2, <2>3 DEF Closers, ops
<1> HIDE DEF r
<1>4. ASSUME NEW k \in 1 .. Len(t.procs), NEW e \in Closers(r), Follows(r, e, t.procs[k].line)
      PROVE  Splits(t.code, t.procs[k].end, e)
  <2>1. e \in 1 .. n + 1 /\ t.procs[k].line < e
    BY <1>1, <1>3, <1>4 DEF Follows
  <2>2. k \in 1 .. Len(s.procs) /\ t.procs[k].line = s.procs[k].line
    <3>1. ASSUME k > Len(s.procs)
          PROVE  FALSE
      <4>1. t.procs[k].line = n + 1
        BY <1>1, <3>1 DEF RangesMove
      <4> QED
        BY <1>1, <2>1, <4>1
    <3> QED
      BY <1>1, <3>1 DEF RangesMove
  <2>3. CASE e \in Closers(q)
    <3>1. Follows(q, e, s.procs[k].line)
      BY <1>3, <1>4, <2>2 DEF Follows
    <3>2. Splits(s.code, s.procs[k].end, e)
      BY <2>2, <2>3, <3>1 DEF EndsPlaced
    <3>3. Splits(t.code, s.procs[k].end, e)
      <4>1. s.line > e
        BY <1>1, <1>3, <2>3
      <4> QED
        BY <1>1, <1>2, <2>2, <3>2, <4>1, SplitsGrow
    <3>4. k # s.open
      <4>1. ASSUME k = s.open
            PROVE  FALSE
        <5>1. \A b \in Edges(q) : b <= s.procs[k].line
          BY <2>2, <4>1 DEF OpenTold
        <5>2. e <= s.procs[k].line /\ s.procs[k].line < e
          BY <1>3, <2>1, <2>2, <2>3, <5>1
        <5> QED
          BY <1>1, <1>2, <2>1, <2>2, <5>2
      <4> QED
        BY <4>1
    <3>5. t.procs[k].end = s.procs[k].end
      BY <1>1, <2>2, <3>4 DEF RangesMove
    <3> QED
      BY <3>3, <3>5
  <2>4. CASE e \notin Closers(q)
    <3>1. e = n + 1 /\ l.op \in {"endp", "end"}
      BY <1>3, <1>4, <2>4
    <3>2. k = s.open
      <4>1. ASSUME k # s.open
            PROVE  FALSE
        <5>1. PICK b \in Edges(q) : b > s.procs[k].line
          BY <2>2, <4>1 DEF OpenTold
        <5>2. b \in Edges(r) /\ b < e
          BY <1>1, <1>3, <3>1
        <5> QED
          BY <1>4, <2>2, <5>1, <5>2 DEF Follows
      <4> QED
        BY <4>1
    <3>3. t.procs[k].end = Len(s.code) /\ t.code = s.code
      <4>1. s.open # 0
        BY <2>2, <3>2
      <4> QED
        BY <1>1, <3>1, <3>2, <4>1 DEF RangesMove
    <3>4. Splits(s.code, Len(s.code), n + 1)
      BY <1>1, SplitsAll
    <3> QED
      BY <3>1, <3>3, <3>4
  <2> QED
    BY <2>3, <2>4
<1> QED
  BY <1>4 DEF EndsPlaced, r

LEMMA TracedStep ==
  ASSUME NEW q, q \in Seq(Line), NEW l \in Line, NEW s, NEW t, Sound(s), Told(q, s),
         OpenTold(q, s), s.line = Len(q) + 1, Moves(s, t, l), Traced(q, s)
  PROVE  Traced(Append(q, l), t)
<1>1. NamesTold(q, s) /\ ProcsTold(q, s) /\ CodeTold(q, s)
  BY DEF Told, Traced
<1>2. CodeTold(Append(q, l), t)
  BY <1>1, CodeStep
<1>3. LabelsPlaced(t)
  BY <1>1, LabelsStep DEF Traced
<1>4. StartsPlaced(t)
  BY <1>1, StartsStep DEF Traced
<1>5. EndsPlaced(Append(q, l), t)
  BY <1>1, EndsStep DEF Traced
<1> QED
  BY <1>2, <1>3, <1>4, <1>5 DEF Traced

-----------------------------------------------------------------------------
(* Line by line *)

\* y has the code, labels, fixups and ranges of x, and its faults.
Fixed(x, y) ==
  /\ y.refused = x.refused /\ y.overflowed = x.overflowed /\ y.stop = x.stop
  /\ y.code = x.code /\ y.labels = x.labels /\ y.pending = x.pending
  /\ y.branches = x.branches /\ y.calls = x.calls /\ y.procs = x.procs

LEMMA FixedMoved ==
  ASSUME NEW s, NEW l, NEW x, NEW y, Fixed(x, y), Moved(s, x, l)
  PROVE  Moved(s, y, l)
<1> SUFFICES ASSUME ~Faulty(y)
             PROVE  ~Faulty(s) /\ Moves(s, y, l)
  BY DEF Moved
<1>1. ~Faulty(x) /\ ~Faulty(s) /\ Moves(s, x, l)
  BY DEF Fixed, Faulty, Moved
<1>2. CodeMoves(s, y) /\ LabelsMove(s, y)
  BY <1>1 DEF Moves, Fixed, CodeMoves, LabelsMove
<1>3. RangesMove(s, y, l)
  BY <1>1 DEF Moves, Fixed, RangesMove
<1>4. \A a, b, ops : FixupsMove(a, b, ops, s, x, l) => FixupsMove(a, b, ops, s, y, l)
  BY DEF Fixed, FixupsMove
<1>5. /\ FixupsMove(s.branches, y.branches, {"jmp"}, s, y, l)
      /\ FixupsMove(s.calls, y.calls, {"call", "commit"}, s, y, l)
  BY <1>1, <1>4 DEF Moves, Fixed
<1> QED
  BY <1>1, <1>2, <1>3, <1>5 DEF Moves, Fixed

LEMMA ControlFixed ==
  ASSUME NEW x, DOMAIN x = Fields, NEW e
  PROVE  /\ Fixed(x, [x EXCEPT !.go = e]) /\ Fixed(x, [x EXCEPT !.phase = e])
         /\ Fixed(x, [x EXCEPT !.irvine = e]) /\ Fixed(x, [x EXCEPT !.disabled = e])
         /\ Fixed(x, [x EXCEPT !.open = e]) /\ Fixed(x, [x EXCEPT !.equates = e])
         /\ Fixed(x, [x EXCEPT !.symbols = e]) /\ Fixed(x, [x EXCEPT !.protos = e])
         /\ Fixed(x, Checked(x))
<1> USE DEF Fields
<1>1. Fixed(x, [x EXCEPT !.go = e]) /\ Fixed(x, [x EXCEPT !.phase = e])
  BY DEF Fixed
<1>2. Fixed(x, [x EXCEPT !.irvine = e]) /\ Fixed(x, [x EXCEPT !.disabled = e])
  BY DEF Fixed
<1>3. Fixed(x, [x EXCEPT !.open = e]) /\ Fixed(x, [x EXCEPT !.equates = e])
  BY DEF Fixed
<1>4. Fixed(x, [x EXCEPT !.symbols = e]) /\ Fixed(x, [x EXCEPT !.protos = e])
  BY DEF Fixed
<1>5. Fixed(x, Checked(x))
  BY DEF Fixed, Checked
<1> QED
  BY <1>1, <1>2, <1>3, <1>4, <1>5

LEMMA FaultyMoved ==
  ASSUME NEW s, NEW t, Faulty(t)
  PROVE  \A l : Moved(s, t, l)
BY DEF Moved

\* Code, labels and fixups stay, and so do the places of the ranges.
Placed(s, t) ==
  /\ t.code = s.code /\ t.labels = s.labels /\ t.pending = s.pending
  /\ t.branches = s.branches /\ t.calls = s.calls
  /\ Len(t.procs) = Len(s.procs)
  /\ \A k \in 1 .. Len(s.procs) : /\ t.procs[k].start = s.procs[k].start
                                  /\ t.procs[k].end = s.procs[k].end
                                  /\ t.procs[k].line = s.procs[k].line

LEMMA Lengths ==
  ASSUME NEW s, Sound(s)
  PROVE  /\ Len(s.code) \in Nat /\ Len(s.labels) \in Nat /\ Len(s.procs) \in Nat
         /\ Len(s.branches) \in Nat /\ Len(s.calls) \in Nat
         /\ IsSeq(s.code) /\ IsSeq(s.labels) /\ IsSeq(s.procs)
         /\ IsSeq(s.branches) /\ IsSeq(s.calls) /\ DOMAIN s = Fields
BY SeqFacts DEF Sound, Judged, CodeFits, LabelsFit, RangesFit

LEMMA PlacedMoves ==
  ASSUME NEW s, Sound(s), NEW t, Placed(s, t), NEW l, l.op \notin {"endp", "end"}
  PROVE  Moves(s, t, l)
<1>1. CodeMoves(s, t) /\ LabelsMove(s, t)
  BY Lengths DEF Placed, CodeMoves, LabelsMove
<1>2. RangesMove(s, t, l)
  BY Lengths DEF Placed, RangesMove
<1>3. \A ops : FixupsMove(s.branches, t.branches, ops, s, t, l)
                 /\ FixupsMove(s.calls, t.calls, ops, s, t, l)
  BY Lengths DEF Placed, FixupsMove
<1> QED
  BY <1>1, <1>2, <1>3 DEF Moves, Placed

LEMMA FixedMoves ==
  ASSUME NEW s, Sound(s), NEW t, Fixed(s, t), NEW l, l.op \notin {"endp", "end"}
  PROVE  Moved(s, t, l)
<1>1. Placed(s, t)
  BY DEF Fixed, Placed
<1> QED
  BY <1>1, PlacedMoves DEF Moved, Fixed, Faulty

LEMMA DeclarationsMove ==
  ASSUME NEW s, Sound(s), NEW l
  PROVE  /\ l.op = "equate" => Moved(s, EquateLine(s, l), l)
         /\ l.op = "data" => Moved(s, DataLine(s, l), l)
         /\ l.op = "casemap" => Moved(s, CasemapLine(s, l), l)
         /\ l.op = "nokeyword" => Moved(s, NokeywordLine(s, l), l)
         /\ l.op = "proto" => Moved(s, ProtoLine(s, l), l)
<1>1. DOMAIN s = Fields /\ Judged(s)
  BY DEF Sound, Judged
<1>2. \A k : /\ Moved(s, Diagnose(s), k) /\ Moved(s, Refuse(s), k)
             /\ Moved(s, Full(s), k) /\ Moved(s, Exceed(s), k)
  BY <1>1, FaultsStay, FaultyMoved
<1>3. ASSUME l.op = "equate"
      PROVE  Moved(s, EquateLine(s, l), l)
  <2> DEFINE e == Append(s.equates, [name |-> l.name, line |-> s.line])
             t == [s EXCEPT !.equates = e]
  <2>1. EquateLine(s, l) \in {Diagnose(s), t, Diagnose(t)}
    BY DEF EquateLine
  <2> HIDE DEF e
  <2>2. Fixed(s, t)
    BY <1>1, ControlFixed
  <2>3. Judged(t)
    BY <1>1 DEF Judged, Faulty, Fields
  <2> HIDE DEF t
  <2>4. Moved(s, t, l) /\ Moved(s, Diagnose(t), l)
    BY <1>3, <2>2, <2>3, FixedMoves, FaultsStay, FaultyMoved
  <2> QED
    BY <1>2, <2>1, <2>4
<1>4. ASSUME l.op = "data"
      PROVE  Moved(s, DataLine(s, l), l)
  <2> DEFINE e == Append(s.symbols, [name |-> l.name, line |-> s.line])
             t == [s EXCEPT !.symbols = e]
  <2>1. DataLine(s, l) \in {Diagnose(s), Exceed(s), t}
    BY DEF DataLine
  <2> HIDE DEF e
  <2>2. Fixed(s, t)
    BY <1>1, ControlFixed
  <2> HIDE DEF t
  <2>4. Moved(s, t, l)
    BY <1>4, <2>2, FixedMoves
  <2> QED
    BY <1>2, <2>1, <2>4
<1>5. ASSUME l.op = "casemap"
      PROVE  Moved(s, CasemapLine(s, l), l)
  <2> DEFINE w == IF s.chosen /\ s.policy # l.policy THEN Warn(s) ELSE s
             t == [w EXCEPT !.policy = l.policy, !.chosen = TRUE]
  <2>1. CasemapLine(s, l) = t
    BY DEF CasemapLine
  <2>2. /\ DOMAIN w = Fields /\ (~Faulty(w) => ~Faulty(s))
        /\ w.code = s.code /\ w.labels = s.labels /\ w.pending = s.pending
        /\ w.branches = s.branches /\ w.calls = s.calls /\ w.procs = s.procs
    <3>1. CASE w = s
      BY <1>1, <3>1
    <3>2. CASE w = Warn(s)
      <4> HIDE DEF w
      <4>1. CASE s.diagnostics >= Capacity["diagnostics"]
        BY <1>1, <3>2, <4>1 DEF Warn, Fields, Faulty
      <4>2. CASE ~(s.diagnostics >= Capacity["diagnostics"])
        BY <1>1, <3>2, <4>2 DEF Warn, Fields, Faulty
      <4> QED
        BY <4>1, <4>2
    <3> QED
      BY <3>1, <3>2
  <2> HIDE DEF w
  <2>3. Placed(s, t) /\ (~Faulty(t) => ~Faulty(s))
    BY <2>2 DEF Placed, Fields, Faulty
  <2> HIDE DEF t
  <2> QED
    BY <1>5, <2>1, <2>3, PlacedMoves DEF Moved
<1>6. ASSUME l.op = "nokeyword"
      PROVE  Moved(s, NokeywordLine(s, l), l)
  <2> DEFINE e == s.disabled \cup {Fold[l.name]}
             t == [s EXCEPT !.disabled = e]
  <2>1. NokeywordLine(s, l) \in {Diagnose(s), t}
    BY DEF NokeywordLine
  <2> HIDE DEF e
  <2>2. Fixed(s, t)
    BY <1>1, ControlFixed
  <2> HIDE DEF t
  <2>4. Moved(s, t, l)
    BY <1>6, <2>2, FixedMoves
  <2> QED
    BY <1>2, <2>1, <2>4
<1>7. ASSUME l.op = "proto"
      PROVE  Moved(s, ProtoLine(s, l), l)
  <2> DEFINE e == Append(s.protos, [name |-> l.name, count |-> l.count])
             t == [s EXCEPT !.protos = e]
  <2>1. ProtoLine(s, l) \in {Diagnose(s), Full(s), t}
    BY DEF ProtoLine
  <2> HIDE DEF e
  <2>2. Fixed(s, t)
    BY <1>1, ControlFixed
  <2> HIDE DEF t
  <2>4. Moved(s, t, l)
    BY <1>7, <2>2, FixedMoves
  <2> QED
    BY <1>2, <2>1, <2>4
<1> QED
  BY <1>3, <1>4, <1>5, <1>6, <1>7

\* The open procedure is replaced by one in the same place.
LEMMA NotedPlaced ==
  ASSUME NEW s, Sound(s), NEW a, NEW t, Noting(s, a, t),
         a.start = s.procs[s.open].start, a.end = s.procs[s.open].end,
         a.line = s.procs[s.open].line
  PROVE  Placed(s, t) /\ (~Faulty(t) => ~Faulty(s)) /\ t.line = s.line /\ t.policy = s.policy
<1>1. /\ (~Faulty(t) => ~Faulty(s)) /\ Len(t.procs) = Len(s.procs) /\ t.procs[s.open] = a
      /\ \A k \in 1 .. Len(s.procs) : k # s.open => t.procs[k] = s.procs[k]
  BY OpenChanged
<1>2. /\ t.code = s.code /\ t.labels = s.labels /\ t.pending = s.pending /\ t.line = s.line
      /\ t.branches = s.branches /\ t.calls = s.calls /\ t.policy = s.policy
  BY Lengths DEF Noting, Fields
<1> QED
  BY <1>1, <1>2 DEF Placed

LEMMA LocalMoved ==
  ASSUME NEW s, Sound(s), NEW l, l.op = "local"
  PROVE  Moved(s, LocalLine(s, l), l)
<1>1. CASE s.open = 0 \/ LocalRefused(s, l.name)
  <2>1. LocalLine(s, l) = Diagnose(s)
    BY <1>1 DEF LocalLine
  <2> QED
    BY <2>1, FaultsStay, FaultyMoved DEF Sound
<1>2. CASE ~(s.open = 0 \/ LocalRefused(s, l.name))
  <2> DEFINE e == Append(s.procs[s.open].locals, [name |-> l.name, line |-> s.line])
             a == [s.procs[s.open] EXCEPT !.locals = e]
             t == [s EXCEPT !.procs[s.open] = a]
  <2>1. LocalLine(s, l) = [s EXCEPT !.procs[s.open].locals = e]
    BY <1>2, OpenRange DEF LocalLine
  <2> HIDE DEF e
  <2>2. [s EXCEPT !.procs[s.open].locals = e] = t
    BY <1>2, OpenRange
  <2>3. /\ a.start = s.procs[s.open].start /\ a.end = s.procs[s.open].end
        /\ a.line = s.procs[s.open].line
    BY <1>2, OpenRange DEF GoodRange, RangeFields
  <2>4. Noting(s, a, t)
    BY <1>2 DEF Noting
  <2> HIDE DEF a, t
  <2>5. Placed(s, t) /\ (~Faulty(t) => ~Faulty(s))
    BY <2>3, <2>4, NotedPlaced
  <2>6. Moved(s, t, l)
    BY <2>5, PlacedMoves DEF Moved
  <2> QED
    BY <2>1, <2>2, <2>6
<1> QED
  BY <1>1, <1>2

-----------------------------------------------------------------------------
(* Lines of code *)

\* t is s with the instructions q behind its code; waiting labels have the first as target.
Emits(s, t, q) ==
  /\ t.branches = s.branches /\ t.calls = s.calls /\ t.pending = {}
  /\ t.policy = s.policy
  /\ Len(t.code) = Len(s.code) + Len(q)
  /\ \A i \in 1 .. Len(s.code) : t.code[i] = s.code[i]
  /\ \A i \in 1 .. Len(q) : t.code[Len(s.code) + i] = q[i]
  /\ Len(t.labels) = Len(s.labels)
  /\ \A j \in 1 .. Len(s.labels) :
       /\ t.labels[j].line = s.labels[j].line
       /\ t.labels[j].target = IF j \in s.pending THEN Len(s.code) ELSE s.labels[j].target
  /\ Len(t.procs) = Len(s.procs)
  /\ \A k \in 1 .. Len(s.procs) : /\ t.procs[k].start = s.procs[k].start
                                  /\ t.procs[k].end = s.procs[k].end
                                  /\ t.procs[k].line = s.procs[k].line

LEMMA EmitPlaces ==
  ASSUME NEW s, Sound(s), NEW q, Fresh(q), q # <<>>, ~Faulty(Emit(s, q))
  PROVE  ~Faulty(s) /\ Emits(s, Emit(s, q), q)
<1> DEFINE room == Capacity["code"] - Len(s.code)
           fit  == IF Len(q) <= room THEN q ELSE SubSeq(q, 1, room)
           kept == [s EXCEPT
                 !.code = @ \o fit,
                 !.pending = {},
                 !.labels = [i \in DOMAIN @ |-> IF i \in s.pending
                                                THEN [@[i] EXCEPT !.target = Len(s.code)]
                                                ELSE @[i]],
                 !.procs = [k \in DOMAIN @ |-> IF k = s.open THEN [@[k] EXCEPT !.runs = TRUE]
                                               ELSE @[k]]]
           t    == IF fit = <<>> THEN s ELSE kept
<1>1. /\ Len(s.labels) \in Nat /\ Len(s.procs) \in Nat /\ IsSeq(s.code) /\ DOMAIN s = Fields
      /\ DOMAIN s.labels = 1 .. Len(s.labels) /\ DOMAIN s.procs = 1 .. Len(s.procs)
      /\ \A i \in 1 .. Len(s.labels) : DOMAIN s.labels[i] = LabelFields
      /\ \A k \in 1 .. Len(s.procs) : DOMAIN s.procs[k] = RangeFields
  BY SeqFacts DEF Sound, Judged, LabelsFit, RangesFit, CodeFits, GoodLabel, GoodRange
<1>2. Judged(t)
  <2>1. Judged(s)
    BY DEF Sound
  <2> HIDE DEF fit
  <2>2. Judged(kept)
    BY <1>1, <2>1 DEF Judged, Faulty, Fields
  <2> QED
    BY <2>1, <2>2
<1>3. CASE ~(Len(q) <= room)
  <2>1. Emit(s, q) = Exceed(t)
    BY <1>3 DEF Emit
  <2> HIDE DEF t
  <2> QED
    BY <1>2, <2>1, FaultsStay
<1>4. CASE Len(q) <= room
  <2>1. Emit(s, q) = kept /\ fit = q
    BY <1>4 DEF Emit
  <2> HIDE DEF fit
  <2> DEFINE a == [i \in DOMAIN s.labels |-> IF i \in s.pending
                                             THEN [s.labels[i] EXCEPT !.target = Len(s.code)]
                                             ELSE s.labels[i]]
             b == [k \in DOMAIN s.procs |-> IF k = s.open THEN [s.procs[k] EXCEPT !.runs = TRUE]
                                            ELSE s.procs[k]]
  <2>2. /\ kept.labels = a /\ kept.procs = b /\ kept.code = s.code \o q /\ kept.pending = {}
        /\ kept.branches = s.branches /\ kept.calls = s.calls /\ kept.policy = s.policy
        /\ (~Faulty(kept) => ~Faulty(s))
    BY <1>1, <2>1 DEF Fields, Faulty
  <2> HIDE DEF kept
  <2>3. Len(a) = Len(s.labels)
    <3>1. a = [i \in 1 .. Len(s.labels) |-> a[i]]
      BY <1>1
    <3> HIDE DEF a
    <3> QED
      BY <1>1, <3>1, FunctionSeq
  <2>4. Len(b) = Len(s.procs)
    <3>1. b = [k \in 1 .. Len(s.procs) |-> b[k]]
      BY <1>1
    <3> HIDE DEF b
    <3> QED
      BY <1>1, <3>1, FunctionSeq
  <2>5. \A j \in 1 .. Len(s.labels) :
          /\ a[j].line = s.labels[j].line
          /\ a[j].target = IF j \in s.pending THEN Len(s.code) ELSE s.labels[j].target
    BY <1>1 DEF LabelFields
  <2>6. \A k \in 1 .. Len(s.procs) : /\ b[k].start = s.procs[k].start /\ b[k].end = s.procs[k].end
                                     /\ b[k].line = s.procs[k].line
    BY <1>1 DEF RangeFields
  <2> HIDE DEF a, b
  <2>7. /\ Len(s.code \o q) = Len(s.code) + Len(q)
        /\ \A i \in 1 .. Len(s.code) : (s.code \o q)[i] = s.code[i]
        /\ \A i \in 1 .. Len(q) : (s.code \o q)[Len(s.code) + i] = q[i]
    <3>1. IsSeq(q) /\ Len(q) \in Nat /\ Len(s.code) \in Nat
      BY <1>1, SeqFacts DEF Fresh
    <3>2. /\ Len(s.code \o q) = Len(s.code) + Len(q)
          /\ \A i \in 1 .. Len(s.code \o q) :
               (s.code \o q)[i] = IF i <= Len(s.code) THEN s.code[i] ELSE q[i - Len(s.code)]
      BY <1>1, <3>1, ConcatSeq
    <3>3. ASSUME NEW i \in 1 .. Len(q)
          PROVE  (s.code \o q)[Len(s.code) + i] = q[i]
      <4>1. Len(s.code) + i \in 1 .. Len(s.code \o q) /\ ~(Len(s.code) + i <= Len(s.code))
              /\ Len(s.code) + i - Len(s.code) = i
        BY <3>1, <3>2
      <4> QED
        BY <3>2, <4>1
    <3>4. ASSUME NEW i \in 1 .. Len(s.code)
          PROVE  (s.code \o q)[i] = s.code[i]
      BY <3>1, <3>2
    <3> QED
      BY <3>2, <3>3, <3>4
  <2>8. Emits(s, kept, q)
    BY <2>2, <2>3, <2>4, <2>5, <2>6, <2>7 DEF Emits
  <2> QED
    BY <2>1, <2>2, <2>8
<1> QED
  BY <1>3, <1>4

\* The instructions a line lowers to carry its number.
Here(s, q) == Fresh(q) /\ q # <<>> /\ \A i \in 1 .. Len(q) : q[i].line = s.line

LEMMA EmitsMoves ==
  ASSUME NEW s, Sound(s), NEW q, Here(s, q), NEW t, Emits(s, t, q), NEW u,
         u.code = t.code, u.labels = t.labels, u.procs = t.procs, u.pending = t.pending,
         NEW l, l.op \notin {"proc", "endp", "end", "casemap"},
         FixupsMove(s.branches, u.branches, {"jmp"}, s, u, l),
         FixupsMove(s.calls, u.calls, {"call", "commit"}, s, u, l)
  PROVE  Moves(s, u, l)
<1>1. /\ Len(s.code) \in Nat /\ Len(s.labels) \in Nat /\ Len(s.procs) \in Nat /\ Len(q) \in Nat
  BY Lengths, SeqFacts DEF Here, Fresh
<1>2. CodeMoves(s, u)
  <2>1. ASSUME NEW i \in 1 .. Len(u.code), i > Len(s.code)
        PROVE  u.code[i].line = s.line
    <3>1. i - Len(s.code) \in 1 .. Len(q) /\ Len(s.code) + (i - Len(s.code)) = i
      BY <1>1, <2>1 DEF Emits
    <3>2. u.code[i] = q[i - Len(s.code)]
      BY <3>1 DEF Emits
    <3> QED
      BY <3>1, <3>2 DEF Here
  <2> QED
    BY <1>1, <2>1 DEF CodeMoves, Emits
<1>3. LabelsMove(s, u)
  BY <1>1 DEF LabelsMove, Emits
<1>4. RangesMove(s, u, l)
  BY <1>1 DEF RangesMove, Emits
<1> QED
  BY <1>2, <1>3, <1>4 DEF Moves

LEMMA NoFixups ==
  ASSUME NEW s, Sound(s), NEW q, Here(s, q), NEW t, Emits(s, t, q), NEW a, IsSeq(a), NEW ops,
         \A i \in 1 .. Len(q) : q[i].op \notin ops, NEW l, NEW u, u.code = t.code
  PROVE  FixupsMove(a, a, ops, s, u, l)
<1>1. Len(a) \in Nat /\ Len(s.code) \in Nat /\ Len(q) \in Nat
  BY Lengths, SeqFacts DEF Here, Fresh
<1>2. ASSUME NEW i \in 1 .. Len(u.code), i > Len(s.code)
      PROVE  u.code[i].op \notin ops
  <2>1. i - Len(s.code) \in 1 .. Len(q) /\ Len(s.code) + (i - Len(s.code)) = i
    BY <1>1, <1>2 DEF Emits
  <2>2. u.code[i] = q[i - Len(s.code)]
    BY <2>1 DEF Emits
  <2> QED
    BY <2>1, <2>2
<1> QED
  BY <1>1, <1>2 DEF FixupsMove

\* The last instruction of a line is the one with a fixup.
LEMMA OneFixup ==
  ASSUME NEW s, Sound(s), NEW q, Here(s, q), NEW t, Emits(s, t, q), NEW a, IsSeq(a), NEW ops,
         \A i \in 1 .. Len(q) : q[i].op \in ops <=> i = Len(q),
         NEW l, NEW f, f.at = Len(t.code), f.name = l.name, f.policy = s.policy,
         NEW u, u.code = t.code
  PROVE  FixupsMove(a, Append(a, f), ops, s, u, l)
<1> DEFINE b == Append(a, f)
<1>1. /\ Len(a) \in Nat /\ Len(s.code) \in Nat /\ Len(q) \in Nat /\ Len(q) > 0
      /\ Len(u.code) = Len(s.code) + Len(q)
  BY Lengths, SeqFacts DEF Here, Fresh, Emits
<1>2. Len(b) = Len(a) + 1 /\ b[Len(a) + 1] = f /\ \A i \in 1 .. Len(a) : b[i] = a[i]
  BY AppendSeq
<1> HIDE DEF b
<1>3. \A i \in 1 .. Len(u.code) : i > Len(s.code) => (u.code[i].op \in ops <=> i = Len(u.code))
  <2>1. ASSUME NEW i \in 1 .. Len(u.code), i > Len(s.code)
        PROVE  u.code[i].op \in ops <=> i = Len(u.code)
    <3>1. i - Len(s.code) \in 1 .. Len(q) /\ Len(s.code) + (i - Len(s.code)) = i
      BY <1>1, <2>1
    <3>2. u.code[i] = q[i - Len(s.code)]
      BY <3>1 DEF Emits
    <3>3. q[i - Len(s.code)].op \in ops <=> i - Len(s.code) = Len(q)
      BY <3>1
    <3> QED
      BY <1>1, <2>1, <3>2, <3>3
  <2> QED
    BY <2>1
<1>4. ASSUME NEW c \in 1 .. Len(b), c > Len(a)
      PROVE  /\ b[c].at \in 1 .. Len(u.code) /\ b[c].at > Len(s.code)
             /\ u.code[b[c].at].op \in ops /\ b[c].name = l.name /\ b[c].policy = s.policy
  <2>1. b[c] = f /\ f.at = Len(u.code)
    BY <1>1, <1>2, <1>4
  <2>2. Len(u.code) \in 1 .. Len(u.code) /\ Len(u.code) > Len(s.code)
    BY <1>1
  <2> QED
    BY <1>3, <2>1, <2>2
<1>5. ASSUME NEW i \in 1 .. Len(u.code), i > Len(s.code), u.code[i].op \in ops
      PROVE  \E c \in 1 .. Len(b) : b[c].at = i
  <2>1. i = Len(u.code)
    BY <1>3, <1>5
  <2>2. Len(a) + 1 \in 1 .. Len(b) /\ b[Len(a) + 1].at = i
    BY <1>1, <1>2, <2>1
  <2> QED
    BY <2>2
<1>6. FixupsMove(a, b, ops, s, u, l)
  BY <1>1, <1>2, <1>4, <1>5 DEF FixupsMove
<1> QED
  BY <1>6 DEF b

\* A line of code without a fixup.
LEMMA SimpleMoved ==
  ASSUME NEW s, Sound(s), NEW q, Here(s, q), \A i \in 1 .. Len(q) : q[i].op \notin {"jmp", "call", "commit"},
         NEW l, l.op \notin {"proc", "endp", "end", "casemap"}
  PROVE  Moved(s, Emit(s, q), l)
<1> SUFFICES ASSUME ~Faulty(Emit(s, q))
             PROVE  ~Faulty(s) /\ Moves(s, Emit(s, q), l)
  BY DEF Moved
<1> DEFINE t == Emit(s, q)
           jumps == {"jmp"}
           calls == {"call", "commit"}
<1>1. ~Faulty(s) /\ Emits(s, t, q)
  BY EmitPlaces DEF Here
<1>2. /\ \A i \in 1 .. Len(q) : q[i].op \notin jumps
      /\ \A i \in 1 .. Len(q) : q[i].op \notin calls
      /\ IsSeq(s.branches) /\ IsSeq(s.calls)
  BY Lengths
<1> HIDE DEF t, jumps, calls
<1>3. FixupsMove(s.branches, s.branches, jumps, s, t, l) /\ FixupsMove(s.calls, s.calls, calls, s, t, l)
  BY <1>1, <1>2, NoFixups
<1>4. FixupsMove(s.branches, t.branches, jumps, s, t, l) /\ FixupsMove(s.calls, t.calls, calls, s, t, l)
  BY <1>1, <1>3 DEF Emits
<1>5. Moves(s, t, l)
  BY <1>1, <1>4, EmitsMoves DEF jumps, calls
<1> QED
  BY <1>1, <1>5 DEF t

\* A line of code that waits for END to have its last instruction resolved.
LEMMA BranchMoved ==
  ASSUME NEW s, Sound(s), NEW q, Here(s, q),
         \A i \in 1 .. Len(q) : q[i].op \in {"jmp"} <=> i = Len(q),
         \A i \in 1 .. Len(q) : q[i].op \notin {"call", "commit"},
         NEW l, l.op \notin {"proc", "endp", "end", "casemap"}
  PROVE  Moved(s, AddBranch(Emit(s, q), l.name), l)
<1> DEFINE t == Emit(s, q)
           f == [at |-> Len(t.code), name |-> l.name, policy |-> t.policy, disabled |-> t.disabled]
           u == [t EXCEPT !.branches = Append(t.branches, f)]
           jumps == {"jmp"}
           calls == {"call", "commit"}
<1>1. Sound(t) /\ Judged(t) /\ DOMAIN t = Fields
  BY EmitSound DEF Handles, Here, Sound, Judged
<1>2. f.at = Len(t.code) /\ f.name = l.name /\ f.policy = t.policy
  OBVIOUS
<1>3. /\ \A i \in 1 .. Len(q) : q[i].op \in jumps <=> i = Len(q)
      /\ \A i \in 1 .. Len(q) : q[i].op \notin calls
      /\ IsSeq(s.branches) /\ IsSeq(s.calls)
  BY Lengths
<1>4. AddBranch(t, l.name) \in {Refuse(t), u} \/ (~t.go /\ AddBranch(t, l.name) = t)
  BY DEF AddBranch
<1>5. Faulty(Refuse(t)) /\ (~t.go => Faulty(t))
  BY <1>1, FaultsStay DEF Judged
<1> HIDE DEF f, jumps, calls
<1>6. /\ u.code = t.code /\ u.labels = t.labels /\ u.procs = t.procs /\ u.pending = t.pending
      /\ u.branches = Append(t.branches, f) /\ u.calls = t.calls /\ (~Faulty(u) => ~Faulty(t))
  <2> HIDE DEF t
  <2> QED
    BY <1>1 DEF Fields, Faulty
<1>7. ASSUME ~Faulty(u)
      PROVE  ~Faulty(s) /\ Moves(s, u, l)
  <2>1. ~Faulty(s) /\ Emits(s, t, q)
    BY <1>6, <1>7, EmitPlaces DEF Here
  <2> HIDE DEF u, t
  <2>2. f.policy = s.policy /\ u.branches = Append(s.branches, f) /\ u.calls = s.calls
    BY <1>2, <1>6, <2>1 DEF Emits
  <2>3. FixupsMove(s.branches, Append(s.branches, f), jumps, s, u, l)
    BY <1>2, <1>3, <1>6, <2>1, <2>2, OneFixup
  <2>4. FixupsMove(s.calls, s.calls, calls, s, u, l)
    BY <1>3, <1>6, <2>1, NoFixups
  <2>5. FixupsMove(s.branches, u.branches, jumps, s, u, l) /\ FixupsMove(s.calls, u.calls, calls, s, u, l)
    BY <2>2, <2>3, <2>4
  <2>6. Moves(s, u, l)
    BY <1>6, <2>1, <2>5, EmitsMoves DEF jumps, calls
  <2> QED
    BY <2>1, <2>6
<1> HIDE DEF u, t
<1>8. Moved(s, u, l)
  BY <1>7 DEF Moved
<1>9. Moved(s, Refuse(t), l) /\ (~t.go => Moved(s, t, l))
  BY <1>5, FaultyMoved
<1> QED
  BY <1>4, <1>8, <1>9 DEF t

LEMMA CallMoved ==
  ASSUME NEW s, Sound(s), NEW q, Here(s, q),
         \A i \in 1 .. Len(q) : q[i].op \in {"call", "commit"} <=> i = Len(q),
         \A i \in 1 .. Len(q) : q[i].op \notin {"jmp"}, NEW invoke, NEW count,
         NEW l, l.op \notin {"proc", "endp", "end", "casemap"}
  PROVE  Moved(s, AddCall(Emit(s, q), l.name, invoke, count), l)
<1> DEFINE t == Emit(s, q)
           f == [at |-> Len(t.code), name |-> l.name, policy |-> t.policy, invoke |-> invoke,
                 args |-> count]
           u == [t EXCEPT !.calls = Append(t.calls, f)]
           jumps == {"jmp"}
           calls == {"call", "commit"}
<1>1. Sound(t) /\ Judged(t) /\ DOMAIN t = Fields
  BY EmitSound DEF Handles, Here, Sound, Judged
<1>2. f.at = Len(t.code) /\ f.name = l.name /\ f.policy = t.policy
  OBVIOUS
<1>3. /\ \A i \in 1 .. Len(q) : q[i].op \in calls <=> i = Len(q)
      /\ \A i \in 1 .. Len(q) : q[i].op \notin jumps
      /\ IsSeq(s.branches) /\ IsSeq(s.calls)
  BY Lengths
<1>4. \/ AddCall(t, l.name, invoke, count) \in {Refuse(t), u}
      \/ ~t.go /\ AddCall(t, l.name, invoke, count) = t
  BY DEF AddCall
<1>5. Faulty(Refuse(t)) /\ (~t.go => Faulty(t))
  BY <1>1, FaultsStay DEF Judged
<1> HIDE DEF f, jumps, calls
<1>6. /\ u.code = t.code /\ u.labels = t.labels /\ u.procs = t.procs /\ u.pending = t.pending
      /\ u.calls = Append(t.calls, f) /\ u.branches = t.branches /\ (~Faulty(u) => ~Faulty(t))
  <2> HIDE DEF t
  <2> QED
    BY <1>1 DEF Fields, Faulty
<1>7. ASSUME ~Faulty(u)
      PROVE  ~Faulty(s) /\ Moves(s, u, l)
  <2>1. ~Faulty(s) /\ Emits(s, t, q)
    BY <1>6, <1>7, EmitPlaces DEF Here
  <2> HIDE DEF u, t
  <2>2. f.policy = s.policy /\ u.calls = Append(s.calls, f) /\ u.branches = s.branches
    BY <1>2, <1>6, <2>1 DEF Emits
  <2>3. FixupsMove(s.calls, Append(s.calls, f), calls, s, u, l)
    BY <1>2, <1>3, <1>6, <2>1, <2>2, OneFixup
  <2>4. FixupsMove(s.branches, s.branches, jumps, s, u, l)
    BY <1>3, <1>6, <2>1, NoFixups
  <2>5. FixupsMove(s.branches, u.branches, jumps, s, u, l) /\ FixupsMove(s.calls, u.calls, calls, s, u, l)
    BY <2>2, <2>3, <2>4
  <2>6. Moves(s, u, l)
    BY <1>6, <2>1, <2>5, EmitsMoves DEF jumps, calls
  <2> QED
    BY <2>1, <2>6
<1> HIDE DEF u, t
<1>8. Moved(s, u, l)
  BY <1>7 DEF Moved
<1>9. Moved(s, Refuse(t), l) /\ (~t.go => Moved(s, t, l))
  BY <1>5, FaultyMoved
<1> QED
  BY <1>4, <1>8, <1>9 DEF t

LEMMA InstructionHere ==
  ASSUME NEW s, NEW op, NEW ref
  PROVE  LET q == <<Instruction(s, op, ref)>>
         IN  /\ Here(s, q) /\ Len(q) = 1
             /\ \A i \in 1 .. Len(q) : q[i].op = op
<1> DEFINE c == Instruction(s, op, ref)
<1>1. c.op = op /\ c.line = s.line /\ Fresh(<<c>>)
  BY InstructionFresh DEF Instruction
<1> HIDE DEF c
<1>2. <<c>> # <<>> /\ Len(<<c>>) = 1 /\ <<c>>[1] = c
  OBVIOUS
<1>3. Here(s, <<c>>)
  BY <1>1, <1>2 DEF Here
<1> QED
  BY <1>1, <1>2, <1>3 DEF c

LEMMA CodeMoved ==
  ASSUME NEW s, Sound(s), NEW l
  PROVE  /\ l.op = "plain" => Moved(s, Emit(s, <<Instruction(s, "nop", Nothing)>>), l)
         /\ l.op \in {"write", "read", "offset"} => Moved(s, OperandLine(s, l), l)
         /\ l.op = "jump" => Moved(s, JumpLine(s, l), l)
         /\ l.op = "call" => Moved(s, CallLine(s, l), l)
         /\ l.op = "invoke" => Moved(s, Emit(s, <<Instruction(s, "routine", Nothing)>>), l)
<1> DEFINE nop == <<Instruction(s, "nop", Nothing)>>
           mov == <<Instruction(s, "mov", Operand(s, l))>>
           jmp == <<Instruction(s, "jmp", Nothing)>>
           call == <<Instruction(s, "call", Nothing)>>
           routine == <<Instruction(s, "routine", Nothing)>>
           no == FALSE
           none == 0
<1>1. /\ OperandLine(s, l) \in {Refuse(s), Emit(s, mov)}
      /\ JumpLine(s, l) \in {Refuse(s), AddBranch(Emit(s, jmp), l.name)}
      /\ CallLine(s, l) \in {Refuse(s), Emit(s, routine), AddCall(Emit(s, call), l.name, no, none)}
  BY DEF OperandLine, JumpLine, CallLine
<1>2. Here(s, nop) /\ \A i \in 1 .. Len(nop) : nop[i].op \notin {"jmp", "call", "commit"}
  BY InstructionHere
<1>3. Here(s, mov) /\ \A i \in 1 .. Len(mov) : mov[i].op \notin {"jmp", "call", "commit"}
  <2> DEFINE ref == Operand(s, l)
  <2> HIDE DEF ref
  <2> QED
    BY InstructionHere
<1>4. Here(s, routine) /\ \A i \in 1 .. Len(routine) : routine[i].op \notin {"jmp", "call", "commit"}
  BY InstructionHere
<1>5. /\ Here(s, jmp) /\ \A i \in 1 .. Len(jmp) : jmp[i].op \in {"jmp"} <=> i = Len(jmp)
      /\ \A i \in 1 .. Len(jmp) : jmp[i].op \notin {"call", "commit"}
  <2>1. Here(s, jmp) /\ Len(jmp) = 1 /\ \A i \in 1 .. Len(jmp) : jmp[i].op = "jmp"
    BY InstructionHere
  <2> HIDE DEF jmp
  <2> QED
    BY <2>1
<1>6. /\ Here(s, call) /\ \A i \in 1 .. Len(call) : call[i].op \in {"call", "commit"} <=> i = Len(call)
      /\ \A i \in 1 .. Len(call) : call[i].op \notin {"jmp"}
  <2>1. Here(s, call) /\ Len(call) = 1 /\ \A i \in 1 .. Len(call) : call[i].op = "call"
    BY InstructionHere
  <2> HIDE DEF call
  <2> QED
    BY <2>1
<1> HIDE DEF nop, mov, routine, jmp, call, no, none
<1>7. ASSUME l.op \in {"plain", "write", "read", "offset", "jump", "call", "invoke"}
      PROVE  /\ Moved(s, Emit(s, nop), l) /\ Moved(s, Emit(s, mov), l) /\ Moved(s, Emit(s, routine), l)
             /\ Moved(s, AddBranch(Emit(s, jmp), l.name), l)
             /\ Moved(s, AddCall(Emit(s, call), l.name, no, none), l)
  <2>1. l.op \notin {"proc", "endp", "end", "casemap"}
    BY <1>7
  <2>2. Moved(s, Emit(s, nop), l) /\ Moved(s, Emit(s, mov), l) /\ Moved(s, Emit(s, routine), l)
    BY <1>2, <1>3, <1>4, <2>1, SimpleMoved
  <2>3. Moved(s, AddBranch(Emit(s, jmp), l.name), l)
    BY <1>5, <2>1, BranchMoved
  <2>4. Moved(s, AddCall(Emit(s, call), l.name, no, none), l)
    BY <1>6, <2>1, CallMoved
  <2> QED
    BY <2>2, <2>3, <2>4
<1>8. Moved(s, Refuse(s), l)
  BY FaultsStay, FaultyMoved DEF Sound
<1> QED
  BY <1>1, <1>7, <1>8 DEF nop, routine

LEMMA InvokeMoved ==
  ASSUME NEW s, Sound(s), NEW l, l.op = "invoke", IsSeq(l.args)
  PROVE  Moved(s, InvokeLine(s, l), l)
<1> DEFINE n    == Len(l.args)
           refs == [i \in DOMAIN l.args |-> ArgumentOf(s, l.args[i])]
           captures == [i \in DOMAIN l.args |-> Instruction(s, "capture", refs[i])]
           op   == IF n = 0 THEN "call" ELSE "commit"
           last == Instruction(s, op, Nothing)
           q == Append(captures, last)
           yes == TRUE
           u == AddCall(Emit(s, q), l.name, yes, n)
<1>0. InvokeLine(s, l) \in {Diagnose(s), Emit(s, <<Instruction(s, "routine", Nothing)>>), u}
  BY DEF InvokeLine
<1>1. n \in Nat /\ DOMAIN l.args = 1 .. n
  BY SeqFacts
<1>2. op \in {"call", "commit"}
  OBVIOUS
<1> HIDE DEF n, op, yes
<1>3. /\ IsSeq(captures) /\ Len(captures) = n
      /\ \A i \in 1 .. n : /\ GoodCode(captures[i], 1) /\ captures[i].line = s.line
                           /\ captures[i].op = "capture"
  <2>1. \A i \in 1 .. n : captures[i] = Instruction(s, "capture", refs[i])
    BY <1>1
  <2>2. captures = [i \in 1 .. n |-> captures[i]]
    BY <1>1
  <2> HIDE DEF captures, refs
  <2>3. IsSeq(captures) /\ Len(captures) = n
    BY <1>1, <2>2, FunctionSeq
  <2>4. ASSUME NEW i \in 1 .. n
        PROVE  /\ GoodCode(captures[i], 1) /\ captures[i].line = s.line
               /\ captures[i].op = "capture"
    <3> DEFINE ref == refs[i]
    <3> HIDE DEF ref
    <3>1. GoodCode(Instruction(s, "capture", ref), 1)
      BY InstructionFresh
    <3>2. captures[i] = Instruction(s, "capture", ref)
      BY <2>1 DEF ref
    <3> QED
      BY <3>1, <3>2 DEF Instruction
  <2> QED
    BY <2>3, <2>4
<1>4. GoodCode(last, 1) /\ last.line = s.line /\ last.op = op
  BY InstructionFresh DEF Instruction
<1> HIDE DEF captures, last
<1>5. /\ IsSeq(q) /\ Len(q) = n + 1 /\ q[n + 1] = last
      /\ \A i \in 1 .. n : q[i] = captures[i]
  BY <1>3, AppendSeq
<1> HIDE DEF q
<1>6. /\ Here(s, q) /\ \A i \in 1 .. Len(q) : q[i].op \in {"call", "commit"} <=> i = Len(q)
      /\ \A i \in 1 .. Len(q) : q[i].op \notin {"jmp"}
  <2>1. \A i \in 1 .. Len(q) : i \in 1 .. n \/ i = n + 1
    BY <1>1, <1>5
  <2>2. /\ \A i \in 1 .. Len(q) : GoodCode(q[i], 1) /\ q[i].line = s.line
        /\ \A i \in 1 .. n : q[i].op = "capture"
        /\ q[n + 1].op \in {"call", "commit"}
    BY <1>2, <1>3, <1>4, <1>5, <2>1
  <2>3. q # <<>>
    BY <1>1, <1>5, SeqFacts
  <2>4. Here(s, q)
    BY <1>5, <2>2, <2>3 DEF Here, Fresh
  <2> QED
    BY <1>1, <1>5, <2>1, <2>2, <2>4
<1>7. Moved(s, u, l)
  BY <1>6, CallMoved
<1>8. Moved(s, Diagnose(s), l)
  BY FaultsStay, FaultyMoved DEF Sound
<1> HIDE DEF u
<1> QED
  BY <1>0, <1>7, <1>8, CodeMoved

LEMMA RetMoved ==
  ASSUME NEW s, Sound(s), NEW l, l.op = "ret"
  PROVE  Moved(s, RetLine(s, l), l)
<1> DEFINE a == s.procs[s.open]
           b == IF l.pops = -1 THEN [a EXCEPT !.plain = TRUE]
                ELSE [a EXCEPT !.pops = @ \cup {l.pops}]
           noted == IF s.open = 0 THEN s ELSE [s EXCEPT !.procs[s.open] = b]
           ret == <<Instruction(s, "ret", Nothing)>>
           t == Emit(noted, ret)
<1>1. RetLine(s, l) = t
  BY OpenRange DEF RetLine
<1>2. Here(s, ret) /\ \A i \in 1 .. Len(ret) : ret[i].op \notin {"jmp", "call", "commit"}
  BY InstructionHere
<1> HIDE DEF ret
<1>3. /\ Sound(noted) /\ Placed(s, noted) /\ (~Faulty(noted) => ~Faulty(s))
      /\ noted.line = s.line /\ noted.policy = s.policy
  <2>1. CASE s.open = 0
    BY <2>1 DEF Placed
  <2>2. CASE s.open # 0
    <3>1. /\ GoodRange(b, Len(s.code)) /\ b.start = s.procs[s.open].start
          /\ b.end = s.procs[s.open].end /\ b.line = s.procs[s.open].line
      BY <2>2, OpenRange DEF GoodRange, RangeFields
    <3>2. noted = [s EXCEPT !.procs[s.open] = b] /\ Noting(s, b, noted)
      BY <2>2 DEF Noting
    <3> HIDE DEF b, noted
    <3>3. Handles(s, noted)
      BY <2>2, <3>1, <3>2, RangeReplaced
    <3>4. /\ Placed(s, noted) /\ (~Faulty(noted) => ~Faulty(s))
          /\ noted.line = s.line /\ noted.policy = s.policy
      BY <3>1, <3>2, NotedPlaced
    <3> QED
      BY <3>3, <3>4 DEF Handles
  <2> QED
    BY <2>1, <2>2
<1> HIDE DEF noted
<1>4. ASSUME ~Faulty(t)
      PROVE  ~Faulty(s) /\ Moves(s, t, l)
  <2>1. ~Faulty(noted) /\ Emits(noted, t, ret)
    BY <1>2, <1>3, <1>4, EmitPlaces DEF Here
  <2> DEFINE jumps == {"jmp"}
             calls == {"call", "commit"}
  <2>2. /\ \A i \in 1 .. Len(ret) : ret[i].op \notin jumps
        /\ \A i \in 1 .. Len(ret) : ret[i].op \notin calls
        /\ IsSeq(s.branches) /\ IsSeq(s.calls)
    BY <1>2, Lengths
  <2> HIDE DEF t, jumps, calls
  <2>3. Emits(s, t, ret)
    BY <1>3, <2>1 DEF Emits, Placed
  <2>4. FixupsMove(s.branches, s.branches, jumps, s, t, l) /\ FixupsMove(s.calls, s.calls, calls, s, t, l)
    BY <1>2, <2>2, <2>3, NoFixups
  <2>5. FixupsMove(s.branches, t.branches, jumps, s, t, l) /\ FixupsMove(s.calls, t.calls, calls, s, t, l)
    BY <2>3, <2>4 DEF Emits
  <2>6. Moves(s, t, l)
    BY <1>2, <2>3, <2>5, EmitsMoves DEF jumps, calls
  <2> QED
    BY <1>3, <2>1, <2>6
<1>5. Moved(s, t, l)
  BY <1>4 DEF Moved
<1> QED
  BY <1>1, <1>5

\* A new label has no target yet.
Labels(s, t) ==
  /\ t.code = s.code /\ t.branches = s.branches /\ t.calls = s.calls /\ t.procs = s.procs
  /\ Len(t.labels) = Len(s.labels) + 1
  /\ \A j \in 1 .. Len(s.labels) : t.labels[j] = s.labels[j]
  /\ t.labels[Len(s.labels) + 1].target = -1 /\ t.labels[Len(s.labels) + 1].line = s.line
  /\ t.pending = s.pending \cup {Len(s.labels) + 1}

LEMMA AddLabelPlaces ==
  ASSUME NEW s, Sound(s), NEW n, NEW isProc, ~Faulty(AddLabel(s, n, isProc))
  PROVE  ~Faulty(s) /\ Labels(s, AddLabel(s, n, isProc))
<1>1. DOMAIN s = Fields /\ Judged(s) /\ IsSeq(s.labels)
  BY DEF Sound, Judged, LabelsFit
<1> DEFINE e == [name |-> n, isProc |-> isProc, target |-> -1, line |-> s.line]
           added == [s EXCEPT !.labels = Append(@, e)]
           stopped == [added EXCEPT !.stop = TRUE, !.go = FALSE]
           t == [added EXCEPT !.pending = @ \cup {Len(added.labels)}]
<1>2. e.target = -1 /\ e.line = s.line
  OBVIOUS
<1>3. AddLabel(s, n, isProc) \in {Refuse(s), Exceed(s), stopped, t}
  BY DEF AddLabel
<1> HIDE DEF e
<1>4. /\ Len(Append(s.labels, e)) = Len(s.labels) + 1
      /\ \A i \in 1 .. Len(s.labels) : Append(s.labels, e)[i] = s.labels[i]
      /\ Append(s.labels, e)[Len(s.labels) + 1] = e
  BY <1>1, AppendSeq
<1>5. Faulty(stopped)
  BY <1>1 DEF Faulty, Fields
<1>6. /\ t.labels = Append(s.labels, e) /\ (~Faulty(t) => ~Faulty(s))
      /\ t.pending = s.pending \cup {Len(Append(s.labels, e))}
      /\ t.code = s.code /\ t.branches = s.branches /\ t.calls = s.calls /\ t.procs = s.procs
  BY <1>1 DEF Faulty, Fields
<1> HIDE DEF t, stopped
<1>7. AddLabel(s, n, isProc) = t
  BY <1>1, <1>3, <1>5, FaultsStay
<1>8. Labels(s, t)
  BY <1>2, <1>4, <1>6 DEF Labels
<1> QED
  BY <1>6, <1>7, <1>8

LEMMA LabelMoved ==
  ASSUME NEW s, Sound(s), NEW l, l.op = "label"
  PROVE  Moved(s, LabelLine(s, l), l)
<1> DEFINE no == FALSE
           yes == TRUE
           t == AddLabel(s, l.name, no)
<1>1. LabelLine(s, l) = [t EXCEPT !.go = yes]
  BY DEF LabelLine
<1> HIDE DEF no, yes
<1>2. DOMAIN t = Fields
  BY AddLabelSound DEF Declares, Handles, Sound, Judged
<1>3. ASSUME ~Faulty(t)
      PROVE  ~Faulty(s) /\ Moves(s, t, l)
  <2>1. ~Faulty(s) /\ Labels(s, t)
    BY <1>3, AddLabelPlaces
  <2> HIDE DEF t
  <2>2. /\ Len(s.code) \in Nat /\ Len(s.labels) \in Nat /\ Len(s.procs) \in Nat
        /\ Len(s.branches) \in Nat /\ Len(s.calls) \in Nat
    BY Lengths
  <2>3. CodeMoves(s, t) /\ RangesMove(s, t, l)
    BY <1>3, <2>1, <2>2 DEF Labels, CodeMoves, RangesMove
  <2>4. LabelsMove(s, t)
    BY <2>1, <2>2 DEF Labels, LabelsMove
  <2>5. \A ops : FixupsMove(s.branches, t.branches, ops, s, t, l)
                   /\ FixupsMove(s.calls, t.calls, ops, s, t, l)
    BY <2>1, <2>2 DEF Labels, FixupsMove
  <2> QED
    BY <2>1, <2>3, <2>4, <2>5 DEF Moves
<1>4. Moved(s, t, l)
  BY <1>3 DEF Moved
<1>5. Fixed(t, [t EXCEPT !.go = yes])
  <2> HIDE DEF t
  <2> QED
    BY <1>2, ControlFixed
<1> HIDE DEF t
<1> QED
  BY <1>1, <1>4, <1>5, FixedMoved

\* The waiting labels are forgotten, and nothing else.
Forgets(s, f) ==
  /\ f.refused = s.refused /\ f.overflowed = s.overflowed /\ f.stop = s.stop
  /\ f.code = s.code /\ f.labels = s.labels /\ f.pending = {} /\ f.line = s.line
  /\ f.branches = s.branches /\ f.calls = s.calls /\ f.procs = s.procs /\ f.open = s.open

LEMMA ForgetForgets ==
  ASSUME NEW s, Sound(s)
  PROVE  Forgets(s, Forget(s)) /\ Sound(Forget(s))
<1>1. DOMAIN s = Fields
  BY Lengths
<1> QED
  BY <1>1, ForgetSound DEF Forget, Forgets, Fields, Declares, Handles

LEMMA ProcMoved ==
  ASSUME NEW s, Sound(s), NEW l, l.op = "proc"
  PROVE  Moved(s, ProcLine(s, l), l)
<1> DEFINE yes == TRUE
           f == Forget(s)
           t == AddLabel(f, l.name, yes)
           here == Len(s.code)
           range == [name |-> l.name, start |-> here, end |-> here, runs |-> FALSE,
                     uses |-> l.uses, locals |-> <<>>, plain |-> FALSE, pops |-> {},
                     line |-> s.line]
           u == [t EXCEPT !.procs = Append(@, range), !.open = Len(s.procs) + 1]
<1>1. \/ ProcLine(s, l) \in {Refuse(f), Exceed(t), u}
      \/ ProcLine(s, l) = t /\ ~t.go
  <2>1. CASE ~GoodUses(l.uses)
    BY <2>1 DEF ProcLine
  <2>2. CASE GoodUses(l.uses) /\ ~t.go
    BY <2>2 DEF ProcLine
  <2>3. CASE GoodUses(l.uses) /\ t.go
    <3>1. ProcLine(s, l) = IF Len(s.procs) >= Capacity["procs"] THEN Exceed(t) ELSE u
      BY <2>3 DEF ProcLine
    <3> HIDE DEF t, u
    <3> QED
      BY <3>1
  <2> QED
    BY <2>1, <2>2, <2>3
<1> HIDE DEF yes
<1>2. Forgets(s, f) /\ Sound(f)
  BY ForgetForgets
<1>3. Sound(t) /\ DOMAIN t = Fields /\ Judged(t) /\ (~t.go => Faulty(t))
  <2> HIDE DEF f
  <2>1. Declares(f, t)
    BY <1>2, AddLabelSound
  <2> HIDE DEF t
  <2> QED
    BY <2>1 DEF Declares, Handles, Sound, Judged
<1>4. range.start = Len(s.code) /\ range.line = s.line
  OBVIOUS
<1> HIDE DEF range
<1>5. ASSUME ~Faulty(u)
      PROVE  ~Faulty(s) /\ Moves(s, u, l)
  <2>1. /\ u.procs = Append(t.procs, range) /\ u.labels = t.labels /\ u.pending = t.pending
        /\ u.code = t.code /\ u.branches = t.branches /\ u.calls = t.calls /\ ~Faulty(t)
    <3> HIDE DEF t
    <3> QED
      BY <1>3, <1>5 DEF Fields, Faulty
  <2>2. ~Faulty(f) /\ Labels(f, t)
    <3> HIDE DEF f
    <3> QED
      BY <1>2, <2>1, AddLabelPlaces
  <2> HIDE DEF u, t, f
  <2>3. ~Faulty(s)
    BY <1>2, <2>2 DEF Forgets, Faulty
  <2>4. /\ Len(s.code) \in Nat /\ Len(s.labels) \in Nat /\ Len(s.procs) \in Nat
        /\ Len(s.branches) \in Nat /\ Len(s.calls) \in Nat /\ IsSeq(s.procs)
    BY Lengths
  <2>5. /\ Len(u.procs) = Len(s.procs) + 1
        /\ \A k \in 1 .. Len(s.procs) : u.procs[k] = s.procs[k]
        /\ u.procs[Len(s.procs) + 1] = range
    <3>1. u.procs = Append(s.procs, range)
      BY <1>2, <2>1, <2>2 DEF Forgets, Labels
    <3> QED
      BY <2>4, <3>1, AppendSeq
  <2>6. u.code = s.code /\ u.branches = s.branches /\ u.calls = s.calls
    BY <1>2, <2>1, <2>2 DEF Forgets, Labels
  <2>7. CodeMoves(s, u)
    BY <2>4, <2>6 DEF CodeMoves
  <2>8. RangesMove(s, u, l)
    <3>1. \A k \in 1 .. Len(u.procs) : k > Len(s.procs) => k = Len(s.procs) + 1
      BY <2>4, <2>5
    <3>2. l.op \notin {"endp", "end"} /\ l.op = "proc"
      OBVIOUS
    <3> QED
      BY <1>4, <2>4, <2>5, <2>6, <3>1, <3>2 DEF RangesMove
  <2>9. LabelsMove(s, u)
    <3>1. /\ Len(u.labels) = Len(s.labels) + 1 /\ u.pending = {Len(s.labels) + 1}
          /\ \A j \in 1 .. Len(s.labels) : u.labels[j] = s.labels[j]
          /\ u.labels[Len(s.labels) + 1].target = -1
          /\ u.labels[Len(s.labels) + 1].line = s.line
      BY <1>2, <2>1, <2>2 DEF Forgets, Labels
    <3> QED
      BY <2>4, <2>6, <3>1 DEF LabelsMove
  <2>10. \A ops : FixupsMove(s.branches, u.branches, ops, s, u, l)
                   /\ FixupsMove(s.calls, u.calls, ops, s, u, l)
    BY <2>4, <2>6 DEF FixupsMove
  <2> QED
    BY <2>3, <2>7, <2>8, <2>9, <2>10 DEF Moves
<1>6. Moved(s, u, l)
  BY <1>5 DEF Moved
<1>7. Faulty(Refuse(f)) /\ Faulty(Exceed(t))
  <2>1. Judged(f)
    BY <1>2 DEF Sound
  <2> HIDE DEF f, t
  <2> QED
    BY <1>3, <2>1, FaultsStay
<1>8. Moved(s, Refuse(f), l) /\ Moved(s, Exceed(t), l) /\ (~t.go => Moved(s, t, l))
  BY <1>3, <1>7, FaultyMoved
<1> HIDE DEF u, t, f
<1> QED
  BY <1>1, <1>6, <1>8

\* The range of the open procedure ends where the code does, and no label waits.
Closes(s, t) ==
  /\ ~Faulty(t) => ~Faulty(s)
  /\ t.code = s.code /\ t.labels = s.labels /\ t.pending = {}
  /\ t.branches = s.branches /\ t.calls = s.calls /\ Len(t.procs) = Len(s.procs)
  /\ \A k \in 1 .. Len(s.procs) :
       /\ t.procs[k].start = s.procs[k].start /\ t.procs[k].line = s.procs[k].line
       /\ t.procs[k].end = IF k = s.open THEN Len(s.code) ELSE s.procs[k].end

LEMMA CloseCloses ==
  ASSUME NEW s, Sound(s)
  PROVE  LET t == CloseRange(Forget(s))
         IN  Closes(s, t) /\ DOMAIN t = Fields
<1> DEFINE f == Forget(s)
           t == CloseRange(f)
<1>1. Forgets(s, f) /\ Sound(f) /\ DOMAIN f = Fields
  BY ForgetForgets, Lengths
<1>2. CASE s.open = 0
  <2>1. t = f
    BY <1>1, <1>2 DEF CloseRange, Forgets
  <2>2. \A k \in 1 .. Len(s.procs) : k # s.open
    BY <1>2
  <2> HIDE DEF f, t
  <2> QED
    BY <1>1, <1>2, <2>1, <2>2 DEF Closes, Forgets, Faulty, f, t
<1>3. CASE s.open # 0
  <2> HIDE DEF f
  <2>1. f.open = s.open /\ f.procs = s.procs /\ f.code = s.code /\ f.open # 0
    BY <1>1, <1>3 DEF Forgets
  <2> DEFINE e == Len(f.code) > f.procs[f.open].start
             a == f.procs[f.open]
             b == [a EXCEPT !.end = Len(f.code), !.runs = e]
             u == [f EXCEPT !.procs[f.open] = b]
  <2>2. CloseRange(f) = [f EXCEPT !.procs[f.open].end = Len(f.code), !.procs[f.open].runs = e]
    BY <2>1 DEF CloseRange
  <2> HIDE DEF e
  <2>3. [f EXCEPT !.procs[f.open].end = Len(f.code), !.procs[f.open].runs = e] = u
    BY <1>1, <2>1, OpenRange DEF Fields
  <2>4. b.start = a.start /\ b.line = a.line /\ b.end = Len(f.code)
    BY <1>1, <2>1, OpenRange DEF GoodRange, RangeFields
  <2>5. Noting(f, b, u)
    BY <2>1 DEF Noting
  <2> HIDE DEF b, u
  <2>6. /\ (~Faulty(u) => ~Faulty(f)) /\ Len(u.procs) = Len(f.procs) /\ u.procs[f.open] = b
        /\ \A k \in 1 .. Len(f.procs) : k # f.open => u.procs[k] = f.procs[k]
        /\ DOMAIN u = Fields
    BY <1>1, <2>5, OpenChanged
  <2>7. /\ u.code = f.code /\ u.labels = f.labels /\ u.pending = f.pending
        /\ u.branches = f.branches /\ u.calls = f.calls
    BY <1>1, <2>5 DEF Noting, Fields
  <2>8. Closes(s, u)
    <3>1. ~Faulty(u) => ~Faulty(s)
      BY <1>1, <2>6 DEF Forgets, Faulty
    <3>2. \A k \in 1 .. Len(s.procs) :
            /\ u.procs[k].start = s.procs[k].start /\ u.procs[k].line = s.procs[k].line
            /\ u.procs[k].end = IF k = s.open THEN Len(s.code) ELSE s.procs[k].end
      BY <2>1, <2>4, <2>6
    <3> QED
      BY <1>1, <2>1, <2>6, <2>7, <3>1, <3>2 DEF Closes, Forgets
  <2> QED
    BY <2>2, <2>3, <2>6, <2>8 DEF f
<1> QED
  BY <1>2, <1>3

LEMMA ClosedMoves ==
  ASSUME NEW s, Sound(s), NEW t, Closes(s, t), NEW l, l.op \in {"endp", "end"}
  PROVE  Moves(s, t, l)
<1>1. /\ Len(s.code) \in Nat /\ Len(s.labels) \in Nat /\ Len(s.procs) \in Nat
      /\ Len(s.branches) \in Nat /\ Len(s.calls) \in Nat /\ s.open \in {0, Len(s.procs)}
  BY Lengths DEF Sound, RangesFit
<1>2. CodeMoves(s, t) /\ LabelsMove(s, t)
  BY <1>1 DEF Closes, CodeMoves, LabelsMove
<1>3. RangesMove(s, t, l)
  <2>1. s.open # 0 => s.open \in 1 .. Len(s.procs)
    BY <1>1
  <2> QED
    BY <1>1, <2>1 DEF Closes, RangesMove
<1>4. \A ops : FixupsMove(s.branches, t.branches, ops, s, t, l)
                 /\ FixupsMove(s.calls, t.calls, ops, s, t, l)
  BY <1>1 DEF Closes, FixupsMove
<1> QED
  BY <1>2, <1>3, <1>4 DEF Moves, Closes

LEMMA EndsMoved ==
  ASSUME NEW s, Sound(s), NEW l
  PROVE  /\ l.op = "endp" => Moved(s, EndpLine(s, l), l)
         /\ l.op = "end" => Moved(s, EndLine(s, l), l)
<1> DEFINE t == CloseRange(Forget(s))
           proc == First(Matches(s.procs, l.name, s.policy))
           u == [t EXCEPT !.open = 0]
           v == [t EXCEPT !.entry = proc, !.phase = "ended"]
<1>1. Closes(s, t) /\ DOMAIN t = Fields /\ Faulty(Refuse(t)) /\ Faulty(Refuse(Forget(s)))
  BY CloseCloses, ForgetKeeps
<1>2. EndpLine(s, l) \in {Refuse(Forget(s)), u} /\ EndLine(s, l) \in {Refuse(t), v}
  BY DEF EndpLine, EndLine
<1> HIDE DEF t, proc
<1>3. Fixed(t, u) /\ Fixed(t, v)
  BY <1>1 DEF Fixed, Fields
<1> HIDE DEF u, v
<1>4. l.op \in {"endp", "end"} => Moved(s, t, l)
  BY <1>1, ClosedMoves DEF Moved, Closes
<1>5. l.op \in {"endp", "end"} => Moved(s, u, l) /\ Moved(s, v, l)
  BY <1>3, <1>4, FixedMoved
<1>6. Moved(s, Refuse(t), l) /\ Moved(s, Refuse(Forget(s)), l)
  BY <1>1, FaultyMoved
<1> QED
  BY <1>2, <1>5, <1>6

-----------------------------------------------------------------------------
(* What END makes of them *)

\* CodeMeansItsSource, for the lines q and the code of s.
After(q, k) == First({b \in Edges(q) : b > k})
Before(q, k) == Highest({b \in Edges(q) : b < k})
Within(q, k) == /\ Before(q, k) # 0 /\ After(q, k) # 0
                /\ q[Before(q, k)].op = "proc" /\ q[After(q, k)].op # "proc"
CodeAfter(code, k) == First({i \in DOMAIN code : code[i].line > k}) - 1
Named(q, c) == {d \in Where(q, IF c.op = "jmp" THEN {"label", "proc"} ELSE {"proc"}) :
                  Agree(q, d, c.line)}

GoesWhereNamed(q, code, i) ==
  code[i].op \in {"jmp", "call", "commit"} =>
    \A d : Named(q, code[i]) = {d} => code[i].target = CodeAfter(code, d)
ComesBack(q, code, i) ==
  code[i].op \in {"call", "commit"} /\ Within(q, code[i].line) =>
    code[i].back = IF i < Len(code) /\ code[i + 1].line < After(q, code[i].line)
                   THEN i ELSE Len(code)
Meant(q, code) == \A i \in 1 .. Len(code) : GoesWhereNamed(q, code, i) /\ ComesBack(q, code, i)

LEMMA FirstAfter ==
  ASSUME NEW code, Len(code) \in Nat, DOMAIN code = 1 .. Len(code), NEW at \in 0 .. Len(code) - 1,
         NEW k \in Nat, Splits(code, at, k), \A i \in 1 .. Len(code) : code[i].line \in Nat
  PROVE  CodeAfter(code, k) = at
<1> DEFINE S == {i \in DOMAIN code : code[i].line > k}
<1>1. at + 1 \in S
  BY DEF Splits
<1>2. \A i \in S : i \in Nat /\ at + 1 <= i
  BY DEF Splits
<1> HIDE DEF S
<1>3. First(S) = at + 1
  BY <1>1, <1>2 DEF First
<1> QED
  BY <1>3 DEF CodeAfter, S

\* The procedures that hold an instruction, by the places of their ranges.
LEMMA OneRange ==
  ASSUME NEW s, Sound(s), NEW i \in Nat, NEW j \in 1 .. Len(s.procs),
         s.procs[j].start <= i, i < s.procs[j].end
  PROVE  First({k \in DOMAIN s.procs : s.procs[k].start <= i /\ i < s.procs[k].end}) = j
<1> DEFINE S == {k \in DOMAIN s.procs : s.procs[k].start <= i /\ i < s.procs[k].end}
<1>1. Len(s.procs) \in Nat /\ DOMAIN s.procs = 1 .. Len(s.procs) /\ Ordered(s.procs)
        /\ \A k \in 1 .. Len(s.procs) : s.procs[k].start \in Nat /\ s.procs[k].end \in Nat
  BY SeqFacts DEF Sound, RangesFit, GoodRange
<1>2. j \in S
  BY <1>1
<1>3. ASSUME NEW k \in S
      PROVE  k = j
  <2>1. ~(k < j) /\ ~(j < k)
    BY <1>1 DEF Ordered
  <2> QED
    BY <1>1, <2>1
<1>4. S = {j}
  BY <1>2, <1>3
<1> HIDE DEF S
<1>5. First(S) = j
  BY <1>1, <1>4 DEF First
<1> QED
  BY <1>5 DEF S

\* The table entry the name of a line means is the one declaration it names.
LEMMA EntryMeant ==
  ASSUME NEW q, NEW ops, NEW table, Tells(table, q, ops), NEW k, NEW n, n = q[k].name,
         NEW policy, policy = PolicyIn(q, k), First(Matches(table, n, policy)) # 0
  PROVE  LET j == First(Matches(table, n, policy))
         IN  /\ j \in 1 .. Len(table)
             /\ table[j].line \in {d \in Where(q, ops) : Agree(q, d, k)}
<1> DEFINE M == Matches(table, n, policy)
           j == First(M)
<1>1. DOMAIN table = 1 .. Len(table) /\ Len(table) \in Nat
  BY SeqFacts DEF Tells
<1>2. M \subseteq Nat /\ M # {}
  BY <1>1 DEF Matches, First
<1>3. j \in M
  <2> HIDE DEF M
  <2> QED
    BY <1>2, FirstIsMember
<1>4. j \in 1 .. Len(table) /\ Same(table[j].name, n, policy)
  BY <1>1, <1>3 DEF Matches
<1> HIDE DEF M, j
<1>5. table[j].line \in Where(q, ops) /\ table[j].name = q[table[j].line].name
  BY <1>4 DEF Tells
<1> QED
  BY <1>4, <1>5 DEF Agree, M, j

\* Where a branch and a call lead, once resolved.
JumpSet(q, s, i, c) ==
  LET k == s.code[i].line
      j == First(Matches(s.labels, q[k].name, PolicyIn(q, k)))
  IN  /\ j # 0 /\ s.labels[j].target # -1 /\ c.target = s.labels[j].target
      /\ c.line = s.code[i].line /\ c.op = s.code[i].op
CallSet(q, s, i, c) ==
  LET k == s.code[i].line
      j == First(Matches(s.procs, q[k].name, PolicyIn(q, k)))
  IN  /\ j # 0 /\ ~(s.procs[j].start >= Len(s.code)) /\ c.target = s.procs[j].start
      /\ c.back = ReturnToken(s, i - 1)
      /\ c.line = s.code[i].line /\ c.op = s.code[i].op

LEMMA JumpResolved ==
  ASSUME NEW q, NEW s, Sound(s), CodeTold(q, s), AllResolve(s), NEW i \in 1 .. Len(s.code),
         s.code[i].op = "jmp"
  PROVE  JumpSet(q, s, i, Resolved(s, i))
<1> DEFINE bs == {k \in DOMAIN s.branches : s.branches[k].at = i /\ ~BranchRefused(s, s.branches[k])}
           b == s.branches[CHOOSE k \in bs : TRUE]
           j == First(Matches(s.labels, b.name, b.policy))
<1>1. DOMAIN s.branches = 1 .. Len(s.branches) /\ DOMAIN s.code[i] = CodeFields
  BY SeqFacts DEF Sound, Judged, CodeFits, GoodCode
<1>2. FixupsTold(s.branches, {"jmp"}, q, s.code)
  BY DEF CodeTold
<1>3. bs # {}
  <2>1. PICK c \in 1 .. Len(s.branches) : s.branches[c].at = i
    BY <1>2 DEF FixupsTold
  <2> QED
    BY <1>1, <2>1 DEF AllResolve
<1>4. (CHOOSE k \in bs : TRUE) \in bs
  BY <1>3
<1>5. b.at = i /\ ~BranchRefused(s, b) /\ (CHOOSE k \in bs : TRUE) \in 1 .. Len(s.branches)
  BY <1>1, <1>4
<1>6. Resolved(s, i) = [s.code[i] EXCEPT !.target = s.labels[j].target]
  BY <1>3 DEF Resolved
<1>7. b.name = q[s.code[i].line].name /\ b.policy = PolicyIn(q, s.code[i].line)
  <2> DEFINE k == CHOOSE k \in bs : TRUE
  <2>1. k \in 1 .. Len(s.branches) /\ s.branches[k].at = i /\ b = s.branches[k]
    BY <1>5
  <2> HIDE DEF k, b
  <2> QED
    BY <1>2, <2>1 DEF FixupsTold
<1> HIDE DEF b, bs
<1>8. j # 0 /\ s.labels[j].target # -1
  BY <1>5 DEF BranchRefused
<1> QED
  BY <1>1, <1>6, <1>7, <1>8 DEF JumpSet, CodeFields

LEMMA CallResolved ==
  ASSUME NEW q, NEW s, Sound(s), CodeTold(q, s), AllResolve(s), NEW i \in 1 .. Len(s.code),
         s.code[i].op \in {"call", "commit"}
  PROVE  CallSet(q, s, i, Resolved(s, i))
<1> DEFINE bs == {k \in DOMAIN s.branches : s.branches[k].at = i /\ ~BranchRefused(s, s.branches[k])}
           cs == {k \in DOMAIN s.calls : s.calls[k].at = i /\ ~CallRefused(s, s.calls[k])}
           b == s.calls[CHOOSE k \in cs : TRUE]
           j == First(Matches(s.procs, b.name, b.policy))
           back == ReturnToken(s, i - 1)
<1>1. /\ DOMAIN s.branches = 1 .. Len(s.branches) /\ DOMAIN s.calls = 1 .. Len(s.calls)
      /\ DOMAIN s.code[i] = CodeFields
  BY SeqFacts DEF Sound, Judged, CodeFits, GoodCode
<1>2. FixupsTold(s.branches, {"jmp"}, q, s.code) /\ FixupsTold(s.calls, {"call", "commit"}, q, s.code)
  BY DEF CodeTold
<1>3. cs # {} /\ bs = {}
  <2>1. PICK c \in 1 .. Len(s.calls) : s.calls[c].at = i
    BY <1>2 DEF FixupsTold
  <2>2. \A k \in DOMAIN s.branches : s.branches[k].at # i
    BY <1>1, <1>2 DEF FixupsTold
  <2> QED
    BY <1>1, <2>1, <2>2 DEF AllResolve
<1>4. (CHOOSE k \in cs : TRUE) \in cs
  BY <1>3
<1>5. b.at = i /\ ~CallRefused(s, b) /\ (CHOOSE k \in cs : TRUE) \in 1 .. Len(s.calls)
  BY <1>1, <1>4
<1>6. Resolved(s, i) = [s.code[i] EXCEPT !.target = s.procs[j].start, !.back = back]
  BY <1>3 DEF Resolved
<1>7. b.name = q[s.code[i].line].name /\ b.policy = PolicyIn(q, s.code[i].line)
  <2> DEFINE k == CHOOSE k \in cs : TRUE
  <2>1. k \in 1 .. Len(s.calls) /\ s.calls[k].at = i /\ b = s.calls[k]
    BY <1>5
  <2> HIDE DEF k, b
  <2> QED
    BY <1>2, <2>1 DEF FixupsTold
<1> HIDE DEF b, bs, cs, back
<1>8. j # 0 /\ ~(s.procs[j].start >= Len(s.code))
  BY <1>5 DEF CallRefused
<1> QED
  BY <1>1, <1>6, <1>7, <1>8 DEF CallSet, CodeFields, back

\* No code stands at a line where a procedure begins or ends, as far as one began before it; so
\* what lies between two such lines lies in the range of the procedure.
LEMMA InsideRange ==
  ASSUME NEW q, q \in Seq(Line), NEW s, Sound(s), ProcsTold(q, s), Traced(q, s),
         NEW i \in 1 .. Len(s.code), NEW k, k = s.code[i].line, Within(q, k)
  PROVE  \E j \in 1 .. Len(s.procs) :
           /\ s.procs[j].start \in Nat /\ s.procs[j].end \in Nat /\ s.procs[j].end <= Len(s.code)
           /\ s.procs[j].start < i /\ i <= s.procs[j].end
           /\ Splits(s.code, s.procs[j].end, After(q, k)) /\ After(q, k) \in Nat
<1> DEFINE n == Len(q)
           B == {b \in Edges(q) : b < k}
           A == {b \in Edges(q) : b > k}
           d == Before(q, k)
           e == After(q, k)
<1>1. n \in Nat /\ Edges(q) \subseteq 1 .. n /\ k \in 1 .. n /\ Len(s.code) \in Nat
        /\ DOMAIN q = 1 .. n
  BY Lengths DEF Traced, CodeTold, Edges, Where
<1>2. d \in B /\ \A b \in B : b <= d
  <2>1. B # {} /\ B \subseteq 1 .. n
    BY <1>1 DEF Within, Before, Highest
  <2> HIDE DEF B
  <2>2. Highest(B) \in B /\ \A b \in B : b <= Highest(B)
    BY <1>1, <2>1, HighestIsMember
  <2> QED
    BY <2>2 DEF Before, B
<1>3. e \in A /\ \A b \in A : e <= b
  <2>1. A # {} /\ A \subseteq Nat
    BY <1>1 DEF Within, After, First
  <2> HIDE DEF A
  <2>2. First(A) \in A
    BY <2>1, FirstIsMember
  <2>3. \E x \in A : \A y \in A : x <= y
    <3> DEFINE R == {x \in Nat \X Nat : x[1] < x[2]}
    <3>1. PICK x \in A : \A y \in A : <<y, x>> \notin R
      BY <2>1, LessWellFounded, WFMin
    <3>2. ASSUME NEW y \in A
          PROVE  x <= y
      <4>1. <<y, x>> \in Nat \X Nat /\ <<y, x>> \notin R
        BY <2>1, <3>1
      <4>2. ~(<<y, x>>[1] < <<y, x>>[2])
        BY <4>1
      <4> QED
        BY <2>1, <3>1, <4>2
    <3> QED
      BY <3>1, <3>2
  <2>4. \A y \in A : First(A) <= y
    BY <2>1, <2>3 DEF First
  <2> QED
    BY <2>2, <2>4 DEF After, A
<1>4. q[d].op = "proc" /\ q[e].op # "proc"
  BY DEF Within
<1> HIDE DEF d, e
<1>5. d \in Edges(q) /\ d < k /\ e \in Edges(q) /\ e > k /\ d \in 1 .. n /\ e \in 1 .. n
  BY <1>1, <1>2, <1>3
<1>6. d \in Where(q, {"proc"}) /\ e \in Closers(q)
  BY <1>1, <1>4, <1>5 DEF Edges, Where, Closers
<1>7. PICK j \in 1 .. Len(s.procs) : s.procs[j].line = d
  BY <1>6 DEF ProcsTold, Tells
<1>8. GoodRange(s.procs[j], Len(s.code))
  BY DEF Sound, RangesFit
<1>9. Splits(s.code, s.procs[j].start, d)
  BY <1>7 DEF Traced, StartsPlaced
<1>10. k \notin Edges(q)
  <2>1. CASE k \in Where(q, {"proc"})
    <3>1. PICK m \in 1 .. Len(s.procs) : s.procs[m].line = k
      BY <2>1 DEF ProcsTold, Tells
    <3>2. Splits(s.code, s.procs[m].start, k)
      BY <3>1 DEF Traced, StartsPlaced
    <3> QED
      BY <1>1, <3>2 DEF Splits
  <2>2. CASE k \in Closers(q)
    <3>1. Follows(q, k, d)
      BY <1>1, <1>2, <1>5 DEF Follows
    <3>2. Splits(s.code, s.procs[j].end, k)
      BY <1>7, <2>2, <3>1 DEF Traced, EndsPlaced
    <3> QED
      BY <1>1, <3>2 DEF Splits
  <2> QED
    BY <2>1, <2>2 DEF Edges, Where, Closers
<1>11. Follows(q, e, d)
  <2>1. ASSUME NEW b \in Edges(q), d < b, b < e
        PROVE  FALSE
    <3>1. b \in 1 .. n /\ b # k
      BY <1>1, <1>10
    <3>2. CASE b < k
      BY <1>1, <1>2, <1>5, <2>1, <3>1, <3>2
    <3>3. CASE b > k
      BY <1>1, <1>3, <1>5, <2>1, <3>1, <3>3
    <3> QED
      BY <1>1, <3>1, <3>2, <3>3
  <2>2. d < e
    BY <1>1, <1>5
  <2> QED
    BY <2>1, <2>2 DEF Follows
<1>12. Splits(s.code, s.procs[j].end, e)
  BY <1>6, <1>7, <1>11 DEF Traced, EndsPlaced
<1>13. s.procs[j].start < i /\ i <= s.procs[j].end
  <2>1. ~(i <= s.procs[j].start)
    BY <1>1, <1>5, <1>9 DEF Splits
  <2>2. ~~(i <= s.procs[j].end)
    BY <1>1, <1>5, <1>12 DEF Splits
  <2> QED
    BY <1>1, <1>8, <2>1, <2>2 DEF GoodRange
<1> QED
  BY <1>5, <1>8, <1>12, <1>13 DEF GoodRange, e

LEMMA CodeIsMeant ==
  ASSUME NEW q, q \in Seq(Line), NEW s, Sound(s), Told(q, s), Traced(q, s),
         NEW more \in BOOLEAN, ~Faulty(ResolveAll(s, more))
  PROVE  Meant(q, ResolveAll(s, more).code)
<1> DEFINE t == ResolveAll(s, more)
           code == t.code
<1>1. AllResolve(s) /\ code = [i \in 1 .. Len(s.code) |-> Resolved(s, i)] /\ Len(code) = Len(s.code)
  BY AllResolved
<1> HIDE DEF t, code
<1>2. /\ Len(s.code) \in Nat /\ DOMAIN s.code = 1 .. Len(s.code) /\ DOMAIN code = 1 .. Len(code)
      /\ CodeTold(q, s) /\ Tells(s.labels, q, {"label", "proc"}) /\ Tells(s.procs, q, {"proc"})
      /\ ProcsTold(q, s)
  BY <1>1, SeqFacts, Lengths DEF Traced, Told, NamesTold, ProcsTold
<1>3. \A i \in 1 .. Len(s.code) : code[i] = Resolved(s, i)
  BY <1>1
<1>4. \A i \in 1 .. Len(s.code) : /\ code[i].line = s.code[i].line /\ code[i].op = s.code[i].op
                                  /\ s.code[i].line \in 1 .. Len(q)
  <2>1. ASSUME NEW i \in 1 .. Len(s.code)
        PROVE  code[i].line = s.code[i].line /\ code[i].op = s.code[i].op
    <3>1. CASE s.code[i].op = "jmp"
      <4>1. JumpSet(q, s, i, Resolved(s, i))
        BY <1>1, <1>2, <3>1, JumpResolved
      <4> QED
        BY <1>3, <4>1 DEF JumpSet
    <3>2. CASE s.code[i].op \in {"call", "commit"}
      <4>1. CallSet(q, s, i, Resolved(s, i))
        BY <1>1, <1>2, <3>2, CallResolved
      <4> QED
        BY <1>3, <4>1 DEF CallSet
    <3>3. CASE s.code[i].op \notin {"jmp", "call", "commit"}
      <4>1. /\ DOMAIN s.branches = 1 .. Len(s.branches) /\ DOMAIN s.calls = 1 .. Len(s.calls)
            /\ FixupsTold(s.branches, {"jmp"}, q, s.code)
            /\ FixupsTold(s.calls, {"call", "commit"}, q, s.code)
        BY <1>2, SeqFacts, Lengths DEF CodeTold
      <4>2. /\ \A c \in DOMAIN s.branches : s.branches[c].at # i
            /\ \A c \in DOMAIN s.calls : s.calls[c].at # i
        BY <3>3, <4>1 DEF FixupsTold
      <4>3. Resolved(s, i) = s.code[i]
        BY <4>2 DEF Resolved
      <4> QED
        BY <1>3, <4>3
    <3> QED
      BY <3>1, <3>2, <3>3
  <2> QED
    BY <1>2, <2>1 DEF CodeTold
<1>9. ASSUME NEW i \in 1 .. Len(s.code), s.code[i].op = "jmp"
      PROVE  JumpSet(q, s, i, code[i])
  <2>1. JumpSet(q, s, i, Resolved(s, i))
    BY <1>1, <1>2, <1>9, JumpResolved
  <2> QED
    BY <1>3, <2>1
<1>10. ASSUME NEW i \in 1 .. Len(s.code), s.code[i].op \in {"call", "commit"}
       PROVE  CallSet(q, s, i, code[i])
  <2>1. CallSet(q, s, i, Resolved(s, i))
    BY <1>1, <1>2, <1>10, CallResolved
  <2> QED
    BY <1>3, <2>1
<1>5. Len(q) \in Nat /\ \A ops : Where(q, ops) \subseteq 1 .. Len(q)
  BY DEF Where
<1>6. \A at, k : Splits(s.code, at, k) => Splits(code, at, k)
  BY <1>1, <1>4 DEF Splits
<1>7. ASSUME NEW i \in 1 .. Len(code)
      PROVE  GoesWhereNamed(q, code, i)
  <2> DEFINE k == s.code[i].line
             name == q[k].name
             policy == PolicyIn(q, k)
  <2>1. SUFFICES ASSUME code[i].op \in {"jmp", "call", "commit"}, NEW d, Named(q, code[i]) = {d}
                 PROVE  code[i].target = CodeAfter(code, d)
    BY DEF GoesWhereNamed
  <2>2. i \in 1 .. Len(s.code) /\ code[i].op = s.code[i].op /\ code[i].line = k
    BY <1>1, <1>4
  <2>3. \A j \in 1 .. Len(code) : code[j].line \in Nat
    <3>1. ASSUME NEW j \in 1 .. Len(code)
          PROVE  code[j].line \in Nat
      <4>1. j \in 1 .. Len(s.code)
        BY <1>1
      <4>2. code[j].line \in 1 .. Len(q)
        BY <1>4, <4>1
      <4> QED
        BY <1>5, <4>2
    <3> QED
      BY <3>1
  <2>4. d \in Nat
    <3>1. d \in Named(q, code[i])
      BY <2>1
    <3> QED
      BY <1>5, <3>1 DEF Named
  <2>5. CASE code[i].op = "jmp"
    <3> DEFINE j == First(Matches(s.labels, name, policy))
    <3>1. j # 0 /\ s.labels[j].target # -1 /\ code[i].target = s.labels[j].target
      <4>1. s.code[i].op = "jmp" /\ code[i] = Resolved(s, i)
        BY <1>3, <2>2, <2>5
      <4> QED
        BY <1>9, <2>2, <4>1 DEF JumpSet
    <3> DEFINE ops == {"label", "proc"}
    <3>2. Tells(s.labels, q, ops) /\ Named(q, code[i]) = {x \in Where(q, ops) : Agree(q, x, k)}
      BY <1>2, <2>2, <2>5 DEF Named
    <3> HIDE DEF ops, name, policy, k
    <3>3. j \in 1 .. Len(s.labels) /\ s.labels[j].line \in {x \in Where(q, ops) : Agree(q, x, k)}
      BY <3>1, <3>2, EntryMeant DEF name, policy
    <3> HIDE DEF j
    <3>4. s.labels[j].line = d
      BY <2>1, <3>2, <3>3
    <3>5. Splits(s.code, s.labels[j].target, d)
      BY <3>1, <3>3, <3>4 DEF Traced, LabelsPlaced
    <3>6. s.labels[j].target \in 0 .. Len(code) - 1
      BY <1>1, <1>2, <3>1, <3>3 DEF Sound, LabelsFit, GoodLabel
    <3> QED
      BY <1>1, <1>2, <1>6, <2>3, <2>4, <3>1, <3>5, <3>6, FirstAfter
  <2>6. CASE code[i].op \in {"call", "commit"}
    <3> DEFINE j == First(Matches(s.procs, name, policy))
    <3>1. j # 0 /\ ~(s.procs[j].start >= Len(s.code)) /\ code[i].target = s.procs[j].start
      <4>1. s.code[i].op \in {"call", "commit"} /\ code[i] = Resolved(s, i)
        BY <1>3, <2>2, <2>6
      <4> QED
        BY <1>10, <2>2, <4>1 DEF CallSet
    <3> DEFINE ops == {"proc"}
    <3>2. Tells(s.procs, q, ops) /\ Named(q, code[i]) = {x \in Where(q, ops) : Agree(q, x, k)}
      BY <1>2, <2>2, <2>6 DEF Named
    <3> HIDE DEF ops, name, policy, k
    <3>3. j \in 1 .. Len(s.procs) /\ s.procs[j].line \in {x \in Where(q, ops) : Agree(q, x, k)}
      BY <3>1, <3>2, EntryMeant DEF name, policy
    <3> HIDE DEF j
    <3>4. s.procs[j].line = d
      BY <2>1, <3>2, <3>3
    <3>5. Splits(s.code, s.procs[j].start, d)
      BY <3>3, <3>4 DEF Traced, StartsPlaced
    <3>6. s.procs[j].start \in 0 .. Len(code) - 1
      BY <1>1, <1>2, <3>1, <3>3 DEF Sound, RangesFit, GoodRange
    <3> QED
      BY <1>1, <1>2, <1>6, <2>3, <2>4, <3>1, <3>5, <3>6, FirstAfter
  <2> QED
    BY <2>1, <2>5, <2>6
<1>8. ASSUME NEW i \in 1 .. Len(code)
      PROVE  ComesBack(q, code, i)
  <2> DEFINE k == code[i].line
             e == After(q, k)
  <2>1. SUFFICES ASSUME code[i].op \in {"call", "commit"}, Within(q, k)
                 PROVE  code[i].back = IF i < Len(code) /\ code[i + 1].line < e THEN i ELSE Len(code)
    BY DEF ComesBack
  <2>2. i \in 1 .. Len(s.code) /\ code[i].op = s.code[i].op /\ s.code[i].line = k
    BY <1>1, <1>4
  <2>3. code[i].back = ReturnToken(s, i - 1)
    BY <1>10, <2>1, <2>2 DEF CallSet
  <2>4. PICK j \in 1 .. Len(s.procs) :
           /\ s.procs[j].start \in Nat /\ s.procs[j].end \in Nat /\ s.procs[j].end <= Len(s.code)
           /\ s.procs[j].start < i /\ i <= s.procs[j].end
           /\ Splits(s.code, s.procs[j].end, e) /\ e \in Nat
    BY <1>2, <2>1, <2>2, InsideRange
  <2> HIDE DEF e, k
  <2>5. First({x \in DOMAIN s.procs : s.procs[x].start <= i - 1 /\ i - 1 < s.procs[x].end}) = j
    <3>1. i - 1 \in Nat /\ s.procs[j].start <= i - 1 /\ i - 1 < s.procs[j].end
      BY <1>1, <1>2, <2>2, <2>4
    <3> DEFINE m == i - 1
    <3> HIDE DEF m
    <3>2. First({x \in DOMAIN s.procs : s.procs[x].start <= m /\ m < s.procs[x].end}) = j
      BY <3>1, OneRange DEF m
    <3> QED
      BY <3>2 DEF m
  <2>6. j # 0 /\ i - 1 + 1 = i
    BY <1>1, <1>2, <2>2
  <2>7. ReturnToken(s, i - 1) = IF i >= s.procs[j].end THEN Len(s.code)
                                ELSE IF i < Len(s.code) THEN i ELSE Len(s.code)
    BY <2>5, <2>6 DEF ReturnToken, NextInstruction
  <2>8. i < Len(s.code) => code[i + 1].line \in Nat /\
          IF i + 1 <= s.procs[j].end THEN code[i + 1].line < e ELSE code[i + 1].line > e
    <3>1. Splits(code, s.procs[j].end, e)
      BY <1>6, <2>4
    <3>2. ASSUME i < Len(s.code)
          PROVE  i + 1 \in 1 .. Len(code) /\ code[i + 1].line \in Nat
      <4>1. i + 1 \in 1 .. Len(code) /\ i + 1 \in 1 .. Len(s.code)
        BY <1>1, <1>2, <2>2, <3>2
      <4>2. code[i + 1].line \in 1 .. Len(q)
        BY <1>4, <4>1
      <4> QED
        BY <1>5, <4>1, <4>2
    <3> QED
      BY <3>1, <3>2 DEF Splits
  <2> QED
    BY <1>1, <1>2, <2>2, <2>3, <2>4, <2>7, <2>8
<1> QED
  BY <1>7, <1>8 DEF Meant, t, code

-----------------------------------------------------------------------------
(* As long as nothing was refused, the code stands where the lines read say; after END it was  *)
(* resolved to what they mean.                                                                 *)

Following(q, s) ==
  /\ ~Faulty(s) /\ s.phase # "done" => Traced(q, s)
  /\ ~Faulty(s) /\ s.phase = "done" => s.code = <<>> \/ Meant(q, s.code)

LEMMA FixedTraced ==
  ASSUME NEW q, NEW x, NEW y, Fixed(x, y), Traced(q, x)
  PROVE  Traced(q, y)
<1>1. CodeTold(q, y)
  BY DEF Fixed, Traced, CodeTold
<1>2. LabelsPlaced(y)
  BY DEF Fixed, Traced, LabelsPlaced
<1>3. StartsPlaced(y) /\ EndsPlaced(q, y)
  BY DEF Fixed, Traced, StartsPlaced, EndsPlaced
<1> QED
  BY <1>1, <1>2, <1>3 DEF Traced

LEMMA TakeTraced ==
  ASSUME IInv, Mirrored(source, p), Following(source, p), NEW l \in Offered, NEW s, Take(l, s),
         Moved(Now, s, l), p.phase \in Anywhere, s.phase # "done"
  PROVE  Following(source, p)'
<1> DEFINE q == source
           r == Append(q, l)
           u == Now
<1>1. source' = r /\ p' = s /\ l \in Line /\ q \in Seq(Line)
  BY OfferedIsLine DEF Take, IInv
<1>2. u.line = Len(q) + 1 /\ Sound(u)
  BY NowSound DEF Mirrored
<1>3. Equal(p, u) /\ Fixed(p, u)
  BY DEF IInv, Sound, Judged, Fields, Now, Equal, Fixed
<1>4. Moved(u, s, l)
  OBVIOUS
<1>5. p.phase # "done"
  BY DEF Anywhere
<1> HIDE DEF u
<1>6. ASSUME ~Faulty(s)
      PROVE  Traced(r, s)
  <2>1. ~Faulty(u) /\ Moves(u, s, l)
    BY <1>4, <1>6 DEF Moved
  <2>2. ~Faulty(p)
    BY <1>3, <2>1, EqualTold
  <2>3. Told(q, u) /\ OpenTold(q, u)
    BY <1>3, <2>2, EqualTold DEF Mirrored
  <2>4. Traced(q, u)
    BY <1>3, <1>5, <2>2, FixedTraced DEF Following
  <2> QED
    BY <1>1, <1>2, <2>1, <2>3, <2>4, TracedStep
<1>7. Following(r, s)
  BY <1>6 DEF Following
<1> QED
  BY <1>1, <1>7

\* A line that leaves the phase as it is.
LEMMA LineTraced ==
  ASSUME IInv, Mirrored(source, p), Following(source, p), NEW l \in Offered, NEW s, Take(l, s),
         Handles(Now, s), Moved(Now, s, l), p.phase \in Anywhere
  PROVE  Following(source, p)'
<1>1. s.phase = p.phase
  BY NowSound DEF Handles
<1>2. s.phase # "done"
  BY <1>1 DEF Anywhere
<1> QED
  BY <1>2, TakeTraced

\* The check behind a line.
LEMMA CheckedMoved ==
  ASSUME NEW s, NEW x, NEW l, Handles(s, x), Moved(s, x, l)
  PROVE  Handles(s, Checked(x)) /\ Moved(s, Checked(x), l)
<1>1. Handles(s, Checked(x))
  BY CheckedSound
<1>2. DOMAIN x = Fields
  BY DEF Handles, Sound, Judged
<1>3. Fixed(x, Checked(x))
  BY <1>2, ControlFixed
<1> QED
  BY <1>1, <1>3, FixedMoved

LEMMA LinesTraced ==
  ASSUME IInv, Mirrored(source, p), Following(source, p),
         Local \/ Label \/ Proc \/ Endp \/ Access \/ Jump \/ Call \/ Ret \/ Equate \/ Proto \/ DeclareData
  PROVE  Following(source, p)'
<1> DEFINE s == Now
<1>1. Sound(s)
  BY NowSound
<1> HIDE DEF s
<1>2. ASSUME Local
      PROVE  Following(source, p)'
  <2>1. PICK l \in Offered : p.phase = "code" /\ l.op = "local" /\ Take(l, Checked(LocalLine(s, l)))
    BY <1>2 DEF Local, Reading, Lines, Anywhere, s
  <2>2. Handles(s, LocalLine(s, l)) /\ Moved(s, LocalLine(s, l), l)
    BY <1>1, <2>1, LocalMoved, LocalLineSound DEF Declares
  <2>3. Handles(s, Checked(LocalLine(s, l))) /\ Moved(s, Checked(LocalLine(s, l)), l)
    BY <2>2, CheckedMoved
  <2> QED
    BY <2>1, <2>3, LineTraced DEF s, Anywhere
<1>3. ASSUME Label
      PROVE  Following(source, p)'
  <2>1. PICK l \in Offered : p.phase = "code" /\ l.op = "label" /\ Take(l, LabelLine(s, l))
    BY <1>3 DEF Label, Reading, Lines, Anywhere, s
  <2>2. Handles(s, LabelLine(s, l)) /\ Moved(s, LabelLine(s, l), l)
    BY <1>1, <2>1, LabelMoved, LabelLineSound DEF Declares
  <2> QED
    BY <2>1, <2>2, LineTraced DEF s, Anywhere
<1>4. ASSUME Proc
      PROVE  Following(source, p)'
  <2>1. PICK l \in Offered : p.phase = "code" /\ l.op = "proc" /\ Take(l, ProcLine(s, l))
    BY <1>4 DEF Proc, Reading, Lines, Anywhere, s
  <2>2. Handles(s, ProcLine(s, l)) /\ Moved(s, ProcLine(s, l), l)
    BY <1>1, <2>1, ProcMoved, ProcLineSound DEF Declares
  <2> QED
    BY <2>1, <2>2, LineTraced DEF s, Anywhere
<1>5. ASSUME Endp
      PROVE  Following(source, p)'
  <2>1. PICK l \in Offered : p.phase = "code" /\ l.op = "endp" /\ Take(l, EndpLine(s, l))
    BY <1>5 DEF Endp, Reading, Lines, Anywhere, s
  <2>2. Handles(s, EndpLine(s, l)) /\ Moved(s, EndpLine(s, l), l)
    BY <1>1, <2>1, EndsMoved, EndpLineSound DEF Declares
  <2> QED
    BY <2>1, <2>2, LineTraced DEF s, Anywhere
<1>6. ASSUME Access
      PROVE  Following(source, p)'
  <2>1. PICK l \in Offered : p.phase = "code" /\ l.op \in {"write", "read", "offset"} /\ Take(l, OperandLine(s, l))
    BY <1>6 DEF Access, Reading, Lines, Anywhere, s
  <2>2. Handles(s, OperandLine(s, l)) /\ Moved(s, OperandLine(s, l), l)
    BY <1>1, <2>1, CodeMoved, OperandLineSound DEF Declares
  <2> QED
    BY <2>1, <2>2, LineTraced DEF s, Anywhere
<1>7. ASSUME Jump
      PROVE  Following(source, p)'
  <2>1. PICK l \in Offered : p.phase = "code" /\ l.op = "jump" /\ Take(l, JumpLine(s, l))
    BY <1>7 DEF Jump, Reading, Lines, Anywhere, s
  <2>2. Handles(s, JumpLine(s, l)) /\ Moved(s, JumpLine(s, l), l)
    BY <1>1, <2>1, CodeMoved, TransferLinesSound DEF Declares
  <2> QED
    BY <2>1, <2>2, LineTraced DEF s, Anywhere
<1>8. ASSUME Call
      PROVE  Following(source, p)'
  <2>1. PICK l \in Offered : p.phase = "code" /\ l.op = "call" /\ Take(l, CallLine(s, l))
    BY <1>8 DEF Call, Reading, Lines, Anywhere, s
  <2>2. Handles(s, CallLine(s, l)) /\ Moved(s, CallLine(s, l), l)
    BY <1>1, <2>1, CodeMoved, TransferLinesSound DEF Declares
  <2> QED
    BY <2>1, <2>2, LineTraced DEF s, Anywhere
<1>9. ASSUME Ret
      PROVE  Following(source, p)'
  <2>1. PICK l \in Offered : p.phase = "code" /\ l.op = "ret" /\ Take(l, RetLine(s, l))
    BY <1>9 DEF Ret, Reading, Lines, Anywhere, s
  <2>2. Handles(s, RetLine(s, l)) /\ Moved(s, RetLine(s, l), l)
    BY <1>1, <2>1, RetMoved, RetLineSound DEF Declares
  <2> QED
    BY <2>1, <2>2, LineTraced DEF s, Anywhere
<1>10. ASSUME Equate
      PROVE  Following(source, p)'
  <2>1. PICK l \in Offered : p.phase \in Anywhere /\ l.op = "equate" /\ Take(l, Checked(EquateLine(s, l)))
    BY <1>10 DEF Equate, Reading, Lines, Anywhere, s
  <2>2. Handles(s, EquateLine(s, l)) /\ Moved(s, EquateLine(s, l), l)
    BY <1>1, <2>1, DeclarationsMove, EquateLineSound DEF Declares
  <2>3. Handles(s, Checked(EquateLine(s, l))) /\ Moved(s, Checked(EquateLine(s, l)), l)
    BY <2>2, CheckedMoved
  <2> QED
    BY <2>1, <2>3, LineTraced DEF s, Anywhere
<1>11. ASSUME Proto
      PROVE  Following(source, p)'
  <2>1. PICK l \in Offered : p.phase \in Anywhere /\ l.op = "proto" /\ Take(l, Checked(ProtoLine(s, l)))
    BY <1>11 DEF Proto, Reading, Lines, Anywhere, s
  <2>2. Handles(s, ProtoLine(s, l)) /\ Moved(s, ProtoLine(s, l), l)
    BY <1>1, <2>1, DeclarationsMove, ProtoLineSound DEF Declares
  <2>3. Handles(s, Checked(ProtoLine(s, l))) /\ Moved(s, Checked(ProtoLine(s, l)), l)
    BY <2>2, CheckedMoved
  <2> QED
    BY <2>1, <2>3, LineTraced DEF s, Anywhere
<1>12. ASSUME DeclareData
      PROVE  Following(source, p)'
  <2>1. PICK l \in Offered : p.phase \in Anywhere /\ l.op = "data" /\ Take(l, DataLine(s, l))
    BY <1>12 DEF DeclareData, Reading, Lines, Anywhere, s
  <2>2. Handles(s, DataLine(s, l)) /\ Moved(s, DataLine(s, l), l)
    BY <1>1, <2>1, DeclarationsMove, DataLineSound DEF Declares
  <2> QED
    BY <2>1, <2>2, LineTraced DEF s, Anywhere
<1> QED
  BY <1>2, <1>3, <1>4, <1>5, <1>6, <1>7, <1>8, <1>9, <1>10, <1>11, <1>12

LEMMA OtherLinesTraced ==
  ASSUME IInv, Mirrored(source, p), Following(source, p), Plain \/ Invoke \/ Casemap \/ Nokeyword \/ Bad \/ Include
  PROVE  Following(source, p)'
<1> DEFINE s == Now
<1>1. Sound(s) /\ Judged(s) /\ DOMAIN s = Fields
  BY NowSound DEF Sound, Judged
<1> HIDE DEF s
<1>2. ASSUME Plain
      PROVE  Following(source, p)'
  <2> DEFINE nop == Instruction(s, "nop", Nothing)
  <2>1. PICK l \in Offered : p.phase = "code" /\ l.op = "plain" /\ Take(l, Emit(s, <<nop>>))
    BY <1>2 DEF Plain, Reading, Lines, s
  <2>2. Moved(s, Emit(s, <<nop>>), l)
    BY <1>1, <2>1, CodeMoved
  <2>3. Fresh(<<nop>>)
    BY InstructionFresh
  <2> HIDE DEF nop
  <2>4. Handles(s, Emit(s, <<nop>>))
    BY <1>1, <2>3, EmitSound
  <2> QED
    BY <2>1, <2>2, <2>4, LineTraced DEF s, Anywhere
<1>3. ASSUME Invoke
      PROVE  Following(source, p)'
  <2>1. PICK l \in Offered : p.phase = "code" /\ l.op = "invoke" /\ Take(l, Checked(InvokeLine(s, l)))
    BY <1>3 DEF Invoke, Reading, Lines, s
  <2>2. IsSeq(l.args)
    <3>1. l \in Line
      BY OfferedIsLine DEF IInv
    <3> QED
      BY <2>1, <3>1 DEF Line, IsSeq
  <2>3. Handles(s, InvokeLine(s, l)) /\ Moved(s, InvokeLine(s, l), l)
    BY <1>1, <2>1, <2>2, InvokeMoved, InvokeLineSound
  <2>4. Handles(s, Checked(InvokeLine(s, l))) /\ Moved(s, Checked(InvokeLine(s, l)), l)
    BY <2>3, CheckedMoved
  <2> QED
    BY <2>1, <2>4, LineTraced DEF s, Anywhere
<1>4. ASSUME Casemap
      PROVE  Following(source, p)'
  <2>1. PICK l \in Offered : /\ p.phase \in Anywhere /\ l.op = "casemap"
                             /\ Take(l, Checked(CasemapLine(s, l)))
    BY <1>4 DEF Casemap, Reading, Lines, s
  <2>2. l.policy \in Policies
    <3>1. l \in Line
      BY OfferedIsLine DEF IInv
    <3> QED
      BY <2>1, <3>1 DEF Line
  <2>3. Handles(s, CasemapLine(s, l)) /\ Moved(s, CasemapLine(s, l), l)
    BY <1>1, <2>1, <2>2, DeclarationsMove, CasemapLineSound DEF Declares
  <2>4. Handles(s, Checked(CasemapLine(s, l))) /\ Moved(s, Checked(CasemapLine(s, l)), l)
    BY <2>3, CheckedMoved
  <2> QED
    BY <2>1, <2>4, LineTraced DEF s, Anywhere
<1>5. ASSUME Nokeyword
      PROVE  Following(source, p)'
  <2>1. PICK l \in Offered : /\ p.phase \in Anywhere /\ l.op = "nokeyword"
                             /\ Take(l, Checked(NokeywordLine(s, l)))
    BY <1>5 DEF Nokeyword, Reading, Lines, s
  <2>5. Moved(s, NokeywordLine(s, l), l)
    BY <1>1, <2>1, DeclarationsMove
  <2>6. Handles(s, NokeywordLine(s, l))
    BY <1>1, NokeywordLineSound DEF Declares
  <2>7. Handles(s, Checked(NokeywordLine(s, l))) /\ Moved(s, Checked(NokeywordLine(s, l)), l)
    BY <2>5, <2>6, CheckedMoved
  <2> QED
    BY <2>1, <2>7, LineTraced DEF s, Anywhere
<1>6. ASSUME Bad
      PROVE  Following(source, p)'
  <2>1. PICK l \in Offered : p.phase \in Anywhere /\ l.op = "bad" /\ Take(l, Refuse(s))
    BY <1>6 DEF Bad, Reading, Lines, s
  <2>2. Handles(s, Refuse(s)) /\ Moved(s, Refuse(s), l)
    BY <1>1, FaultsSound, FaultsStay, FaultyMoved DEF Declares
  <2> QED
    BY <2>1, <2>2, LineTraced DEF s, Anywhere
<1>7. ASSUME Include
      PROVE  Following(source, p)'
  <2> DEFINE yes == TRUE
             t == [s EXCEPT !.irvine = yes]
  <2>1. PICK l \in Offered : p.phase \in Anywhere /\ l.op = "include" /\ Take(l, Checked(t))
    BY <1>7 DEF Include, Reading, Lines, Anywhere, s
  <2>2. Handles(s, t)
    <3>1. Alike(s, t) /\ Judged(t)
      BY <1>1 DEF Sound, Alike, Judged, Faulty, Fields
    <3> QED
      BY <1>1, <3>1, AlikeSound DEF Declares
  <2> HIDE DEF yes
  <2>3. Fixed(s, t)
    BY <1>1, ControlFixed
  <2> HIDE DEF t
  <2>4. Moved(s, t, l)
    BY <1>1, <2>1, <2>3, FixedMoves
  <2>5. Handles(s, Checked(t)) /\ Moved(s, Checked(t), l)
    BY <2>2, <2>4, CheckedMoved
  <2> QED
    BY <2>1, <2>5, LineTraced DEF s, Anywhere
<1> QED
  BY <1>2, <1>3, <1>4, <1>5, <1>6, <1>7

LEMMA PhasesTraced ==
  ASSUME IInv, Mirrored(source, p), Following(source, p),
         StartData \/ StartCode \/ End \/ EndOfSource \/ Abandon \/ Resolve
  PROVE  Following(source, p)'
<1> DEFINE s == Now
<1>1. /\ Sound(s) /\ DOMAIN s = Fields /\ s.phase = p.phase
      /\ Sound(p) /\ Judged(p) /\ DOMAIN p = Fields
  BY NowSound DEF IInv, Sound, Judged
<1> HIDE DEF s
<1>2. ASSUME NEW t, Faulty(t) \/ (t.phase = "done" /\ (t.code = <<>> \/ Meant(source, t.code))),
             p' = t, UNCHANGED source
      PROVE  Following(source, p)'
  <2>1. Following(source, t)
    BY <1>2 DEF Following
  <2> QED
    BY <1>2, <2>1
<1>3. ASSUME StartData
      PROVE  Following(source, p)'
  <2> DEFINE e == "data"
             t == [s EXCEPT !.phase = e]
  <2>1. PICK l \in Offered : p.phase \in {"preamble", "data"} /\ l.op = ".data" /\ Take(l, t)
    BY <1>3 DEF StartData, Reading, Lines, s
  <2>2. t.phase # "done"
    BY <1>1 DEF Fields
  <2> HIDE DEF e
  <2>3. Fixed(s, t)
    BY <1>1, ControlFixed
  <2> HIDE DEF t
  <2>4. Moved(s, t, l)
    BY <1>1, <2>1, <2>3, FixedMoves
  <2> QED
    BY <2>1, <2>2, <2>4, TakeTraced DEF s, Anywhere
<1>4. ASSUME StartCode
      PROVE  Following(source, p)'
  <2> DEFINE e == "code"
             t == [s EXCEPT !.phase = e]
  <2>1. PICK l \in Offered : p.phase \in {"preamble", "data"} /\ l.op = ".code" /\ Take(l, t)
    BY <1>4 DEF StartCode, Reading, Lines, s
  <2>2. t.phase # "done"
    BY <1>1 DEF Fields
  <2> HIDE DEF e
  <2>3. Fixed(s, t)
    BY <1>1, ControlFixed
  <2> HIDE DEF t
  <2>4. Moved(s, t, l)
    BY <1>1, <2>1, <2>3, FixedMoves
  <2> QED
    BY <2>1, <2>2, <2>4, TakeTraced DEF s, Anywhere
<1>5. ASSUME End
      PROVE  Following(source, p)'
  <2>1. PICK l \in Offered : p.phase = "code" /\ l.op = "end" /\ Take(l, EndLine(s, l))
    BY <1>5 DEF End, Reading, Lines, s
  <2> DEFINE t == EndLine(s, l)
  <2>2. Moved(s, t, l) /\ Take(l, t)
    BY <1>1, <2>1, EndsMoved
  <2>3. t.phase \in {s.phase, "ended"}
    <3> DEFINE u == CloseRange(Forget(s))
               proc == First(Matches(s.procs, l.name, s.policy))
               v == [u EXCEPT !.entry = proc, !.phase = "ended"]
    <3>1. t = Refuse(u) \/ t = v
      BY DEF EndLine
    <3>2. Handles(s, u) /\ DOMAIN u = Fields
      <4>1. Sound(Forget(s)) /\ Handles(s, Forget(s))
        BY <1>1, ForgetSound DEF Declares, Handles
      <4> HIDE DEF CloseRange
      <4>2. Handles(s, u)
        BY <4>1, CloseRangeSound DEF Handles
      <4> QED
        BY <4>2 DEF Handles, Sound, Judged
    <3> HIDE DEF u, proc, t
    <3>3. v.phase = "ended"
      BY <3>2 DEF Fields
    <3>4. Handles(u, Refuse(u))
      BY <3>2, FaultsSound DEF Declares, Handles
    <3> QED
      BY <3>1, <3>2, <3>3, <3>4 DEF Handles
  <2> HIDE DEF t
  <2>4. t.phase # "done"
    BY <1>1, <2>1, <2>3
  <2> QED
    BY <2>1, <2>2, <2>4, TakeTraced DEF s, Anywhere
<1>6. ASSUME EndOfSource
      PROVE  Following(source, p)'
  <2> DEFINE e == "done"
             t == [p EXCEPT !.phase = e]
             u == [Refuse(p) EXCEPT !.phase = e]
  <2>1. UNCHANGED source /\ p' = IF p.phase = "preamble" /\ p.diagnostics > 0 THEN t ELSE u
    BY <1>6 DEF EndOfSource
  <2>2. Faulty(Refuse(p)) /\ DOMAIN Refuse(p) = Fields
    BY <1>1, FaultsStay, FaultsSound DEF Declares, Handles, Sound, Judged
  <2>3. Faulty(u)
    BY <2>2 DEF Faulty, Fields
  <2>4. p.phase = "preamble" => t.phase = "done" /\ t.code = <<>>
    BY <1>1 DEF Fields, IInv, Phased
  <2> HIDE DEF e, t, u
  <2> QED
    BY <1>2, <2>1, <2>3, <2>4
<1>7. ASSUME Abandon
      PROVE  Following(source, p)'
  <2> DEFINE t == [p EXCEPT !.phase = "done"]
  <2>1. p' = t /\ UNCHANGED source /\ ~p.go
    BY <1>7 DEF Abandon
  <2>2. Faulty(p)
    BY <1>1, <2>1 DEF Judged
  <2>3. Faulty(t)
    BY <1>1, <2>2 DEF Faulty, Fields
  <2> HIDE DEF t
  <2> QED
    BY <1>2, <2>1, <2>3
<1>8. ASSUME Resolve
      PROVE  Following(source, p)'
  <2>1. PICK more \in BOOLEAN : p' = ResolveAll(p, more)
    BY <1>8 DEF Resolve
  <2> DEFINE t == ResolveAll(p, more)
  <2>2. t.phase = "done"
    BY <1>1, ResolveAllSound
  <2>3. ~Faulty(t) => Meant(source, t.code)
    <3>1. SUFFICES ASSUME ~Faulty(t)
                   PROVE  Meant(source, t.code)
      OBVIOUS
    <3>2. ~Faulty(p)
      BY <1>1, <3>1, ResolvedCalls
    <3>3. Told(source, p) /\ Traced(source, p) /\ source \in Seq(Line)
      BY <1>8, <3>2 DEF Mirrored, Following, IInv, Resolve
    <3> QED
      BY <1>1, <3>1, <3>3, CodeIsMeant
  <2>4. p' = t /\ UNCHANGED source
    BY <1>8, <2>1 DEF Resolve
  <2> HIDE DEF t
  <2> QED
    BY <1>2, <2>2, <2>3, <2>4
<1> QED
  BY <1>3, <1>4, <1>5, <1>6, <1>7, <1>8

LEMMA InitTraced == Init => Following(source, p)
<1> SUFFICES ASSUME Init
             PROVE  Following(source, p)
  OBVIOUS
<1>1. Len(<<>>) = 0
  OBVIOUS
<1>2. CodeTold(<<>>, Empty)
  BY <1>1 DEF CodeTold, FixupsTold, Empty
<1>3. LabelsPlaced(Empty) /\ StartsPlaced(Empty) /\ EndsPlaced(<<>>, Empty)
  BY <1>1 DEF LabelsPlaced, StartsPlaced, EndsPlaced, Empty
<1>4. Following(<<>>, Empty)
  BY <1>2, <1>3 DEF Following, Traced, Empty
<1> QED
  BY <1>4 DEF Init

LEMMA CodeFollowed == Spec => [](IInv /\ Following(source, p))
<1> DEFINE I == IInv /\ Mirrored(source, p) /\ Following(source, p)
<1>1. Init => Following(source, p)
  BY InitTraced
<1>2. IInv /\ Mirrored(source, p) /\ Following(source, p) /\ [Next]_vars => Following(source, p)'
  <2> SUFFICES ASSUME IInv, Mirrored(source, p), Following(source, p), [Next]_vars
               PROVE  Following(source, p)'
    OBVIOUS
  <2>1. CASE UNCHANGED vars
    BY <2>1 DEF vars
  <2>2. CASE Next
    BY <2>2, LinesTraced, OtherLinesTraced, PhasesTraced DEF Next
  <2> QED
    BY <2>1, <2>2
<1> HIDE DEF I
<1> QED
  BY <1>1, <1>2, LinesMirrored, PTL DEF Spec

\* Every branch, call and return of an accepted program leads where its source says, whatever
\* tables, names and lines it was made of.
THEOREM CodeMeant == Spec => []CodeMeansItsSource
<1>1. ASSUME IInv, Following(source, p)
      PROVE  CodeMeansItsSource
  <2> DEFINE Declared(i) == {d \in At(IF p.code[i].op = "jmp" THEN {"label", "proc"} ELSE {"proc"}) :
                               Like(d, p.code[i].line)}
             Own(i) == i < Len(p.code) /\ p.code[i + 1].line < NextBound(p.code[i].line)
  <2>1. SUFFICES ASSUME Accepted, NEW i \in DOMAIN p.code
                 PROVE  /\ p.code[i].op \in {"jmp", "call", "commit"} =>
                             \A d \in Declared(i) : Declared(i) = {d} =>
                               p.code[i].target = FirstCodeAfter(d)
                        /\ p.code[i].op \in {"call", "commit"} /\ ProcOf(p.code[i].line) # 0 =>
                             p.code[i].back = IF Own(i) THEN i ELSE Len(p.code)
    BY DEF CodeMeansItsSource
  <2>2. DOMAIN p.code = 1 .. Len(p.code) /\ Len(p.code) \in Nat
    BY <1>1, Lengths, SeqFacts DEF IInv
  <2>3. Meant(source, p.code)
    <3>1. ~Faulty(p) /\ p.phase = "done"
      BY <2>1 DEF Accepted, Faulty
    <3>2. p.code # <<>>
      BY <2>1
    <3> QED
      BY <1>1, <3>1, <3>2 DEF Following
  <2>4. GoesWhereNamed(source, p.code, i) /\ ComesBack(source, p.code, i)
    BY <2>1, <2>2, <2>3 DEF Meant
  <2>5. Declared(i) = Named(source, p.code[i])
    BY LinesRead DEF Named
  <2>6. \A d : FirstCodeAfter(d) = CodeAfter(p.code, d)
    BY DEF FirstCodeAfter, CodeAfter
  <2>7. Bounds = Edges(source)
    BY LinesRead DEF Bounds, Edges
  <2>8. \A k : NextBound(k) = After(source, k)
    BY <2>7 DEF NextBound, After
  <2>9. \A k : ProcOf(k) # 0 => Within(source, k)
    BY <2>7, <2>8 DEF ProcOf, Within, Before
  <2> HIDE DEF Declared
  <2>10. p.code[i].op \in {"jmp", "call", "commit"} =>
           \A d \in Declared(i) : Declared(i) = {d} => p.code[i].target = FirstCodeAfter(d)
    BY <2>4, <2>5, <2>6 DEF GoesWhereNamed
  <2>11. p.code[i].op \in {"call", "commit"} /\ ProcOf(p.code[i].line) # 0 =>
           p.code[i].back = IF Own(i) THEN i ELSE Len(p.code)
    BY <2>4, <2>8, <2>9 DEF ComesBack
  <2> QED
    BY <2>10, <2>11
<1> QED
  BY <1>1, CodeFollowed, PTL
=============================================================================
