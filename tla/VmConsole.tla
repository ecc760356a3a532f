------------------------------ MODULE VmConsole ------------------------------
(***************************************************************************)
(* The Program Console (src/core/vm_console.c): the bounded buffer virtual *)
(* routines print to.  A span is what one call appends; only its length    *)
(* and its number of line feeds matter.  realloc may fail.  A console that *)
(* was never initialized, or was released, is all zero.                    *)
(***************************************************************************)
EXTENDS Integers, SequencesExt

CONSTANTS SizeMax,          \* SIZE_MAX
          InitialCapacity,  \* VM_CONSOLE_INITIAL_CAPACITY
          DefaultBytes,     \* VM_CONSOLE_DEFAULT_MAX_BYTES
          DefaultLines,     \* VM_CONSOLE_DEFAULT_MAX_LINES
          Spans,            \* what callers append
          Limits            \* what callers configure: <<bytes, lines>>

Span == {s \in [bytes : 0 .. SizeMax, lines : 0 .. SizeMax] : s.lines <= s.bytes}

ASSUME ConsoleAssumption ==
  /\ SizeMax \in Nat /\ InitialCapacity \in 1 .. SizeMax
  /\ DefaultBytes \in 1 .. SizeMax /\ DefaultLines \in 1 .. SizeMax
  /\ \A s \in Spans : s \in Span
  /\ \A l \in Limits : l \in (0 .. SizeMax) \X (0 .. SizeMax)

VARIABLES
  console,   \* struct VmConsole
  result,    \* status of the last call
  rejected   \* history: the last span a limit rejected

vars == <<console, result, rejected>>

Kinds    == {"none", "byte", "line"}
Statuses == {"ok", "invalid-argument", "out-of-memory", "output-limit-exceeded"}

Zeroed == [text |-> <<>>, capacity |-> 0, bytes |-> 0, lines |-> 0, maxBytes |-> 0,
           maxLines |-> 0, exceeded |-> FALSE, kind |-> "none"]

NoSpan == [bytes |-> 0, lines |-> 0]

-----------------------------------------------------------------------------

OrDefault(n, default) == IF n = 0 THEN default ELSE n

WithLimits(c) == [c EXCEPT !.maxBytes = OrDefault(@, DefaultBytes),
                           !.maxLines = OrDefault(@, DefaultLines)]

\* The capacity with room for need bytes: doubled until it is enough, or exactly
\* what is needed when doubling would overflow.
GrownTo(c, need) ==
  LET from     == IF c.capacity > InitialCapacity THEN c.capacity ELSE InitialCapacity
      doublings == {n \in need .. SizeMax : /\ n = from \/ n < 2 * need
                                           /\ \E k \in 0 .. SizeMax : n = from * 2^k}
  IN  IF c.capacity >= need THEN c.capacity
      ELSE IF doublings = {} THEN need ELSE CHOOSE n \in doublings : TRUE

Return(c, status) == console' = c /\ result' = status

\* A slip: only the span, not the output already there, is compared with the limits.
SpanAloneFits(c, s) == s.bytes <= c.maxBytes /\ s.lines <= c.maxLines

Fits(c, s) == c.bytes + s.bytes <= c.maxBytes /\ c.lines + s.lines <= c.maxLines

-----------------------------------------------------------------------------

Clear(c) ==
  \/ Return(c, "out-of-memory") /\ c.capacity = 0 /\ UNCHANGED rejected
  \/ /\ Return([c EXCEPT !.text = <<>>, !.capacity = GrownTo(c, 1), !.bytes = 0, !.lines = 0,
                          !.exceeded = FALSE, !.kind = "none"], "ok")
     /\ rejected' = NoSpan

\* vm_console_init, on memory that holds no console.
Initialize == console = Zeroed /\ Clear(WithLimits(Zeroed))

Reset == Clear(WithLimits(console))

Deinit == Return(Zeroed, "ok") /\ rejected' = NoSpan

ConfigureLimits(bytes, lines) ==
  LET valid == bytes > 0 /\ lines > 0 /\ console.bytes <= bytes /\ console.lines <= lines
  IN  \/ ~valid /\ Return(console, "invalid-argument") /\ UNCHANGED rejected
      \/ /\ valid
         /\ Return([console EXCEPT !.maxBytes = bytes, !.maxLines = lines,
                                   !.exceeded = FALSE, !.kind = "none"], "ok")
         /\ rejected' = NoSpan

\* A slip: the terminator is not counted.
SizeFitsWithoutTerminator(c, s) == c.bytes + s.bytes <= SizeMax

SizeFits(c, s) == c.bytes + s.bytes <= SizeMax - 1

\* A slip: a rejected line count is still charged to the byte limit.
RejectedByByte(c, s) == "byte"

RejectedBy(c, s) == IF c.bytes + s.bytes > c.maxBytes THEN "byte" ELSE "line"

\* A slip: what still fits of a rejected span is committed.
RejectingAfterPartialCopy(c, s) ==
  [c EXCEPT !.exceeded = TRUE, !.kind = RejectedBy(c, s), !.bytes = c.maxBytes]

Rejecting(c, s) == [c EXCEPT !.exceeded = TRUE, !.kind = RejectedBy(c, s)]

Committed(c, s) ==
  [c EXCEPT !.text = Append(@, s), !.capacity = GrownTo(c, c.bytes + s.bytes + 1),
            !.bytes = @ + s.bytes, !.lines = @ + s.lines]

AppendSpan(s) ==
  LET c == WithLimits(console)
  IN  \/ s.bytes = 0 /\ Return(c, "ok") /\ UNCHANGED rejected
      \/ s.bytes > 0 /\ ~SizeFits(c, s) /\ Return(c, "out-of-memory") /\ UNCHANGED rejected
      \/ /\ s.bytes > 0 /\ SizeFits(c, s) /\ ~Fits(c, s)
         /\ Return(Rejecting(c, s), "output-limit-exceeded")
         /\ rejected' = s
      \/ /\ s.bytes > 0 /\ SizeFits(c, s) /\ Fits(c, s)
         /\ UNCHANGED rejected
         /\ \/ c.capacity < c.bytes + s.bytes + 1 /\ Return(c, "out-of-memory")
            \/ Return(Committed(c, s), "ok")

Init == console = Zeroed /\ result = "ok" /\ rejected = NoSpan

Next == \/ Initialize \/ Reset \/ Deinit
        \/ \E l \in Limits : ConfigureLimits(l[1], l[2])
        \/ \E s \in Spans : AppendSpan(s)

Spec == Init /\ [][Next]_vars

-----------------------------------------------------------------------------
(* Properties *)

Console == [text : Seq(Span), capacity : 0 .. SizeMax, bytes : 0 .. SizeMax, lines : 0 .. SizeMax,
            maxBytes : 0 .. SizeMax, maxLines : 0 .. SizeMax, exceeded : BOOLEAN, kind : Kinds]

\* struct VmConsole keeps its types, and no count ever wraps past SIZE_MAX.
TypeOK ==
  console \in Console /\ result \in Statuses /\ rejected \in Span

\* Committed output never exceeds the limits in force, through any order of appends,
\* resets and reconfigurations, and always leaves room for its terminator.
OutputWithinLimits ==
  /\ console.bytes <= OrDefault(console.maxBytes, DefaultBytes)
  /\ console.lines <= OrDefault(console.maxLines, DefaultLines)
  /\ console.bytes > 0 => console.bytes < console.capacity

Total(numbers) == FoldLeft(LAMBDA n, m : n + m, 0, numbers)

\* The counts reported beside the text are those of the text itself.
CountsMatchText ==
  /\ console.bytes = Total([k \in DOMAIN console.text |-> console.text[k].bytes])
  /\ console.lines = Total([k \in DOMAIN console.text |-> console.text[k].lines])

\* A recorded rejection stays true: until the console is reset or reconfigured the
\* rejected span would be rejected again, by the limit on record.
RejectionStaysTrue ==
  /\ console.exceeded <=> console.kind # "none"
  /\ console.kind = "byte" => console.bytes + rejected.bytes > console.maxBytes
  /\ console.kind = "line" => console.lines + rejected.lines > console.maxLines

\* An append is all or nothing: output only ever grows by whole accepted spans, and a
\* call that fails, whatever the reason, leaves text, counts and storage alone.
FailureChangesNoOutput ==
  [][result' # "ok" => /\ console'.text = console.text /\ console'.bytes = console.bytes
                       /\ console'.lines = console.lines
                       /\ console'.capacity = console.capacity]_vars

=============================================================================
