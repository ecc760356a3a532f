------------------------------ MODULE VmIrvine ------------------------------
(***************************************************************************)
(* The Irvine32 output routines of src/core/vm_exec.c on the console of    *)
(* VmConsole, and the check src/wasm/wasm_api.c makes before WriteString:  *)
(* it scans the string on its own to warn about uninitialized bytes, and   *)
(* must warn only about strings the routine is going to print.             *)
(*                                                                         *)
(* What a routine prints is a sequence of characters; a character is a     *)
(* number.  realloc may fail, for the console and for WriteString's copy.  *)
(***************************************************************************)
EXTENDS VmConsole

CONSTANTS
    WordSize,   \* a register holds 0 .. WordSize - 1
    Decimal,    \* ten
    Nibble,     \* sixteen: the values of a hexadecimal digit
    Minus,      \* the character before a negative number
    LineFeed,   \* the character that ends a line
    Accumulators,   \* values of EAX tried
    Memory,     \* the readable bytes: address -> [byte, initialized]
    Addresses,  \* values of EDX tried
    ScanLimit   \* VM_IRVINE32_WRITESTRING_SCAN_LIMIT_BYTES

ASSUME IrvineAssumption ==
    /\ WordSize \in Nat \ {0} /\ Decimal \in Nat \ {0, 1} /\ Nibble \in Nat \ {0, 1}
    /\ ScanLimit \in Nat \ {0}
    /\ DOMAIN Memory \subseteq 0 .. WordSize - 1
    /\ Accumulators \subseteq 0 .. WordSize - 1 /\ Addresses \subseteq 0 .. WordSize - 1
    /\ LineFeed \notin 0 .. Nibble - 1 /\ LineFeed \notin 0 .. Decimal - 1
    /\ Minus \notin 0 .. Decimal - 1 /\ Minus # LineFeed

VARIABLE
    call        \* the last routine: [name, register, mode, text, status, warned]

irvineVars == <<console, result, rejected, call>>

Modes == {"off", "warn", "strict"}

Call(name, register, mode, text, status, warned) ==
    [name |-> name, register |-> register, mode |-> mode, text |-> text,
     status |-> status, warned |-> warned]

-----------------------------------------------------------------------------
(* Printing a sequence of characters. *)

SpanOf(text) ==
    [bytes |-> Len(text), lines |-> Cardinality({k \in DOMAIN text : text[k] = LineFeed})]

\* The executor's name for a console status: only the limits have one.
ExecStatus(status) ==
    CASE status = "ok" -> "ok"
      [] status = "output-limit-exceeded" -> "console-output-limit-exceeded"
      [] OTHER -> "invalid-argument"

Prints(name, register, mode, text, warned) ==
    /\ AppendSpan(SpanOf(text))
    /\ call' = Call(name, register, mode, text, ExecStatus(result'), warned)

PrintsPlain(name, register, text) == Prints(name, register, "off", text, FALSE)

-----------------------------------------------------------------------------
(* Numbers. *)

\* The digits of n, most significant first.
Digits(base) ==
    LET d[n \in 0 .. WordSize] ==
            IF n < base THEN <<n>> ELSE Append(d[n \div base], n % base)
    IN  d

\* base to the power of k.
Power(base) ==
    LET p[k \in Nat] == IF k = 0 THEN 1 ELSE base * p[k - 1]
    IN  p

\* All the places of a word, zeros included.
Places(base, n) ==
    LET count == Len(Digits(base)[WordSize - 1])
    IN  [k \in 1 .. count |-> (n \div Power(base)[count - k]) % base]

Negative(eax) == 2 * eax >= WordSize

\* A slip: the complement without the one.
MagnitudeOfComplement(eax) == IF Negative(eax) THEN WordSize - 1 - eax ELSE eax

Magnitude(eax) == IF Negative(eax) THEN WordSize - eax ELSE eax

Signed(eax) ==
    (IF Negative(eax) THEN <<Minus>> ELSE <<>>) \o Digits(Decimal)[Magnitude(eax)]

Crlf == PrintsPlain("Crlf", 0, <<LineFeed>>)
WriteChar(al) == PrintsPlain("WriteChar", al, <<al>>)
WriteDec(eax) == PrintsPlain("WriteDec", eax, Digits(Decimal)[eax])
WriteInt(eax) == PrintsPlain("WriteInt", eax, Signed(eax))
WriteHex(eax) == PrintsPlain("WriteHex", eax, Places(Nibble, eax))
WriteBin(eax) == PrintsPlain("WriteBin", eax, Places(2, eax))

-----------------------------------------------------------------------------
(* WriteString: bytes up to a zero, no more than the scan limit, all of them *)
(* readable.                                                                 *)

\* Where a scan from edx stops: a byte that is zero or cannot be read.
Stops(edx) ==
    {k \in 0 .. ScanLimit - 1 :
        edx + k \notin DOMAIN Memory \/ Memory[edx + k].byte = 0}

ScanStatus(edx) ==
    IF Stops(edx) = {} THEN "string-scan-limit-exceeded"
    ELSE IF edx + Min(Stops(edx)) \notin DOMAIN Memory THEN "memory-error"
    ELSE "ok"

StringAt(edx) == [k \in 1 .. Min(Stops(edx)) |-> Memory[edx + k - 1].byte]

\* A slip: what just fits counts as too much.
WouldExceedEarly(text) ==
    LET s == SpanOf(text)
    IN  \/ console.bytes + s.bytes >= OrDefault(console.maxBytes, DefaultBytes)
        \/ console.lines + s.lines > OrDefault(console.maxLines, DefaultLines)

\* The check's own forecast of the console's answer.
WouldExceed(text) ==
    LET s == SpanOf(text)
    IN  \/ console.bytes + s.bytes > OrDefault(console.maxBytes, DefaultBytes)
        \/ console.lines + s.lines > OrDefault(console.maxLines, DefaultLines)

\* The bytes the check reads before it stops, the one it stops at included.
Scanned(edx) ==
    LET last == IF Stops(edx) = {} THEN ScanLimit - 1 ELSE Min(Stops(edx))
    IN  {edx + k : k \in 0 .. last} \cap DOMAIN Memory

Uninitialized(edx) == {a \in Scanned(edx) : ~Memory[a].initialized}

Warns(edx, mode) ==
    /\ mode = "warn"
    /\ ScanStatus(edx) = "ok"
    /\ ~WouldExceed(StringAt(edx))
    /\ Uninitialized(edx) # {}

\* Strict mode stops before the step; nothing is printed.
StopsBefore(edx, mode) ==
    /\ mode = "strict" /\ Uninitialized(edx) # {}
    /\ call' = Call("WriteString", edx, mode, <<>>, "uninitialized-read", FALSE)
    /\ UNCHANGED vars

FailsToScan(edx, mode, status) ==
    /\ ~(mode = "strict" /\ Uninitialized(edx) # {})
    /\ call' = Call("WriteString", edx, mode, <<>>, status, Warns(edx, mode))
    /\ UNCHANGED vars

WriteString(edx, mode) ==
    \/ StopsBefore(edx, mode)
    \/ ScanStatus(edx) # "ok" /\ FailsToScan(edx, mode, ScanStatus(edx))
    \* no memory for the copy
    \/ 0 \notin Stops(edx) /\ FailsToScan(edx, mode, "invalid-argument")
    \/ /\ ScanStatus(edx) = "ok"
       /\ ~(mode = "strict" /\ Uninitialized(edx) # {})
       /\ Prints("WriteString", edx, mode, StringAt(edx), Warns(edx, mode))

-----------------------------------------------------------------------------

NoCall == Call("none", 0, "off", <<>>, "ok", FALSE)

IrvineInit == Init /\ call = NoCall

Routine ==
    \/ Crlf
    \/ \E eax \in Accumulators :
          WriteChar(eax) \/ WriteDec(eax) \/ WriteInt(eax) \/ WriteHex(eax) \/ WriteBin(eax)
    \/ \E edx \in Addresses, mode \in Modes : WriteString(edx, mode)

\* What the host does to the console: vm_init, vm_deinit, its own appends.
Host == Next /\ call' = NoCall

IrvineNext == Routine \/ Host

IrvineSpec == IrvineInit /\ [][IrvineNext]_irvineVars

-----------------------------------------------------------------------------
(* Properties *)

ValueOf(text, base) == FoldLeft(LAMBDA n, d : base * n + d, 0, text)

\* What a routine printed is what it was given: numbers read back as the register
\* they came from, the most negative one included, without leading zeros or with
\* all of their places; a string is every byte up to its first zero, and shorter
\* than the scan limit (the conversions of vm_exec_execute_irvine32_*).  The byte
\* and line counts shown beside the console are those of its text.
PrintedTextIsExact ==
    /\ CountsMatchText
    /\ call.status = "ok" =>
        LET t == call.text  n == Len(t)  v == call.register IN
        CASE call.name = "WriteDec" ->
                ValueOf(t, Decimal) = v /\ (n > 1 => t[1] # 0)
          [] call.name = "WriteInt" ->
                IF t[1] = Minus THEN v - WordSize = -ValueOf(Tail(t), Decimal) /\ v # 0
                ELSE v = ValueOf(t, Decimal) /\ 2 * v < WordSize
          [] call.name = "WriteHex" -> ValueOf(t, Nibble) = v /\ Power(Nibble)[n] >= WordSize
          [] call.name = "WriteBin" -> ValueOf(t, 2) = v /\ Power(2)[n] >= WordSize
          [] call.name = "WriteString" ->
                /\ n < ScanLimit
                /\ \A k \in 1 .. n : t[k] = Memory[v + k - 1].byte /\ t[k] # 0
                /\ Memory[v + n].byte = 0
          [] OTHER -> TRUE

\* In warning mode a WriteString warns exactly when it prints and has read a byte
\* that was never initialized; a call that fails warns about nothing, whichever of
\* memory, scan limit and console limits it fails at (the scan of the source run
\* against the routine it forecasts).  Without memory for the copy all is off.
WarningsMatchOutput ==
    (call.name = "WriteString" /\ call.mode = "warn" /\ call.status # "invalid-argument") =>
        (call.warned <=> /\ call.status = "ok"
                         /\ \E k \in 0 .. Len(call.text) : ~Memory[call.register + k].initialized)
=============================================================================
