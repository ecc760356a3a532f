------------------------------ MODULE MCParser ------------------------------
(* Families of sources around one question each: labels and CASEMAP, procedure boundaries,    *)
(* conflicting declarations, LOCALs, INVOKE and its callee, reserved words, full tables.       *)
EXTENDS ParserCode

MCNames == {"a", "A", "h", "H", "main", "loop", "offset", "crlf"}
MCFold  == [n \in MCNames |-> CASE n = "A" -> "a" [] n = "H" -> "h" [] OTHER -> n]

Lone(op) == [op |-> op]
On(op, n) == [op |-> op, name |-> n]
Map(v) == [op |-> "casemap", policy |-> v]
Equ(n, good) == [op |-> "equate", name |-> n, constant |-> good]
Prototype(n, c) == [op |-> "proto", name |-> n, count |-> c]
Procedure(n, u) == [op |-> "proc", name |-> n, uses |-> u]
Invoking(n, a) == [op |-> "invoke", name |-> n, args |-> a]
Pop(n) == [op |-> "ret", pops |-> n]
Arg(k, n) == [kind |-> k, name |-> n]

Family(first, lines, more, last) == [first |-> first, lines |-> lines, more |-> more, last |-> last]
Maps == {Map("all"), Map("none")}
Code == Lone(".code")
Nop  == Lone("plain")
Main == Procedure("main", <<>>)
Close == <<On("endp", "main"), On("end", "main")>>

LabelTopic ==
  Family(<<Code, Main>>,
         Maps \cup {On("label", "a"), On("label", "A"), On("jump", "a"), On("jump", "A"), Nop},
         5, Close)

BoundaryTopic ==
  Family(<<Code, Main, On("call", "h")>>,
         {Main, Procedure("h", <<"ebx">>), On("endp", "main"), On("endp", "h"),
          On("call", "h"), On("jump", "h"), Nop},
         5, <<On("end", "main")>>)

DeclarationTopic ==
  Family(<<Map("none")>>,
         {Map("all"), Equ("a", TRUE), Equ("A", TRUE), Equ("h", TRUE), Lone(".data"), On("data", "a"),
          On("data", "A"), Code},
         5, <<Main, On("label", "a"), Nop>> \o Close)

LocalTopic(global) ==
  Family(global \o <<Code, Main>>,
         {On("local", "a"), On("local", "A"), On("local", "main"), On("label", "a"),
          On("write", "a"), On("read", "a"), On("offset", "a"), Map("none")},
         4, Close)

InvokeTopic(first, n) ==
  Family(first \o <<Lone(".data"), On("data", "a"), Code, Procedure("h", <<"ebx", "esi">>)>>,
         {Pop(-1), Pop(0), Pop(4), Pop(8), On("endp", "h"), Procedure("H", <<>>)},
         3, <<On("endp", "h"), Main,
              Invoking("h", [i \in 1 .. n |-> Arg(IF i = 1 THEN "value" ELSE "addr", "a")])>>
            \o Close)

WordTopic ==
  Family(<<>>,
         {Lone("include"), On("nokeyword", "loop"), On("nokeyword", "offset"),
          On("nokeyword", "main"), Lone(".data"), Equ("h", FALSE), Code},
         3, <<Code, Main, On("call", "crlf"), Invoking("crlf", <<>>), On("label", "loop"),
              On("jump", "loop"), On("label", "offset"), On("jump", "offset")>> \o Close)

TableTopic ==
  Family(<<Lone(".data"), On("data", "a"), Code, Main>>,
         {On("label", "a"), On("label", "h"), On("label", "H"), On("jump", "h"), On("call", "main"),
          Invoking("main", <<Arg("offset", "a"), Arg("value", "a"), Arg("addr", "a")>>),
          Map("none"), Lone("bad"), Equ("a", TRUE)},
         4, Close)

MCTopics == {LabelTopic, BoundaryTopic, DeclarationTopic, WordTopic, TableTopic}
              \cup {LocalTopic(g) : g \in {<<>>, <<Equ("a", TRUE)>>,
                                           <<Lone(".data"), On("data", "a")>>}}
              \cup {InvokeTopic(f, n) : n \in {0, 1, 2},
                      f \in {<<>>, <<Prototype("h", 1)>>, <<Prototype("h", 0), Prototype("H", 2)>>,
                             <<Map("none"), Prototype("H", 1), Prototype("h", 2)>>}}

MCCapacity == [t \in Tables |->
                 CASE t \in {"code", "labels"} -> 5
                   [] t \in {"pending", "branches"} -> 3
                   [] OTHER -> 2]
=============================================================================
