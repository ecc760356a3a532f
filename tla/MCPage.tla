------------------------------- MODULE MCPage -------------------------------
(* Artifacts of every age, current and not, and those that do not come up; the reader changes *)
(* settings of the group with a rule of its own and of a later one.                           *)
EXTENDS Page

UpTo(n) == {Groups[i] : i \in 1 .. n}
Working(n, current) == [load |-> "working", exports |-> UpTo(n), current |-> current]

MCArtifacts ==
  {Working(n, FALSE) : n \in 0 .. Len(Groups)} \cup {Working(Len(Groups), TRUE)}
    \cup {[load |-> l, exports |-> {}, current |-> FALSE] : l \in Load \ {"working"}}

=============================================================================
