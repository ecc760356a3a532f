----------------------------- MODULE Page_proofs -----------------------------
(***************************************************************************)
(* Proofs about Page: whatever the artifact, a setting the reader changed  *)
(* reaches the run whose result is on the page, or the run was refused;    *)
(* and once nothing is under way the page shows the last run.              *)
(***************************************************************************)
EXTENDS Page, TLAPS

\* A request carries what its run was asked for.
IsRequest(m, runs) ==
  m.type = "RUN_SOURCE" => m.run \in DOMAIN runs /\ m.detail = runs[m.run]

\* A result says which settings reached the run, all that were changed unless it was refused.
IsAnswer(m, runs) ==
  m.type = "RUN_RESULT" /\ "refused" \notin m.detail =>
    m.run \in DOMAIN runs /\ runs[m.run] \subseteq m.detail

Request == [type : {"RUN_SOURCE", "PING"}, run : Nat, detail : SUBSET Controls]
Details == ToSet(Groups) \cup Load
             \cup {"refused", "stale", "unavailable", "run failed", "initialization failed"}
Answer == [type : {"PONG", "READY", "ERROR", "RUN_RESULT", "error event"}, run : Nat,
           detail : SUBSET Details]

\* What a request asks for is kept on its way to the worker, and its answer stays true on its
\* way back and on the page.
Inv ==
  /\ artifact \in Artifacts
  /\ asked \in Seq(SUBSET Controls)
  /\ requests \in Seq(Request)
  /\ answers \in Seq(Answer)
  /\ \A i \in DOMAIN requests : IsRequest(requests[i], asked)
  /\ \A i \in DOMAIN answers : IsAnswer(answers[i], asked)
  /\ IsAnswer(panels.result, asked)
  /\ panels = [messages |-> panels.messages, result |-> panels.result]

-----------------------------------------------------------------------------
(* Groups and exports. *)

\* If no changed group lacks an export, the export called takes every changed group
\* (worker.js:85-219 and 221-353 agree).
LEMMA ChosenExportTakesAll ==
  ASSUME NEW changed \in SUBSET ToSet(Groups), ~Lacks(changed)
  PROVE  changed \subseteq Passed
<1> SUFFICES ASSUME NEW g \in changed PROVE g \in Passed
  OBVIOUS
<1>1. PICK i \in DOMAIN Groups : Groups[i] = g
  BY DEF ToSet
<1>2. artifact.exports \cap Excuses(i) # {}
  BY <1>1 DEF Lacks
<1>3. PICK j \in DOMAIN Groups : i <= j /\ Groups[j] \in artifact.exports
  <2>0. DOMAIN Groups = 1 .. 8 /\ Len(Groups) = 8
    BY DEF Groups
  <2>1. CASE Groups[i] = "rootRet"
    <3>1. i = 5
      BY <2>1, <2>0, i \in 1 .. 8 DEF Groups
    <3>2. Groups[5] = "rootRet" /\ Groups[8] = "callDepth"
      BY DEF Groups
    <3> QED
      BY <1>2, <2>0, <2>1, <3>1, <3>2 DEF Excuses
  <2>2. CASE Groups[i] # "rootRet"
    BY <1>2, <2>0, <2>2 DEF Excuses
  <2> QED
    BY <2>1, <2>2
<1> QED
  BY <1>1, <1>3 DEF Passed

\* Whatever the worker answers to a request of the page is a true answer.
LEMMA AnswersAreTrue ==
  ASSUME Inv, NEW m \in Request, m.type = "RUN_SOURCE", IsRequest(m, asked),
         NEW answer \in RunAnswers(m)
  PROVE  answer \in Answer /\ IsAnswer(answer, asked)
<1>1. m.run \in DOMAIN asked /\ asked[m.run] = m.detail /\ m.run \in Nat
  BY DEF IsRequest, Request
<1>2. m.detail \in SUBSET ToSet(Groups)
  BY PageAssumption DEF Request
<1>3. Passed \in SUBSET Details
  BY DEF Passed, Details
<1>4. CASE ~worker.runSource
  <2>1. answer = Message("ERROR", m.run, {"unavailable"})
    BY <1>4 DEF RunAnswers
  <2> QED
    BY <2>1, <1>1 DEF Message, Answer, Details, IsAnswer
<1>5. CASE worker.runSource /\ Lacks(m.detail)
  <2>1. answer = Message("RUN_RESULT", m.run, {"refused"} \cup {"stale"})
    BY <1>5 DEF RunAnswers, Stamped, Message
  <2> QED
    BY <2>1, <1>1 DEF Message, Answer, Details, IsAnswer
<1>6. CASE worker.runSource /\ ~Lacks(m.detail)
  <2>1. m.detail \subseteq Passed
    BY <1>2, <1>6, ChosenExportTakesAll
  <2>2. \/ answer = Message("ERROR", m.run, {"run failed"})
        \/ answer = Message("RUN_RESULT", m.run, Passed)
        \/ answer = Message("RUN_RESULT", m.run, Passed \cup {"stale"})
    BY <1>6 DEF RunAnswers, Stamped, Message
  <2> QED
    <3>1. Passed \cup {"stale"} \in SUBSET Details
      BY <1>3 DEF Details
    <3>2. CASE answer = Message("ERROR", m.run, {"run failed"})
      BY <3>2, <1>1 DEF Message, Answer, Details, IsAnswer
    <3>3. CASE answer = Message("RUN_RESULT", m.run, Passed)
      BY <3>3, <2>1, <1>1, <1>3 DEF Message, Answer, IsAnswer
    <3>4. CASE answer = Message("RUN_RESULT", m.run, Passed \cup {"stale"})
      BY <3>4, <2>1, <1>1, <3>1 DEF Message, Answer, IsAnswer
    <3> QED
      BY <2>2, <3>2, <3>3, <3>4
<1> QED
  BY <1>4, <1>5, <1>6

-----------------------------------------------------------------------------
(* Every step keeps the invariant. *)

\* Asking for another run does not change what the runs before it were asked for.
LEMMA AskedGrows ==
  ASSUME NEW old \in Seq(SUBSET Controls), NEW changed \in SUBSET Controls
  PROVE  LET new == Append(old, changed)
         IN  /\ new \in Seq(SUBSET Controls) /\ Len(new) \in DOMAIN new /\ Len(new) \in Nat
             /\ new[Len(new)] = changed
             /\ \A r \in DOMAIN old : r \in DOMAIN new /\ new[r] = old[r]
OBVIOUS

\* A message appended to a queue is the only new one.
LEMMA QueueGrows ==
  ASSUME NEW S, NEW q \in Seq(S), NEW m \in S, NEW i \in DOMAIN Append(q, m)
  PROVE  \/ i \in DOMAIN q /\ Append(q, m)[i] = q[i]
         \/ Append(q, m)[i] = m
OBVIOUS

\* What is left of a queue was there.
LEMMA QueueShrinks ==
  ASSUME NEW S, NEW q \in Seq(S), q # <<>>
  PROVE  /\ Tail(q) \in Seq(S) /\ Head(q) \in S
         /\ 1 \in DOMAIN q /\ Head(q) = q[1]
         /\ \A i \in DOMAIN Tail(q) : i + 1 \in DOMAIN q /\ Tail(q)[i] = q[i + 1]
OBVIOUS

LEMMA InitInv == Init => Inv
BY PageAssumption DEF Init, Inv, Blank, Message, IsAnswer, Request, Answer

\* A true answer posted keeps the invariant.
LEMMA PostKeepsInv ==
  ASSUME Inv, NEW m \in Answer, IsAnswer(m, asked), Post(m), UNCHANGED <<artifact, asked, panels>>,
         \/ UNCHANGED requests
         \/ requests # <<>> /\ requests' = Tail(requests)
  PROVE  Inv'
<1>1. answers' \in Seq(Answer)
  BY DEF Inv, Post
<1>2. \A i \in DOMAIN answers' : IsAnswer(answers'[i], asked)
  BY QueueGrows DEF Inv, Post
<1>3. requests' \in Seq(Request) /\ \A i \in DOMAIN requests' : IsRequest(requests'[i], asked)
  <2>1. requests \in Seq(Request) /\ \A i \in DOMAIN requests : IsRequest(requests[i], asked)
    BY DEF Inv
  <2>2. CASE UNCHANGED requests
    BY <2>1, <2>2
  <2>3. CASE requests # <<>> /\ requests' = Tail(requests)
    BY <2>1, <2>3, QueueShrinks
  <2> QED
    BY <2>2, <2>3
<1>4. /\ \A i \in DOMAIN requests' : IsRequest(requests'[i], asked')
      /\ \A i \in DOMAIN answers' : IsAnswer(answers'[i], asked')
      /\ IsAnswer(panels'.result, asked')
  BY <1>2, <1>3 DEF Inv, IsRequest, IsAnswer
<1> QED
  BY <1>1, <1>3, <1>4 DEF Inv

LEMMA NextInv == Inv /\ [Next]_vars => Inv'
<1> SUFFICES ASSUME Inv, [Next]_vars PROVE Inv'
  OBVIOUS
<1>1. CASE PressRun
  <2>1. PICK changed \in SUBSET Controls :
          /\ asked' = Append(asked, changed)
          /\ requests' = Append(requests, Message("RUN_SOURCE", Len(asked'), changed))
          /\ panels' = [messages |-> <<Running>>, result |-> Blank]
          /\ UNCHANGED <<artifact, worker, answers>>
    BY <1>1 DEF PressRun
  <2> DEFINE m == Message("RUN_SOURCE", Len(asked'), changed)
  <2>2. /\ asked' \in Seq(SUBSET Controls) /\ Len(asked') \in DOMAIN asked' /\ Len(asked') \in Nat
        /\ asked'[Len(asked')] = changed
        /\ \A r \in DOMAIN asked : r \in DOMAIN asked' /\ asked'[r] = asked[r]
    BY <2>1, AskedGrows DEF Inv
  <2>3. m \in Request /\ IsRequest(m, asked')
    BY <2>2 DEF Message, Request, IsRequest
  <2>4. requests' \in Seq(Request) /\ requests \in Seq(Request)
    BY <2>1, <2>3 DEF Inv
  <2>5. ASSUME NEW i \in DOMAIN requests' PROVE IsRequest(requests'[i], asked')
    <3>1. (i \in DOMAIN requests /\ requests'[i] = requests[i]) \/ requests'[i] = m
      BY <2>1, <2>3, <2>4, QueueGrows
    <3>2. \A k \in DOMAIN requests : IsRequest(requests[k], asked)
      BY DEF Inv
    <3> QED
      BY <3>1, <3>2, <2>2, <2>3 DEF IsRequest
  <2>6. \A i \in DOMAIN answers : IsAnswer(answers[i], asked')
    BY <2>1, <2>2 DEF Inv, IsAnswer
  <2>7. IsAnswer(panels'.result, asked')
    BY <2>1 DEF IsAnswer, Blank, Message
  <2> QED
    BY <2>1, <2>2, <2>4, <2>5, <2>6, <2>7 DEF Inv
<1>2. CASE PressPing
  <2> DEFINE m == Message("PING", 0, {})
  <2>1. requests' = Append(requests, m) /\ UNCHANGED <<artifact, panels, answers, asked>>
    BY <1>2 DEF PressPing
  <2>2. m \in Request /\ IsRequest(m, asked')
    BY DEF Message, Request, IsRequest
  <2>3. requests \in Seq(Request) /\ requests' \in Seq(Request)
    BY <2>1, <2>2 DEF Inv
  <2>4. ASSUME NEW i \in DOMAIN requests' PROVE IsRequest(requests'[i], asked')
    <3>1. (i \in DOMAIN requests /\ requests'[i] = requests[i]) \/ requests'[i] = m
      BY <2>1, <2>2, <2>3, QueueGrows
    <3> QED
      BY <3>1, <2>1, <2>2 DEF Inv, IsRequest
  <2> QED
    BY <2>1, <2>3, <2>4 DEF Inv, IsAnswer
<1>3. CASE Receive
  <2>1. answers # <<>> /\ answers' = Tail(answers) /\ UNCHANGED <<artifact, requests, asked>>
    BY <1>3 DEF Receive
  <2>0. /\ panels'.result = Head(answers) \/ panels'.result = panels.result
        /\ panels' = [messages |-> panels'.messages, result |-> panels'.result]
    <3>1. CASE Head(answers).type = "RUN_RESULT"
      BY <1>3, <3>1 DEF Receive
    <3>2. CASE Head(answers).type # "RUN_RESULT"
      <4>1. panels' = [panels EXCEPT !.messages = Append(@, Head(answers))]
        BY <1>3, <3>2 DEF Receive, AppendMessage
      <4>2. panels = [messages |-> panels.messages, result |-> panels.result]
        BY DEF Inv
      <4> QED
        BY <4>1, <4>2
    <3> QED
      BY <3>1, <3>2
  <2>2. /\ answers' \in Seq(Answer) /\ 1 \in DOMAIN answers /\ Head(answers) = answers[1]
        /\ \A i \in DOMAIN answers' : i + 1 \in DOMAIN answers /\ answers'[i] = answers[i + 1]
    BY <2>1, QueueShrinks DEF Inv
  <2>3. IsAnswer(panels'.result, asked') /\ \A i \in DOMAIN answers' : IsAnswer(answers'[i], asked')
    BY <2>0, <2>1, <2>2 DEF Inv, IsAnswer
  <2> QED
    BY <2>0, <2>1, <2>2, <2>3 DEF Inv, IsRequest
<1>4. CASE Start
  BY <1>4 DEF Start, Inv, IsRequest, IsAnswer
<1>5. CASE Break
  <2>1. Message("error event", 0, {}) \in Answer /\ IsAnswer(Message("error event", 0, {}), asked)
    BY DEF Message, Answer, Details, IsAnswer
  <2> QED
    BY <1>5, <2>1, PostKeepsInv DEF Break
<1>6. CASE Loaded
  <2> DEFINE m == IF artifact.load = "trapping" THEN Message("ERROR", 0, {"initialization failed"})
                  ELSE Message("READY", 0, {artifact.load})
  <2>1. artifact.load \in Load
    BY PageAssumption DEF Inv
  <2>2. m \in Answer /\ IsAnswer(m, asked)
    BY <2>1 DEF Message, Answer, Details, IsAnswer
  <2>3. Post(m) /\ UNCHANGED <<artifact, panels, requests, asked>>
    BY <1>6 DEF Loaded
  <2> QED
    BY <2>2, <2>3, PostKeepsInv
<1>7. CASE Handle
  <2> DEFINE m == Head(requests)
  <2>1. /\ requests # <<>> /\ requests' = Tail(requests) /\ UNCHANGED <<artifact, panels, asked>>
        /\ \E answer \in (IF m.type = "PING" THEN {Message("PONG", 0, {})} ELSE RunAnswers(m)) :
             Post(answer)
    BY <1>7 DEF Handle, Respond
  <2>2. PICK answer \in (IF m.type = "PING" THEN {Message("PONG", 0, {})} ELSE RunAnswers(m)) :
          Post(answer)
    BY <2>1
  <2>3. m \in Request /\ IsRequest(m, asked)
    BY <2>1, QueueShrinks DEF Inv
  <2>4. answer \in Answer /\ IsAnswer(answer, asked)
    <3>1. CASE m.type = "PING"
      <4>1. answer = Message("PONG", 0, {})
        BY <2>2, <3>1
      <4> QED
        BY <4>1 DEF Message, Answer, IsAnswer
    <3>2. CASE m.type # "PING"
      <4>1. m.type = "RUN_SOURCE"
        BY <2>3, <3>2 DEF Request
      <4> QED
        BY <2>3, <3>2, <4>1, AnswersAreTrue
    <3> QED
      BY <3>1, <3>2
  <2> QED
    BY <2>1, <2>2, <2>4, PostKeepsInv
<1>8. CASE UNCHANGED vars
  BY <1>8 DEF vars, Inv, IsRequest, IsAnswer
<1> QED
  BY <1>1, <1>2, <1>3, <1>4, <1>5, <1>6, <1>7, <1>8 DEF Next, Stop

\* Whatever artifact the worker found and however requests and answers interleave, a setting the
\* reader changed has reached the run whose result is shown, or the run was refused
\* (createRunSourceFunction).
THEOREM SettingsReachRuns == Spec => []ChangedSettingsReachTheRun
<1>1. Inv => ChangedSettingsReachTheRun
  BY DEF Inv, IsAnswer, ChangedSettingsReachTheRun
<1> QED
  BY <1>1, InitInv, NextInv, PTL DEF Spec

-----------------------------------------------------------------------------
(* Answers come in the order of the runs. *)

Latest == Len(asked)

Ascending(q) == \A i, j \in DOMAIN q : i < j /\ q[j].run # 0 => q[i].run < q[j].run
Idle(q) == \A i \in DOMAIN q : q[i].run = 0
Holds(q, n) == \E i \in DOMAIN q : q[i].run = n

\* The queues between page and worker when n runs were asked for: requests in the order they
\* were made, answers in the order of their requests, and every answer before every request.
Orderly(req, ans, n) ==
  /\ req \in Seq(Request) /\ ans \in Seq(Answer)
  /\ \A i \in DOMAIN req : req[i].run <= n /\ (req[i].type = "PING" => req[i].run = 0)
                                           /\ (req[i].type = "RUN_SOURCE" => req[i].run # 0)
  /\ \A i \in DOMAIN ans : ans[i].run <= n /\ (ans[i].type = "RUN_RESULT" => ans[i].run # 0)
  /\ Ascending(req) /\ Ascending(ans)
  /\ \A i \in DOMAIN ans, j \in DOMAIN req : req[j].run # 0 => ans[i].run < req[j].run

Panels == [messages : Seq(Answer \cup {Running}), result : Answer \cup {Blank}]

\* The result of the last run is the first thing on the page and in every panel.
OnTop(shown, n) ==
  \A k \in DOMAIN shown.messages :
    shown.messages[k].run = n /\ shown.messages[k].type = "RUN_RESULT" =>
      k = 1 /\ shown.result = shown.messages[k]

\* The last run is under way, as a request or an answer, or it is shown; when it is shown
\* nothing of any run is under way.
InOrder ==
  /\ asked \in Seq(SUBSET Controls) /\ panels \in Panels
  /\ Orderly(requests, answers, Latest)
  /\ Latest # 0 =>
       /\ Shows(Latest) \/ Holds(requests, Latest) \/ Holds(answers, Latest)
       /\ Shows(Latest) => Idle(requests) /\ Idle(answers)
       /\ OnTop(panels, Latest)

\* Messages in a queue have numbers.
LEMMA RunsAreNumbers ==
  ASSUME NEW req, NEW ans, NEW n, Orderly(req, ans, n)
  PROVE  /\ \A i \in DOMAIN req : req[i].run \in Nat
         /\ \A i \in DOMAIN ans : ans[i].run \in Nat
<1>1. req \in Seq(Request) /\ ans \in Seq(Answer)
  BY DEF Orderly
<1>2. (\A i \in DOMAIN req : req[i] \in Request) /\ (\A i \in DOMAIN ans : ans[i] \in Answer)
  BY <1>1
<1>3. (\A m \in Request : m.run \in Nat) /\ (\A m \in Answer : m.run \in Nat)
  BY DEF Request, Answer
<1> QED
  BY <1>2, <1>3

\* A new run is the last of all.
LEMMA RunAsked ==
  ASSUME NEW req, NEW ans, NEW n \in Nat, Orderly(req, ans, n),
         NEW m \in Request, m.type = "RUN_SOURCE", m.run = n + 1
  PROVE  Orderly(Append(req, m), ans, n + 1) /\ Holds(Append(req, m), n + 1)
<1>1. req \in Seq(Request) /\ ans \in Seq(Answer)
  BY DEF Orderly
<1>2. /\ Append(req, m) \in Seq(Request) /\ Len(req) \in Nat /\ DOMAIN req = 1 .. Len(req)
      /\ DOMAIN Append(req, m) = 1 .. Len(req) + 1
      /\ \A i \in DOMAIN req : Append(req, m)[i] = req[i]
      /\ Append(req, m)[Len(req) + 1] = m
  BY <1>1
<1>3. /\ \A i \in DOMAIN req : req[i].run \in Nat
      /\ \A i \in DOMAIN ans : ans[i].run \in Nat
  BY RunsAreNumbers
<1>4. Ascending(Append(req, m))
  BY <1>2, <1>3 DEF Orderly, Ascending
<1>5. ASSUME NEW i \in DOMAIN Append(req, m)
      PROVE  LET r == Append(req, m)[i]
             IN  r.run <= n + 1 /\ (r.type = "PING" => r.run = 0)
                                /\ (r.type = "RUN_SOURCE" => r.run # 0)
  <2>1. CASE i \in DOMAIN req
    BY <1>2, <1>3, <2>1 DEF Orderly
  <2>2. CASE i = Len(req) + 1
    BY <1>2, <2>2
  <2> QED
    BY <1>2, <2>1, <2>2
<1>6. \A i \in DOMAIN ans : ans[i].run <= n + 1 /\ (ans[i].type = "RUN_RESULT" => ans[i].run # 0)
  BY <1>3 DEF Orderly
<1>7. ASSUME NEW i \in DOMAIN ans, NEW j \in DOMAIN Append(req, m), Append(req, m)[j].run # 0
      PROVE  ans[i].run < Append(req, m)[j].run
  <2>1. CASE j \in DOMAIN req
    BY <1>2, <1>7, <2>1 DEF Orderly
  <2>2. CASE j = Len(req) + 1
    BY <1>2, <1>3, <2>2 DEF Orderly
  <2> QED
    BY <1>2, <2>1, <2>2
<1>8. Ascending(ans)
  BY DEF Orderly
<1>9. Orderly(Append(req, m), ans, n + 1)
  BY <1>1, <1>2, <1>4, <1>5, <1>6, <1>7, <1>8 DEF Orderly
<1> QED
  BY <1>2, <1>9 DEF Holds

\* A PING belongs to no run.
LEMMA PingAsked ==
  ASSUME NEW req, NEW ans, NEW n \in Nat, Orderly(req, ans, n),
         NEW m \in Request, m.type = "PING", m.run = 0
  PROVE  /\ Orderly(Append(req, m), ans, n)
         /\ Holds(req, n) => Holds(Append(req, m), n)
         /\ Idle(req) => Idle(Append(req, m))
<1>1. req \in Seq(Request) /\ ans \in Seq(Answer)
  BY DEF Orderly
<1>2. /\ Append(req, m) \in Seq(Request) /\ Len(req) \in Nat /\ DOMAIN req = 1 .. Len(req)
      /\ DOMAIN Append(req, m) = 1 .. Len(req) + 1
      /\ \A i \in DOMAIN req : Append(req, m)[i] = req[i]
      /\ Append(req, m)[Len(req) + 1] = m
  BY <1>1
<1>3. Ascending(Append(req, m))
  BY <1>2 DEF Orderly, Ascending
<1> QED
  BY <1>1, <1>2, <1>3 DEF Orderly, Holds, Idle

\* What the worker says of itself belongs to no run.
LEMMA Announced ==
  ASSUME NEW req, NEW ans, NEW n \in Nat, Orderly(req, ans, n),
         NEW a \in Answer, a.run = 0, a.type # "RUN_RESULT"
  PROVE  /\ Orderly(req, Append(ans, a), n)
         /\ Holds(ans, n) => Holds(Append(ans, a), n)
         /\ Idle(ans) => Idle(Append(ans, a))
<1>1. req \in Seq(Request) /\ ans \in Seq(Answer)
  BY DEF Orderly
<1>2. /\ Append(ans, a) \in Seq(Answer) /\ Len(ans) \in Nat /\ DOMAIN ans = 1 .. Len(ans)
      /\ DOMAIN Append(ans, a) = 1 .. Len(ans) + 1
      /\ \A i \in DOMAIN ans : Append(ans, a)[i] = ans[i]
      /\ Append(ans, a)[Len(ans) + 1] = a
  BY <1>1
<1>3. \A i \in DOMAIN req : req[i].run \in Nat
  BY RunsAreNumbers
<1>4. Ascending(Append(ans, a))
  BY <1>2 DEF Orderly, Ascending
<1> QED
  BY <1>1, <1>2, <1>3, <1>4 DEF Orderly, Holds, Idle

\* The answer to the oldest request comes after all answers and before the other requests.
LEMMA RequestAnswered ==
  ASSUME NEW req, NEW ans, NEW n \in Nat, Orderly(req, ans, n), req # <<>>,
         NEW a \in Answer, a.run = Head(req).run, a.type = "RUN_RESULT" => a.run # 0
  PROVE  /\ Orderly(Tail(req), Append(ans, a), n)
         /\ Holds(req, n) \/ Holds(ans, n) => Holds(Tail(req), n) \/ Holds(Append(ans, a), n)
         /\ Idle(req) /\ Idle(ans) => Idle(Tail(req)) /\ Idle(Append(ans, a))
<1>1. req \in Seq(Request) /\ ans \in Seq(Answer)
  BY DEF Orderly
<1>2. /\ Append(ans, a) \in Seq(Answer) /\ Len(ans) \in Nat /\ DOMAIN ans = 1 .. Len(ans)
      /\ DOMAIN Append(ans, a) = 1 .. Len(ans) + 1
      /\ \A i \in DOMAIN ans : Append(ans, a)[i] = ans[i]
      /\ Append(ans, a)[Len(ans) + 1] = a
  BY <1>1
<1>3. /\ Tail(req) \in Seq(Request) /\ Len(req) \in Nat \ {0}
      /\ DOMAIN req = 1 .. Len(req) /\ DOMAIN Tail(req) = 1 .. Len(req) - 1
      /\ \A i \in DOMAIN Tail(req) : i + 1 \in DOMAIN req /\ Tail(req)[i] = req[i + 1]
      /\ Head(req) = req[1] /\ 1 \in DOMAIN req
  BY <1>1
<1>4. /\ \A i \in DOMAIN req : req[i].run \in Nat
      /\ \A i \in DOMAIN ans : ans[i].run \in Nat
  BY RunsAreNumbers
<1>5. Ascending(Append(ans, a))
  BY <1>2, <1>3, <1>4 DEF Orderly, Ascending
<1>6. Ascending(Tail(req))
  BY <1>3, <1>4 DEF Orderly, Ascending
<1>7. ASSUME NEW i \in DOMAIN Append(ans, a), NEW j \in DOMAIN Tail(req), Tail(req)[j].run # 0
      PROVE  Append(ans, a)[i].run < Tail(req)[j].run
  <2>1. CASE i \in DOMAIN ans
    BY <1>2, <1>3, <1>7, <2>1 DEF Orderly
  <2>2. CASE i = Len(ans) + 1
    BY <1>2, <1>3, <1>7, <2>2 DEF Orderly, Ascending
  <2> QED
    BY <1>2, <2>1, <2>2
<1>8. Orderly(Tail(req), Append(ans, a), n)
  BY <1>1, <1>2, <1>3, <1>5, <1>6, <1>7 DEF Orderly
<1>9. ASSUME Holds(req, n) \/ Holds(ans, n)
      PROVE  Holds(Tail(req), n) \/ Holds(Append(ans, a), n)
  <2>1. CASE Holds(ans, n)
    BY <1>2, <2>1 DEF Holds
  <2>2. CASE Holds(req, n)
    <3>1. PICK i \in DOMAIN req : req[i].run = n
      BY <2>2 DEF Holds
    <3>2. CASE i = 1
      BY <1>2, <1>3, <3>1, <3>2 DEF Holds
    <3>3. CASE i # 1
      <4>1. i - 1 \in DOMAIN Tail(req) /\ Tail(req)[i - 1] = req[i]
        BY <1>3, <3>3
      <4> QED
        BY <3>1, <4>1 DEF Holds
    <3> QED
      BY <3>2, <3>3
  <2> QED
    BY <1>9, <2>1, <2>2
<1>10. Idle(req) /\ Idle(ans) => Idle(Tail(req)) /\ Idle(Append(ans, a))
  BY <1>2, <1>3 DEF Idle
<1> QED
  BY <1>8, <1>9, <1>10

\* Taking the oldest answer keeps the order; if it answers the last run, no other run is under
\* way.
LEMMA AnswerTaken ==
  ASSUME NEW req, NEW ans, NEW n \in Nat \ {0}, Orderly(req, ans, n), ans # <<>>
  PROVE  /\ Orderly(req, Tail(ans), n)
         /\ Holds(ans, n) => Head(ans).run = n \/ Holds(Tail(ans), n)
         /\ Head(ans).run = n => Idle(req) /\ Idle(Tail(ans))
         /\ Idle(ans) => Idle(Tail(ans)) /\ Head(ans).run = 0
<1>1. req \in Seq(Request) /\ ans \in Seq(Answer)
  BY DEF Orderly
<1>3. /\ Tail(ans) \in Seq(Answer) /\ Len(ans) \in Nat \ {0}
      /\ DOMAIN ans = 1 .. Len(ans) /\ DOMAIN Tail(ans) = 1 .. Len(ans) - 1
      /\ \A i \in DOMAIN Tail(ans) : i + 1 \in DOMAIN ans /\ Tail(ans)[i] = ans[i + 1]
      /\ Head(ans) = ans[1] /\ 1 \in DOMAIN ans
  BY <1>1
<1>4. /\ \A i \in DOMAIN req : req[i].run \in Nat
      /\ \A i \in DOMAIN ans : ans[i].run \in Nat
  BY RunsAreNumbers
<1>5. Ascending(Tail(ans))
  BY <1>3, <1>4 DEF Orderly, Ascending
<1>6. Orderly(req, Tail(ans), n)
  BY <1>1, <1>3, <1>5 DEF Orderly
<1>7. ASSUME Holds(ans, n), Head(ans).run # n
      PROVE  Holds(Tail(ans), n)
  <2>1. PICK i \in DOMAIN ans : ans[i].run = n
    BY <1>7 DEF Holds
  <2>2. i - 1 \in DOMAIN Tail(ans) /\ Tail(ans)[i - 1] = ans[i]
    BY <1>3, <1>7, <2>1
  <2> QED
    BY <2>1, <2>2 DEF Holds
<1>8. ASSUME Head(ans).run = n
      PROVE  Idle(req) /\ Idle(Tail(ans))
  <2>1. ASSUME NEW j \in DOMAIN req PROVE req[j].run = 0
    BY <1>3, <1>4, <1>8 DEF Orderly
  <2>2. ASSUME NEW j \in DOMAIN Tail(ans) PROVE Tail(ans)[j].run = 0
    <3>1. j + 1 \in DOMAIN ans /\ 1 < j + 1 /\ ans[j + 1].run <= n /\ Tail(ans)[j] = ans[j + 1]
      BY <1>3 DEF Orderly
    <3>2. ans[j + 1].run # 0 => ans[1].run < ans[j + 1].run
      BY <1>3, <3>1 DEF Orderly, Ascending
    <3> QED
      BY <1>3, <1>4, <1>8, <3>1, <3>2
  <2> QED
    BY <2>1, <2>2 DEF Idle
<1>9. Idle(ans) => Idle(Tail(ans)) /\ Head(ans).run = 0
  BY <1>3 DEF Idle
<1> QED
  BY <1>6, <1>7, <1>8, <1>9

\* Showing an answer: a result alone, any other below what is there.
Shown(old, new, m) ==
  IF m.type = "RUN_RESULT" THEN new = [messages |-> <<m>>, result |-> m]
  ELSE new = [old EXCEPT !.messages = Append(@, m)]

ShowsIn(shown, n) == \E k \in DOMAIN shown.messages : shown.messages[k].run = n

LEMMA AnswerShown ==
  ASSUME NEW old \in Panels, NEW new, NEW m \in Answer, NEW n \in Nat, Shown(old, new, m)
  PROVE  /\ new \in Panels
         /\ m.run = n => ShowsIn(new, n)
         /\ ShowsIn(old, n) /\ m.type # "RUN_RESULT" => ShowsIn(new, n)
         /\ ShowsIn(new, n) => ShowsIn(old, n) \/ m.run = n
         /\ OnTop(old, n) => OnTop(new, n)
<1>1. CASE m.type = "RUN_RESULT"
  <2>1. /\ new = [messages |-> <<m>>, result |-> m]
        /\ new.messages = <<m>> /\ new.result = m
        /\ <<m>> \in Seq(Answer \cup {Running}) /\ DOMAIN <<m>> = {1} /\ <<m>>[1] = m
    BY <1>1 DEF Shown
  <2> QED
    BY <1>1, <2>1 DEF Panels, ShowsIn, OnTop
<1>2. CASE m.type # "RUN_RESULT"
  <2> DEFINE q == old.messages
  <2>1. /\ q \in Seq(Answer \cup {Running}) /\ old = [messages |-> q, result |-> old.result]
        /\ old.result \in Answer \cup {Blank}
    BY DEF Panels
  <2>2. new = [messages |-> Append(q, m), result |-> old.result]
    BY <1>2, <2>1 DEF Shown
  <2>3. /\ Append(q, m) \in Seq(Answer \cup {Running})
        /\ Len(q) \in Nat /\ DOMAIN q = 1 .. Len(q) /\ DOMAIN Append(q, m) = 1 .. Len(q) + 1
        /\ \A i \in DOMAIN q : Append(q, m)[i] = q[i]
        /\ Append(q, m)[Len(q) + 1] = m
    BY <2>1
  <2>4. new \in Panels
    BY <2>1, <2>2, <2>3 DEF Panels
  <2>5. /\ m.run = n => ShowsIn(new, n)
        /\ ShowsIn(old, n) => ShowsIn(new, n)
        /\ ShowsIn(new, n) => ShowsIn(old, n) \/ m.run = n
    BY <2>2, <2>3 DEF ShowsIn
  <2>6. OnTop(old, n) => OnTop(new, n)
    BY <1>2, <2>2, <2>3 DEF OnTop
  <2> QED
    BY <2>4, <2>5, <2>6
<1> QED
  BY <1>1, <1>2

\* Before the first run an answer taken belongs to none.
LEMMA NoneAsked ==
  ASSUME NEW req, NEW ans, Orderly(req, ans, 0), ans # <<>>
  PROVE  Orderly(req, Tail(ans), 0)
<1>1. req \in Seq(Request) /\ ans \in Seq(Answer)
  BY DEF Orderly
<1>2. /\ Tail(ans) \in Seq(Answer)
      /\ \A i \in DOMAIN Tail(ans) : i + 1 \in DOMAIN ans /\ Tail(ans)[i] = ans[i + 1]
  BY <1>1, QueueShrinks
<1>3. \A i, j \in DOMAIN Tail(ans) : i < j => i + 1 < j + 1
  BY <1>1
<1>4. Ascending(Tail(ans))
  BY <1>2, <1>3 DEF Orderly, Ascending
<1> QED
  BY <1>1, <1>2, <1>4 DEF Orderly

LEMMA InitInOrder == Init => InOrder
<1> SUFFICES ASSUME Init PROVE InOrder
  OBVIOUS
<1>1. asked = <<>> /\ requests = <<>> /\ answers = <<>> /\ panels = [messages |-> <<>>, result |-> Blank]
  BY DEF Init
<1>2. Latest = 0 /\ asked \in Seq(SUBSET Controls)
  BY <1>1 DEF Latest
<1>3. panels \in Panels
  BY <1>1 DEF Panels
<1>4. Orderly(<<>>, <<>>, 0)
  BY DEF Orderly, Ascending
<1> QED
  BY <1>1, <1>2, <1>3, <1>4 DEF InOrder

LEMMA NextInOrder == Inv /\ InOrder /\ [Next]_vars => InOrder'
<1> SUFFICES ASSUME Inv, InOrder, [Next]_vars PROVE InOrder'
  OBVIOUS
<1>0. /\ asked \in Seq(SUBSET Controls) /\ Latest \in Nat
      /\ panels \in Panels /\ Orderly(requests, answers, Latest)
      /\ \A n : Shows(n) <=> ShowsIn(panels, n)
      /\ \A n : Shows(n)' <=> ShowsIn(panels', n)
  BY DEF InOrder, Latest, Shows, ShowsIn
<1>1. CASE PressRun
  <2>1. PICK changed \in SUBSET Controls :
          /\ asked' = Append(asked, changed)
          /\ requests' = Append(requests, Message("RUN_SOURCE", Len(asked'), changed))
          /\ panels' = [messages |-> <<Running>>, result |-> Blank]
          /\ UNCHANGED answers
    BY <1>1 DEF PressRun
  <2> DEFINE m == Message("RUN_SOURCE", Len(asked'), changed)
  <2>2. asked' \in Seq(SUBSET Controls) /\ Latest' = Latest + 1 /\ Latest' # 0
    BY <1>0, <2>1 DEF Latest
  <2>3. m \in Request /\ m.type = "RUN_SOURCE" /\ m.run = Latest + 1
    BY <1>0, <2>2 DEF Message, Request, Latest
  <2>4. Orderly(requests', answers', Latest') /\ Holds(requests', Latest')
    BY <1>0, <2>1, <2>2, <2>3, RunAsked
  <2>5. panels' \in Panels
    BY <2>1 DEF Panels
  <2>6. ~Shows(Latest)' /\ OnTop(panels', Latest')
    <3>1. \A k \in DOMAIN panels'.messages : panels'.messages[k].run = 0
      BY <2>1 DEF Running, Message
    <3> QED
      BY <1>0, <2>2, <3>1 DEF ShowsIn, OnTop, Shows
  <2> QED
    BY <2>2, <2>4, <2>5, <2>6 DEF InOrder
<1>2. CASE PressPing
  <2> DEFINE m == Message("PING", 0, {})
  <2>1. requests' = Append(requests, m) /\ UNCHANGED <<panels, answers, asked>>
    BY <1>2 DEF PressPing
  <2>2. m \in Request /\ m.type = "PING" /\ m.run = 0
    BY DEF Message, Request
  <2>3. /\ Orderly(requests', answers', Latest)
        /\ Holds(requests, Latest) => Holds(requests', Latest)
        /\ Idle(requests) => Idle(requests')
    BY <1>0, <2>1, <2>2, PingAsked
  <2> QED
    BY <2>1, <2>3 DEF InOrder, Latest, Shows
<1>3. CASE Receive
  <2> DEFINE m == Head(answers)
  <2>1. answers # <<>> /\ answers' = Tail(answers) /\ UNCHANGED <<requests, asked>>
    BY <1>3 DEF Receive
  <2>2. m \in Answer /\ Shown(panels, panels', m)
    BY <1>3, QueueShrinks DEF Receive, Inv, Shown, AppendMessage
  <2>3. Latest' = Latest /\ asked' \in Seq(SUBSET Controls)
    BY <1>0, <2>1 DEF Latest
  <2>4. panels' \in Panels
    BY <1>0, <2>2, AnswerShown
  <2>5. CASE Latest = 0
    <3>1. Orderly(requests', answers', Latest)
      BY <1>0, <2>1, <2>5, NoneAsked
    <3> QED
      BY <2>3, <2>4, <2>5, <3>1 DEF InOrder
  <2>6. CASE Latest # 0
    <3>1. /\ Orderly(requests', answers', Latest)
          /\ Holds(answers, Latest) => m.run = Latest \/ Holds(answers', Latest)
          /\ m.run = Latest => Idle(requests') /\ Idle(answers')
          /\ Idle(answers) => Idle(answers') /\ m.run = 0
      BY <1>0, <2>1, <2>6, AnswerTaken
    <3>2. /\ m.run = Latest => Shows(Latest)'
          /\ Shows(Latest) /\ m.type # "RUN_RESULT" => Shows(Latest)'
          /\ Shows(Latest)' => Shows(Latest) \/ m.run = Latest
          /\ OnTop(panels, Latest) => OnTop(panels', Latest)
      BY <1>0, <2>2, <2>3, AnswerShown
    <3>3. m.type = "RUN_RESULT" => m.run # 0
      BY <1>0, <2>1, QueueShrinks DEF Orderly
    <3>4. Shows(Latest)' => Idle(requests') /\ Idle(answers')
      BY <2>1, <2>6, <3>1, <3>2 DEF InOrder
    <3>5. Shows(Latest)' \/ Holds(requests', Latest) \/ Holds(answers', Latest)
      BY <2>1, <2>6, <3>1, <3>2, <3>3 DEF InOrder
    <3> QED
      BY <2>3, <2>4, <2>6, <3>1, <3>2, <3>4, <3>5 DEF InOrder
  <2> QED
    BY <2>5, <2>6
<1>4. CASE Start
  BY <1>4 DEF Start, InOrder, Latest, Shows
<1>5. ASSUME NEW a \in Answer, a.run = 0, a.type # "RUN_RESULT", Post(a),
             UNCHANGED <<panels, requests, asked>>
      PROVE  InOrder'
  <2>1. /\ Orderly(requests, answers', Latest)
        /\ Holds(answers, Latest) => Holds(answers', Latest)
        /\ Idle(answers) => Idle(answers')
    BY <1>0, <1>5, Announced DEF Post
  <2> QED
    BY <1>5, <2>1 DEF InOrder, Latest, Shows
<1>6. CASE Break
  <2>1. LET a == Message("error event", 0, {})
        IN  a \in Answer /\ a.run = 0 /\ a.type # "RUN_RESULT"
    BY DEF Message, Answer, Details
  <2> QED
    BY <1>5, <1>6, <2>1 DEF Break
<1>7. CASE Loaded
  <2> DEFINE a == IF artifact.load = "trapping" THEN Message("ERROR", 0, {"initialization failed"})
                  ELSE Message("READY", 0, {artifact.load})
  <2>1. artifact.load \in Load
    BY PageAssumption DEF Inv
  <2>2. a \in Answer /\ a.run = 0 /\ a.type # "RUN_RESULT"
    BY <2>1 DEF Message, Answer, Details
  <2>3. Post(a) /\ UNCHANGED <<panels, requests, asked>>
    BY <1>7 DEF Loaded
  <2> QED
    BY <1>5, <2>2, <2>3
<1>8. CASE Handle
  <2> DEFINE m == Head(requests)
  <2>1. /\ requests # <<>> /\ requests' = Tail(requests) /\ UNCHANGED <<panels, asked>>
    BY <1>8 DEF Handle, Respond
  <2>2. PICK answer \in (IF m.type = "PING" THEN {Message("PONG", 0, {})} ELSE RunAnswers(m)) :
          Post(answer)
    BY <1>8 DEF Handle, Respond
  <2>3. /\ m \in Request /\ IsRequest(m, asked)
        /\ m.type = "PING" => m.run = 0
        /\ m.type = "RUN_SOURCE" => m.run # 0
    BY <1>0, <2>1, QueueShrinks DEF Inv, Orderly
  <2>4. answer \in Answer /\ answer.run = m.run /\ (answer.type = "RUN_RESULT" => answer.run # 0)
    <3>1. CASE m.type = "PING"
      <4>1. answer = Message("PONG", 0, {})
        BY <2>2, <3>1
      <4> QED
        BY <2>3, <3>1, <4>1 DEF Message, Answer
    <3>2. CASE m.type # "PING"
      <4>1. m.type = "RUN_SOURCE"
        BY <2>3, <3>2 DEF Request
      <4>2. answer \in Answer
        BY <2>2, <2>3, <3>2, <4>1, AnswersAreTrue
      <4>3. answer.run = m.run
        <5>1. \/ answer = Message("ERROR", m.run, {"unavailable"})
              \/ answer = Message("RUN_RESULT", m.run, {"refused"} \cup {"stale"})
              \/ answer = Message("RUN_RESULT", m.run, Passed)
              \/ answer = Message("RUN_RESULT", m.run, Passed \cup {"stale"})
              \/ answer = Message("ERROR", m.run, {"run failed"})
          BY <2>2, <3>2 DEF RunAnswers, Stamped, Message
        <5>2. \A t, d : Message(t, m.run, d).run = m.run
          BY DEF Message
        <5> QED
          BY <5>1, <5>2
      <4> QED
        BY <2>3, <4>1, <4>2, <4>3
    <3> QED
      BY <3>1, <3>2
  <2>5. /\ Orderly(requests', answers', Latest)
        /\ Holds(requests, Latest) \/ Holds(answers, Latest) =>
             Holds(requests', Latest) \/ Holds(answers', Latest)
        /\ Idle(requests) /\ Idle(answers) => Idle(requests') /\ Idle(answers')
    BY <1>0, <2>1, <2>2, <2>4, RequestAnswered DEF Post
  <2> QED
    BY <2>1, <2>5 DEF InOrder, Latest, Shows
<1>9. CASE UNCHANGED vars
  BY <1>9 DEF vars, InOrder, Latest, Shows
<1> QED
  BY <1>1, <1>2, <1>3, <1>4, <1>6, <1>7, <1>8, <1>9 DEF Next, Stop

\* When nothing is under way the page shows the answer to the last run asked for, and if it is a
\* result every panel belongs to it, however late the answers to earlier runs came
\* (worker.onmessage).
THEOREM LastRunShown == Spec => []SettledPageShowsTheLastRun
<1>1. InOrder => SettledPageShowsTheLastRun
  <2> SUFFICES ASSUME InOrder, Settled, asked # <<>>
               PROVE  /\ Shows(Latest) /\ OnTop(panels, Latest)
    BY DEF SettledPageShowsTheLastRun, OnTop, Latest
  <2>1. Latest # 0
    BY DEF InOrder, Latest
  <2>2. ~Holds(requests, Latest) /\ ~Holds(answers, Latest)
    BY DEF Settled, Holds
  <2> QED
    BY <2>1, <2>2 DEF InOrder
<1> QED
  BY <1>1, InitInv, NextInv, InitInOrder, NextInOrder, PTL DEF Spec

=============================================================================
