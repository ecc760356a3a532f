-------------------------------- MODULE Page --------------------------------
(***************************************************************************)
(* The page, its worker and the artifact the worker loads                  *)
(* (web/src/main.js, worker.js, protocol.js).  Page and worker are threads *)
(* of their own that exchange messages in order; the artifact loads while  *)
(* requests may already arrive.  Nothing numbers a request, so an answer   *)
(* is matched to its request by order alone.                               *)
(*                                                                         *)
(* The artifact is a file built apart from the page's scripts, perhaps     *)
(* from an older source: it may be missing, fail to start, or lack the     *)
(* export that takes a setting the page offers.                            *)
(***************************************************************************)
EXTENDS Naturals, SequencesExt

CONSTANTS Artifacts,  \* artifacts the worker may find
          Controls,   \* settings groups the page has controls for
          MaxClicks   \* how often the reader presses Run or Ping

\* The groups of settings in the order their exports were added; an export takes its own group
\* and the groups before it.
Groups == <<"diagnostics", "startup", "storage", "limit", "rootRet", "fallthrough", "entryEnd",
            "callDepth">>

Load == {"missing", "unusable", "trapping", "without source run", "working"}

ASSUME PageAssumption ==
  /\ \A a \in Artifacts : a \in [load : Load, exports : SUBSET ToSet(Groups), current : BOOLEAN]
  /\ Controls \subseteq ToSet(Groups) /\ MaxClicks \in Nat

VARIABLES
  artifact,  \* what is found in web/dist
  panels,    \* the Simulator Messages, line by line, and the result in the other panels
  worker,    \* its script starts, runs or is broken; loading or not; runSource is there or not
  requests,  \* messages on their way to the worker
  answers,   \* messages and error events on their way to the page
  clicks,    \* how often a button was pressed
  asked      \* history: the settings changed for each run that was asked for

vars == <<artifact, panels, worker, requests, answers, clicks, asked>>

Message(type, run, detail) == [type |-> type, run |-> run, detail |-> detail]

Blank == Message("NONE", 0, {})
Running == Message("RUNNING", 0, {})

Init ==
  /\ artifact \in Artifacts
  /\ panels = [messages |-> <<>>, result |-> Blank]
  /\ worker = [script |-> "starting", loading |-> TRUE, runSource |-> FALSE]
  /\ requests = <<>> /\ answers = <<>> /\ clicks = 0 /\ asked = <<>>

-----------------------------------------------------------------------------
(* The page. *)

Click == clicks < MaxClicks /\ clicks' = clicks + 1

\* Run empties every panel and sends the source with the settings of the controls.
PressRun ==
  \E changed \in SUBSET Controls :
    /\ Click
    /\ asked' = Append(asked, changed)
    /\ panels' = [messages |-> <<Running>>, result |-> Blank]
    /\ requests' = Append(requests, Message("RUN_SOURCE", Len(asked'), changed))
    /\ UNCHANGED <<artifact, worker, answers>>

PressPing ==
  /\ Click
  /\ requests' = Append(requests, Message("PING", 0, {}))
  /\ UNCHANGED <<artifact, panels, worker, answers, asked>>

AppendMessage(m) == panels' = [panels EXCEPT !.messages = Append(@, m)]

\* A slip: a result goes below what is there, like every other message.
ReceiveBelow ==
  /\ answers # <<>>
  /\ AppendMessage(Head(answers))
  /\ answers' = Tail(answers)
  /\ UNCHANGED <<artifact, worker, requests, clicks, asked>>

\* A result replaces what is on the page; every other message is added below it.
Receive ==
  /\ answers # <<>>
  /\ LET m == Head(answers)
     IN  IF m.type = "RUN_RESULT" THEN panels' = [messages |-> <<m>>, result |-> m]
         ELSE AppendMessage(m)
  /\ answers' = Tail(answers)
  /\ UNCHANGED <<artifact, worker, requests, clicks, asked>>

-----------------------------------------------------------------------------
(* The worker. *)

Post(m) == answers' = Append(answers, m)

\* The script starts to listen and to load, or the browser reports that it cannot.
Start ==
  /\ worker.script = "starting"
  /\ worker' = [worker EXCEPT !.script = "running"]
  /\ UNCHANGED <<artifact, panels, requests, answers, clicks, asked>>

Break ==
  /\ worker.script = "starting"
  /\ worker' = [worker EXCEPT !.script = "broken"]
  /\ Post(Message("error event", 0, {}))
  /\ UNCHANGED <<artifact, panels, requests, clicks, asked>>

\* The artifact has loaded, or has not; a trap in its first call rejects the promise.
Loaded ==
  /\ worker.script = "running" /\ worker.loading
  /\ worker' = [worker EXCEPT !.loading = FALSE, !.runSource = artifact.load = "working"]
  /\ Post(IF artifact.load = "trapping" THEN Message("ERROR", 0, {"initialization failed"})
          ELSE Message("READY", 0, {artifact.load}))
  /\ UNCHANGED <<artifact, panels, requests, clicks, asked>>

\* A slip: the export before a group's own is enough.
ExcusesEarlier(i) == {Groups[j] : j \in i - 1 .. Len(Groups)}

\* The exports one of which must be there: the group's own and the later ones, which take it
\* too.  For the root RET mode only the last will do instead.
Excuses(i) ==
  IF Groups[i] = "rootRet" THEN {"rootRet", "callDepth"}
  ELSE {Groups[j] : j \in i .. Len(Groups)}

Lacks(changed) == \E i \in DOMAIN Groups : Groups[i] \in changed /\ artifact.exports \cap Excuses(i) = {}

\* The latest export there is gets called, with the groups it takes.
Passed == {g \in ToSet(Groups) :
             \E i, j \in DOMAIN Groups : g = Groups[i] /\ i <= j /\ Groups[j] \in artifact.exports}

\* A result of an artifact that is not current, or that came from no artifact, gets a warning.
Stamped(m, current) == IF current THEN m ELSE [m EXCEPT !.detail = @ \cup {"stale"}]

\* runSource refuses, runs, or throws.
RunAnswers(m) ==
  IF ~worker.runSource THEN {Message("ERROR", m.run, {"unavailable"})}
  ELSE IF Lacks(m.detail) THEN {Stamped(Message("RUN_RESULT", m.run, {"refused"}), FALSE)}
  ELSE {Stamped(Message("RUN_RESULT", m.run, Passed), artifact.current),
        Message("ERROR", m.run, {"run failed"})}

Respond ==
  /\ LET m == Head(requests)
     IN  \E answer \in (IF m.type = "PING" THEN {Message("PONG", 0, {})} ELSE RunAnswers(m)) :
           Post(answer)
  /\ requests' = Tail(requests)
  /\ UNCHANGED <<artifact, panels, worker, clicks, asked>>

\* A slip: requests wait until the artifact has loaded.
HandleLoaded == worker.script = "running" /\ ~worker.loading /\ requests # <<>> /\ Respond

\* One request, one answer.
Handle == worker.script = "running" /\ requests # <<>> /\ Respond

\* The reader has stopped and nothing is under way.
Stop ==
  /\ clicks = MaxClicks /\ answers = <<>>
  /\ worker.script = "broken" \/ (requests = <<>> /\ ~worker.loading)
  /\ UNCHANGED vars

Next == PressRun \/ PressPing \/ Receive \/ Start \/ Break \/ Loaded \/ Handle \/ Stop

\* Both event loops go on; whether the artifact ever finishes loading is left open.
Spec == Init /\ [][Next]_vars /\ WF_vars(Receive) /\ WF_vars(Start \/ Break) /\ WF_vars(Handle)

-----------------------------------------------------------------------------
(* Properties. *)

Shows(n) == \E k \in DOMAIN panels.messages : panels.messages[k].run = n
Settled == requests = <<>> /\ answers = <<>> /\ worker.script # "broken"

\* When nothing is under way the page shows the answer to the last run asked for, and if that is
\* a result, every panel belongs to it: nothing an earlier run sent late has covered it
\* (main.js:129-141 matches answers to runs by order alone).
SettledPageShowsTheLastRun ==
  Settled /\ asked # <<>> =>
    LET n == Len(asked)
    IN  /\ Shows(n)
        /\ \A k \in DOMAIN panels.messages :
             panels.messages[k].run = n /\ panels.messages[k].type = "RUN_RESULT" =>
               k = 1 /\ panels.result = panels.messages[k]

\* Whatever artifact the worker found, a setting the reader changed has reached the run whose
\* result is shown, or the run was refused (worker.js:85-219 against 221-353).
ChangedSettingsReachTheRun ==
  panels.result.type = "RUN_RESULT" /\ "refused" \notin panels.result.detail =>
    asked[panels.result.run] \subseteq panels.result.detail

\* Every run is answered on the page, unless another is asked for first or the worker's script
\* is broken; even while the artifact is still loading (worker.js:451-453).
EveryRunIsAnswered ==
  \A n \in 1 .. MaxClicks :
    Len(asked) = n ~> Shows(n) \/ Len(asked) > n \/ worker.script = "broken"

=============================================================================
