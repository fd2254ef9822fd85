---------------------------- MODULE MCToolCalls ----------------------------
(***************************************************************************)
(* Every kind of tool call, made by every kind of run, against everything  *)
(* the far side may do: what AgentRuns takes for one step of a run.        *)
(***************************************************************************)
EXTENDS MCAgentRuns, Integers, Sequences, SequencesExt

Longest == 2

TC == INSTANCE ToolCalls WITH
        MaxChars <- Longest, Disabled <- {"PYTHON", "COMMAND"}, Risky <- {"HIGH", "CRITICAL"}

ToolTypes == {"MCP", "REST", "OPENAPI", "INTERNAL", "DATABASE", "PYTHON", "COMMAND"}

\* Method and credential count only for what is sent.
ToolsOf(methods, creds) ==
    [id: {"t"}, type: ToolTypes, enabled: BOOLEAN, risk: {"LOW", "HIGH"}, needs: {"p"},
     endpoint: {"none", "url"}, method: methods, cred: creds, handler: BOOLEAN]

Callers == [granted: SUBSET {"t"}, may: SUBSET {"p"}]

Bodies == [form: {"text", "list"}, length: {0, 3}]
          \cup [form: {"object"}, length: {3}, error: {"none", "object", "other"},
                result: {"object", "other"}, isError: BOOLEAN, blocks: {0, 1, 3}]

FarSides == {[kind |-> "silent"], [kind |-> "raises"]}
            \cup [kind: {"replies"}, status: {200, 400}, body: Bodies]

\* What the far side says of the call, read from its answer alone.
SaysDone(t, far) ==
    /\ far.kind = "replies"
    /\ t.type \in {"REST", "MCP"} => far.status < 400
    /\ t.type = "MCP" => /\ far.body.form = "object"
                         /\ far.body.error = "none"
                         /\ far.body.result = "object"
                         /\ ~far.body.isError

\* A refused or held call touches neither the far side nor the result columns,
\* whatever would have come back (invoke, _deny).
RefusedRunsNothing(c, t) ==
    LET outs == {TC!Invoke(c, t, far) : far \in FarSides} IN
    ~(t.enabled /\ "t" \in c.granted /\ "p" \in c.may /\ t.risk = "LOW"
      /\ t.type \in TC!Executable) =>
       /\ Cardinality(outs) = 1
       /\ \A o \in outs : o.row.success # {TRUE}

\* A call is a success exactly if it was let through and the far side says it
\* was done; the row, the audit record and what the model is told agree
\* (execute_approved, _finish).
SuccessIsSaid(c, t, far) ==
    LET o == TC!Invoke(c, t, far) IN
    /\ o.told = "result" =>
          \A r \in o.result :
             /\ r.success => SaysDone(t, far)
             /\ o.row.success = {r.success}
             /\ (r.success <=> o.audit[2] = "SUCCESS")
             /\ (r.success <=> r.error = "none")
             /\ o.row.length <= Longest
             /\ (o.row.truncated <=> r.length > Longest)
    /\ t.type \in {"REST", "MCP"} /\ t.endpoint = "url" /\ o.told = "result"
          /\ SaysDone(t, far) => o.row.success = {TRUE}

\* A held call that is approved ends as it would have without the hold, but for
\* the approval itself: what was granted is not asked again (_resume).
ApprovedAsUnheld(c, t, far) ==
    LET pending == TC!Invoke(c, t, far)
        free == TC!Invoke(c, [t EXCEPT !.risk = "LOW"], far) IN
    pending.told = "pending" =>
       LET done == TC!Resume(pending.row, t, far) IN
       /\ free.told = "result"
       /\ done.result = free.result
       /\ done.row = [free.row EXCEPT !.approval = "APPROVED"]

\* A tool that registration let through never fails for what registration could
\* have seen (validate and execute of one executor agree).
ValidIsRunnable(c, t, far) ==
    TC!Valid(t) => \A r \in TC!Invoke(c, t, far).result :
        r.error \notin {"no_endpoint", "no_handler", "not_implemented", "no_executor"}

ASSUME ToolCallsChecked ==
    \A c \in Callers, t \in ToolsOf({"POST"}, {"none"}) :
       /\ RefusedRunsNothing(c, t)
       /\ \A far \in FarSides : ValidIsRunnable(c, t, far)
       /\ \A far \in FarSides : SuccessIsSaid(c, t, far) /\ ApprovedAsUnheld(c, t, far)

\* Arguments travel in one place at most, and in none for a method that is
\* neither a read nor a write; no call of a run carries the tool's credential,
\* because the projection the pipeline makes leaves it out (_definition).
ASSUME SentChecked ==
    \A t \in ToolsOf({"GET", "POST", "PUT", "PATCH", "DELETE"}, {"none", "good", "bad"}) :
       LET s == TC!Sent(TC!Definition(t), {"a"}) IN
       /\ s.body \cap s.query = {}
       /\ (s.body \cup s.query = {} <=> t.type = "REST" /\ t.method = "DELETE")
       /\ s.header = {}

----------------------------------------------------------------------------
(* InternalTools.                                                          *)

IT == INSTANCE InternalTools WITH
        MaxText <- 4, Century <- 3, FirstDay <- 1, LastDay <- 9, MinutesPer <- 2

Numbers == [node: {"number"}, kind: {"int", "float"}]
Unfit == [node: {"name"}]

\* Expressions of up to two operations over a pool of operands.
Over(pool) ==
    [node: {"unary"}, of: pool]
      \cup [node: {"binary"}, op: {"add", "div", "floordiv", "mod", "pow"}, left: pool, right: pool]
      \cup [node: {"call"}, f: IT!Functions \cup {"open"},
            args: {<<>>} \cup {<<a>> : a \in pool} \cup {<<a, b>> : a, b \in pool}]
Small == Numbers \cup Unfit
Expressions == Small \cup Over(Small)

\* Does any part of it satisfy Test?
Somewhere(e, Test(_)) ==
    \/ Test(e)
    \/ e.node = "unary" /\ Test(e.of)
    \/ e.node = "binary" /\ (Test(e.left) \/ Test(e.right))
    \/ e.node = "call" /\ \E i \in DOMAIN e.args : Test(e.args[i])

\* Whatever is asked is answered or refused, and refused for good where a part is
\* on no list; only a number that JSON does not know gets out, a complex one from
\* a power alone; and no expression can make use of sum (_evaluate, _calculator).
ASSUME CalculatorChecked ==
    \A e \in Expressions \cup Over(Over(Numbers)) :
       LET kinds == IT!Evaluate(e)
           answers == IT!Calculator(e) IN
       /\ kinds # {} /\ kinds \subseteq IT!Kinds \cup IT!Caught
       /\ "raises" \in answers => kinds \cap {"big", "complex"} # {}
       /\ "complex" \in kinds => Somewhere(e, LAMBDA x : x.node = "binary" /\ x.op = "pow")
       /\ Somewhere(e, LAMBDA x : x \in Unfit \/ (x.node = "call" /\ x.f \in {"open", "sum"}))
             => answers = {"error"} \/ e.node = "call"
       /\ e.node = "call" /\ e.f \in {"open", "sum"} => "result" \notin answers

\* Adding goes back by subtracting, what is told is a day of the calendar, and
\* only a sum that leaves the calendar raises (_date_calculator).
ASSUME DatesChecked ==
    \A from \in 0 .. 10, to \in 0 .. 10, days \in -4 .. 4 :
       LET sum == IT!DateCalculator("add", {from}, {}, days, 5)
           gap == IT!DateCalculator("difference", {from}, {to}, 0, 5) IN
       /\ sum.says = "result" => sum.of \subseteq 1 .. 9
       /\ \A d \in sum.of : IT!DateCalculator("difference", {from}, {d}, 0, 5).of = {days}
       /\ sum.says = "raises" <=> from \in 1 .. 9 /\ days \in -3 .. 3 /\ from + days \notin 1 .. 9
       /\ gap.says = "error" <=> {from, to} \cap {0, 10} # {}
       /\ \A d \in gap.of : d \in -3 .. 3 => IT!DateCalculator("add", {from}, {}, d, 5).of = {to}
       /\ IT!DateCalculator("weekday", {}, {}, 0, 5).of = {5}

\* A text counts a sentence exactly if it has a word, never more sentences than
\* words, and a full page is never called empty (_text_statistics).
ASSUME TextsChecked ==
    \A t \in UNION {[1 .. n -> {"a", " ", "."}] : n \in 0 .. 5} :
       LET s == IT!TextStatistics(t)
           inked == {i \in DOMAIN t : t[i] # " "} IN
       /\ s.says = "error" <=> Len(t) > 4
       /\ s.says = "result" =>
             /\ s.words > 0 <=> inked # {}
             /\ s.sentences > 0 <=> inked # {}
             /\ s.sentences <= s.words /\ s.words <= s.spaceless
             /\ s.words < s.spaceless <=> \E i \in inked : i + 1 \in inked
             /\ s.spaceless + Cardinality(DOMAIN t \ inked) = s.characters
             /\ s.minutes * 2 >= s.words /\ (s.minutes - 1) * 2 < s.words

\* What the catalogue calls deployed runs; a filter only takes away, and nothing
\* found is told apart from nothing there; states are counted once each.
ASSUME CatalogChecked ==
    \A on \in [{"x", "y"} -> BOOLEAN], of \in [{"x", "y"} -> {"m", "n"}],
       up \in [{"m", "n"} -> {"RUNNING", "FAILED"}], wanted \in {{}, {"LLM"}, {"OCR"}} :
       LET models == {[name |-> "m", type |-> "LLM"], [name |-> "n", type |-> "EMBEDDING"]}
           aliases == {[alias |-> a, model |-> of[a], enabled |-> on[a]] : a \in {"x", "y"}}
           deps == {[model |-> d, state |-> up[d]] : d \in {"m", "n"}}
           all == IT!ModelCatalog(aliases, models, deps, {})
           some == IT!ModelCatalog(aliases, models, deps, wanted)
           counts == IT!PlatformStatus(up) IN
       /\ {e.alias : e \in all.models} = {a \in {"x", "y"} : on[a]}
       /\ \A e \in all.models : e.model = of[e.alias] /\ (e.deployed <=> up[e.model] = "RUNNING")
       /\ some.models \subseteq all.models /\ some.types = all.types
       /\ some.note <=> wanted # {} /\ wanted \cap some.types = {}
       /\ \A st \in DOMAIN counts : counts[st] = Cardinality({d \in {"m", "n"} : up[d] = st})
       /\ DOMAIN counts = {up[d] : d \in {"m", "n"}}

----------------------------------------------------------------------------
(* Tracing.                                                                *)

Room == 3
TR == INSTANCE Tracing WITH MaxQueued <- Room, BatchSize <- 2

\* A client and what has been recorded with it; a process starts it once.
Recorded(x) == [c |-> TR!Record(x.c, x.runs + 1), runs |-> x.runs + 1]
Moves(x) ==
    {[x EXCEPT !.c = d] : d \in (IF x.c.open THEN {TR!Start(x.c)} ELSE {})
                                \cup TR!Drains(x.c) \cup TR!Stop(x.c)}
      \cup {Recorded(x)}

\* What up to n operations make of a client.
Clients[n \in 0 .. 7] ==
    IF n = 0 THEN {[c |-> TR!New, runs |-> 0]}
    ELSE LET before == Clients[n - 1] IN before \cup UNION {Moves(x) : x \in before}

\* The fate of every event, in the order of the pipe, then those that left it.
Pipe(c) == c.posted \o c.taken \o c.queue
Ahead(a, b) == a[1] < b[1] \/ (a[1] = b[1] /\ a[2] = "trace" /\ b[2] = "generation")

\* Every event recorded is in one place only, what the collector gets is in
\* order, the queue keeps its bound, and a batch is under way only while there is
\* a task and a transport (record_run, _flush, stop).
EveryEventHasOneFate(x) ==
    LET c == x.c IN
    /\ (1 .. x.runs) \X {"trace", "generation"} = ToSet(Pipe(c)) \cup c.lost \cup c.dropped
    /\ Len(Pipe(c)) + Cardinality(c.lost) + Cardinality(c.dropped) = 2 * x.runs
    /\ \A i, j \in DOMAIN Pipe(c) : i < j => Ahead(Pipe(c)[i], Pipe(c)[j])
    /\ Len(c.queue) <= Room
    /\ c.taken # <<>> => c.task = "sleeps" /\ c.open

\* A generation gets in only after the trace it belongs to, and gets to the
\* collector without it only if a batch was lost (record_run).
GenerationsHaveTraces(x) ==
    \A r \in 1 .. x.runs :
       /\ <<r, "trace">> \in x.c.dropped => <<r, "generation">> \in x.c.dropped
       /\ <<r, "generation">> \in ToSet(x.c.posted) /\ x.c.lost = {}
             => <<r, "trace">> \in ToSet(x.c.posted)

\* What was queued when the trouble started stays, whoever records next; recording
\* never waits and never stops the task (the module's docstring).
RecordingKeepsTheOldest(x) ==
    LET y == Recorded(x) IN
    /\ IsPrefix(x.c.queue, y.c.queue)
    /\ [y.c EXCEPT !.queue = x.c.queue, !.dropped = x.c.dropped] = x.c
    /\ TR!Finalise({x.c}, y.runs, "FAILED") = {y.c}
    /\ TR!Finalise({x.c}, y.runs, "CANCELLED") = {x.c}
    /\ TR!Finalise({}, y.runs, "COMPLETED") = {}

\* The end loses nothing that was not under way, or in the one batch it flushes.
StopLosesTwoBatches(x) ==
    \A d \in TR!Stop(x.c) :
       /\ d.task = "none"
       /\ Cardinality(d.lost \ x.c.lost) <= 4
       /\ Len(d.queue) + 2 >= Len(x.c.queue)

ASSUME TracingChecked ==
    \A x \in Clients[7] :
       /\ EveryEventHasOneFate(x) /\ GenerationsHaveTraces(x)
       /\ RecordingKeepsTheOldest(x) /\ StopLosesTwoBatches(x)

----------------------------------------------------------------------------
(* AgentChat.                                                              *)

CH == INSTANCE AgentChat

Agents == [slug: {"a"}, enabled: BOOLEAN, versioned: BOOLEAN]
Scopes == SUBSET ([kind: {"surface"}, name: {"chat", "models"}] \cup [kind: {"model"}, name: {"a", "b"}])
Talks == {<<>>, <<[role |-> "user", text |-> "hi"]>>,
          <<[role |-> "user", text |-> "hi"], [role |-> "assistant", text |-> "so"]>>,
          <<[role |-> "user", text |-> "hi"], [role |-> "user", text |-> ""]>>,
          <<[role |-> "assistant", text |-> "so"]>>}
Owners == SUBSET [id: {"o"}, active: BOOLEAN]
Chats == [model: {{}, {"a"}, {"b"}}, messages: Talks, scopes: Scopes, owner: {{}, {"o"}}]

\* A key that may not use the name is told so whatever agents there are (the
\* comment of chat_completions); a call that gets through acts for an active
\* owner, on an agent that is there, with something asked; and what a key is
\* shown it may run, if it may chat and use that name (agent_catalogue).
ASSUME ChatAdmissionChecked ==
    \A c \in Chats, users \in Owners :
       LET says(as) == CH!Refusal(c, as, users) IN
       /\ \A a, b \in SUBSET Agents :
             (says(a) = "not_scoped") = (says(b) = "not_scoped")
       /\ \A a \in SUBSET Agents :
             /\ says(a) = "not_scoped" =>
                   \/ [kind |-> "surface", name |-> "chat"] \notin c.scopes
                   \/ \E m \in c.model : [kind |-> "model", name |-> m] \notin c.scopes
             /\ says(a) = "none" =>
                   /\ \E u \in users : u.active /\ {u.id} = c.owner
                   /\ \E x \in a : {x.slug} = c.model
                   /\ \E i \in DOMAIN c.messages :
                         /\ c.messages[i] = [role |-> "user", text |-> "hi"]
                         /\ \A j \in DOMAIN c.messages : j > i => c.messages[j].role # "user"
                   /\ \A s \in c.scopes : s.kind = "model" =>
                         \E m \in c.model : [kind |-> "model", name |-> m] \in c.scopes
             /\ \A m \in c.model :
                   m \in CH!Listed(c.scopes, a) /\ CH!Scoped(c.scopes, "chat", {m})
                     => /\ says(a) \in {"none", "no_messages", "no_owner", "no_prompt"}
                        /\ \A x \in a : a = {x} /\ x.versioned => CH!Starts(x)

\* How a run ends for the request that drives it, and what it says of it.
Ends == {[events |-> <<"RUN_COMPLETED">>, row |-> [st |-> "COMPLETED", output |-> o, error |-> ""]]
            : o \in {"", "text"}}
        \cup {[events |-> <<"RUN_FAILED">>, row |-> [st |-> "FAILED", output |-> "", error |-> "e"]],
               [events |-> <<"TOOL_APPROVAL_REQUIRED">>,
                row |-> [st |-> "WAITING", output |-> "", error |-> ""]]}
Told == {<<"RUN_STARTED">>, <<"RUN_STARTED", "TOOL_REQUESTED">>,
         <<"RUN_STARTED", "TOOL_REQUESTED", "TOOL_REJECTED", "LLM_RESPONSE">>}

\* Whole or in frames, a chat says the same of a run: its output, that it failed or
\* that it waits, in the last frame with text.  Only an empty output is a sentence
\* whole and nothing in frames, and frames always finish with "stop"
\* (run_agent_buffered, run_agent_streamed).
ASSUME ChatAnswersChecked ==
    \A e \in Ends, t \in Told :
       LET whole == CH!Buffered(e.row)
           frames == CH!Streamed([enabled |-> TRUE, versioned |-> TRUE], t \o e.events, e.row)
           n == Len(frames) IN
       /\ whole.says # ""
       /\ whole.finish = "stop" <=> e.row.st = "COMPLETED"
       /\ frames[1] = "role" /\ frames[n - 1] = "stop" /\ frames[n] = "DONE"
       /\ frames[n - 2] = whole.says \/ (frames[n - 2] = "" /\ whole.says = "no_answer")
       /\ Cardinality({i \in DOMAIN frames : frames[i] \in {"text", "", "error", "needs_approval"}}) = 1
       /\ \A i \in DOMAIN frames : frames[i] = "waiting" <=> i = n - 3 /\ e.row.st = "WAITING"
       /\ CH!Streamed([enabled |-> FALSE, versioned |-> TRUE], <<>>, e.row) = <<"role">>
=============================================================================
