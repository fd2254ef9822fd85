----------------------------- MODULE AgentChat -----------------------------
(***************************************************************************)
(* Agents as models of the gateway (services/agent_gateway.py and the agent *)
(* routes of api/v1/gateway.py): what is listed, whom a run acts for, what *)
(* is refused and in which order, and how a run is told as one chat answer, *)
(* whole or in frames.                                                     *)
(* Left out: token counts, ids, the wording of a sentence (its kind stays). *)
(***************************************************************************)
EXTENDS Naturals, Sequences, FiniteSets, SequencesExt

\* agent_catalogue, without the models listed before it.
Catalogue(agents) == {a.slug : a \in {b \in agents : b.enabled}}

Surfaces(scopes) == {s \in scopes : s.kind = "surface"}
Models(scopes) == {s \in scopes : s.kind = "model"}

\* check_scope: each kind of scope limits only if there is one of it.
Scoped(scopes, surface, model) ==
    /\ Surfaces(scopes) # {} => \E s \in Surfaces(scopes) : s.name = surface
    /\ model # {} /\ Models(scopes) # {} => \E s \in Models(scopes) : s.name \in model

\* gateway_models: the agents a key is shown, none if it may not list.
Listed(scopes, agents) == IF Scoped(scopes, "models", {}) THEN Catalogue(agents) ELSE {}

\* load_agent: by name, enabled or not.
Loaded(slug, agents) == {a \in agents : a.slug = slug}

\* resolve_actor: the owner of the key's client, if there still is an active one.
Actor(owner, users) == {u \in users : u.id \in owner /\ u.active}

\* _run_agent: the last message of the user, "" if there is none.
Prompt(messages) ==
    LET own == {i \in DOMAIN messages : messages[i].role = "user"}
        last == CHOOSE i \in own : \A j \in own : j <= i
    IN  IF own = {} THEN "" ELSE messages[last].text

\* What stops a call before it reaches the run, in the order it is asked.
Checks(call, agents, users) ==
    <<[stops |-> call.model = {}, says |-> "no_model"],
      [stops |-> call.messages = <<>>, says |-> "no_messages"],
      [stops |-> ~Scoped(call.scopes, "chat", call.model), says |-> "not_scoped"],
      [stops |-> \A m \in call.model : Loaded(m, agents) = {}, says |-> "no_agent"],
      [stops |-> Actor(call.owner, users) = {}, says |-> "no_owner"],
      [stops |-> Prompt(call.messages) = "", says |-> "no_prompt"]>>

Refusal(call, agents, users) ==
    LET stop == SelectInSeq(Checks(call, agents, users), LAMBDA c : c.stops)
    IN  IF stop = 0 THEN "none" ELSE Checks(call, agents, users)[stop].says

\* AgentRunService.start, which comes after all of them.
Starts(agent) == agent.enabled /\ agent.versioned

\* _explain.
Explain(run) ==
    CASE run.st = "WAITING" -> "needs_approval"
      [] run.st = "CANCELLED" -> "cancelled"
      [] run.st \notin {"WAITING", "CANCELLED"} /\ run.error # "" -> "error"
      [] OTHER -> "no_answer"

\* run_agent_buffered, from the run as the request's own session left it.
Buffered(run) ==
    [says |-> IF run.output # "" THEN run.output ELSE Explain(run),
     finish |-> IF run.st = "COMPLETED" THEN "stop" ELSE "length"]

\* run_agent_streamed: one frame for each event that is told, "" for no text.
Frames(event, run) ==
    CASE event = "TOOL_REQUESTED" -> <<"using">>
      [] event = "TOOL_REJECTED" -> <<"refused">>
      [] event = "TOOL_APPROVAL_REQUIRED" -> <<"waiting">>
      [] event = "RUN_COMPLETED" -> <<run.output>>
      [] event = "RUN_FAILED" -> <<"error">>
      [] OTHER -> <<>>

Answered(events) == ToSet(events) \cap {"RUN_COMPLETED", "RUN_FAILED"} # {}

Told(events, run) ==
    FlattenSeq([i \in DOMAIN events |-> Frames(events[i], run)])
      \o IF Answered(events) THEN <<>> ELSE <<Explain(run)>>

\* The role goes out before the run is started: what start refuses breaks off a
\* stream that has already answered 200.
Streamed(agent, events, run) ==
    IF Starts(agent) THEN <<"role">> \o Told(events, run) \o <<"stop", "DONE">>
    ELSE <<"role">>
=============================================================================
