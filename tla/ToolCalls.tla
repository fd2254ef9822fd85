----------------------------- MODULE ToolCalls -----------------------------
(***************************************************************************)
(* What becomes of one tool call: the authorisation pipeline               *)
(* (services/tool_pipeline.py) and the executors it ends in                *)
(* (services/tool_executors.py), as functions of the tool, the run that    *)
(* calls it and what the far side does.  AgentRuns keeps of all this only  *)
(* whether the call was made; here it is made once.                        *)
(* A tool is [id, type, enabled, risk, needs, endpoint, method, cred,      *)
(* handler]; a run is [granted, may].  An attempt to reach the far side    *)
(* meets [kind |-> "silent"] (an httpx.HTTPError), "raises" (any other     *)
(* exception, an invalid URL or one of an internal handler) or "replies"   *)
(* with a status and a body.  A body has the length of its text and a      *)
(* form: "text" is not JSON, "list" is JSON and no object, and an object   *)
(* is told apart by the members that count.                                *)
(* The nullable success of a row is a set of at most one.                  *)
(* Left out: wording, durations, metrics labels and the texts themselves.  *)
(***************************************************************************)
EXTENDS Naturals

CONSTANTS
    MaxChars,        \* MAX_RESULT_CHARS
    Disabled,        \* settings.agents.disabled_tool_types
    Risky            \* settings.agents.approval_required_risk_levels

----------------------------------------------------------------------------
(* The executors.                                                          *)

Result(success, error, length, data) ==
    [success |-> success, error |-> error, length |-> length, data |-> data,
     truncated |-> FALSE]

\* A result the platform words itself: short, and a failure.
Failed(error) == Result(FALSE, error, 1, FALSE)

Raised == [raised |-> TRUE]

\* _definition: what the pipeline hands an executor; the tool's encrypted
\* credential is a column of its own and stays behind.
Definition(tool) == [tool EXCEPT !.cred = "none"]

\* _auth_headers: a credential that does not decrypt yields no header.
Header(tool) == IF tool.cred = "good" THEN {"secret"} ELSE {}

\* What httpx is asked to send; a method that is neither carries no arguments.
Sent(tool, args) ==
    IF tool.type = "REST"
    THEN [body |-> IF tool.method \in {"POST", "PUT", "PATCH"} THEN args ELSE {},
          query |-> IF tool.method = "GET" THEN args ELSE {},
          header |-> Header(tool)]
    ELSE [body |-> args, query |-> {}, header |-> Header(tool)]

\* _decode: only an object is kept for the trace.
Decoded(body) == body.form = "object"

Rest(tool, far) ==
    IF tool.endpoint = "none" THEN Failed("no_endpoint")
    ELSE CASE far.kind = "silent" -> Failed("unreachable")
           [] far.kind = "raises" -> Raised
           [] OTHER -> IF far.status >= 400
                       THEN Result(FALSE, "http", far.body.length, Decoded(far.body))
                       ELSE Result(TRUE, "none", far.body.length, Decoded(far.body))

\* call_mcp: the payload, an McpError, or whatever Python raises where the code
\* takes the body, or its error, for an object.
CallMcp(far) ==
    CASE far.kind = "silent" -> "mcp_error"
      [] far.kind = "raises" -> "raises"
      [] OTHER ->
           IF far.status >= 400 \/ far.body.form = "text" THEN "mcp_error"
           ELSE IF far.body.form = "list" THEN "raises"
           ELSE CASE far.body.error = "object" -> "mcp_error"
                  [] far.body.error = "other" -> "raises"
                  [] OTHER -> IF far.body.result = "object" THEN "payload" ELSE "mcp_error"

\* _mcp_text: text blocks joined; with none the payload itself, as JSON.
McpLength(body) == IF body.blocks = 0 THEN body.length ELSE body.blocks

Mcp(tool, far) ==
    IF tool.endpoint = "none" THEN Failed("no_endpoint")
    ELSE CASE CallMcp(far) = "mcp_error" -> Failed("mcp_error")
           [] CallMcp(far) = "raises" -> Raised
           [] OTHER -> Result(~far.body.isError,
                              IF far.body.isError THEN "mcp_tool_error" ELSE "none",
                              McpLength(far.body), TRUE)

\* build_internal_handlers is the closed set of names; a handler may raise.
Internal(tool, far) ==
    CASE ~tool.handler -> Failed("no_handler")
      [] tool.handler /\ far.kind # "replies" -> Failed("handler")
      [] OTHER -> Result(TRUE, "none", far.body.length, FALSE)

\* build_executors: the types with an executor, PYTHON and COMMAND with none.
Executable == {"REST", "MCP", "INTERNAL", "DATABASE", "OPENAPI"}

Execute(tool, far) ==
    CASE tool.type = "REST" -> Rest(tool, far)
      [] tool.type = "MCP" -> Mcp(tool, far)
      [] tool.type = "INTERNAL" -> Internal(tool, far)
      [] OTHER -> Failed("not_implemented")

----------------------------------------------------------------------------
(* The pipeline: permission, risk, approval, execution, audit.             *)

\* _authorise: the first reason to refuse, in the code's order.
Denial(run, tool) ==
    CASE ~tool.enabled -> "tool_disabled"
      [] tool.enabled /\ tool.type \in Disabled -> "tool_type_disabled"
      [] tool.enabled /\ tool.type \notin Disabled /\ tool.id \notin run.granted ->
           "not_granted_to_agent"
      [] tool.enabled /\ tool.type \notin Disabled /\ tool.id \in run.granted
           /\ tool.needs \notin run.may -> "user_lacks_permission"
      [] OTHER -> "none"

NeedsApproval(tool) == tool.risk \in Risky

Truncate(r) ==
    IF r.length <= MaxChars THEN r
    ELSE [r EXCEPT !.length = MaxChars + 1, !.truncated = TRUE]

\* execute_approved, up to _finish: no exception of an executor gets out.
Ran(tool, far) ==
    IF tool.type \notin Executable THEN Failed("no_executor")
    ELSE LET r == Execute(Definition(tool), far) IN
         Truncate(IF "raised" \in DOMAIN r THEN Failed("raised") ELSE r)

\* _finish: the row keeps at most MaxChars of what the model is given.
Finish(row, r) ==
    [row EXCEPT !.success = {r.success}, !.error = r.error,
                !.length = IF r.length > MaxChars THEN MaxChars ELSE r.length,
                !.truncated = r.truncated]

NewRow == [approval |-> "none", success |-> {}, error |-> "none", length |-> 0,
           truncated |-> FALSE]

\* ExecuteApproved, Deny and invoke: the row, the audit record and what the loop is told.
ExecuteApproved(row, tool, far) ==
    LET r == Ran(tool, far) IN
    [row |-> Finish(row, r), told |-> "result", result |-> {r},
     audit |-> <<"TOOL_EXECUTED", IF r.success THEN "SUCCESS" ELSE "FAILURE">>]

Deny(row, reason) ==
    [row |-> [row EXCEPT !.approval = "REJECTED", !.success = {FALSE}, !.error = reason],
     told |-> "denial", result |-> {}, audit |-> <<"TOOL_DENIED", "DENIED">>]

Invoke(run, tool, far) ==
    CASE Denial(run, tool) # "none" -> Deny(NewRow, Denial(run, tool))
      [] Denial(run, tool) = "none" /\ NeedsApproval(tool) ->
           [row |-> [NewRow EXCEPT !.approval = "PENDING"], told |-> "pending",
            result |-> {}, audit |-> <<"TOOL_APPROVAL_REQUESTED", "SUCCESS">>]
      [] OTHER -> ExecuteApproved([NewRow EXCEPT !.approval = "NOT_REQUIRED"], tool, far)

\* A held call that was approved re-enters past the permission check (_resume).
Resume(row, tool, far) == ExecuteApproved([row EXCEPT !.approval = "APPROVED"], tool, far)

\* validate: what registration refuses; only the executor's own conditions.
Valid(tool) ==
    CASE tool.type \in {"REST", "MCP"} -> tool.endpoint # "none"
      [] tool.type = "INTERNAL" -> tool.handler
      [] OTHER -> FALSE
=============================================================================
