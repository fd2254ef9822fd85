------------------------------ MODULE Gateway ------------------------------
(***************************************************************************)
(* Calls to the gateway (services/gateway.py, api/v1/gateway.py): one key  *)
(* with a limit per window counted in Redis, the model's name resolved to  *)
(* a deployment, the runtime's answer or stream, and the usage record that *)
(* is written in a session of its own.  Time is counted in windows.        *)
(* authenticate is what module ApiKeys calls Active.  A streamed call is   *)
(* recorded by a background task of the response, which runs also when the *)
(* client has gone.                                                        *)
(* Left out: scopes, identities, messages, metrics, agents (AgentRuns);    *)
(* what a record says of the call: its status, its counts, whether the     *)
(* client left.                                                            *)
(***************************************************************************)
EXTENDS ModelNames

CONSTANTS
    Call,        \* calls, each made once
    Limit,       \* key.rate_limit_per_minute
    MaxTime      \* bound on windows

ASSUME GatewayAssumption == Limit \in Nat /\ MaxTime \in Nat

VARIABLES
    now,         \* the window it is
    bucket,      \* Redis: [window -> counter and when it goes]
    passed,      \* [window -> calls the counter let through] (history)
    call,        \* [Call -> where it is]
    usage        \* [Call -> the number of its usage records]

gvars == <<now, bucket, passed, call, usage>>
vars == <<nvars, gvars>>

Window == 0 .. MaxTime
Never == MaxTime + 3

\* reached: the runtime was called; lost: an error nobody handles, a stopped
\* process, or a failed write.  What a call no longer needs is forgotten.
CallRow == [pc: {"new", "limit", "name", "served", "runtime", "stream", "record", "over"},
            name: Name \cup {None}, m: Model \cup {None},
            streamed: BOOLEAN, win: Window,
            reached: BOOLEAN, lost: BOOLEAN]

NewCall == [pc |-> "new", name |-> None, m |-> None, streamed |-> FALSE, win |-> 0,
            reached |-> FALSE, lost |-> FALSE]

Init ==
    /\ NamesInit
    /\ now = 0
    /\ bucket = [w \in Window |-> [n |-> 0, until |-> Never]]
    /\ passed = [w \in Window |-> 0]
    /\ call = [c \in Call |-> NewCall]
    /\ usage = [c \in Call |-> 0]

At(c, pc) == call[c].pc = pc
Steps(c, row) == call' = [call EXCEPT ![c] = row]
Over(row) == [NewCall EXCEPT !.pc = "over", !.reached = row.reached, !.lost = row.lost]
Resolving(row) == [row EXCEPT !.pc = "name", !.win = 0]

----------------------------------------------------------------------------
(* The limit.                                                              *)

\* get_gateway_context: authenticate; the window is read before the counter is touched.
Arrive(c, n, streamed) ==
    /\ At(c, "new")
    /\ Steps(c, [NewCall EXCEPT !.pc = "limit", !.name = n, !.streamed = streamed, !.win = now])
    /\ UNCHANGED <<nvars, now, bucket, passed, usage>>

\* Mutant: the counter goes when its window may just have ended.
OneWindow == 1

\* EXPIRE 120.
Ttl == 2

\* INCR, and EXPIRE if it was the first.
Counted(w, until) ==
    [bucket EXCEPT ![w] = [n |-> bucket[w].n + 1,
                           until |-> IF bucket[w].n = 0 THEN until ELSE bucket[w].until]]

Count(c) ==
    LET w == call[c].win IN
    /\ At(c, "limit")
    /\ bucket' = Counted(w, now + Ttl)
    /\ IF bucket[w].n + 1 > Limit
          THEN passed' = passed /\ Steps(c, Over(call[c]))
          ELSE /\ passed' = [passed EXCEPT ![w] = @ + 1]
               /\ Steps(c, Resolving(call[c]))
    /\ UNCHANGED <<nvars, now, usage>>

\* Redis fails before or after it has counted, or between the two commands: the
\* call passes.
FailOpen(c) ==
    /\ At(c, "limit")
    /\ bucket' \in {bucket, Counted(call[c].win, now + Ttl), Counted(call[c].win, Never)}
    /\ Steps(c, Resolving(call[c]))
    /\ UNCHANGED <<nvars, now, passed, usage>>

\* Redis answers within socket_timeout, less than a window.
Tick ==
    /\ now < MaxTime
    /\ \A c \in Call : At(c, "limit") => call[c].win = now
    /\ now' = now + 1
    /\ bucket' = [w \in Window |->
                    IF bucket[w].until <= now + 1 THEN [n |-> 0, until |-> Never] ELSE bucket[w]]
    /\ UNCHANGED <<nvars, passed, call, usage>>

----------------------------------------------------------------------------
(* resolve, then the runtime.                                              *)

\* check_scope, which asks before the name is looked up; or a body without a
\* model, messages or a file.
Refused(c) ==
    /\ At(c, "name")
    /\ Steps(c, Over(call[c]))
    /\ UNCHANGED <<nvars, now, bucket, passed, usage>>

\* 404, or the model.
Lookup(c) ==
    /\ At(c, "name")
    /\ \/ /\ Meant(call[c].name) = {}
          /\ Steps(c, Over(call[c]))
       \/ \E m \in Meant(call[c].name) : Steps(c, [call[c] EXCEPT !.pc = "served", !.name = None, !.m = m])
    /\ UNCHANGED <<nvars, now, bucket, passed, usage>>

\* 503, or embeddings without an input, which are refused only now; or the
\* deployment that is called.
Choose(c) ==
    /\ At(c, "served")
    /\ \/ /\ Target(call[c].m) = {} \/ ~call[c].streamed
          /\ Steps(c, Over(call[c]))
       \/ /\ Target(call[c].m) # {}
          /\ Steps(c, [call[c] EXCEPT !.m = None, !.reached = TRUE,
                          !.pc = IF call[c].streamed THEN "stream" ELSE "runtime"])
    /\ UNCHANGED <<nvars, now, bucket, passed, usage>>

\* What is recorded when: after the answer or the failure, never twice.
Finished(c) == Steps(c, [call[c] EXCEPT !.pc = "record", !.streamed = FALSE])

\* chat_completion: the runtime answered, or a ProviderError that becomes a 502.
Completed(c) ==
    /\ At(c, "runtime")
    /\ Finished(c)
    /\ UNCHANGED <<nvars, now, bucket, passed, usage>>

\* transcribe, synthesize: the same, counted in seconds and characters.
Spoken(c) == Completed(c)

\* embeddings: the same.
Embedded(c) == Completed(c)

\* stream_chunks to its end, which may be an error event.
Streamed(c) ==
    /\ At(c, "stream")
    /\ Finished(c)
    /\ UNCHANGED <<nvars, now, bucket, passed, usage>>

\* Mutant: the generator records what it streamed, and was closed.
ClosedUnrecorded(c) == Steps(c, Over(call[c]))

\* The generator only notes that it was closed.
Closed(c) == Finished(c)

Disconnect(c) ==
    /\ At(c, "stream")
    /\ Closed(c)
    /\ UNCHANGED <<nvars, now, bucket, passed, usage>>

\* _record: a session of its own.
Record(c) ==
    /\ At(c, "record")
    /\ usage' = [usage EXCEPT ![c] = @ + 1]
    /\ Steps(c, Over(call[c]))
    /\ UNCHANGED <<nvars, now, bucket, passed>>

\* The write fails, which is logged; or before it an exception nobody catches (an
\* answer that is not one), or the end of the process.
Lost(c) ==
    /\ ~At(c, "new") /\ ~At(c, "over")
    /\ Steps(c, [Over(call[c]) EXCEPT !.lost = call[c].reached])
    /\ UNCHANGED <<nvars, now, bucket, passed, usage>>

Serves(c) ==
    \/ Count(c) \/ Refused(c) \/ Lookup(c) \/ Choose(c)
    \/ Completed(c) \/ Spoken(c) \/ Embedded(c) \/ Streamed(c)
    \/ Record(c)

Next ==
    \/ (Administration \/ Deployment) /\ UNCHANGED gvars
    \/ Tick
    \/ \E c \in Call :
          \/ \E n \in Name, streamed \in BOOLEAN : Arrive(c, n, streamed)
          \/ Serves(c) \/ FailOpen(c) \/ Disconnect(c) \/ Lost(c)

Spec == Init /\ [][Next]_vars

----------------------------------------------------------------------------
(* Properties.                                                             *)

TypeOK ==
    /\ NamesTypeOK
    /\ now \in Window
    /\ bucket \in [Window -> [n: Nat, until: Nat]]
    /\ passed \in [Window -> Nat]
    /\ call \in [Call -> CallRow]
    /\ usage \in [Call -> Nat]

\* The counter of a window is read, incremented and expired in steps that other
\* calls and the clock come between (check_rate_limit): it never lets more calls
\* through than the limit.
LimitHolds == \A w \in Window : passed[w] <= Limit

\* Streamed or not, answered, failed or abandoned by its client, a call that
\* reached a runtime is accounted, and once (_record, finalise_stream), unless it
\* is lost: the record cannot be written, something is raised that nobody
\* handles, or the process ends.
AccountedOnce ==
    \A c \in Call :
       /\ At(c, "over") /\ call[c].reached /\ ~call[c].lost => usage[c] = 1
       /\ usage[c] <= 1
=============================================================================
