----------------------------- MODULE MCAccounts -----------------------------
(***************************************************************************)
(* Small instances of Accounts for TLC; the audit log that its requests    *)
(* write, and the health that is asked without an account.                 *)
(***************************************************************************)
EXTENDS Accounts, TLC, FiniteSets, Sequences, SequencesExt

\* No group that is mapped, or one that is mapped to Super.
TwoGroups == {{}, {Super}}

Symmetry == Permutations(Id) \cup Permutations(Session)

----------------------------------------------------------------------------
(* AuditTrail.                                                             *)

AU == INSTANCE AuditTrail

\* What a request does in turn, and what goes wrong with it.
Does == {"change", "record", "denied", "may", "failure"}
Plans == UNION {[1 .. n -> [does: Does, fails: BOOLEAN]] : n \in 0 .. 3}

Says(what, result, at) == AU!Entry(what, "me", result, at)

After(q, d, factory) ==
    CASE d.does = "change" -> AU!Change(q, "x")
      [] d.does = "record" -> AU!Record(q, Says("done", "SUCCESS", q.now), d.fails)
      [] d.does = "denied" ->
            AU!RequirePermission(q, [superuser |-> FALSE, permissions |-> {"q"}, name |-> "me"],
                                 "p", q.now + 1, d.fails, factory)
      [] d.does = "may" ->
            AU!RequirePermission(q, [superuser |-> TRUE, permissions |-> {}, name |-> "me"],
                                 "p", q.now + 1, d.fails, factory)
      [] OTHER ->
            AU!RecordIndependent(q, Says("tried", "FAILURE", q.now + 1), d.fails, factory)

\* A request that has failed does nothing more.
Served(plan, broken, factory) ==
    AU!Ends(FoldLeft(LAMBDA q, d : IF AU!Running(q) THEN After(q, d, factory) ELSE q,
                     AU!Begin(<<Says("old", "SUCCESS", 0)>>, 1), plan),
            broken)

Logged(q, result) == \E i \in DOMAIN q.log : i > 1 /\ q.log[i].result = result
First(plan, p) == p \in {plan[i].does : i \in DOMAIN plan}
                  /\ \E i \in DOMAIN plan :
                        /\ plan[i].does = p /\ ~plan[i].fails
                        /\ \A j \in 1 .. i - 1 : plan[j].does \in {"change", "may", "failure"}

\* The log claims nothing that was rolled back, and keeps what was refused or
\* failed although its request is rolled back; it only grows; and no entry that
\* cannot be written alone changes an answer (AuditService's docstring).
ASSUME AuditChecked ==
    \A plan \in Plans, broken \in BOOLEAN :
       LET q == Served(plan, broken, TRUE) IN
       /\ Logged(q, "SUCCESS") => q.answer = "200"
       /\ q.kept # {} => q.answer = "200"
       /\ broken => q.answer # "200"
       /\ q.answer = "200" =>
             /\ q.kept = {"x"} <=> \E i \in DOMAIN plan : plan[i].does = "change"
             /\ Logged(q, "SUCCESS") <=> \E i \in DOMAIN plan : plan[i].does = "record"
       /\ First(plan, "denied") => Logged(q, "DENIED") /\ q.answer = "403"
       /\ Logged(q, "DENIED") => q.answer = "403"
       /\ First(plan, "failure") => Logged(q, "FAILURE")
       /\ IsPrefix(<<Says("old", "SUCCESS", 0)>>, q.log)
       /\ q.answer = "403" <=>
             \E i \in DOMAIN plan :
                /\ plan[i].does = "denied"
                /\ \A j \in 1 .. i - 1 : plan[j].does # "denied"
                                         /\ ~(plan[j].does = "record" /\ plan[j].fails)
       \* Without a factory, what cannot be written fails the request, and what is
       \* denied is forgotten with it.
       /\ LET u == Served(plan, broken, FALSE) IN
          /\ ~Logged(u, "DENIED")
          /\ q.answer = "403" => u.answer \in {"403", "500"}

Rows(times) == {[what |-> "a", who |-> "me", result |-> "SUCCESS", at |-> 1],
                [what |-> "b", who |-> "me", result |-> "DENIED", at |-> times[1]],
                [what |-> "a", who |-> "you", result |-> "SUCCESS", at |-> times[2]],
                [what |-> "a", who |-> "me", result |-> "FAILURE", at |-> times[3]]}
Filters == [who: {{}, {"me"}}, what: {{}, {"a"}}, result: {{}, {"SUCCESS", "FAILURE"}},
            since: {{}, {2}}, until: {{}, {3}}]

Inside(s) == {s[i] : i \in DOMAIN s}

\* Pages of rows of different times are what matches, once each, the newest first,
\* and the total says how much that is; rows of one time may be shown twice or not
\* at all; and rows that come in between are in the total, not on the page (search,
\* count, search_audit).
ASSUME PagesChecked ==
    \A times \in [1 .. 3 -> 1 .. 4], f \in Filters :
       LET rows == Rows(times)
           S == AU!Search(rows, f, 2, 0)
           T == AU!Search(rows, f, 2, 2)
           apart == Cardinality({r.at : r \in rows}) = Cardinality(rows)
           late == [what |-> "a", who |-> "me", result |-> "SUCCESS", at |-> 3] IN
       /\ \A s \in S, t \in T :
             /\ Len(s) + Len(t) = AU!Count(rows, f)
             /\ Inside(s) \cup Inside(t) \subseteq rows
             /\ \A r \in Inside(s) \cup Inside(t) :
                   /\ f.what # {} => r.what = "a"
                   /\ f.who # {} => r.who = "me"
                   /\ f.result # {} => r.result # "DENIED"
                   /\ f.since # {} => r.at > 1
                   /\ f.until # {} => r.at < 4
             /\ \A r \in Inside(s), o \in Inside(t) : r.at >= o.at
             /\ apart => Inside(s) \cap Inside(t) = {}
       /\ apart => Cardinality(S) = 1
       /\ AU!Count(rows, [AU!Anything EXCEPT !.since = f.since, !.until = f.until])
             = Cardinality({r \in rows : /\ f.since # {} => r.at \in 2 .. 4
                                         /\ f.until # {} => r.at \in 1 .. 3})
       /\ \A s \in AU!Search(rows, f, 1, 1) :
             Len(s) = IF AU!Count(rows, f) > 1 THEN 1 ELSE 0
       /\ \A page \in AU!Page(rows, rows \cup {late}, f, 2, 0) :
             page.items \in S /\ page.total = AU!Count(rows, f) + 1
       /\ f = AU!Anything => S = AU!Recent(rows, 2) /\ AU!Count(rows, f) = Cardinality(rows)
       /\ f = [AU!Anything EXCEPT !.who = {"me"}] => S = AU!LatestForUser(rows, "me", 2)
       /\ AU!Actions(rows) = {"a", "b"}

\* A row shown on two pages, and one on neither, of rows of one time.
ASSUME TiesAreShownTwice ==
    \E s \in AU!Search(Rows(<<1, 1, 1>>), AU!Anything, 2, 0),
       t \in AU!Search(Rows(<<1, 1, 1>>), AU!Anything, 2, 2) : Inside(s) = Inside(t)

----------------------------------------------------------------------------
(* Readiness.                                                              *)

Deadline == 2
RD == INSTANCE Readiness WITH Dependency <- {"postgres", "qdrant"}, Timeout <- Deadline

Probed == [ends: {"answers", "raises", "hangs"}, after: 0 .. 3]

\* Ready exactly if every required dependency answers in time, whatever the
\* others do; never later than the deadline; the answer names what is missing
\* and says the same of everything whether it is 200 or 503; a name that is no
\* dependency is required in vain; and liveness does not depend on any of it.
ASSUME ReadinessChecked ==
    \A probes \in [{"postgres", "qdrant"} -> Probed],
       required \in SUBSET {"postgres", "qdrant", "misspelt"} :
       LET r == RD!Check(probes, required)
           a == RD!Answer(r)
           fine(d) == probes[d].ends = "answers" /\ probes[d].after < Deadline IN
       /\ r.ready <=> \A d \in required \ {"misspelt"} : fine(d)
       /\ r.took <= Deadline
       /\ RD!FailingRequired(r) = {} <=> a.code = 200
       /\ RD!FailingRequired(r) \subseteq required
       /\ \A d \in {"postgres", "qdrant"} :
             /\ fine(d) <=> a.dependencies[d].state = "ok"
             /\ a.dependencies[d].state = "timeout" => r.took = Deadline
             /\ \A e \in Probed : RD!Check([probes EXCEPT ![d] = e], required).ready # r.ready
                                     => d \in required
       /\ RD!Live.code = 200
=============================================================================
