----------------------------- MODULE AuditTrail -----------------------------
(***************************************************************************)
(* The audit log (services/audit.py, repositories/audit.py, api/v1/audit): *)
(* entries that share the fate of a request's transaction, entries that do *)
(* not, and the pages an auditor reads.  Operators on one request, which   *)
(* holds the log as it is committed, what it has staged and its answer.    *)
(* Left out: what an entry says beyond who, what, how it went and when;    *)
(* redaction; log lines.                                                   *)
(***************************************************************************)
EXTENDS Naturals, Sequences, FiniteSets, SequencesExt

Results == {"SUCCESS", "FAILURE", "DENIED"}

\* A request: now is its transaction's time, which each entry it stages gets.
Begin(log, now) ==
    [log |-> log, now |-> now, staged |-> <<>>, changes |-> {}, kept |-> {}, answer |-> "none"]

Running(q) == q.answer = "none"

\* _build, with the database's own time.
Entry(what, who, result, at) == [what |-> what, who |-> who, result |-> result, at |-> at]

\* Any change of the action itself.
Change(q, x) == [q EXCEPT !.changes = @ \cup {x}]

\* record: flushed with the caller's changes; what fails here fails the request.
Record(q, e, fails) ==
    IF fails THEN [q EXCEPT !.answer = "500"] ELSE [q EXCEPT !.staged = Append(@, e)]

\* record_independent: committed alone, and swallowed if that fails; without a
\* session factory it is record.
RecordIndependent(q, e, fails, factory) ==
    IF ~factory THEN Record(q, e, fails)
    ELSE IF fails THEN q ELSE [q EXCEPT !.log = Append(@, e)]

\* record_denied, then the error of who asked for it (require_permission,
\* require_superuser).
Deny(q, who, now, fails, factory) ==
    LET told == RecordIndependent(q, Entry("check", who, "DENIED", now), fails, factory)
    IN  [told EXCEPT !.answer = IF Running(told) THEN "403" ELSE @]

\* AuthService.require_permission: nothing is recorded of who may.
RequirePermission(q, user, permission, now, fails, factory) ==
    IF user.superuser \/ permission \in user.permissions THEN q
    ELSE Deny(q, user.name, now, fails, factory)

\* The end of the request's session.
Ends(q, fails) ==
    IF Running(q) /\ ~fails
       THEN [q EXCEPT !.log = @ \o q.staged, !.kept = q.changes, !.answer = "200"]
       ELSE [q EXCEPT !.answer = IF Running(q) THEN "500" ELSE @]

----------------------------------------------------------------------------
(* Reading.                                                                *)

\* A filter leaves out what is {}.
Matches(row, f) ==
    /\ f.who # {} => row.who \in f.who
    /\ f.what # {} => row.what \in f.what
    /\ f.result # {} => row.result \in f.result
    /\ \A t \in f.since : row.at >= t
    /\ \A t \in f.until : row.at <= t

Found(rows, f) == {r \in rows : Matches(r, f)}

\* ORDER BY timestamp DESC: rows of one time come in any order, each time anew.
Newest(S) == {s \in SetToSeqs(S) : \A i, j \in DOMAIN s : i < j => s[i].at >= s[j].at}

\* search.
Search(rows, f, limit, offset) ==
    {SubSeq(s, offset + 1, IF offset + limit < Len(s) THEN offset + limit ELSE Len(s))
        : s \in Newest(Found(rows, f))}

\* count.
Count(rows, f) == Cardinality(Found(rows, f))

\* recent, latest_for_user.
Anything == [who |-> {}, what |-> {}, result |-> {}, since |-> {}, until |-> {}]
Recent(rows, limit) == Search(rows, Anything, limit, 0)
LatestForUser(rows, who, limit) == Search(rows, [Anything EXCEPT !.who = {who}], limit, 0)

\* distinct_actions.
Actions(rows) == {r.what : r \in rows}

\* search_audit: two statements, so entries may have come in between.
Page(rows, later, f, limit, offset) ==
    {[items |-> s, total |-> Count(later, f)] : s \in Search(rows, f, limit, offset)}
=============================================================================
