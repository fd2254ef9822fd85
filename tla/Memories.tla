------------------------------ MODULE Memories ------------------------------
(***************************************************************************)
(* What an agent remembers of a person (services/memory.py): session keys  *)
(* in Valkey, conversations and memory entries in PostgreSQL, vectors of   *)
(* the entries in the vector store.  Each operation is a function from a   *)
(* store to a store.                                                       *)
(* A scope is [tenant, user, enduser, agent], where None says nothing of   *)
(* a field.  A store is                                                    *)
(*   rows      memory entries [id, scope, vector, expires]                 *)
(*   points    vectors [id, scope]                                         *)
(*   keys      names of session values                                     *)
(*   talks     conversations [scope, ext, messages, summary]               *)
(* Left out: texts, kinds, time other than before and after an expiry,     *)
(* which rows are the newest, Valkey's own expiry of keys, and the         *)
(* rollback of a request whose vectors are gone already.                   *)
(***************************************************************************)
EXTENDS Integers, FiniteSets

CONSTANTS
    None,
    KeepVerbatim,    \* SUMMARISE_AFTER_MESSAGES
    EraseAtOnce,     \* how many memories one forget_all lists
    KeyName(_, _),   \* the name in Valkey of a key under a prefix; ids are put into it as
                     \* they are, so that two pairs may have one name
    Matches(_, _)    \* whether a prefix and a star, as a glob pattern, match a name: an id
                     \* in it may hold wildcards, and is not escaped

Empty == [rows |-> {}, points |-> {}, keys |-> {}, talks |-> {}]

Anonymous(scope) == scope.user = None /\ scope.enduser = None

\* vector_filters and find_scoped, list_scoped: a field that says nothing does
\* not restrict; the tenant always does.
Within(whose, scope) ==
    /\ whose.tenant = scope.tenant
    /\ \A f \in {"user", "enduser", "agent"} : scope[f] # None => whose[f] = scope[f]

----------------------------------------------------------------------------
(* The semantic layer.                                                     *)

\* remember: refused for nobody; a vector that cannot be stored leaves the row.
Remember(store, scope, id, expires, indexed) ==
    IF Anonymous(scope) THEN store
    ELSE [store EXCEPT
            !.rows = @ \cup {[id |-> id, scope |-> scope, expires |-> expires,
                              vector |-> IF indexed THEN id ELSE None]},
            !.points = IF indexed THEN @ \cup {[id |-> id, scope |-> scope]} ELSE @]

\* search: the best points of the scope that reach the threshold.
Hits(store, scope, score, least, limit) ==
    LET near == {p \in store.points : Within(p.scope, scope) /\ score[p.id] >= least} IN
    {p \in near : Cardinality({q \in near : score[q.id] > score[p.id]}) < limit}

\* recall: the rows of the hits, less those that are gone or have expired.
Recall(store, scope, score, least, limit, now) ==
    {r \in store.rows : /\ \E p \in Hits(store, scope, score, least, limit) : p.id = r.vector
                        /\ r.expires = None \/ r.expires >= now}

\* forget: by id, within the tenant; a vector may outlive its row.
Forget(store, scope, r, reached) ==
    IF r \notin store.rows \/ r.scope.tenant # scope.tenant THEN store
    ELSE [store EXCEPT !.rows = @ \ {r},
                       !.points = IF reached THEN {p \in @ : p.id # r.vector} ELSE @]

\* delete_expired: the rows only.
DeleteExpired(store, now) ==
    [store EXCEPT !.rows = {r \in @ : r.expires = None \/ r.expires >= now}]

----------------------------------------------------------------------------
(* The session layer.                                                      *)

\* _session_prefix: one name for a person, and "any" for no agent.
Prefix(scope) ==
    [tenant |-> scope.tenant,
     who |-> IF scope.enduser # None THEN scope.enduser
             ELSE IF scope.user # None THEN scope.user ELSE "anon",
     agent |-> IF scope.agent # None THEN scope.agent ELSE "any"]

SetSession(store, scope, key) ==
    [store EXCEPT !.keys = @ \cup {KeyName(Prefix(scope), key)}]

\* get_session finds a value.
HasSession(store, scope, key) == KeyName(Prefix(scope), key) \in store.keys

\* clear_session: what SCAN finds by the pattern.
ClearSession(store, scope) ==
    [store EXCEPT !.keys = {k \in @ : ~Matches(Prefix(scope), k)}]

\* list_scoped: the newest of a scope, up to a limit; which are the newest is left open.
Owned(store, scope) == {r \in store.rows : Within(r.scope, scope)}
Listings(store, scope, limit) ==
    LET own == Owned(store, scope) IN
    IF Cardinality(own) <= limit THEN {own}
    ELSE {L \in SUBSET own : Cardinality(L) = limit}

\* forget_all: one listing, with its vectors, and the session keys; what was not
\* listed stays.
ForgetAll(store, scope, listed, reached) ==
    IF Anonymous(scope) THEN store
    ELSE ClearSession(
           [store EXCEPT !.rows = @ \ listed,
                         !.points = IF reached
                                    THEN {p \in @ : \A r \in listed : p.id # r.vector}
                                    ELSE @],
           scope)

----------------------------------------------------------------------------
(* The long-term layer.                                                    *)

Threads(store, scope, ext) == {t \in store.talks : t.ext = ext /\ Within(t.scope, scope)}

\* get_or_create_conversation: the stores it may leave; the first thread found
\* is any of those that match.
Open(store, scope, ext) ==
    IF Threads(store, scope, ext) # {} THEN store
    ELSE [store EXCEPT !.talks =
            @ \cup {[scope |-> scope, ext |-> ext, messages |-> {}, summary |-> {}]}]

\* next_ordinal, recent and append_message.
NextOrdinal(t) == IF t.messages = {} THEN 1
                  ELSE 1 + CHOOSE m \in t.messages : \A k \in t.messages : k <= m
Recent(t, limit) == {m \in t.messages : Cardinality({k \in t.messages : k > m}) < limit}

AppendMessage(store, t) ==
    [store EXCEPT !.talks = (@ \ {t}) \cup {[t EXCEPT !.messages = @ \cup {NextOrdinal(t)}]}]

\* summarize_conversation: of the last messages; an unreachable model changes nothing.
Summarize(store, t, reached) ==
    IF Cardinality(t.messages) < KeepVerbatim \/ ~reached THEN store
    ELSE [store EXCEPT !.talks =
            (@ \ {t}) \cup {[t EXCEPT !.summary = Recent(t, KeepVerbatim)]}]
=============================================================================
