----------------------------- MODULE Retrieval -----------------------------
(***************************************************************************)
(* The context an agent run answers from (services/retrieval.py), with the *)
(* search over knowledge bases it rests on (KnowledgeService.search).      *)
(* A base is [name, tenant, enabled, embeds], the last saying what its     *)
(* embedding model does: "yes", "none" or "raises"; a point is             *)
(* [id, base, tenant], whose text is in the row of the same id; scores are *)
(* distinct, so the order of results is one.                               *)
(* Left out: the words of the context block.                               *)
(***************************************************************************)
EXTENDS Integers, FiniteSets, Sequences, SequencesExt

CONSTANTS
    MaxPassages,     \* MAX_PASSAGES
    MinScore         \* MIN_SCORE

----------------------------------------------------------------------------
(* KnowledgeService.search.                                                *)

\* The best of a set, best first.
Best(ids, score, limit) ==
    LET near == {i \in ids : Cardinality({j \in ids : score[j] > score[i]}) < limit} IN
    SetToSortSeq(near, LAMBDA i, j : score[i] > score[j])

\* One collection: the vector store limits before the rows are looked up, so a
\* vector whose row is gone takes a place and gives nothing.
Searched(b, points, rows, score) ==
    LET near == {p.id : p \in {q \in points : /\ q.base = b.name
                                              /\ q.tenant = b.tenant
                                              /\ score[q.id] >= MinScore}} IN
    IF b.enabled /\ b.embeds = "yes" THEN ToSet(Best(near, score, MaxPassages)) \cap rows
    ELSE {}

\* An embedding model that cannot be reached ends the search of every base.
Raises(bases) == \E b \in bases : b.enabled /\ b.embeds = "raises"

Search(bases, points, rows, score) ==
    Best(UNION {Searched(b, points, rows, score) : b \in bases}, score, MaxPassages)

----------------------------------------------------------------------------
(* RetrievalService.                                                       *)

\* _search_knowledge: a malformed id gives up on all of them; what is gone or
\* of another tenant is dropped.
Permitted(ids, bases, tenant) ==
    IF "malformed" \in ids THEN {}
    ELSE {b \in bases : b.name \in ids /\ b.tenant = tenant}

\* _recall: the scope of the person asking, or nothing at all.
Scope(spec, ctx, tenant) ==
    [tenant |-> tenant, user |-> ctx.user, enduser |-> ctx.enduser, agent |-> spec.agent]
Asks(spec, ctx, none) == spec.memory /\ ~(ctx.user = none /\ ctx.enduser = none)

\* gather and _compose: nothing if the search raises, a block if there is
\* something to say.
Nothing == [passages |-> <<>>, memories |-> {}, searched |-> {}, block |-> FALSE]

\* recall[scope] is what MemoryService.recall answers.
Gather(spec, ctx, tenant, bases, points, rows, score, none, recall) ==
    LET permitted == Permitted(spec.bases, bases, tenant)
        passages == Search(permitted, points, rows, score)
        memories == IF Asks(spec, ctx, none) THEN recall[Scope(spec, ctx, tenant)] ELSE {} IN
    IF Raises(permitted) THEN Nothing
    ELSE [passages |-> passages,
          memories |-> memories,
          searched |-> {b.name : b \in permitted},
          block |-> passages # <<>> \/ memories # {}]

\* _retrieve: the events of the trace; no question, or an exception, gives none.
Trace(found) ==
    (IF found.searched # {} THEN <<"RAG_SEARCH">> ELSE <<>>)
        \o (IF found.memories # {} THEN <<"MEMORY_READ">> ELSE <<>>)
=============================================================================
