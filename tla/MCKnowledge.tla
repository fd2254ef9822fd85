---------------------------- MODULE MCKnowledge ----------------------------
(***************************************************************************)
(* A small instance of Knowledge for TLC, and the functions around it on   *)
(* every small input: how documents become passages (Chunking), how        *)
(* passages and memories are found (Retrieval, Memories).                  *)
(***************************************************************************)
EXTENDS Knowledge, Integers, Sequences, SequencesExt

----------------------------------------------------------------------------
(* Chunking.                                                               *)

C == INSTANCE Chunking

\* Texts of up to four tokens, each character with its place.
Tokens == {<<"w">>, <<"w", "w", "w">>, <<"stop">>, <<"sp">>, <<"nl">>, <<"nl", "nl">>}
Text(cs) == [i \in DOMAIN cs |-> [c |-> cs[i], at |-> i]]
Texts == {Text(FlattenSeq(ts)) : ts \in UNION {[1 .. n -> Tokens] : n \in 0 .. 4}}

\* A long word, a stop and a sentence of exactly the budget.
Awkward == Text(<<"w", "w", "w", "w", "stop", "sp", "w", "w", "w">>)

Places(chunk) == {chunk[i].at : i \in DOMAIN chunk} \ {0}
Inked(t) == {i \in DOMAIN t : ~C!Blank(t[i])}

Words(t) == {w \in {k .. l : k, l \in DOMAIN t} :
                w # {} /\ w \subseteq Inked(t)
                       /\ \A i \in w : {i - 1, i + 1} \cap Inked(t) \subseteq w}

\* A line break alone in its white space: no paragraph ends there.
LoneBreak(t) == \E i \in DOMAIN t :
    t[i].c = "nl" /\ \A j \in C!RunAt(t, i) : t[j].c = "nl" => j = i

\* Some over-long paragraph gives an empty piece (_split_sentences).
EmptyPiece(t, size) ==
    \E p \in ToSet(C!Paragraphs(t)) : Len(p) > size /\ <<>> \in ToSet(C!SplitSentences(p, size))

\* No chunk is empty or longer than asked for; nothing of the document is lost
\* and nothing changes places; a word that fits a chunk is whole in one, if no
\* line ends inside a paragraph; and no chunk only repeats, unless an empty
\* piece came between (chunk_segments).
ChunksKeep(t, size, overlap) ==
    LET chunks == C!Chunks(t, size, overlap)
        Before(n) == UNION {Places(chunks[i]) : i \in 1 .. n - 1} IN
    /\ \A n \in DOMAIN chunks : Len(chunks[n]) \in 1 .. size
    /\ Inked(t) \subseteq Before(Len(chunks) + 1)
    /\ \A n \in DOMAIN chunks : \A i, j \in DOMAIN chunks[n] :
          i < j /\ chunks[n][i].at # 0 /\ chunks[n][j].at # 0
             => chunks[n][i].at < chunks[n][j].at
    /\ ~LoneBreak(t) =>
          \A w \in Words(t) : Cardinality(w) <= size =>
             \E n \in DOMAIN chunks : w \subseteq Places(chunks[n])
    /\ (\E n \in DOMAIN chunks : Places(chunks[n]) \subseteq Before(n)) => EmptyPiece(t, size)

ASSUME ChunkingChecked ==
    \A t \in Texts \cup {Awkward}, size \in {3, 4}, overlap \in {0, 1, 3} :
        ChunksKeep(t, size, overlap)

----------------------------------------------------------------------------
(* Memories.                                                               *)

\* A name spells its four parts; a star in a pattern stands for any of one part.
Star == "*"
KeyName(prefix, key) == <<prefix.tenant, prefix.who, prefix.agent, key>>
Matches(prefix, name) ==
    /\ prefix.tenant = name[1]
    /\ prefix.who \in {Star, name[2]}
    /\ prefix.agent = name[3]

M == INSTANCE Memories WITH KeepVerbatim <- 2, EraseAtOnce <- 1

Person(tenant, user, enduser, agent) ==
    [tenant |-> tenant, user |-> user, enduser |-> enduser, agent |-> agent]

People == {Person("t1", "u", None, "a"), Person("t1", "u", None, None),
           Person("t1", None, "e", "a"), Person("t1", None, "e", None),
           Person("t2", "u", None, "a"), Person("t1", None, Star, None)}
Everybody == People \cup {Person("t1", None, None, None)}

\* Memory n is made by step n; scores follow the order they were made in.
Score == [i \in 1 .. 3 |-> i]

\* One operation, with the vector store answering as given.
Steps(s, n, answers) ==
    {M!Remember(s, p, n, x, ok) : p \in Everybody, x \in {None, 1}, ok \in answers}
    \cup {M!Forget(s, p, r, ok) : p \in People, r \in s.rows, ok \in answers}
    \cup UNION {{M!ForgetAll(s, p, listed, ok) : listed \in M!Listings(s, p, 1), ok \in answers} :
                  p \in Everybody}
    \cup {M!SetSession(s, p, "k") : p \in Everybody}
    \cup {M!DeleteExpired(s, 2)}

Stores(answers) ==
    LET one == Steps(M!Empty, 1, answers)
        two == UNION {Steps(s, 2, answers) : s \in one} IN
    {M!Empty} \cup one \cup two

Recalled(s, p, now) == M!Recall(s, p, Score, 1, 3, now)

\* What is recalled belongs to the person asked about, has not lapsed, and was
\* not forgotten; every row that claims a vector has one (recall, forget).
RecallIsOwn(s) ==
    /\ \A p \in People, now \in {0, 2} : \A r \in Recalled(s, p, now) :
          /\ r.scope.tenant = p.tenant
          /\ p.user # None => r.scope.user = p.user
          /\ p.enduser # None => r.scope.enduser = p.enduser
          /\ p.agent # None => r.scope.agent = p.agent
          /\ r.expires = None \/ r.expires >= now
    /\ \A r \in s.rows : r.vector # None => \E p \in s.points : p.id = r.vector

\* After an erasure nothing of what it listed is recalled, whatever failed, and all of the
\* person's was listed unless there is more than one listing holds; nobody else lost a
\* memory.  Session values go by name: those of the person, and those of whoever a star in
\* the person's id stands for (forget_all, list_scoped, clear_session).
ErasureIsBounded(s) ==
    \A p \in People, ok \in BOOLEAN : \A listed \in M!Listings(s, p, 1) :
       LET after == M!ForgetAll(s, p, listed, ok) IN
       /\ \A q \in People : M!Within(q, p) => Recalled(after, q, 0) \subseteq M!Owned(s, p) \ listed
       /\ Cardinality(M!Owned(s, p)) <= 1 => M!Owned(after, p) = {}
       /\ \A q \in People : ~M!Within(q, p) /\ ~M!Within(p, q)
                               => Recalled(after, q, 0) = Recalled(s, q, 0)
       /\ \A q \in People :
             M!HasSession(after, q, "k") <=>
                M!HasSession(s, q, "k") /\ ~Matches(M!Prefix(p), KeyName(M!Prefix(q), "k"))

\* What is left behind: memories beyond the listing, still recalled; and what goes too far:
\* a value of somebody else's session.
LeavesSome(s) ==
    \E p \in People : \E listed \in M!Listings(s, p, 1) :
       Recalled(M!ForgetAll(s, p, listed, TRUE), p, 0) # {}
TakesOthers(s) ==
    \E p, q \in People : /\ ~M!Within(q, p) /\ M!HasSession(s, q, "k")
                         /\ ~M!HasSession(M!ForgetAll(s, p, {}, TRUE), q, "k")

ASSUME MemoriesChecked ==
    /\ \A s \in Stores(BOOLEAN) : RecallIsOwn(s) /\ ErasureIsBounded(s)
    /\ \A s \in Stores({TRUE}) : \A r \in s.rows : r.vector # None
    /\ \E s \in Stores({TRUE}) : LeavesSome(s)
    /\ \E s \in Stores({TRUE}) : TakesOthers(s)

\* A thread counts 1, 2, 3 and its summary is of its last messages only
\* (append_message, summarize_conversation).
ASSUME ThreadsChecked ==
    LET p == Person("t1", "u", None, "a")
        The(s) == CHOOSE t \in s.talks : TRUE
        open == M!Open(M!Empty, p, "x")
        Said[n \in 0 .. 3] == IF n = 0 THEN open ELSE M!AppendMessage(Said[n - 1], The(Said[n - 1])) IN
    /\ M!Open(open, p, "x") = open
    /\ \A n \in 0 .. 3 :
          /\ The(Said[n]).messages = 1 .. n
          /\ M!Threads(Said[n], Person("t2", "u", None, "a"), "x") = {}
          /\ The(M!Summarize(Said[n], The(Said[n]), TRUE)).summary =
                IF n < 2 THEN {} ELSE {n - 1, n}

----------------------------------------------------------------------------
(* Retrieval.                                                              *)

R == INSTANCE Retrieval WITH MaxPassages <- 2, MinScore <- 2
Scopes == [tenant : {"t1", "t2"}, user : {None, "u"}, enduser : {None, "e"}, agent : {"a"}]

\* Two bases; four points, the first of which scores too low to count.
Fleets == {{[name |-> "b1", tenant |-> "t1", enabled |-> on, embeds |-> e1],
            [name |-> "b2", tenant |-> t, enabled |-> TRUE, embeds |-> e2]} :
             on \in BOOLEAN, t \in {"t1", "t2"}, e1, e2 \in {"yes", "none", "raises"}}
Tenant(bases, name) == (CHOOSE b \in bases : b.name = name).tenant
Points(bases, where) ==
    {[id |-> i, base |-> where[i], tenant |-> Tenant(bases, where[i])] : i \in 1 .. 4}

\* Passages are of the tenant, in rows, likely enough, at most as many as
\* allowed, best first; without orphaned vectors they are the best there are;
\* the trace tells of every search that was made (gather, search, _retrieve).
ASSUME RetrievalChecked ==
    \A bases \in Fleets, where \in [1 .. 4 -> {"b1", "b2"}], rows \in SUBSET (1 .. 4),
       ids \in {{}, {"b1"}, {"b1", "b2"}, {"b1", "malformed"}}, memory \in BOOLEAN :
       LET points == Points(bases, where)
           found == R!Gather([bases |-> ids, memory |-> memory, agent |-> "a"],
                             [user |-> "u", enduser |-> None], "t1", bases, points, rows,
                             [i \in 1 .. 4 |-> i], None, [scope \in Scopes |-> {"m"}])
           good == {i \in 2 .. 4 : \E b \in bases :
                       b.name = where[i] /\ b.tenant = "t1" /\ b.enabled
                         /\ b.embeds = "yes" /\ b.name \in ids}
           raised == \E b \in bases : b.name \in ids /\ "malformed" \notin ids
                        /\ b.tenant = "t1" /\ b.enabled /\ b.embeds = "raises" IN
       /\ ToSet(found.passages) \subseteq good \cap rows
       /\ Len(found.passages) <= 2
       /\ \A i, j \in DOMAIN found.passages : i < j => found.passages[i] > found.passages[j]
       /\ rows = 1 .. 4 /\ ~raised /\ "malformed" \notin ids =>
             \A i \in good \ ToSet(found.passages) :
                Len(found.passages) = 2 /\ \A j \in ToSet(found.passages) : i < j
       /\ found.passages # <<>> => "RAG_SEARCH" \in ToSet(R!Trace(found))
       /\ raised => found = R!Nothing
       /\ found.block => R!Trace(found) # <<>>
       /\ ~raised => found.memories = IF memory THEN {"m"} ELSE {}

\* A run is told what is remembered of the person it is for, under its own
\* agent and tenant, and a run for nobody is told nothing (_recall).
ASSUME RunsRecallTheirPerson ==
    \A s \in Stores({TRUE}), user \in {None, "u"}, enduser \in {None, "e"}, tenant \in {"t1", "t2"} :
       LET found == R!Gather([bases |-> {}, memory |-> TRUE, agent |-> "a"],
                             [user |-> user, enduser |-> enduser], tenant, {}, {}, {}, <<>>, None,
                             [scope \in Scopes |-> Recalled(s, scope, 0)]) IN
       /\ \A r \in found.memories :
             /\ r.scope.tenant = tenant /\ r.scope.agent = "a"
             /\ {user, enduser} \ {None} \subseteq {r.scope.user, r.scope.enduser}
       /\ user = None /\ enduser = None => found = R!Nothing
=============================================================================
