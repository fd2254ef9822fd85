----------------------------- MODULE Knowledge -----------------------------
(***************************************************************************)
(* One knowledge base: uploads and deletions (services/knowledge.py), the  *)
(* workers that ingest what was uploaded (workers/ingestion.py), and the   *)
(* two stores outside the database, object storage for originals and the   *)
(* vector store for passages.  PostgreSQL rows change at the commit of a   *)
(* session; what is put, upserted or removed outside is there at once and  *)
(* is not rolled back.                                                     *)
(* A document is cut into Batches batches of passages; a vector stands for *)
(* one batch of one attempt, and a chunk row is the id of its vector.      *)
(* Parsing, OCR and embedding are their outcomes.                          *)
(***************************************************************************)
EXTENDS Naturals, FiniteSets

CONSTANTS
    Doc,         \* document ids, each used once
    Sha,         \* contents of files
    Worker,      \* ingestion workers
    Req,         \* API sessions, reused
    None,
    Batches,     \* batches a document is embedded in
    MaxTries,    \* bound on attempts rolled back, all of one document
    Faults       \* which things fail: storage, vectors, crash

ASSUME KnowledgeAssumption == Batches \in Nat \ {0} /\ MaxTries \in Nat
ASSUME NoneAssumption == None \notin Doc

VARIABLES
    doc,         \* [Doc -> committed row of the document, with its chunk rows]
    base,        \* the row of the base: none, here or gone
    coll,        \* the collection exists in the vector store
    vecs,        \* vectors in it
    blob,        \* documents whose original is in object storage
    tries,       \* [Doc -> attempts that were rolled back]
    wk,          \* [Worker -> the ingestion it holds]
    rq,          \* [Req -> the request it serves]
    doomed       \* documents somebody has asked to delete (history)

vars == <<doc, base, coll, vecs, blob, tries, wk, rq, doomed>>

Vec == [d: Doc, w: Worker, try: 0 .. MaxTries, b: 1 .. Batches]

Settled == {"INDEXED", "NO_TEXT", "FAILED"}
DocRow == [st: {"none", "UPLOADED", "gone"} \cup Settled, sha: Sha \cup {None},
           no: Nat, rows: SUBSET Vec]

NoDoc == [st |-> "none", sha |-> None, no |-> 0, rows |-> {}]
GoneDoc == [st |-> "gone", sha |-> None, no |-> 0, rows |-> {}]

\* PARSING, OCR, CHUNKING and EMBEDDING are flushed, never committed: they are pc.
Ingest == [pc: {"idle", "load", "parse", "ocr", "chunk", "rows", "embed", "commit"},
           d: Doc \cup {None}, rows: SUBSET Vec, done: 0 .. Batches,
           st: Settled \cup {None}]
Idle == [pc |-> "idle", d |-> None, rows |-> {}, done |-> 0, st |-> None]

Request == [pc: {"idle", "put", "store", "vectors", "original", "delete",
                 "create", "drop", "base"},
            d: Doc \cup {None}, sha: Sha \cup {None}, seen: SUBSET Vec]
NoReq == [pc |-> "idle", d |-> None, sha |-> None, seen |-> {}]

Init ==
    /\ doc = [d \in Doc |-> NoDoc]
    /\ base = "none"
    /\ coll = FALSE
    /\ vecs = {}
    /\ blob = {}
    /\ tries = [d \in Doc |-> 0]
    /\ wk = [w \in Worker |-> Idle]
    /\ rq = [r \in Req |-> NoReq]
    /\ doomed = {}

Works(w, s) == wk' = [wk EXCEPT ![w] = s]
Serves(r, s) == rq' = [rq EXCEPT ![r] = s]

Live == {d \in Doc : doc[d].st \notin {"none", "gone"}}

\* Rows a worker has claimed stay locked until its session ends.
Claimed == {wk[w].d : w \in Worker} \ {None}

\* An upload holds a key lock on the base from its first flush.
Uploading == {rq[r].d : r \in {q \in Req : rq[q].pc \in {"put", "store"}}}

----------------------------------------------------------------------------
(* Creating the base.                                                      *)

\* create_base: the row is flushed, the collection made at once.
CreateBase(r) ==
    /\ base = "none"
    /\ \A q \in Req : rq[q] = NoReq
    /\ coll' = TRUE
    /\ Serves(r, [NoReq EXCEPT !.pc = "create"])
    /\ UNCHANGED <<doc, base, vecs, blob, tries, wk, doomed>>

CommitBase(r) ==
    /\ rq[r].pc = "create"
    /\ base' = "here"
    /\ Serves(r, NoReq)
    /\ UNCHANGED <<doc, coll, vecs, blob, tries, wk, doomed>>

----------------------------------------------------------------------------
(* Uploading.                                                              *)

\* find_duplicate: a failed copy does not count; nothing else refuses one.
Duplicate(h) == \E d \in Live : doc[d].sha = h /\ doc[d].st # "FAILED"

Upload(r, d, h) ==
    /\ rq[r] = NoReq
    /\ base = "here"
    /\ ~Duplicate(h)
    /\ doc[d].st = "none"
    /\ d \notin Uploading
    /\ Serves(r, [pc |-> "put", d |-> d, sha |-> h, seen |-> {}])
    /\ UNCHANGED <<doc, base, coll, vecs, blob, tries, wk, doomed>>

\* Mutant: the object is put after the row is visible.
PutLater(d) == UNCHANGED blob

Put(d) == blob' = blob \cup {d}

PutObject(r) ==
    /\ rq[r].pc = "put"
    /\ Put(rq[r].d)
    /\ Serves(r, [rq[r] EXCEPT !.pc = "store"])
    /\ UNCHANGED <<doc, base, coll, vecs, tries, wk, doomed>>

\* Rows are claimed in the order of created_at.
Newest == {n \in {doc[d].no : d \in Doc} : \A d \in Doc : doc[d].no <= n}

CommitUpload(r) ==
    /\ rq[r].pc = "store"
    /\ \E n \in Newest :
          doc' = [doc EXCEPT ![rq[r].d] =
                    [st |-> "UPLOADED", sha |-> rq[r].sha, no |-> n + 1, rows |-> {}]]
    /\ Serves(r, NoReq)
    /\ UNCHANGED <<base, coll, vecs, blob, tries, wk, doomed>>

----------------------------------------------------------------------------
(* Ingesting.                                                              *)

\* Mutant: claimed without a lock.
ClaimableByAll == {d \in Doc : doc[d].st = "UPLOADED"}

\* FOR UPDATE SKIP LOCKED: the oldest UPLOADED that no other worker holds.
Claimable == {d \in Doc : doc[d].st = "UPLOADED"} \ Claimed
Oldest(D) == {d \in D : \A e \in D : doc[d].no <= doc[e].no}

Claim(w) ==
    /\ wk[w] = Idle
    /\ \E d \in Oldest(Claimable) :
          Works(w, [pc |-> "load", d |-> d, rows |-> {}, done |-> 0, st |-> None])
    /\ UNCHANGED <<doc, base, coll, vecs, blob, tries, rq, doomed>>

Load(w) ==
    /\ wk[w].pc = "load"
    /\ wk[w].d \in blob
    /\ Works(w, [wk[w] EXCEPT !.pc = "parse"])
    /\ UNCHANGED <<doc, base, coll, vecs, blob, tries, rq, doomed>>

\* load_content raises.  tick rolls back and then reads document.id, which the
\* rollback has expired: the handler itself raises, the document is never
\* marked, and stays first in the queue.
LoadFails(w) ==
    /\ wk[w].pc = "load"
    /\ wk[w].d \notin blob
    /\ Works(w, Idle)
    /\ UNCHANGED <<doc, base, coll, vecs, blob, tries, rq, doomed>>

Verdict(w, st) == Works(w, [wk[w] EXCEPT !.pc = "commit", !.st = st])

\* What parsing a file comes to: text; images only; text with nothing in it; a
\* format that is not supported, or a parser that raised.
Parsings == {"text", "scan", "blank", "unsupported"}

Parse(w, p) ==
    /\ wk[w].pc = "parse"
    /\ CASE p = "text" -> Works(w, [wk[w] EXCEPT !.pc = "chunk"])
         [] p = "scan" -> Works(w, [wk[w] EXCEPT !.pc = "ocr"])
         [] p = "blank" -> Verdict(w, "NO_TEXT")
         [] p = "unsupported" -> Verdict(w, "FAILED")
    /\ UNCHANGED <<doc, base, coll, vecs, blob, tries, rq, doomed>>

\* No OCR model, one that fails, or one that reads nothing: NO_TEXT.
Recognise(w) ==
    /\ wk[w].pc = "ocr"
    /\ \/ Works(w, [wk[w] EXCEPT !.pc = "chunk"])
       \/ Verdict(w, "NO_TEXT")
    /\ UNCHANGED <<doc, base, coll, vecs, blob, tries, rq, doomed>>

\* Text of which no passage is left.
NoPassages(w) ==
    /\ wk[w].pc = "chunk"
    /\ Verdict(w, "NO_TEXT")
    /\ UNCHANGED <<doc, base, coll, vecs, blob, tries, rq, doomed>>

\* The chunk rows of this attempt replace any the document had.
Rows(w) == {v \in Vec : v.d = wk[w].d /\ v.w = w /\ v.try = tries[wk[w].d]}

WriteChunks(w) ==
    /\ wk[w].pc = "chunk"
    /\ Works(w, [wk[w] EXCEPT !.pc = "rows", !.rows = Rows(w)])
    /\ UNCHANGED <<doc, base, coll, vecs, blob, tries, rq, doomed>>

EnsureCollection(w) ==
    /\ wk[w].pc = "rows"
    /\ coll' = TRUE
    /\ Works(w, [wk[w] EXCEPT !.pc = "embed"])
    /\ UNCHANGED <<doc, base, vecs, blob, tries, rq, doomed>>

\* Embed a batch and upsert its vectors.
EmbedBatch(w) ==
    /\ wk[w].pc = "embed"
    /\ wk[w].done < Batches
    /\ coll
    /\ vecs' = vecs \cup {v \in wk[w].rows : v.b = wk[w].done + 1}
    /\ Works(w, [wk[w] EXCEPT !.done = @ + 1])
    /\ UNCHANGED <<doc, base, coll, blob, tries, rq, doomed>>

\* Mutant: the last batch is left out.
AllButOneEmbedded(w) == wk[w].done >= Batches - 1

AllEmbedded(w) == wk[w].done = Batches

Indexed(w) ==
    /\ wk[w].pc = "embed"
    /\ AllEmbedded(w)
    /\ Verdict(w, "INDEXED")
    /\ UNCHANGED <<doc, base, coll, vecs, blob, tries, rq, doomed>>

\* Mutant: the failure is raised, not marked.
EmbedFailsRaising(w) ==
    /\ wk[w].pc \in {"rows", "embed"}
    /\ ("vectors" \in Faults \/ ~coll)
    /\ Works(w, Idle)
    /\ UNCHANGED <<doc, base, coll, vecs, blob, tries, rq, doomed>>

\* The model or the vector store fails half-way: FAILED, and the chunk rows and
\* the vectors written so far stay.
EmbedFails(w) ==
    /\ wk[w].pc \in {"rows", "embed"}
    /\ ("vectors" \in Faults \/ ~coll)
    /\ Verdict(w, "FAILED")
    /\ UNCHANGED <<doc, base, coll, vecs, blob, tries, rq, doomed>>

CommitIngest(w) ==
    /\ wk[w].pc = "commit"
    /\ doc' = [doc EXCEPT ![wk[w].d] =
                 [st |-> wk[w].st, sha |-> doc[wk[w].d].sha, no |-> doc[wk[w].d].no,
                  rows |-> wk[w].rows]]
    /\ Works(w, Idle)
    /\ UNCHANGED <<base, coll, vecs, blob, tries, rq, doomed>>

\* The process stops, or something raises outside the marked failures: the
\* session rolls back, what was upserted stays, the document is still UPLOADED.
Interrupted(w) ==
    /\ "crash" \in Faults
    /\ wk[w] # Idle
    /\ tries[wk[w].d] < MaxTries
    /\ \A d \in Doc \ {wk[w].d} : tries[d] = 0
    /\ tries' = [tries EXCEPT ![wk[w].d] = @ + 1]
    /\ Works(w, Idle)
    /\ UNCHANGED <<doc, base, coll, vecs, blob, rq, doomed>>

----------------------------------------------------------------------------
(* Deleting a document.                                                    *)

ReadToDelete(r, d) ==
    /\ rq[r] = NoReq
    /\ d \in Live
    /\ Serves(r, [pc |-> "vectors", d |-> d, sha |-> None, seen |-> doc[d].rows])
    /\ doomed' = doomed \cup {d}
    /\ UNCHANGED <<doc, base, coll, vecs, blob, tries, wk>>

\* By id, those read before; a failure is logged and the rest goes on.
DeleteVectors(r) ==
    /\ rq[r].pc = "vectors"
    /\ \/ vecs' = vecs \ rq[r].seen
       \/ "vectors" \in Faults /\ vecs' = vecs
    /\ Serves(r, [rq[r] EXCEPT !.pc = "original"])
    /\ UNCHANGED <<doc, base, coll, blob, tries, wk, doomed>>

RemoveOriginal(r) ==
    /\ rq[r].pc = "original"
    /\ \/ blob' = blob \ {rq[r].d}
       \/ "storage" \in Faults /\ blob' = blob
    /\ Serves(r, [rq[r] EXCEPT !.pc = "delete"])
    /\ UNCHANGED <<doc, base, coll, vecs, tries, wk, doomed>>

\* The row, and its chunk rows by cascade; a claimed row is waited for, and one
\* already gone raises.
DeleteRow(r) ==
    /\ rq[r].pc = "delete"
    /\ rq[r].d \notin Claimed
    /\ doc' = [doc EXCEPT ![rq[r].d] = GoneDoc]
    /\ Serves(r, NoReq)
    /\ UNCHANGED <<base, coll, vecs, blob, tries, wk, doomed>>

----------------------------------------------------------------------------
(* Deleting the base.                                                      *)

ReadBase(r) ==
    /\ rq[r] = NoReq
    /\ base = "here"
    /\ Serves(r, [NoReq EXCEPT !.pc = "drop"])
    /\ doomed' = Doc
    /\ UNCHANGED <<doc, base, coll, vecs, blob, tries, wk>>

DropCollection(r) ==
    /\ rq[r].pc = "drop"
    /\ \/ coll' = FALSE /\ vecs' = {}
       \/ "vectors" \in Faults /\ UNCHANGED <<coll, vecs>>
    /\ Serves(r, [rq[r] EXCEPT !.pc = "base"])
    /\ UNCHANGED <<doc, base, blob, tries, wk, doomed>>

\* Documents and chunks go by cascade, once no worker or upload holds a row.
DeleteBase(r) ==
    /\ rq[r].pc = "base"
    /\ Claimed = {}
    /\ Uploading = {}
    /\ base' = "gone"
    /\ doc' = [d \in Doc |-> IF d \in Live THEN GoneDoc ELSE doc[d]]
    /\ Serves(r, NoReq)
    /\ UNCHANGED <<coll, vecs, blob, tries, wk, doomed>>

\* A request fails or is cut short: its session rolls back.  A base that was
\* being created leaves its collection; another would have another id.
AbortRequest(r) ==
    /\ rq[r] # NoReq
    /\ base' = IF rq[r].pc = "create" THEN "gone" ELSE base
    /\ Serves(r, NoReq)
    /\ UNCHANGED <<doc, coll, vecs, blob, tries, wk, doomed>>

----------------------------------------------------------------------------
(* Searching.                                                              *)

\* The passages a search can return: hits of the collection that have a chunk row;
\* a vector whose row is gone is skipped.
Found == IF coll THEN {v \in vecs : v \in doc[v.d].rows} ELSE {}

----------------------------------------------------------------------------
WorkerSteps(w) ==
    \/ Claim(w) \/ Load(w) \/ LoadFails(w) \/ WriteChunks(w) \/ EnsureCollection(w)
    \/ EmbedBatch(w) \/ Indexed(w) \/ EmbedFails(w) \/ CommitIngest(w)
    \/ \E p \in Parsings : Parse(w, p)
    \/ Recognise(w) \/ NoPassages(w)

RequestSteps(r) ==
    \/ \E d \in Doc, h \in Sha : Upload(r, d, h)
    \/ PutObject(r) \/ CommitUpload(r)
    \/ \E d \in Doc : ReadToDelete(r, d)
    \/ DeleteVectors(r) \/ RemoveOriginal(r) \/ DeleteRow(r)
    \/ CreateBase(r) \/ CommitBase(r)
    \/ ReadBase(r) \/ DropCollection(r) \/ DeleteBase(r)
    \/ AbortRequest(r)

Next ==
    \/ \E w \in Worker : WorkerSteps(w) \/ Interrupted(w)
    \/ \E r \in Req : RequestSteps(r)

Spec == Init /\ [][Next]_vars

\* run_forever never stops claiming.
FairSpec == Spec /\ \A w \in Worker : WF_vars(WorkerSteps(w))

----------------------------------------------------------------------------
(* Properties.                                                             *)

TypeOK ==
    /\ doc \in [Doc -> DocRow]
    /\ base \in {"none", "here", "gone"}
    /\ coll \in BOOLEAN
    /\ vecs \subseteq Vec
    /\ blob \subseteq Doc
    /\ tries \in [Doc -> 0 .. MaxTries]
    /\ wk \in [Worker -> Ingest]
    /\ rq \in [Req -> Request]
    /\ doomed \subseteq Doc

\* INDEXED is a promise to searches (ingest, _embed_and_index): unless somebody
\* asked to delete it, a search can return every passage of such a document,
\* whatever attempts failed before.
IndexedIsSearchable ==
    \A d \in Doc : doc[d].st = "INDEXED" /\ d \notin doomed =>
        {v.b : v \in Found \cap doc[d].rows} = 1 .. Batches

\* Two workers take from one queue (claim_next_pending): no passage is indexed
\* twice.  A vector without a chunk row is of an ingestion under way, of an
\* attempt that was rolled back, or of a document somebody asked to delete.
VectorsAccounted ==
    \A v \in vecs :
       \/ v \in doc[v.d].rows
       \/ \E w \in Worker : v \in wk[w].rows
       \/ v.try < tries[v.d]
       \/ v.d \in doomed

\* The original is stored before the worker can see its row (accept_upload),
\* so a document nobody deletes can always be read.
OriginalStored == \A d \in Live \ doomed : d \in blob

\* The queue is drained although attempts fail: a document leaves UPLOADED,
\* unless a document still UPLOADED has lost its original to a deletion that
\* did not finish.
QueueDrains ==
    \A d \in Doc : doc[d].st = "UPLOADED" ~>
       \/ doc[d].st # "UPLOADED"
       \/ \E e \in Doc : doc[e].st = "UPLOADED" /\ e \notin blob
=============================================================================
