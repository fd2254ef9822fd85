-------------------------- MODULE KnowledgeProofs --------------------------
(***************************************************************************)
(* Proofs about a knowledge base, for any number of documents, workers and *)
(* requests and whatever fails: what is indexed is searchable, every       *)
(* vector is accounted for, and originals are there before their rows.     *)
(* Neither store takes part in the transaction, so each is tied to what    *)
(* sessions hold: the vectors of a document to the attempt of the one      *)
(* worker that has its row locked, its original to the one upload of it.   *)
(* What somebody asked to delete (doomed) is promised to nobody.           *)
(*                                                                         *)
(* And about what agents remember, for every store and person: through any *)
(* order of remembering, forgetting and expiry a vector belongs to one     *)
(* memory of one person, so that only a person's own memories are recalled *)
(* and an erasure is whole; threads are numbered without gaps.             *)
(***************************************************************************)
EXTENDS Knowledge, FiniteSetTheorems, TLAPS

\* The passages of the attempt a worker is at.
Attempt(w, d) == {v \in Vec : v.d = d /\ v.w = w /\ v.try = tries[d]}

\* What is true of a worker that holds k.
Fits(w, k) ==
    /\ k.pc # "idle" => k.d \in Doc /\ doc[k.d].st = "UPLOADED"
    /\ k.pc = "idle" => k = Idle
    /\ k.rows \subseteq Attempt(w, k.d)
    /\ k.pc = "load" => k.rows = {}
    /\ k.pc \notin {"embed", "commit"} => k.done = 0
    /\ k.pc \in {"rows", "embed"} => k.rows = Attempt(w, k.d)
    /\ k.pc = "embed" /\ k.d \notin doomed =>
          coll /\ \A v \in k.rows : v.b <= k.done => v \in vecs
    /\ k.pc = "commit" => k.st \in Settled
    /\ k.pc = "commit" /\ k.st = "INDEXED" =>
          /\ k.rows = Attempt(w, k.d)
          /\ k.d \notin doomed => coll /\ k.rows \subseteq vecs

Ingesting == \A w \in Worker : Fits(w, wk[w])

\* The lock of a claim: nobody else ingests the document.
OneWorkerEach ==
    \A w, x \in Worker : wk[w].pc # "idle" /\ wk[x].pc # "idle" /\ wk[w].d = wk[x].d => w = x

Uploads(q) == q.pc \in {"put", "store"}
Deletes(q) == q.pc \in {"vectors", "original", "delete"}

\* What is true of a request that holds q.
Asks(q) ==
    /\ Uploads(q) => q.d \in Doc /\ doc[q.d].st = "none"
    /\ q.pc = "store" => q.d \in blob \cup doomed
    /\ Deletes(q) => /\ q.d \in doomed
                     /\ doc[q.d].st # "none"
                     /\ \A v \in q.seen : v.d = q.d
    /\ q.pc \in {"drop", "base"} => doomed = Doc

Asking == \A r \in Req : Asks(rq[r])

\* Ids are new: nobody else uploads the document.
OneUploadEach ==
    \A r, q \in Req : Uploads(rq[r]) /\ Uploads(rq[q]) /\ rq[r].d = rq[q].d => r = q

\* What is true of a row.
Holds(d) ==
    /\ doc[d].st \in {"none", "UPLOADED"} => doc[d].rows = {}
    /\ \A v \in doc[d].rows : v.d = d
    /\ doc[d].st = "INDEXED" /\ d \notin doomed =>
          /\ coll
          /\ doc[d].rows \subseteq vecs
          /\ \A b \in 1 .. Batches : \E v \in doc[d].rows : v.b = b

Documents == \A d \in Doc : Holds(d)

KnowledgeInv ==
    /\ TypeOK
    /\ Ingesting /\ OneWorkerEach
    /\ Asking /\ OneUploadEach
    /\ Documents /\ VectorsAccounted /\ OriginalStored

-----------------------------------------------------------------------------
LEMMA IdleTyped == Idle \in Ingest /\ Idle.pc = "idle" /\ Idle.rows = {} /\ Idle.done = 0
<1>1. 0 \in 0 .. Batches
  BY KnowledgeAssumption
<1>2. QED
  BY <1>1 DEF Idle, Ingest

LEMMA NoReqTyped == NoReq \in Request /\ NoReq.pc = "idle"
BY DEF NoReq, Request

\* A worker that holds nothing.
LEMMA IdleFits == \A w : Fits(w, Idle)
BY IdleTyped DEF Fits

LEMMA NoReqFits == Asks(NoReq)
BY NoReqTyped DEF Asks, Uploads, Deletes

LEMMA KnowledgeInit == Init => KnowledgeInv
<1> SUFFICES ASSUME Init PROVE KnowledgeInv
  OBVIOUS
<1>1. TypeOK
  <2>1. doc \in [Doc -> DocRow]
    BY DEF Init, NoDoc, DocRow
  <2>2. tries \in [Doc -> 0 .. MaxTries]
    BY KnowledgeAssumption DEF Init
  <2>3. wk \in [Worker -> Ingest] /\ rq \in [Req -> Request]
    BY IdleTyped, NoReqTyped DEF Init
  <2>4. QED
    BY <2>1, <2>2, <2>3 DEF Init, TypeOK
<1>2. Ingesting /\ OneWorkerEach
  BY IdleFits, IdleTyped DEF Init, Ingesting, OneWorkerEach
<1>3. Asking /\ OneUploadEach
  BY NoReqFits, NoReqTyped DEF Init, Asking, OneUploadEach, Uploads
<1>4. Documents /\ VectorsAccounted /\ OriginalStored
  BY DEF Init, NoDoc, Documents, Holds, VectorsAccounted, OriginalStored, Live
<1>5. QED
  BY <1>1, <1>2, <1>3, <1>4 DEF KnowledgeInv

-----------------------------------------------------------------------------
(* Workers.                                                                *)

\* A worker moves on, and what it found or wrote in the vector store is its own.
LEMMA WorkerMoves ==
    ASSUME KnowledgeInv, NEW w \in Worker, NEW k \in Ingest, Works(w, k),
           UNCHANGED <<doc, base, blob, tries, rq, doomed>>,
           coll' \in BOOLEAN, coll => coll',
           vecs' \subseteq Vec, vecs \subseteq vecs', vecs' \ vecs \subseteq k.rows,
           wk[w].rows \subseteq k.rows, Fits(w, k)',
           k.pc # "idle" => \A x \in Worker \ {w} : wk[x].pc # "idle" => wk[x].d # k.d
    PROVE  KnowledgeInv'
<1>1. wk'[w] = k /\ (\A x \in Worker \ {w} : wk'[x] = wk[x]) /\ wk' \in [Worker -> Ingest]
  BY DEF Works, KnowledgeInv, TypeOK
<1>2. TypeOK'
  BY <1>1 DEF KnowledgeInv, TypeOK
<1>3. Ingesting'
  <2>1. ASSUME NEW x \in Worker \ {w}
        PROVE  Fits(x, wk[x])'
    BY <1>1 DEF KnowledgeInv, Ingesting, Fits, Attempt
  <2>2. Fits(w, wk[w])'
    BY <1>1 DEF Fits, Attempt
  <2>3. QED
    BY <2>1, <2>2 DEF Ingesting
<1>4. OneWorkerEach'
  BY <1>1 DEF KnowledgeInv, OneWorkerEach
<1>5. Asking' /\ OneUploadEach'
  BY DEF KnowledgeInv, Asking, Asks, OneUploadEach, Uploads, Deletes
<1>6. Documents'
  BY DEF KnowledgeInv, Documents, Holds
<1>7. VectorsAccounted'
  <2>1. ASSUME NEW v \in vecs'
        PROVE  \/ v \in doc[v.d].rows
               \/ \E x \in Worker : v \in wk'[x].rows
               \/ v.try < tries[v.d]
               \/ v.d \in doomed
    <3>1. CASE v \in vecs
      <4>1. ASSUME NEW x \in Worker, v \in wk[x].rows
            PROVE  v \in wk'[x].rows
        BY <1>1, <4>1
      <4>2. QED
        BY <3>1, <4>1 DEF KnowledgeInv, VectorsAccounted
    <3>2. CASE v \notin vecs
      BY <1>1, <3>2
    <3>3. QED
      BY <3>1, <3>2
  <2>2. QED
    BY <2>1 DEF VectorsAccounted
<1>8. OriginalStored'
  BY DEF KnowledgeInv, OriginalStored, Live
<1>9. QED
  BY <1>2, <1>3, <1>4, <1>5, <1>6, <1>7, <1>8 DEF KnowledgeInv

\* Steps that touch nothing but the worker.
LEMMA WorkerThinks ==
    ASSUME KnowledgeInv, NEW w \in Worker, NEW k \in Ingest, Works(w, k),
           UNCHANGED <<doc, base, coll, vecs, blob, tries, rq, doomed>>,
           wk[w].rows \subseteq k.rows, Fits(w, k),
           k.pc # "idle" => \A x \in Worker \ {w} : wk[x].pc # "idle" => wk[x].d # k.d
    PROVE  KnowledgeInv'
<1>1. Fits(w, k)'
  BY DEF Fits, Attempt
<1>2. coll' \in BOOLEAN /\ (coll => coll') /\ vecs' \subseteq Vec /\ vecs' = vecs
  BY DEF KnowledgeInv, TypeOK
<1>3. QED
  BY <1>1, <1>2, WorkerMoves

\* A busy worker is alone with its document.
LEMMA Busy ==
    ASSUME KnowledgeInv, NEW w \in Worker, wk[w].pc # "idle"
    PROVE  /\ wk[w] \in Ingest
           /\ Fits(w, wk[w])
           /\ wk[w].d \in Doc
           /\ \A x \in Worker \ {w} : wk[x].pc # "idle" => wk[x].d # wk[w].d
BY DEF KnowledgeInv, TypeOK, Ingesting, OneWorkerEach, Fits

LEMMA ClaimInv ==
    ASSUME KnowledgeInv, NEW w \in Worker, Claim(w)
    PROVE  KnowledgeInv'
<1>1. PICK d \in Oldest(Claimable) :
        Works(w, [pc |-> "load", d |-> d, rows |-> {}, done |-> 0, st |-> None])
  BY DEF Claim
<1>2. PICK k : k = [pc |-> "load", d |-> d, rows |-> {}, done |-> 0, st |-> None]
  OBVIOUS
<1>3. d \in Doc /\ doc[d].st = "UPLOADED" /\ d \notin Claimed
  BY DEF Oldest, Claimable
<1>4. \A x \in Worker : wk[x].d # d
  BY <1>3, NoneAssumption DEF Claimed
<1>5. k \in Ingest /\ k.pc = "load" /\ k.d = d /\ k.rows = {} /\ k.done = 0
  BY <1>2, <1>3, KnowledgeAssumption DEF Ingest
<1>6. Fits(w, k)
  BY <1>3, <1>5 DEF Fits
<1>7. wk[w].rows = {}
  BY IdleTyped DEF Claim
<1>8. UNCHANGED <<doc, base, coll, vecs, blob, tries, rq, doomed>>
  BY DEF Claim
<1>9. QED
  BY <1>1, <1>2, <1>4, <1>5, <1>6, <1>7, <1>8, WorkerThinks

\* The worker goes on to parse, to read an image, or to cut text.
LEMMA ReadsOn ==
    ASSUME KnowledgeInv, NEW w \in Worker, wk[w].pc \in {"load", "parse", "ocr"},
           NEW p \in {"parse", "ocr", "chunk"}, Works(w, [wk[w] EXCEPT !.pc = p]),
           UNCHANGED <<doc, base, coll, vecs, blob, tries, rq, doomed>>
    PROVE  KnowledgeInv'
<1>1. PICK k : k = [wk[w] EXCEPT !.pc = p]
  OBVIOUS
<1>2. /\ k \in Ingest /\ k.pc = p /\ k.d = wk[w].d /\ k.rows = wk[w].rows /\ k.done = wk[w].done
  BY <1>1, Busy DEF Ingest
<1>3. Fits(w, k)
  BY <1>2, Busy DEF Fits
<1>4. QED
  BY <1>1, <1>2, <1>3, Busy, WorkerThinks

\* The worker has a verdict, and it is not that all went well.
LEMMA VerdictInv ==
    ASSUME KnowledgeInv, NEW w \in Worker, wk[w].pc # "idle",
           NEW st \in Settled, Verdict(w, st),
           st = "INDEXED" => wk[w].pc = "embed" /\ AllEmbedded(w),
           UNCHANGED <<doc, base, coll, vecs, blob, tries, rq, doomed>>
    PROVE  KnowledgeInv'
<1>1. PICK k : k = [wk[w] EXCEPT !.pc = "commit", !.st = st]
  OBVIOUS
<1>2. /\ k \in Ingest /\ k.pc = "commit" /\ k.d = wk[w].d /\ k.rows = wk[w].rows
      /\ k.done = wk[w].done /\ k.st = st
  BY <1>1, Busy DEF Ingest
<1>3. Works(w, k)
  BY <1>1 DEF Verdict
<1>4. ASSUME st = "INDEXED"
      PROVE  k.rows = Attempt(w, k.d) /\ (k.d \notin doomed => coll /\ k.rows \subseteq vecs)
  <2>1. wk[w].pc = "embed" /\ wk[w].done = Batches
    BY <1>4 DEF AllEmbedded
  <2>2. \A v \in wk[w].rows : v.b <= Batches
    <3>1. \A v \in Vec : v.b \in 1 .. Batches
      BY DEF Vec
    <3>2. wk[w].rows \subseteq Vec
      BY Busy DEF Ingest
    <3>3. QED
      BY <3>1, <3>2, KnowledgeAssumption
  <2>3. QED
    BY <1>2, <2>1, <2>2, Busy DEF Fits
<1>5. Fits(w, k)
  BY <1>2, <1>4, Busy DEF Fits
<1>6. QED
  BY <1>2, <1>3, <1>5, Busy, WorkerThinks

LEMMA LoadInv ==
    ASSUME KnowledgeInv, NEW w \in Worker, Load(w) \/ LoadFails(w)
    PROVE  KnowledgeInv'
<1>1. CASE Load(w)
  BY <1>1, ReadsOn DEF Load
<1>2. CASE LoadFails(w)
  <2>1. wk[w].rows = {}
    BY <1>2, Busy DEF LoadFails, Fits
  <2>2. QED
    BY <1>2, <2>1, IdleTyped, IdleFits, WorkerThinks DEF LoadFails
<1>3. QED
  BY <1>1, <1>2

LEMMA ParseInv ==
    ASSUME KnowledgeInv, NEW w \in Worker,
           (\E p \in Parsings : Parse(w, p)) \/ Recognise(w) \/ NoPassages(w)
    PROVE  KnowledgeInv'
<1>1. CASE \E p \in Parsings : Parse(w, p)
  <2>1. PICK p \in Parsings : Parse(w, p)
    BY <1>1
  <2>2. \/ \E q \in {"ocr", "chunk"} : Works(w, [wk[w] EXCEPT !.pc = q])
        \/ \E st \in {"NO_TEXT", "FAILED"} : Verdict(w, st)
    BY <2>1 DEF Parse, Parsings
  <2>3. wk[w].pc = "parse" /\ UNCHANGED <<doc, base, coll, vecs, blob, tries, rq, doomed>>
    BY <2>1 DEF Parse
  <2>4. QED
    BY <2>2, <2>3, ReadsOn, VerdictInv DEF Settled
<1>2. CASE Recognise(w)
  BY <1>2, ReadsOn, VerdictInv DEF Recognise, Settled
<1>3. CASE NoPassages(w)
  BY <1>3, VerdictInv DEF NoPassages, Settled
<1>4. QED
  BY <1>1, <1>2, <1>3

LEMMA WriteChunksInv ==
    ASSUME KnowledgeInv, NEW w \in Worker, WriteChunks(w)
    PROVE  KnowledgeInv'
<1>1. PICK k : k = [wk[w] EXCEPT !.pc = "rows", !.rows = Rows(w)]
  OBVIOUS
<1>2. wk[w].pc = "chunk" /\ Works(w, k)
      /\ UNCHANGED <<doc, base, coll, vecs, blob, tries, rq, doomed>>
  BY <1>1 DEF WriteChunks
<1>3. Rows(w) = Attempt(w, wk[w].d) /\ Rows(w) \in SUBSET Vec
  BY DEF Rows, Attempt
<1>4. /\ k \in Ingest /\ k.pc = "rows" /\ k.d = wk[w].d /\ k.rows = Attempt(w, wk[w].d)
      /\ k.done = wk[w].done
  BY <1>1, <1>2, <1>3, Busy DEF Ingest
<1>5. Fits(w, k) /\ wk[w].rows \subseteq k.rows
  BY <1>2, <1>4, Busy DEF Fits
<1>6. QED
  BY <1>2, <1>4, <1>5, Busy, WorkerThinks

LEMMA EnsureCollectionInv ==
    ASSUME KnowledgeInv, NEW w \in Worker, EnsureCollection(w)
    PROVE  KnowledgeInv'
<1>1. PICK k : k = [wk[w] EXCEPT !.pc = "embed"]
  OBVIOUS
<1>2. wk[w].pc = "rows" /\ Works(w, k) /\ coll'
      /\ UNCHANGED <<doc, base, vecs, blob, tries, rq, doomed>>
  BY <1>1 DEF EnsureCollection
<1>3. /\ k \in Ingest /\ k.pc = "embed" /\ k.d = wk[w].d /\ k.rows = wk[w].rows
      /\ k.done = wk[w].done
  BY <1>1, <1>2, Busy DEF Ingest
<1>4. k.done = 0 /\ k.rows = Attempt(w, k.d) /\ k.d \in Doc /\ doc[k.d].st = "UPLOADED"
  BY <1>2, <1>3, Busy DEF Fits
<1>5. \A v \in k.rows : ~(v.b <= 0)
  <2>1. \A v \in Vec : v.b \in 1 .. Batches
    BY DEF Vec
  <2>2. QED
    BY <1>3, <2>1, KnowledgeAssumption DEF Ingest
<1>6. Fits(w, k)'
  BY <1>2, <1>3, <1>4, <1>5 DEF Fits, Attempt
<1>7. coll' \in BOOLEAN
  BY DEF EnsureCollection
<1>8. vecs' \subseteq Vec /\ vecs' = vecs
  BY <1>2 DEF KnowledgeInv, TypeOK
<1>9. QED
  BY <1>2, <1>3, <1>6, <1>7, <1>8, Busy, WorkerMoves

LEMMA EmbedBatchInv ==
    ASSUME KnowledgeInv, NEW w \in Worker, EmbedBatch(w)
    PROVE  KnowledgeInv'
<1>1. PICK k : k = [wk[w] EXCEPT !.done = @ + 1]
  OBVIOUS
<1>2. /\ wk[w].pc = "embed" /\ wk[w].done < Batches /\ coll /\ Works(w, k)
      /\ vecs' = vecs \cup {v \in wk[w].rows : v.b = wk[w].done + 1}
      /\ UNCHANGED <<doc, base, coll, blob, tries, rq, doomed>>
  BY <1>1 DEF EmbedBatch
<1>3. wk[w].done \in 0 .. Batches /\ wk[w].rows \in SUBSET Vec
  BY <1>2, Busy DEF Ingest
<1>4. wk[w].done + 1 \in 0 .. Batches
  BY <1>2, <1>3, KnowledgeAssumption
<1>5. /\ k \in Ingest /\ k.pc = "embed" /\ k.d = wk[w].d /\ k.rows = wk[w].rows
      /\ k.done = wk[w].done + 1
  BY <1>1, <1>2, <1>4, Busy DEF Ingest
<1>6. ASSUME NEW v \in k.rows, v.b <= k.done, k.d \notin doomed
      PROVE  v \in vecs'
  <2>1. v.b \in Nat
    BY <1>3, <1>5 DEF Vec
  <2>2. v.b <= wk[w].done \/ v.b = wk[w].done + 1
    BY <1>3, <1>5, <1>6, <2>1
  <2>3. v.b <= wk[w].done => v \in vecs
    BY <1>2, <1>5, <1>6, Busy DEF Fits
  <2>4. QED
    BY <1>2, <1>5, <2>2, <2>3
<1>7. Fits(w, k)'
  <2>1. /\ k.d \in Doc /\ doc[k.d].st = "UPLOADED" /\ k.rows = Attempt(w, k.d)
    BY <1>2, <1>5, Busy DEF Fits
  <2>2. QED
    BY <1>2, <1>5, <1>6, <2>1 DEF Fits, Attempt
<1>8. /\ vecs' \subseteq Vec /\ vecs \subseteq vecs' /\ vecs' \ vecs \subseteq k.rows
      /\ coll' \in BOOLEAN
  BY <1>2, <1>3, <1>5 DEF KnowledgeInv, TypeOK
<1>9. QED
  BY <1>2, <1>5, <1>7, <1>8, Busy, WorkerMoves

LEMMA EmbeddedInv ==
    ASSUME KnowledgeInv, NEW w \in Worker, Indexed(w) \/ EmbedFails(w)
    PROVE  KnowledgeInv'
BY VerdictInv DEF Indexed, EmbedFails, Settled

\* The one commit of an ingestion: its verdict, and the rows of its attempt.
LEMMA CommitIngestInv ==
    ASSUME KnowledgeInv, NEW w \in Worker, CommitIngest(w)
    PROVE  KnowledgeInv'
<1> DEFINE k == wk[w]
           d == wk[w].d
           row == [st |-> k.st, sha |-> doc[d].sha, no |-> doc[d].no, rows |-> k.rows]
<1>1. /\ k.pc = "commit" /\ doc' = [doc EXCEPT ![d] = row] /\ Works(w, Idle)
      /\ UNCHANGED <<base, coll, vecs, blob, tries, rq, doomed>>
  BY DEF CommitIngest
<1>2. /\ k \in Ingest /\ d \in Doc /\ doc[d].st = "UPLOADED" /\ Fits(w, k) /\ k.st \in Settled
      /\ \A x \in Worker \ {w} : wk[x].pc # "idle" => wk[x].d # d
  BY <1>1, Busy DEF Fits
<1>3. row \in DocRow /\ row.st = k.st /\ row.rows = k.rows
  BY <1>2 DEF DocRow, Ingest, KnowledgeInv, TypeOK
<1> HIDE DEF row
<1>4. /\ doc' \in [Doc -> DocRow] /\ doc'[d] = row
      /\ \A e \in Doc \ {d} : doc'[e] = doc[e]
  BY <1>1, <1>2, <1>3 DEF KnowledgeInv, TypeOK
<1>5. wk'[w] = Idle /\ (\A x \in Worker \ {w} : wk'[x] = wk[x]) /\ wk' \in [Worker -> Ingest]
  BY <1>1, IdleTyped DEF Works, KnowledgeInv, TypeOK
<1>6. TypeOK'
  BY <1>1, <1>4, <1>5 DEF KnowledgeInv, TypeOK
<1>7. Ingesting'
  <2>1. ASSUME NEW x \in Worker \ {w}
        PROVE  Fits(x, wk[x])'
    <3>1. wk[x].pc # "idle" => doc'[wk[x].d] = doc[wk[x].d]
      BY <1>2, <1>4 DEF KnowledgeInv, Ingesting, Fits
    <3>2. QED
      BY <1>1, <1>5, <3>1 DEF KnowledgeInv, Ingesting, Fits, Attempt
  <2>2. Fits(w, wk[w])'
    BY <1>5, IdleTyped DEF Fits, Attempt
  <2>3. QED
    BY <2>1, <2>2 DEF Ingesting
<1>8. OneWorkerEach'
  BY <1>5, IdleTyped DEF KnowledgeInv, OneWorkerEach
<1>9. Asking' /\ OneUploadEach'
  <2>1. ASSUME NEW r \in Req PROVE Asks(rq[r])'
    <3>1. Asks(rq[r])
      BY DEF KnowledgeInv, Asking
    <3>2. Uploads(rq[r]) => doc'[rq[r].d] = doc[rq[r].d]
      BY <1>2, <1>4, <3>1 DEF Asks
    <3>3. Deletes(rq[r]) => doc'[rq[r].d].st # "none"
      <4>1. doc'[d].st # "none"
        BY <1>2, <1>3, <1>4 DEF Settled
      <4>2. Deletes(rq[r]) => rq[r].d \in Doc
        BY <3>1 DEF Asks, KnowledgeInv, TypeOK
      <4>3. QED
        BY <1>4, <3>1, <4>1, <4>2 DEF Asks
    <3>4. QED
      BY <1>1, <3>1, <3>2, <3>3 DEF Asks, Uploads, Deletes
  <2>2. QED
    BY <1>1, <2>1 DEF Asking, KnowledgeInv, OneUploadEach, Uploads
<1>10. Documents'
  <2>1. ASSUME NEW e \in Doc, e # d PROVE Holds(e)'
    BY <1>1, <1>4, <2>1 DEF KnowledgeInv, Documents, Holds
  <2>2. ASSUME NEW e \in Doc, e = d PROVE Holds(e)'
    <3>1. row.st \notin {"none", "UPLOADED"}
      BY <1>2, <1>3 DEF Settled
    <3>2. \A v \in row.rows : v.d = d
      BY <1>2, <1>3 DEF Fits, Attempt
    <3>3. ASSUME row.st = "INDEXED", d \notin doomed
          PROVE  /\ coll
                 /\ row.rows \subseteq vecs
                 /\ \A b \in 1 .. Batches : \E v \in row.rows : v.b = b
      <4>1. coll /\ row.rows \subseteq vecs /\ row.rows = Attempt(w, d)
        BY <1>1, <1>2, <1>3, <3>3 DEF Fits
      <4>2. ASSUME NEW b \in 1 .. Batches
            PROVE  \E v \in row.rows : v.b = b
        <5> DEFINE v == [d |-> d, w |-> w, try |-> tries[d], b |-> b]
        <5>1. v \in Vec /\ v.d = d /\ v.w = w /\ v.try = tries[d] /\ v.b = b
          BY <1>2, <4>2 DEF Vec, KnowledgeInv, TypeOK
        <5> HIDE DEF v
        <5>2. QED
          BY <4>1, <5>1 DEF Attempt
      <4>3. QED
        BY <4>1, <4>2
    <3>4. QED
      BY <1>1, <1>4, <2>2, <3>1, <3>2, <3>3 DEF Holds
  <2>3. QED
    BY <2>1, <2>2 DEF Documents
<1>11. VectorsAccounted'
  <2>1. ASSUME NEW v \in vecs
        PROVE  \/ v \in doc'[v.d].rows
               \/ \E x \in Worker : v \in wk'[x].rows
               \/ v.try < tries[v.d]
               \/ v.d \in doomed
    <3>1. v.d \in Doc
      BY DEF KnowledgeInv, TypeOK, Vec
    <3>2. ASSUME v \in doc[v.d].rows
          PROVE  v \in doc'[v.d].rows
      <4>1. doc[d].rows = {}
        BY <1>2 DEF KnowledgeInv, Documents, Holds
      <4>2. QED
        BY <1>4, <3>1, <3>2, <4>1
    <3>3. ASSUME NEW x \in Worker, v \in wk[x].rows
          PROVE  v \in doc'[v.d].rows \/ v \in wk'[x].rows
      <4>1. CASE x = w
        <5>1. v.d = d
          BY <1>2, <3>3, <4>1 DEF Fits, Attempt
        <5>2. QED
          BY <1>3, <1>4, <3>3, <4>1, <5>1
      <4>2. CASE x # w
        BY <1>5, <3>3, <4>2
      <4>3. QED
        BY <4>1, <4>2
    <3>4. QED
      BY <3>2, <3>3 DEF KnowledgeInv, VectorsAccounted
  <2>2. QED
    BY <1>1, <2>1 DEF VectorsAccounted
<1>12. OriginalStored'
  <2>1. d \in Live
    BY <1>2 DEF Live
  <2>2. \A e \in Live' : e \in Live
    BY <1>4, <2>1 DEF Live
  <2>3. QED
    BY <1>1, <2>2 DEF KnowledgeInv, OriginalStored
<1>13. QED
  BY <1>6, <1>7, <1>8, <1>9, <1>10, <1>11, <1>12 DEF KnowledgeInv

\* An attempt that is rolled back leaves its vectors to the past.
LEMMA InterruptedInv ==
    ASSUME KnowledgeInv, NEW w \in Worker, Interrupted(w)
    PROVE  KnowledgeInv'
<1> DEFINE d == wk[w].d
<1>1. wk[w].pc # "idle"
  BY DEF Interrupted, KnowledgeInv, Ingesting, Fits
<1>2. /\ wk[w] \in Ingest /\ d \in Doc /\ Fits(w, wk[w])
      /\ \A x \in Worker \ {w} : wk[x].pc # "idle" => wk[x].d # d
  BY <1>1, Busy
<1>3. /\ tries' = [tries EXCEPT ![d] = @ + 1] /\ tries[d] < MaxTries /\ Works(w, Idle)
      /\ UNCHANGED <<doc, base, coll, vecs, blob, rq, doomed>>
  BY DEF Interrupted
<1>4. tries[d] \in 0 .. MaxTries /\ tries[d] + 1 \in 0 .. MaxTries
  BY <1>2, <1>3, KnowledgeAssumption DEF KnowledgeInv, TypeOK
<1>5. /\ tries' \in [Doc -> 0 .. MaxTries] /\ tries'[d] = tries[d] + 1
      /\ \A e \in Doc \ {d} : tries'[e] = tries[e]
  BY <1>2, <1>3, <1>4 DEF KnowledgeInv, TypeOK
<1>6. wk'[w] = Idle /\ (\A x \in Worker \ {w} : wk'[x] = wk[x]) /\ wk' \in [Worker -> Ingest]
  BY <1>3, IdleTyped DEF Works, KnowledgeInv, TypeOK
<1>7. TypeOK'
  BY <1>3, <1>5, <1>6 DEF KnowledgeInv, TypeOK
<1>8. Ingesting'
  <2>1. ASSUME NEW x \in Worker \ {w}
        PROVE  Fits(x, wk[x])'
    <3>1. CASE wk[x].pc = "idle"
      <4>1. wk'[x] = Idle
        BY <1>6, <3>1 DEF KnowledgeInv, Ingesting, Fits
      <4>2. QED
        BY <4>1, IdleTyped DEF Fits, Attempt
    <3>2. CASE wk[x].pc # "idle"
      <4>1. Fits(x, wk[x]) /\ wk[x].d \in Doc \ {d}
        BY <1>2, <3>2, Busy
      <4>2. Attempt(x, wk[x].d)' = Attempt(x, wk[x].d)
        BY <1>5, <1>6, <4>1 DEF Attempt
      <4>3. QED
        BY <1>3, <1>6, <4>1, <4>2 DEF Fits
    <3>3. QED
      BY <3>1, <3>2
  <2>2. Fits(w, wk[w])'
    BY <1>6, IdleTyped DEF Fits, Attempt
  <2>3. QED
    BY <2>1, <2>2 DEF Ingesting
<1>9. OneWorkerEach'
  BY <1>6, IdleTyped DEF KnowledgeInv, OneWorkerEach
<1>10. Asking' /\ OneUploadEach' /\ Documents' /\ OriginalStored'
  BY <1>3 DEF KnowledgeInv, Asking, Asks, OneUploadEach, Uploads, Deletes, Documents, Holds,
              OriginalStored, Live
<1>11. VectorsAccounted'
  <2>1. ASSUME NEW v \in vecs
        PROVE  \/ v \in doc[v.d].rows
               \/ \E x \in Worker : v \in wk'[x].rows
               \/ v.try < tries'[v.d]
               \/ v.d \in doomed
    <3>1. v.d \in Doc /\ v.try \in Nat /\ \A e \in Doc : tries[e] \in Nat
      BY KnowledgeAssumption DEF KnowledgeInv, TypeOK, Vec
    <3>2. ASSUME NEW x \in Worker, v \in wk[x].rows
          PROVE  v \in wk'[x].rows \/ v.try < tries'[v.d]
      <4>1. CASE x = w
        <5>1. v.d = d /\ v.try = tries[d]
          BY <1>2, <3>2, <4>1 DEF Fits, Attempt
        <5>2. QED
          BY <1>5, <3>1, <5>1
      <4>2. CASE x # w
        BY <1>6, <3>2, <4>2
      <4>3. QED
        BY <4>1, <4>2
    <3>3. v.try < tries[v.d] => v.try < tries'[v.d]
      <4>1. tries'[v.d] \in {tries[v.d], tries[v.d] + 1}
        BY <1>5, <3>1
      <4>2. QED
        BY <3>1, <4>1
    <3>4. QED
      BY <3>2, <3>3 DEF KnowledgeInv, VectorsAccounted
  <2>2. QED
    BY <1>3, <2>1 DEF VectorsAccounted
<1>12. QED
  BY <1>7, <1>8, <1>9, <1>10, <1>11 DEF KnowledgeInv

-----------------------------------------------------------------------------
(* Requests.                                                               *)

\* A request moves on outside the tables: what it takes from a store is of
\* documents that somebody asked to delete.
LEMMA RequestMoves ==
    ASSUME KnowledgeInv, NEW r \in Req, NEW q \in Request, Serves(r, q),
           UNCHANGED <<doc, tries, wk>>,
           base' \in {"none", "here", "gone"}, coll' \in BOOLEAN,
           vecs' \subseteq vecs, blob' \subseteq Doc, doomed' \subseteq Doc, doomed \subseteq doomed',
           \A v \in vecs : v.d \notin doomed' => v \in vecs',
           \A d \in blob : d \in blob' \cup doomed',
           doomed' = Doc \/ (coll => coll'),
           Asks(q)',
           Uploads(q) => \A p \in Req \ {r} : Uploads(rq[p]) => rq[p].d # q.d
    PROVE  KnowledgeInv'
<1>1. rq'[r] = q /\ (\A p \in Req \ {r} : rq'[p] = rq[p]) /\ rq' \in [Req -> Request]
  BY DEF Serves, KnowledgeInv, TypeOK
<1>2. TypeOK'
  BY <1>1 DEF KnowledgeInv, TypeOK
<1>3. \A d \in Doc : d \notin doomed' => d \notin doomed /\ (coll => coll')
  OBVIOUS
<1>4. \A v \in Vec : v.d \in Doc
  BY DEF Vec
<1>5. Ingesting'
  <2>1. ASSUME NEW w \in Worker PROVE Fits(w, wk[w])'
    <3>1. Fits(w, wk[w]) /\ wk[w] \in Ingest
      BY DEF KnowledgeInv, Ingesting, TypeOK
    <3>2. \A v \in wk[w].rows : v.d = wk[w].d
      BY <3>1 DEF Fits, Attempt
    <3>3. wk[w].pc # "idle" /\ wk[w].d \notin doomed' =>
             wk[w].d \notin doomed /\ (coll => coll') /\ \A v \in wk[w].rows : v \in vecs => v \in vecs'
      BY <1>3, <3>1, <3>2 DEF Fits
    <3>4. QED
      BY <3>1, <3>3 DEF Fits, Attempt
  <2>2. QED
    BY <2>1 DEF Ingesting
<1>6. OneWorkerEach'
  BY DEF KnowledgeInv, OneWorkerEach
<1>7. Asking'
  <2>1. ASSUME NEW p \in Req \ {r} PROVE Asks(rq[p])'
    <3>1. Asks(rq[p])
      BY DEF KnowledgeInv, Asking
    <3>2. QED
      BY <1>1, <3>1 DEF Asks, Uploads, Deletes
  <2>2. Asks(rq[r])'
    BY <1>1 DEF Asks, Uploads, Deletes
  <2>3. QED
    BY <2>1, <2>2 DEF Asking
<1>8. OneUploadEach'
  BY <1>1 DEF KnowledgeInv, OneUploadEach, Uploads
<1>9. Documents'
  <2>1. ASSUME NEW d \in Doc PROVE Holds(d)'
    BY <1>3 DEF KnowledgeInv, Documents, Holds
  <2>2. QED
    BY <2>1 DEF Documents
<1>10. VectorsAccounted'
  BY DEF KnowledgeInv, VectorsAccounted
<1>11. OriginalStored'
  BY DEF KnowledgeInv, OriginalStored, Live
<1>12. QED
  BY <1>2, <1>5, <1>6, <1>7, <1>8, <1>9, <1>10, <1>11 DEF KnowledgeInv

\* Steps that touch nothing but the request.
LEMMA RequestThinks ==
    ASSUME KnowledgeInv, NEW r \in Req, NEW q \in Request, Serves(r, q),
           UNCHANGED <<doc, vecs, blob, tries, wk, doomed>>,
           base' \in {"none", "here", "gone"}, coll' \in BOOLEAN, coll => coll', Asks(q),
           Uploads(q) => \A p \in Req \ {r} : Uploads(rq[p]) => rq[p].d # q.d
    PROVE  KnowledgeInv'
<1>1. Asks(q)'
  BY DEF Asks, Uploads, Deletes
<1>2. vecs' = vecs /\ blob' = blob /\ doomed' = doomed /\ blob \subseteq Doc /\ doomed \subseteq Doc
  BY DEF KnowledgeInv, TypeOK
<1>3. QED
  BY <1>1, <1>2, RequestMoves

LEMMA CreateInv ==
    ASSUME KnowledgeInv, NEW r \in Req, CreateBase(r) \/ CommitBase(r) \/ AbortRequest(r)
    PROVE  KnowledgeInv'
<1> USE DEF KnowledgeInv, TypeOK
<1>1. CASE CreateBase(r)
  <2>1. PICK q : q = [NoReq EXCEPT !.pc = "create"]
    OBVIOUS
  <2>2. q \in Request /\ q.pc = "create"
    BY <2>1 DEF NoReq, Request
  <2>3. Asks(q) /\ ~Uploads(q)
    BY <2>2 DEF Asks, Uploads, Deletes
  <2>4. QED
    BY <1>1, <2>1, <2>2, <2>3, RequestThinks DEF CreateBase
<1>2. CASE CommitBase(r)
  BY <1>2, NoReqTyped, NoReqFits, RequestThinks DEF CommitBase, Uploads
<1>3. CASE AbortRequest(r)
  <2>1. base' \in {"none", "here", "gone"}
    BY <1>3 DEF AbortRequest
  <2>2. QED
    BY <1>3, <2>1, NoReqTyped, NoReqFits, RequestThinks DEF AbortRequest, Uploads
<1>4. QED
  BY <1>1, <1>2, <1>3

LEMMA UploadInv ==
    ASSUME KnowledgeInv, NEW r \in Req, NEW d \in Doc, NEW h \in Sha, Upload(r, d, h)
    PROVE  KnowledgeInv'
<1>1. PICK q : q = [pc |-> "put", d |-> d, sha |-> h, seen |-> {}]
  OBVIOUS
<1>2. q \in Request /\ q.pc = "put" /\ q.d = d
  BY <1>1 DEF Request
<1>3. Asks(q)
  BY <1>2 DEF Asks, Uploads, Deletes, Upload
<1>4. \A p \in Req : Uploads(rq[p]) => rq[p].d # d
  BY DEF Upload, Uploading, Uploads
<1>5. base \in {"none", "here", "gone"} /\ coll \in BOOLEAN
  BY DEF KnowledgeInv, TypeOK
<1>6. QED
  BY <1>1, <1>2, <1>3, <1>4, <1>5, RequestThinks DEF Upload

LEMMA PutObjectInv ==
    ASSUME KnowledgeInv, NEW r \in Req, PutObject(r)
    PROVE  KnowledgeInv'
<1>1. PICK q : q = [rq[r] EXCEPT !.pc = "store"]
  OBVIOUS
<1>2. /\ rq[r].pc = "put" /\ blob' = blob \cup {rq[r].d} /\ Serves(r, q)
      /\ UNCHANGED <<doc, base, coll, vecs, tries, wk, doomed>>
  BY <1>1 DEF PutObject, Put
<1>3. rq[r] \in Request /\ Asks(rq[r]) /\ Uploads(rq[r])
  BY <1>2 DEF KnowledgeInv, TypeOK, Asking, Uploads
<1>4. q \in Request /\ q.pc = "store" /\ q.d = rq[r].d /\ q.d \in Doc
  BY <1>1, <1>3 DEF Request, Asks
<1>5. Asks(q)'
  BY <1>2, <1>3, <1>4 DEF Asks, Uploads, Deletes
<1>6. \A p \in Req \ {r} : Uploads(rq[p]) => rq[p].d # q.d
  BY <1>3, <1>4 DEF KnowledgeInv, OneUploadEach
<1>7. /\ base' \in {"none", "here", "gone"} /\ coll' \in BOOLEAN /\ coll' = coll /\ vecs' = vecs
      /\ doomed' = doomed /\ blob' \subseteq Doc /\ doomed' \subseteq Doc /\ blob \subseteq blob'
  BY <1>2, <1>4 DEF KnowledgeInv, TypeOK
<1>8. QED
  BY <1>2, <1>4, <1>5, <1>6, <1>7, RequestMoves

LEMMA ReadToDeleteInv ==
    ASSUME KnowledgeInv, NEW r \in Req, NEW d \in Doc, ReadToDelete(r, d)
    PROVE  KnowledgeInv'
<1>1. PICK q : q = [pc |-> "vectors", d |-> d, sha |-> None, seen |-> doc[d].rows]
  OBVIOUS
<1>2. /\ d \in Live /\ doomed' = doomed \cup {d} /\ Serves(r, q)
      /\ UNCHANGED <<doc, base, coll, vecs, blob, tries, wk>>
  BY <1>1 DEF ReadToDelete
<1>3. q \in Request /\ q.pc = "vectors" /\ q.d = d /\ q.seen = doc[d].rows
  BY <1>1 DEF Request, KnowledgeInv, TypeOK, DocRow
<1>4. Asks(q)'
  BY <1>2, <1>3 DEF Asks, Uploads, Deletes, Live, KnowledgeInv, Documents, Holds
<1>5. ~Uploads(q)
  BY <1>3 DEF Uploads
<1>6. /\ base' \in {"none", "here", "gone"} /\ coll' \in BOOLEAN /\ coll' = coll /\ vecs' = vecs
      /\ blob' = blob /\ blob' \subseteq Doc /\ doomed' \subseteq Doc /\ doomed \subseteq doomed'
  BY <1>2 DEF KnowledgeInv, TypeOK
<1>7. QED
  BY <1>2, <1>3, <1>4, <1>5, <1>6, RequestMoves

\* What a deletion takes out of the stores is its own document's.
LEMMA RemovesInv ==
    ASSUME KnowledgeInv, NEW r \in Req, DeleteVectors(r) \/ RemoveOriginal(r)
    PROVE  KnowledgeInv'
<1>1. PICK p \in {"original", "delete"} :
        /\ Serves(r, [rq[r] EXCEPT !.pc = p])
        /\ UNCHANGED <<doc, base, coll, tries, wk, doomed>>
  BY DEF DeleteVectors, RemoveOriginal
<1>2. PICK q : q = [rq[r] EXCEPT !.pc = p]
  OBVIOUS
<1>3. rq[r].pc \in {"vectors", "original"}
  BY DEF DeleteVectors, RemoveOriginal
<1>4. rq[r] \in Request /\ Asks(rq[r]) /\ Deletes(rq[r])
  BY <1>3 DEF KnowledgeInv, TypeOK, Asking, Deletes
<1>5. q \in Request /\ q.pc = p /\ q.d = rq[r].d /\ q.seen = rq[r].seen
  BY <1>2, <1>4 DEF Request
<1>6. Asks(q)' /\ ~Uploads(q)
  BY <1>1, <1>4, <1>5 DEF Asks, Uploads, Deletes
<1>7. rq[r].d \in doomed /\ \A v \in rq[r].seen : v.d \in doomed
  BY <1>4 DEF Asks
<1>8. /\ vecs' \subseteq vecs /\ \A v \in vecs : v.d \notin doomed => v \in vecs'
      /\ blob' \subseteq blob /\ \A d \in blob : d \in blob' \cup doomed
  BY <1>7 DEF DeleteVectors, RemoveOriginal
<1>9. /\ base' \in {"none", "here", "gone"} /\ coll' \in BOOLEAN /\ coll' = coll
      /\ blob' \subseteq Doc /\ doomed' = doomed /\ doomed' \subseteq Doc
  BY <1>1, <1>8 DEF KnowledgeInv, TypeOK
<1>10. Serves(r, q)
  BY <1>1, <1>2
<1>11. UNCHANGED <<doc, tries, wk>>
  BY <1>1
<1>12. QED
  BY <1>5, <1>6, <1>8, <1>9, <1>10, <1>11, RequestMoves

\* Deleting the base, up to its row: all its documents are asked for.
LEMMA DropInv ==
    ASSUME KnowledgeInv, NEW r \in Req, ReadBase(r) \/ DropCollection(r)
    PROVE  KnowledgeInv'
<1>1. CASE ReadBase(r)
  <2>1. PICK q : q = [NoReq EXCEPT !.pc = "drop"]
    OBVIOUS
  <2>2. q \in Request /\ q.pc = "drop"
    BY <2>1 DEF NoReq, Request
  <2>3. doomed' = Doc /\ Serves(r, q) /\ UNCHANGED <<doc, base, coll, vecs, blob, tries, wk>>
    BY <1>1, <2>1 DEF ReadBase
  <2>4. Asks(q)' /\ ~Uploads(q)
    BY <2>2, <2>3 DEF Asks, Uploads, Deletes
  <2>5. /\ base' \in {"none", "here", "gone"} /\ coll' \in BOOLEAN /\ blob' \subseteq Doc
        /\ doomed \subseteq Doc /\ vecs' = vecs /\ blob' = blob
    BY <2>3 DEF KnowledgeInv, TypeOK
  <2>6. QED
    BY <2>2, <2>3, <2>4, <2>5, RequestMoves
<1>2. CASE DropCollection(r)
  <2>1. PICK q : q = [rq[r] EXCEPT !.pc = "base"]
    OBVIOUS
  <2>2. /\ rq[r].pc = "drop" /\ Serves(r, q) /\ UNCHANGED <<doc, base, blob, tries, wk, doomed>>
        /\ coll' \in {FALSE, coll} /\ vecs' \in {{}, vecs}
    BY <1>2, <2>1 DEF DropCollection
  <2>3. rq[r] \in Request /\ doomed = Doc
    BY <2>2 DEF KnowledgeInv, TypeOK, Asking, Asks
  <2>4. q \in Request /\ q.pc = "base"
    BY <2>1, <2>3 DEF Request
  <2>5. Asks(q)' /\ ~Uploads(q)
    BY <2>2, <2>3, <2>4 DEF Asks, Uploads, Deletes
  <2>6. \A v \in vecs : v.d \in Doc
    BY DEF KnowledgeInv, TypeOK, Vec
  <2>7. /\ base' \in {"none", "here", "gone"} /\ coll' \in BOOLEAN /\ blob' \subseteq Doc
        /\ vecs' \subseteq vecs /\ blob' = blob /\ doomed' = Doc
    BY <2>2, <2>3 DEF KnowledgeInv, TypeOK
  <2>8. QED
    BY <2>2, <2>3, <2>4, <2>5, <2>6, <2>7, RequestMoves
<1>3. QED
  BY <1>1, <1>2

-----------------------------------------------------------------------------
(* Commits of requests.                                                    *)

\* A request commits, and rows it alone may write change: one it uploaded appears,
\* those somebody asked to delete go.
LEMMA RequestCommits ==
    ASSUME KnowledgeInv, NEW r \in Req, Serves(r, NoReq), doc' \in [Doc -> DocRow],
           UNCHANGED <<coll, vecs, blob, tries, wk, doomed>>, base' \in {"none", "here", "gone"},
           \A d \in Doc :
              \/ doc'[d] = doc[d]
              \/ /\ doc'[d] = GoneDoc
                 /\ d \in doomed
                 /\ doc[d].st # "none"
                 /\ \A w \in Worker : wk[w].d # d
              \/ /\ doc'[d].st = "UPLOADED"
                 /\ doc'[d].rows = {}
                 /\ Uploads(rq[r])
                 /\ d = rq[r].d
                 /\ d \in blob \cup doomed
    PROVE  KnowledgeInv'
<1>1. rq'[r] = NoReq /\ (\A p \in Req \ {r} : rq'[p] = rq[p]) /\ rq' \in [Req -> Request]
  BY NoReqTyped DEF Serves, KnowledgeInv, TypeOK
<1>2. TypeOK'
  BY <1>1 DEF KnowledgeInv, TypeOK
<1>3. Uploads(rq[r]) => rq[r].d \in Doc /\ doc[rq[r].d].st = "none"
  BY DEF KnowledgeInv, Asking, Asks
<1>4. Ingesting'
  <2>1. ASSUME NEW w \in Worker PROVE Fits(w, wk[w])'
    <3>1. Fits(w, wk[w])
      BY DEF KnowledgeInv, Ingesting
    <3>2. wk[w].pc # "idle" => doc'[wk[w].d] = doc[wk[w].d]
      BY <1>3, <3>1 DEF Fits
    <3>3. QED
      BY <3>1, <3>2 DEF Fits, Attempt
  <2>2. QED
    BY <2>1 DEF Ingesting
<1>5. OneWorkerEach'
  BY DEF KnowledgeInv, OneWorkerEach
<1>6. Asking'
  <2>1. ASSUME NEW p \in Req \ {r} PROVE Asks(rq[p])'
    <3>1. Asks(rq[p])
      BY DEF KnowledgeInv, Asking
    <3>2. Uploads(rq[p]) => doc'[rq[p].d] = doc[rq[p].d]
      BY <3>1 DEF Asks, KnowledgeInv, OneUploadEach
    <3>3. Deletes(rq[p]) => doc'[rq[p].d].st # "none"
      <4>1. Deletes(rq[p]) => rq[p].d \in Doc
        BY <3>1 DEF Asks, KnowledgeInv, TypeOK
      <4>2. QED
        BY <3>1, <4>1 DEF Asks, GoneDoc
    <3>4. QED
      BY <1>1, <3>1, <3>2, <3>3 DEF Asks, Uploads, Deletes
  <2>2. Asks(rq[r])'
    BY <1>1, NoReqTyped DEF Asks, Uploads, Deletes
  <2>3. QED
    BY <2>1, <2>2 DEF Asking
<1>7. OneUploadEach'
  BY <1>1, NoReqTyped DEF KnowledgeInv, OneUploadEach, Uploads
<1>8. Documents'
  <2>1. ASSUME NEW d \in Doc PROVE Holds(d)'
    BY DEF KnowledgeInv, Documents, Holds, GoneDoc
  <2>2. QED
    BY <2>1 DEF Documents
<1>9. VectorsAccounted'
  <2>1. ASSUME NEW v \in vecs, v \in doc[v.d].rows
        PROVE  v \in doc'[v.d].rows \/ v.d \in doomed
    <3>1. v.d \in Doc
      BY DEF KnowledgeInv, TypeOK, Vec
    <3>2. doc[v.d].st # "none"
      BY <2>1, <3>1 DEF KnowledgeInv, Documents, Holds
    <3>3. QED
      BY <1>3, <2>1, <3>1, <3>2
  <2>2. QED
    BY <2>1 DEF KnowledgeInv, VectorsAccounted
<1>10. OriginalStored'
  BY DEF KnowledgeInv, OriginalStored, Live, GoneDoc
<1>11. QED
  BY <1>2, <1>4, <1>5, <1>6, <1>7, <1>8, <1>9, <1>10 DEF KnowledgeInv

LEMMA CommitUploadInv ==
    ASSUME KnowledgeInv, NEW r \in Req, CommitUpload(r)
    PROVE  KnowledgeInv'
<1> DEFINE d == rq[r].d
<1>1. PICK n \in Newest :
        doc' = [doc EXCEPT ![d] = [st |-> "UPLOADED", sha |-> rq[r].sha, no |-> n + 1, rows |-> {}]]
  BY DEF CommitUpload
<1>2. rq[r].pc = "store" /\ Serves(r, NoReq) /\ UNCHANGED <<base, coll, vecs, blob, tries, wk, doomed>>
  BY DEF CommitUpload
<1>3. rq[r] \in Request /\ Asks(rq[r]) /\ Uploads(rq[r]) /\ d \in Doc /\ d \in blob \cup doomed
  BY <1>2 DEF KnowledgeInv, TypeOK, Asking, Asks, Uploads
<1>4. n + 1 \in Nat
  BY DEF Newest, KnowledgeInv, TypeOK, DocRow
<1> DEFINE row == [st |-> "UPLOADED", sha |-> rq[r].sha, no |-> n + 1, rows |-> {}]
<1>5. row \in DocRow /\ row.st = "UPLOADED" /\ row.rows = {}
  BY <1>3, <1>4 DEF DocRow, Request
<1>6. doc' = [doc EXCEPT ![d] = row]
  BY <1>1
<1> HIDE DEF row
<1>7. /\ doc' \in [Doc -> DocRow] /\ doc'[d] = row
      /\ \A e \in Doc \ {d} : doc'[e] = doc[e]
  BY <1>3, <1>5, <1>6 DEF KnowledgeInv, TypeOK
<1>8. base' \in {"none", "here", "gone"}
  BY <1>2 DEF KnowledgeInv, TypeOK
<1>9. UNCHANGED <<coll, vecs, blob, tries, wk, doomed>>
  BY <1>2
<1>10. QED
  BY <1>2, <1>3, <1>5, <1>7, <1>8, <1>9, RequestCommits

LEMMA DeletesInv ==
    ASSUME KnowledgeInv, NEW r \in Req, DeleteRow(r) \/ DeleteBase(r)
    PROVE  KnowledgeInv'
<1>1. GoneDoc \in DocRow
  BY DEF GoneDoc, DocRow
<1>2. CASE DeleteRow(r)
  <2> DEFINE d == rq[r].d
  <2>1. /\ d \notin Claimed /\ doc' = [doc EXCEPT ![d] = GoneDoc] /\ Serves(r, NoReq)
        /\ UNCHANGED <<base, coll, vecs, blob, tries, wk, doomed>>
    BY <1>2 DEF DeleteRow
  <2>2. d \in doomed /\ d \in Doc /\ doc[d].st # "none"
    BY <1>2 DEF DeleteRow, KnowledgeInv, TypeOK, Asking, Asks, Deletes
  <2>3. \A w \in Worker : wk[w].d # d
    BY <2>1, <2>2, NoneAssumption DEF Claimed
  <2>4. /\ doc' \in [Doc -> DocRow] /\ doc'[d] = GoneDoc
        /\ \A e \in Doc \ {d} : doc'[e] = doc[e]
    BY <1>1, <2>1, <2>2 DEF KnowledgeInv, TypeOK
  <2>5. base' \in {"none", "here", "gone"}
    BY <2>1 DEF KnowledgeInv, TypeOK
  <2>6. UNCHANGED <<coll, vecs, blob, tries, wk, doomed>>
    BY <2>1
  <2>7. QED
    BY <2>1, <2>2, <2>3, <2>4, <2>5, <2>6, RequestCommits
<1>3. CASE DeleteBase(r)
  <2>1. /\ Claimed = {} /\ doc' = [d \in Doc |-> IF d \in Live THEN GoneDoc ELSE doc[d]]
        /\ Serves(r, NoReq) /\ base' = "gone" /\ UNCHANGED <<coll, vecs, blob, tries, wk, doomed>>
    BY <1>3 DEF DeleteBase
  <2>2. doomed = Doc
    BY <1>3 DEF DeleteBase, KnowledgeInv, Asking, Asks
  <2>3. \A w \in Worker : wk[w].d \notin Doc
    BY <2>1, NoneAssumption DEF Claimed
  <2>4. doc' \in [Doc -> DocRow]
    BY <1>1, <2>1 DEF KnowledgeInv, TypeOK
  <2>5. ASSUME NEW d \in Doc
        PROVE  \/ doc'[d] = doc[d]
               \/ /\ doc'[d] = GoneDoc
                  /\ d \in doomed
                  /\ doc[d].st # "none"
                  /\ \A w \in Worker : wk[w].d # d
    BY <2>1, <2>2, <2>3 DEF Live
  <2>6. QED
    BY <2>1, <2>4, <2>5, RequestCommits
<1>4. QED
  BY <1>2, <1>3

-----------------------------------------------------------------------------
LEMMA KnowledgeStep == KnowledgeInv /\ [Next]_vars => KnowledgeInv'
<1> SUFFICES ASSUME KnowledgeInv, [Next]_vars PROVE KnowledgeInv'
  OBVIOUS
<1>1. ASSUME NEW w \in Worker, WorkerSteps(w) \/ Interrupted(w)
      PROVE  KnowledgeInv'
  BY <1>1, ClaimInv, LoadInv, ParseInv, WriteChunksInv, EnsureCollectionInv, EmbedBatchInv,
     EmbeddedInv, CommitIngestInv, InterruptedInv DEF WorkerSteps
<1>2. ASSUME NEW r \in Req, RequestSteps(r)
      PROVE  KnowledgeInv'
  BY <1>2, CreateInv, UploadInv, PutObjectInv, ReadToDeleteInv, RemovesInv, DropInv,
     CommitUploadInv, DeletesInv DEF RequestSteps
<1>3. CASE UNCHANGED vars
  BY <1>3 DEF vars, KnowledgeInv, TypeOK, Ingesting, Fits, Attempt, OneWorkerEach, Asking, Asks,
              Uploads, Deletes, OneUploadEach, Documents, Holds, VectorsAccounted,
              OriginalStored, Live
<1>4. QED
  BY <1>1, <1>2, <1>3 DEF Next

LEMMA KnowledgeAlways == Spec => []KnowledgeInv
BY KnowledgeInit, KnowledgeStep, PTL DEF Spec

\* Rows, attempts and requests stay in their types.
THEOREM KnowledgeTypes == Spec => []TypeOK
<1>1. KnowledgeInv => TypeOK
  BY DEF KnowledgeInv
<1>2. QED
  BY <1>1, KnowledgeAlways, PTL

\* ingest, _embed_and_index: whatever failed before and whoever works at once, a
\* search can return every passage of a document that says INDEXED.
THEOREM IndexedStaysSearchable == Spec => []IndexedIsSearchable
<1>1. KnowledgeInv => IndexedIsSearchable
  <2> SUFFICES ASSUME KnowledgeInv, NEW d \in Doc, doc[d].st = "INDEXED", d \notin doomed
               PROVE  {v.b : v \in Found \cap doc[d].rows} = 1 .. Batches
    BY DEF IndexedIsSearchable
  <2>1. /\ coll /\ doc[d].rows \subseteq vecs
        /\ \A b \in 1 .. Batches : \E v \in doc[d].rows : v.b = b
        /\ \A v \in doc[d].rows : v.d = d
    BY DEF KnowledgeInv, Documents, Holds
  <2>2. Found \cap doc[d].rows = doc[d].rows
    BY <2>1 DEF Found
  <2>3. \A v \in doc[d].rows : v.b \in 1 .. Batches
    BY <2>1 DEF KnowledgeInv, TypeOK, Vec
  <2>4. QED
    BY <2>1, <2>2, <2>3
<1>2. QED
  BY <1>1, KnowledgeAlways, PTL

\* claim_next_pending: a vector without a chunk row is of an ingestion under way, of
\* an attempt that was rolled back, or of a document somebody asked to delete.
THEOREM VectorsStayAccounted == Spec => []VectorsAccounted
<1>1. KnowledgeInv => VectorsAccounted
  BY DEF KnowledgeInv
<1>2. QED
  BY <1>1, KnowledgeAlways, PTL

\* accept_upload: the original is there before the row, and as long as nobody asked
\* to delete the document.
THEOREM OriginalStaysStored == Spec => []OriginalStored
<1>1. KnowledgeInv => OriginalStored
  BY DEF KnowledgeInv
<1>2. QED
  BY <1>1, KnowledgeAlways, PTL

----------------------------------------------------------------------------
(* Memories: stores as operations leave them, in any order.                *)

CONSTANTS KeepVerbatim, EraseAtOnce, KeyName(_, _), Matches(_, _)

M == INSTANCE Memories

Person(Data) == [tenant: Data, user: Data, enduser: Data, agent: Data]
Memory(Data) == [id: Data, scope: Person(Data), vector: Data, expires: Data]
Vector(Data) == [id: Data, scope: Person(Data)]
Thread(Data) == [scope: Person(Data), ext: Data, messages: SUBSET Nat, summary: SUBSET Nat]

MemoryStore(Data) ==
    [rows: SUBSET Memory(Data), points: SUBSET Vector(Data),
     keys: SUBSET Data, talks: SUBSET Thread(Data)]

\* A row that claims a vector has it, for the same person and for itself alone; other
\* vectors may be left over.
Matched(s) ==
    /\ \A p \in s.points : p.id # None
    /\ \A p, q \in s.points : p.id = q.id => p = q
    /\ \A r \in s.rows : r.vector # None =>
          \E p \in s.points : p.id = r.vector /\ p.scope = r.scope
    /\ \A r, q \in s.rows : r.vector = q.vector /\ r.vector # None => r = q

\* The operations that touch rows or vectors.
Remembers(s, t, Data) ==
    \E who \in Person(Data), id \in Data, expires \in Data, indexed \in BOOLEAN :
       /\ id # None /\ \A p \in s.points : p.id # id
       /\ \A r \in s.rows : r.vector # id
       /\ t = M!Remember(s, who, id, expires, indexed)

Forgets(s, t, Data) ==
    \/ \E who \in Person(Data), r \in Memory(Data), reached \in BOOLEAN :
          t = M!Forget(s, who, r, reached)
    \/ \E who \in Person(Data), reached \in BOOLEAN :
          \E listed \in M!Listings(s, who, EraseAtOnce) : t = M!ForgetAll(s, who, listed, reached)
    \/ \E now \in Int : t = M!DeleteExpired(s, now)

\* A listing is of the person asked about.
LEMMA ListedAreOwned ==
    ASSUME NEW s, NEW who, NEW limit, NEW listed \in M!Listings(s, who, limit)
    PROVE  \A r \in listed : r \in s.rows /\ M!Within(r.scope, who)
BY DEF M!Listings, M!Owned

\* Only vectors of rows that go as well are taken away.
LEMMA LessStaysMatched ==
    ASSUME NEW s, NEW t, Matched(s),
           t.rows \subseteq s.rows, t.points \subseteq s.points,
           \A p \in s.points \ t.points : \E r \in s.rows \ t.rows : p.id = r.vector
    PROVE  Matched(t)
<1>1. ASSUME NEW r \in t.rows, r.vector # None
      PROVE  \E p \in t.points : p.id = r.vector /\ p.scope = r.scope
  <2>1. PICK p \in s.points : p.id = r.vector /\ p.scope = r.scope
    BY <1>1 DEF Matched
  <2>2. ASSUME p \notin t.points
        PROVE  FALSE
    <3>1. PICK q \in s.rows \ t.rows : p.id = q.vector
      BY <2>2
    <3>2. q = r
      BY <1>1, <2>1, <3>1 DEF Matched
    <3> QED
      BY <3>1, <3>2, <1>1
  <2> QED
    BY <2>1, <2>2
<1> QED
  BY <1>1 DEF Matched

\* remember, forget, forget_all, delete_expired: whatever of the two stores answers, every
\* memory keeps its own vector, and a vector is of the person its memory is of.
THEOREM MemoriesStayMatched ==
    ASSUME NEW Data, NEW s \in MemoryStore(Data), NEW t, Matched(s),
           Remembers(s, t, Data) \/ Forgets(s, t, Data), None \in Data
    PROVE  t \in MemoryStore(Data) /\ Matched(t)
<1>1. ASSUME NEW who \in Person(Data), NEW id \in Data, NEW expires \in Data,
             NEW indexed \in BOOLEAN, id # None, \A p \in s.points : p.id # id,
             \A r \in s.rows : r.vector # id, t = M!Remember(s, who, id, expires, indexed)
      PROVE  t \in MemoryStore(Data) /\ Matched(t)
  <2> DEFINE new == [id |-> id, scope |-> who, expires |-> expires,
                     vector |-> IF indexed THEN id ELSE None]
             point == [id |-> id, scope |-> who]
  <2>1. CASE M!Anonymous(who)
    BY <1>1, <2>1 DEF M!Remember
  <2>2. CASE ~M!Anonymous(who)
    <3>1. t = [s EXCEPT !.rows = @ \cup {new},
                        !.points = IF indexed THEN @ \cup {point} ELSE @]
      BY <1>1, <2>2 DEF M!Remember
    <3>2. new \in Memory(Data) /\ point \in Vector(Data)
      BY <1>1 DEF Memory, Vector
    <3>3. new.vector = (IF indexed THEN id ELSE None) /\ new.scope = who
          /\ point.id = id /\ point.scope = who
      OBVIOUS
    <3> HIDE DEF new, point
    <3>4. /\ t.rows = s.rows \cup {new}
          /\ t.points = IF indexed THEN s.points \cup {point} ELSE s.points
      BY <3>1 DEF MemoryStore
    <3>5. t \in MemoryStore(Data)
      BY <3>1, <3>2 DEF MemoryStore
    <3>6. \A p \in t.points : p.id # None
      BY <1>1, <3>3, <3>4 DEF Matched
    <3>7. \A p, q \in t.points : p.id = q.id => p = q
      BY <1>1, <3>3, <3>4 DEF Matched
    <3>8. \A r \in t.rows : r.vector # None =>
             \E p \in t.points : p.id = r.vector /\ p.scope = r.scope
      BY <1>1, <3>3, <3>4 DEF Matched
    <3>9. \A r, q \in t.rows : r.vector = q.vector /\ r.vector # None => r = q
      BY <1>1, <3>3, <3>4 DEF Matched
    <3> QED
      BY <3>5, <3>6, <3>7, <3>8, <3>9 DEF Matched
  <2> QED
    BY <2>1, <2>2
<1>2. ASSUME NEW who \in Person(Data), NEW r \in Memory(Data), NEW reached \in BOOLEAN,
             t = M!Forget(s, who, r, reached)
      PROVE  t \in MemoryStore(Data) /\ Matched(t)
  <2>1. CASE r \notin s.rows \/ r.scope.tenant # who.tenant
    BY <1>2, <2>1 DEF M!Forget
  <2>2. CASE r \in s.rows /\ r.scope.tenant = who.tenant
    <3>1. t = [s EXCEPT !.rows = @ \ {r},
                        !.points = IF reached THEN {p \in @ : p.id # r.vector} ELSE @]
      BY <1>2, <2>2 DEF M!Forget
    <3>2. /\ t.rows = s.rows \ {r}
          /\ t.points = IF reached THEN {p \in s.points : p.id # r.vector} ELSE s.points
      BY <3>1 DEF MemoryStore
    <3>3. t \in MemoryStore(Data)
      BY <3>1 DEF MemoryStore
    <3>4. Matched(t)
      BY <2>2, <3>2, LessStaysMatched
    <3> QED
      BY <3>3, <3>4
  <2> QED
    BY <2>1, <2>2
<1>3. ASSUME NEW who \in Person(Data), NEW reached \in BOOLEAN,
             NEW gone \in M!Listings(s, who, EraseAtOnce), t = M!ForgetAll(s, who, gone, reached)
      PROVE  t \in MemoryStore(Data) /\ Matched(t)
  <2> DEFINE left == IF reached THEN {p \in s.points : \A r \in gone : p.id # r.vector}
                     ELSE s.points
             u == [s EXCEPT !.rows = @ \ gone, !.points = left]
  <2>1. CASE M!Anonymous(who)
    BY <1>3, <2>1 DEF M!ForgetAll
  <2>2. CASE ~M!Anonymous(who)
    <3>1. t = M!ClearSession(u, who)
      BY <1>3, <2>2 DEF M!ForgetAll, MemoryStore
    <3>2. left \subseteq s.points /\ \A p \in s.points \ left : \E r \in gone : p.id = r.vector
      OBVIOUS
    <3>3. gone \subseteq s.rows
      BY <1>3, ListedAreOwned
    <3> HIDE DEF left
    <3>4. u \in MemoryStore(Data) /\ u.rows = s.rows \ gone /\ u.points = left
      BY <3>2 DEF MemoryStore
    <3> HIDE DEF u
    <3>5. t \in MemoryStore(Data) /\ t.rows = s.rows \ gone /\ t.points = left
      BY <3>1, <3>4 DEF MemoryStore, M!ClearSession
    <3>6. Matched(t)
      BY <3>2, <3>3, <3>5, LessStaysMatched
    <3> QED
      BY <3>5, <3>6
  <2> QED
    BY <2>1, <2>2
<1>4. ASSUME NEW now \in Int, t = M!DeleteExpired(s, now)
      PROVE  t \in MemoryStore(Data) /\ Matched(t)
  <2> DEFINE left == {r \in s.rows : r.expires = None \/ r.expires >= now}
  <2>1. left \subseteq s.rows
    OBVIOUS
  <2>2. t = [s EXCEPT !.rows = left]
    BY <1>4 DEF M!DeleteExpired, MemoryStore
  <2> HIDE DEF left
  <2>3. t \in MemoryStore(Data) /\ t.rows = left /\ t.points = s.points
    BY <2>1, <2>2 DEF MemoryStore
  <2>4. Matched(t)
    BY <2>1, <2>3, LessStaysMatched
  <2> QED
    BY <2>3, <2>4
<1> QED
  BY <1>1, <1>2, <1>3, <1>4 DEF Remembers, Forgets

\* recall: what is recalled is of the person asked about, there, and not expired.
THEOREM RecallIsOwn ==
    ASSUME NEW s, Matched(s), NEW who, NEW score, NEW least, NEW limit, NEW now,
           NEW r \in M!Recall(s, who, score, least, limit, now)
    PROVE  r \in s.rows /\ M!Within(r.scope, who) /\ (r.expires = None \/ r.expires >= now)
<1>1. /\ r \in s.rows
      /\ r.expires = None \/ r.expires >= now
      /\ \E p \in M!Hits(s, who, score, least, limit) : p.id = r.vector
  BY DEF M!Recall
<1>2. PICK p \in M!Hits(s, who, score, least, limit) : p.id = r.vector
  BY <1>1
<1>3. p \in s.points /\ M!Within(p.scope, who)
  BY <1>2 DEF M!Hits
<1>4. r.vector # None
  BY <1>2, <1>3 DEF Matched
<1>5. PICK q \in s.points : q.id = r.vector /\ q.scope = r.scope
  BY <1>1, <1>4 DEF Matched
<1>6. p = q
  BY <1>2, <1>3, <1>5 DEF Matched
<1> QED
  BY <1>1, <1>3, <1>5, <1>6

LEMMA WithinTransitive ==
    ASSUME NEW a, NEW b, NEW c, M!Within(a, b), M!Within(b, c)
    PROVE  M!Within(a, c)
BY DEF M!Within

\* forget_all takes what one listing holds: all of a person's memories unless there are
\* more than EraseAtOnce, and then exactly so many.  Whether or not the vector store was
\* reached, what was taken is recalled no more, by part of the scope neither; everything of
\* others is still there, and who shared no memory with the person recalls what they did
\* before.  A session value is gone if the person's pattern matches its name, whosever it is.
THEOREM ErasureIsBounded ==
    ASSUME NEW Data, NEW s \in MemoryStore(Data), Matched(s), NEW who \in Person(Data),
           ~M!Anonymous(who), NEW reached \in BOOLEAN,
           NEW gone \in M!Listings(s, who, EraseAtOnce),
           NEW score, NEW least, NEW limit, NEW now, NEW other, NEW key
    PROVE  LET t == M!ForgetAll(s, who, gone, reached) IN
           /\ t.rows = s.rows \ gone /\ M!Owned(t, who) = M!Owned(s, who) \ gone
           /\ IF M!Cardinality(M!Owned(s, who)) <= EraseAtOnce
                 THEN M!Owned(t, who) = {} ELSE M!Cardinality(gone) = EraseAtOnce
           /\ M!Within(other, who)
              => M!Recall(t, other, score, least, limit, now) \subseteq M!Owned(t, who)
           /\ (\A r \in s.rows : ~(M!Within(r.scope, who) /\ M!Within(r.scope, other)))
              => M!Recall(t, other, score, least, limit, now)
                    = M!Recall(s, other, score, least, limit, now)
           /\ M!HasSession(t, other, key) <=>
                 /\ M!HasSession(s, other, key)
                 /\ ~Matches(M!Prefix(who), KeyName(M!Prefix(other), key))
<1> DEFINE t == M!ForgetAll(s, who, gone, reached)
           left == IF reached THEN {p \in s.points : \A r \in gone : p.id # r.vector}
                   ELSE s.points
           u == [s EXCEPT !.rows = @ \ gone, !.points = left]
<1>1. t = M!ClearSession(u, who)
  BY DEF M!ForgetAll, MemoryStore
<1>2. left \subseteq s.points /\ \A p \in s.points \ left : \E r \in gone : p.id = r.vector
  OBVIOUS
<1>3. \A r \in gone : r \in s.rows /\ M!Within(r.scope, who)
  BY ListedAreOwned
<1>4. gone \subseteq s.rows
  BY <1>3
<1> HIDE DEF left
<1>5. u.rows = s.rows \ gone /\ u.points = left /\ u.keys = s.keys /\ u \in MemoryStore(Data)
  BY <1>2 DEF MemoryStore
<1> HIDE DEF u
<1>6. /\ t.rows = s.rows \ gone /\ t.points = left
      /\ t.keys = {k \in s.keys : ~Matches(M!Prefix(who), k)}
  BY <1>1, <1>5 DEF M!ClearSession, MemoryStore
<1> HIDE DEF t
<1>7. Matched(t)
  BY <1>2, <1>4, <1>6, LessStaysMatched
<1>8. M!Owned(t, who) = M!Owned(s, who) \ gone
  BY <1>6 DEF M!Owned
<1>9. IF M!Cardinality(M!Owned(s, who)) <= EraseAtOnce
         THEN M!Owned(t, who) = {} ELSE M!Cardinality(gone) = EraseAtOnce
  BY <1>8 DEF M!Listings
<1>10. ASSUME M!Within(other, who)
       PROVE  M!Recall(t, other, score, least, limit, now) \subseteq M!Owned(t, who)
  <2>1. ASSUME NEW r \in M!Recall(t, other, score, least, limit, now)
        PROVE  r \in M!Owned(t, who)
    <3>1. r \in t.rows /\ M!Within(r.scope, other)
      BY <1>7, RecallIsOwn
    <3> QED
      BY <1>10, <3>1, WithinTransitive DEF M!Owned
  <2> QED
    BY <2>1
<1>11. ASSUME \A r \in s.rows : ~(M!Within(r.scope, who) /\ M!Within(r.scope, other))
       PROVE  M!Recall(t, other, score, least, limit, now)
                 = M!Recall(s, other, score, least, limit, now)
  <2>1. ASSUME NEW p \in s.points, M!Within(p.scope, other)
        PROVE  p \in left
    <3>1. ASSUME NEW r \in gone, p.id = r.vector
          PROVE  FALSE
      <4>1. r \in s.rows /\ M!Within(r.scope, who)
        BY <1>3
      <4>2. p.id # None
        BY DEF Matched
      <4>3. PICK q \in s.points : q.id = r.vector /\ q.scope = r.scope
        BY <3>1, <4>1, <4>2 DEF Matched
      <4>4. p = q
        BY <3>1, <4>3 DEF Matched
      <4> QED
        BY <1>11, <2>1, <4>1, <4>3, <4>4
    <3> QED
      BY <1>2, <3>1
  <2>2. M!Hits(t, other, score, least, limit) = M!Hits(s, other, score, least, limit)
    <3>1. {p \in t.points : M!Within(p.scope, other) /\ score[p.id] >= least}
            = {p \in s.points : M!Within(p.scope, other) /\ score[p.id] >= least}
      BY <1>2, <1>6, <2>1
    <3> QED
      BY <3>1 DEF M!Hits
  <2>3. ASSUME NEW r \in M!Recall(s, other, score, least, limit, now)
        PROVE  r \in t.rows
    <3>1. r \in s.rows /\ M!Within(r.scope, other)
      BY RecallIsOwn
    <3> QED
      BY <1>3, <1>6, <1>11, <3>1
  <2>4. t.rows \subseteq s.rows
    BY <1>6
  <2> DEFINE hits == M!Hits(s, other, score, least, limit)
             Due(r) == /\ \E p \in hits : p.id = r.vector
                       /\ r.expires = None \/ r.expires >= now
  <2>5. M!Recall(s, other, score, least, limit, now) = {r \in s.rows : Due(r)}
    BY DEF M!Recall
  <2>6. M!Recall(t, other, score, least, limit, now) = {r \in t.rows : Due(r)}
    BY <2>2 DEF M!Recall
  <2> HIDE DEF Due
  <2> QED
    BY <2>3, <2>4, <2>5, <2>6
<1>12. M!HasSession(t, other, key) <=>
          /\ M!HasSession(s, other, key)
          /\ ~Matches(M!Prefix(who), KeyName(M!Prefix(other), key))
  BY <1>6 DEF M!HasSession
<1> QED
  BY <1>6, <1>8, <1>9, <1>10, <1>11, <1>12 DEF t

\* The messages of a thread are numbered 1, 2, 3 and so on.
Counted(s) == \A t \in s.talks : \E n \in Nat : t.messages = 1 .. n

\* The instance counts as this module does.
LEMMA SameCount == \A S : M!Cardinality(S) = Cardinality(S)
BY Zenon DEF M!Cardinality, Cardinality

LEMMA RecentAre ==
    ASSUME NEW t, NEW n \in Nat, t.messages = 1 .. n, NEW limit \in Nat
    PROVE  M!Recent(t, limit) = {m \in 1 .. n : m + limit > n}
<1>1. ASSUME NEW m \in 1 .. n
      PROVE  Cardinality({k \in t.messages : k > m}) = n - m
  <2>1. {k \in t.messages : k > m} = m + 1 .. n
    OBVIOUS
  <2>2. Cardinality(m + 1 .. n) = IF m + 1 > n THEN 0 ELSE n - (m + 1) + 1
    BY FS_Interval, m + 1 \in Int, n \in Int
  <2>3. Cardinality({k \in t.messages : k > m}) = Cardinality(m + 1 .. n)
    BY <2>1
  <2> QED
    BY <2>2, <2>3
<1>2. M!Recent(t, limit) = {m \in 1 .. n : Cardinality({k \in t.messages : k > m}) < limit}
  <2>1. M!Recent(t, limit)
          = {m \in 1 .. n : M!Cardinality({k \in t.messages : k > m}) < limit}
    BY DEF M!Recent
  <2> QED
    BY <2>1, SameCount
<1> DEFINE Later(m) == Cardinality({k \in t.messages : k > m})
<1>3. \A m \in 1 .. n : Later(m) = n - m
  BY <1>1
<1>4. M!Recent(t, limit) = {m \in 1 .. n : Later(m) < limit}
  BY <1>2
<1> HIDE DEF Later
<1> QED
  BY <1>3, <1>4

\* append_message, summarize_conversation: a message gets the number after the last one,
\* and a summary, where one is made, is of the last KeepVerbatim messages and changes none.
THEOREM ThreadsStayCounted ==
    ASSUME NEW Data, NEW s \in MemoryStore(Data), Counted(s), KeepVerbatim \in Nat,
           NEW t \in s.talks, NEW n \in Nat, t.messages = 1 .. n, NEW reached \in BOOLEAN
    PROVE  LET said == M!AppendMessage(s, t)
               told == M!Summarize(s, t, reached) IN
           /\ Counted(said) /\ Counted(told)
           /\ \E u \in said.talks : /\ u.messages = 1 .. n + 1
                                    /\ u.scope = t.scope /\ u.ext = t.ext /\ u.summary = t.summary
           /\ \A u \in s.talks \ {t} : u \in said.talks /\ u \in told.talks
           /\ told # s => \E u \in told.talks :
                 /\ u.messages = t.messages /\ u.scope = t.scope /\ u.ext = t.ext
                 /\ u.summary = {m \in 1 .. n : m + KeepVerbatim > n}
<1> DEFINE said == M!AppendMessage(s, t)
           told == M!Summarize(s, t, reached)
           longer == [t EXCEPT !.messages = @ \cup {M!NextOrdinal(t)}]
           shorter == [t EXCEPT !.summary = M!Recent(t, KeepVerbatim)]
<1>1. t \in Thread(Data)
  BY DEF MemoryStore
<1>2. M!NextOrdinal(t) = n + 1
  <2>1. CASE n = 0
    BY <2>1 DEF M!NextOrdinal
  <2>2. CASE n # 0
    <3>1. n \in t.messages /\ \A k \in t.messages : k <= n
      BY <2>2
    <3>2. (CHOOSE m \in t.messages : \A k \in t.messages : k <= m) = n
      BY <3>1
    <3> QED
      BY <2>2, <3>1, <3>2 DEF M!NextOrdinal
  <2> QED
    BY <2>1, <2>2
<1>3. longer.messages = 1 .. n + 1
      /\ longer.scope = t.scope /\ longer.ext = t.ext /\ longer.summary = t.summary
  BY <1>1, <1>2 DEF Thread
<1>4. said.talks = (s.talks \ {t}) \cup {longer}
  BY DEF M!AppendMessage, MemoryStore
<1>5. M!Recent(t, KeepVerbatim) = {m \in 1 .. n : m + KeepVerbatim > n}
  BY RecentAre
<1>6. /\ shorter.messages = t.messages /\ shorter.scope = t.scope /\ shorter.ext = t.ext
      /\ shorter.summary = {m \in 1 .. n : m + KeepVerbatim > n}
  BY <1>1, <1>5 DEF Thread
<1>7. told = s \/ told = [s EXCEPT !.talks = (@ \ {t}) \cup {shorter}]
  BY DEF M!Summarize
<1>8. told = s \/ told.talks = (s.talks \ {t}) \cup {shorter}
  BY <1>7 DEF MemoryStore
<1> HIDE DEF said, told, longer, shorter
<1>9. n + 1 \in Nat
  OBVIOUS
<1>10. Counted(said)
  BY <1>3, <1>4, <1>9 DEF Counted
<1>11. Counted(told)
  BY <1>6, <1>8 DEF Counted
<1>12. \A u \in s.talks \ {t} : u \in said.talks /\ u \in told.talks
  BY <1>4, <1>8
<1> QED
  BY <1>3, <1>4, <1>6, <1>8, <1>10, <1>11, <1>12 DEF said, told
=============================================================================
