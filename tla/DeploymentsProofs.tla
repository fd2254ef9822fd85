------------------------- MODULE DeploymentsProofs -------------------------
(***************************************************************************)
(* Theorems about Deployments, for every set of deployments, devices,      *)
(* nodes and clients, every choice of Ops and (unless said) every Faults;  *)
(* and, at the end, about the plan that placing makes of what it read of   *)
(* the cards: the devices it names are free, fit and are the least busy of *)
(* the node it names.                                                      *)
(***************************************************************************)
EXTENDS Deployments, Sequences, FunctionTheorems, FiniteSetTheorems, TLAPS

-----------------------------------------------------------------------------
(* ORM objects.                                                            *)

\* What the service makes of an object is an object (_fail, stop_deployment),
\* and a flush yields a row.
LEMMA ObjTypes ==
    /\ Unborn \in Row /\ Gone \in Row
    /\ \A r \in Row : Loaded(r) \in Obj
    /\ \A o \in Obj, s \in States, h \in SUBSET Columns, f \in SUBSET Gpu :
          With(o, s, h, f) \in Obj
    /\ \A o \in Obj, r \in Row : Flushed(o, r) \in Row
    /\ alloc \in [Dep -> SUBSET Gpu] =>
          \A d \in Dep, o \in Obj : Fail(d, o) \in Obj /\ Stopped(d, o) \in Obj
<1>1. Unborn \in Row /\ Gone \in Row
  BY DEF Unborn, Gone, Row, States
<1>2. \A r \in Row : Loaded(r) \in Obj
  BY DEF Loaded, Obj
<1>3. \A o \in Obj, s \in States, h \in SUBSET Columns, f \in SUBSET Gpu :
         With(o, s, h, f) \in Obj
  BY DEF With, Obj, Row
<1>4. \A o \in Obj, r \in Row : Flushed(o, r) \in Row
  BY DEF Flushed, Obj, Row
<1>5. ASSUME alloc \in [Dep -> SUBSET Gpu], NEW d \in Dep, NEW o \in Obj
      PROVE  Fail(d, o) \in Obj /\ Stopped(d, o) \in Obj
  <2>1. Unreserved(o) \in SUBSET Columns /\ Released(d, o) \in SUBSET Gpu
    BY <1>5 DEF Unreserved, Released, Obj, Row
  <2> QED
    BY <2>1, <1>3 DEF Fail, Stopped, States
<1> QED
  BY <1>1, <1>2, <1>3, <1>4, <1>5

-----------------------------------------------------------------------------
(* Type correctness.                                                       *)

LEMMA TypeInit == Init => TypeOK
<1> SUFFICES ASSUME Init PROVE TypeOK
  OBVIOUS
<1>1. Loaded(Unborn) \in Obj
  BY ObjTypes
<1> QED
  BY <1>1, ObjTypes
  DEF Init, TypeOK, Containers, Absent, Free, NoPlace, ReqType

LEMMA TypeWorker == TypeOK /\ Worker => TypeOK'
<1> SUFFICES ASSUME TypeOK, Worker PROVE TypeOK'
  OBVIOUS
<1> USE DEF TypeOK
<1>0. Loaded(Unborn) \in Obj
  BY ObjTypes
<1>1. CASE TickLoad
  <2>1. tick' \in [Dep -> [st : {"out", "todo", "starting", "done"}, obj : Obj]]
    BY <1>0, <1>1, ObjTypes DEF TickLoad, Absent
  <2> QED
    BY <2>1, <1>1 DEF TickLoad
<1>2. ASSUME NEW d \in Dep, NodeMissing(d) PROVE TypeOK'
  BY <1>2, ObjTypes DEF NodeMissing, Put
<1>3. ASSUME NEW d \in Dep, CreateContainer(d) PROVE TypeOK'
  <2> DEFINE o == With(tick[d].obj, "CREATING", tick[d].obj.new.has, {})
  <2>1. o \in Obj /\ Fail(d, o) \in Obj
    BY ObjTypes DEF Obj, Row, States
  <2>2. tick' \in [Dep -> [st : {"out", "todo", "starting", "done"}, obj : Obj]]
    BY <1>3, <2>1 DEF CreateContainer, Put
  <2>3. host' \in [Dep -> Containers] /\ seen' \in SUBSET Node
    BY <1>3 DEF CreateContainer, LookUpNode, NodeFound, Containers
  <2> QED
    BY <2>2, <2>3, <1>3 DEF CreateContainer
<1>4. ASSUME NEW d \in Dep, StartContainer(d) PROVE TypeOK'
  <2> DEFINE o == tick[d].obj
             up == With(o, "HEALTH_CHECK",
                        o.new.has \cup {"container_id", "internal_url"}, {})
  <2>1. up \in Obj /\ Fail(d, o) \in Obj
    <3>1. o.new.has \cup {"container_id", "internal_url"} \in SUBSET Columns
      BY DEF Obj, Row, Columns
    <3> QED
      BY <3>1, ObjTypes DEF States
  <2>2. tick' \in [Dep -> [st : {"out", "todo", "starting", "done"}, obj : Obj]]
    BY <1>4, <2>1 DEF StartContainer, Put
  <2>3. host' \in [Dep -> Containers]
    BY <1>4 DEF StartContainer, Containers
  <2> QED
    BY <2>2, <2>3, <1>4 DEF StartContainer
<1>5. ASSUME NEW d \in Dep, AwaitHealth(d) PROVE TypeOK'
  <2> DEFINE o == tick[d].obj
  <2>1. With(o, "RUNNING", o.new.has, {}) \in Obj /\ Fail(d, o) \in Obj
    BY ObjTypes DEF Obj, Row, States
  <2>2. tick' \in [Dep -> [st : {"out", "todo", "starting", "done"}, obj : Obj]]
    BY <1>5, <2>1 DEF AwaitHealth, Put
  <2>3. seen' \in SUBSET Node
    BY <1>5 DEF AwaitHealth, LookUpNode, NodeFound
  <2> QED
    BY <2>2, <2>3, <1>5 DEF AwaitHealth
<1>6. ASSUME NEW d \in Dep, AdvanceRaises(d) PROVE TypeOK'
  <2>1. With(tick[d].obj, "FAILED", tick[d].obj.new.has, {}) \in Obj
    BY ObjTypes DEF Obj, Row, States
  <2> QED
    BY <2>1, <1>6 DEF AdvanceRaises, Put
<1>7. CASE TickCommit
  <2>1. row' \in [Dep -> Row]
    BY <1>7, ObjTypes DEF TickCommit
  <2>2. alloc' \in [Dep -> SUBSET Gpu]
    BY <1>7 DEF TickCommit
  <2> QED
    BY <2>1, <2>2, <1>0, <1>7 DEF TickCommit, EndTick, Absent
<1>8. CASE TickRollback
  BY <1>0, <1>8 DEF TickRollback, EndTick, Absent
<1> QED
  BY <1>1, <1>2, <1>3, <1>4, <1>5, <1>6, <1>7, <1>8 DEF Worker

\* The object an agent's answer leaves in a request.
LEMMA AnsweredType ==
    ASSUME TypeOK, NEW c \in Client, req[c].pc = "call", NEW o \in Obj, Answered(c, o)
    PROVE  req' \in [Client -> ReqType]
<1>1. req[c] \in ReqType /\ req[c].d \in Dep
  BY DEF TypeOK, ReqType
<1> DEFINE r == [req[c] EXCEPT !.pc = "commit", !.obj = o]
<1>2. r.d = req[c].d /\ r.pc = "commit"
  BY <1>1 DEF ReqType
<1>3. r \in ReqType
  BY <1>1, <1>2 DEF ReqType
<1> QED
  BY <1>3 DEF Answered, TypeOK

LEMMA TypeOperators == TypeOK /\ Operators => TypeOK'
<1> SUFFICES ASSUME TypeOK, Operators PROVE TypeOK'
  OBVIOUS
<1> USE DEF TypeOK
<1>0. Loaded(Unborn) \in Obj
  BY ObjTypes
<1>a. Free \in ReqType
  BY <1>0 DEF Free, ReqType, NoPlace
<1>1. ASSUME NEW c \in Client, NEW d \in Dep, NEW n \in Node, NEW gpus \in SUBSET Gpu,
             PlanDeployment(c, d, n, gpus)
      PROVE  TypeOK'
  BY <1>0, <1>1 DEF PlanDeployment, Begin, Free, ReqType
<1>2. ASSUME NEW c \in Client, Reserve(c) PROVE TypeOK'
  <2> DEFINE at == req[c].at
  <2>1. at \in [node : Node \cup {None}, gpus : SUBSET Gpu]
    BY DEF ReqType
  <2>2. [state |-> "SCHEDULING",
         has |-> IF at.gpus = {} THEN {} ELSE {"reservation_id"}] \in Row
    BY DEF Row, States, Columns
  <2> QED
    BY <2>1, <2>2, <1>a, <1>2 DEF Reserve, End
<1>3. ASSUME NEW c \in Client, ReserveRefused(c) \/ ReconcileEnd(c) PROVE TypeOK'
  BY <1>a, <1>3 DEF ReserveRefused, ReconcileEnd, End
<1>4. ASSUME NEW c \in Client, NEW d \in Dep, NEW op \in {"stop", "delete"},
             StopRead(c, d, op)
      PROVE  TypeOK'
  <2>1. Loaded(row[d]) \in Obj /\ Stopped(d, Loaded(row[d])) \in Obj
    BY ObjTypes
  <2> QED
    BY <2>1, <1>4 DEF StopRead, Begin, Free, ReqType, NoPlace
<1>5. ASSUME NEW c \in Client, NEW d \in Dep, DeleteRead(c, d) \/ RestartRead(c, d)
      PROVE  TypeOK'
  <2>1. Loaded(row[d]) \in Obj
    BY ObjTypes
  <2>2. CASE DeleteRead(c, d)
    BY <2>1, <2>2 DEF DeleteRead, Begin, Free, ReqType, NoPlace
  <2>3. CASE RestartRead(c, d)
    BY <2>1, <2>3 DEF RestartRead, Begin, Free, ReqType, NoPlace
  <2> QED
    BY <2>2, <2>3, <1>5
<1>6. ASSUME NEW c \in Client, NEW d \in Dep, ReconcileRemove(c, d) PROVE TypeOK'
  BY <1>6 DEF ReconcileRemove, Containers
<1>7. ASSUME NEW c \in Client, StopContainer(c) PROVE TypeOK'
  <2>1. req[c].d \in Dep /\ req[c].obj \in Obj
    BY <1>7 DEF StopContainer, ReqType
  <2>2. Stopped(req[c].d, req[c].obj) \in Obj
    BY <2>1, ObjTypes
  <2>3. req' \in [Client -> ReqType]
    BY <2>2, <1>7, AnsweredType DEF StopContainer
  <2>4. host' \in [Dep -> Containers]
    BY <1>7 DEF StopContainer, Containers
  <2> QED
    BY <2>1, <2>3, <2>4, <1>7 DEF StopContainer
<1>8. ASSUME NEW c \in Client, RestartContainer(c) PROVE TypeOK'
  <2> DEFINE d == req[c].d
             o == req[c].obj
  <2>1. d \in Dep /\ o \in Obj
    BY <1>8 DEF RestartContainer, ReqType
  <2>2. With(o, "HEALTH_CHECK", o.new.has, {}) \in Obj /\ Fail(d, o) \in Obj
    BY <2>1, ObjTypes DEF Obj, Row, States
  <2>3. req' \in [Client -> ReqType]
    BY <2>2, <1>8, AnsweredType DEF RestartContainer
  <2>4. host' \in [Dep -> Containers]
    BY <1>8 DEF RestartContainer, Containers
  <2> QED
    BY <2>3, <2>4, <1>8 DEF RestartContainer
<1>9. ASSUME NEW c \in Client, RequestCommit(c) PROVE TypeOK'
  <2>1. row' \in [Dep -> Row]
    BY <1>9, ObjTypes DEF RequestCommit, ReqType
  <2>2. alloc' \in [Dep -> SUBSET Gpu]
    BY <1>9 DEF RequestCommit
  <2> QED
    BY <2>1, <2>2, <1>a, <1>9 DEF RequestCommit, End
<1>10. ASSUME NEW c \in Client, ReconcileRead(c) PROVE TypeOK'
  BY <1>0, <1>10 DEF ReconcileRead, Begin, Free, ReqType, NoPlace
<1>11. ASSUME NEW d \in Dep, AttachExternal(d) PROVE TypeOK'
  <2>1. [state |-> "RUNNING", has |-> {"internal_url"}] \in Row
    BY DEF Row, States, Columns
  <2> QED
    BY <2>1, <1>11 DEF AttachExternal
<1>12. ASSUME NEW n \in Node, DeleteNode(n) PROVE TypeOK'
  BY <1>12, ObjTypes DEF DeleteNode
<1> QED
  BY <1>1, <1>2, <1>3, <1>4, <1>5, <1>6, <1>7, <1>8, <1>9, <1>10, <1>11, <1>12
  DEF Operators

LEMMA TypeCrash == TypeOK /\ Crash => TypeOK'
<1> SUFFICES ASSUME TypeOK, Crash PROVE TypeOK'
  OBVIOUS
<1>1. Loaded(Unborn) \in Obj
  BY ObjTypes
<1>2. Free \in ReqType /\ Free.pc = "free"
  BY <1>1 DEF Free, ReqType, NoPlace
<1> QED
  BY <1>1, <1>2 DEF TypeOK, Crash, EndTick, Absent

LEMMA TypeStep == TypeOK /\ [Next]_vars => TypeOK'
<1>1. TypeOK /\ UNCHANGED vars => TypeOK'
  BY DEF TypeOK, vars
<1> QED
  BY <1>1, TypeWorker, TypeOperators, TypeCrash DEF Next

\* Every variable stays in its type, whatever requests and faults occur.
THEOREM TypeCorrect == Spec => []TypeOK
<1> QED
  BY TypeInit, TypeStep, PTL DEF Spec

-----------------------------------------------------------------------------
(* Claims. A session may hold a copy of a row that is long out of date; what *)
(* makes its commit safe is how its copy relates to the row and to the claims *)
(* as they are by then.                                                    *)

Named(r) == "reservation_id" \in r.has

\* A row r placed at p and its claims a.
Sound(r, p, a) ==
    /\ r.state = "NONE" => r = Unborn /\ p = NoPlace /\ a = {}
    /\ r.state = "GONE" => r = Gone
    /\ Named(r) => a = p.gpus /\ a # {}
    /\ r.state \notin {"NONE", "GONE"} /\ ~Named(r) => a = {}

\* A session's copy o of row r with claims a: it was loaded after the reservation
\* was made and never makes one; what it freed it no longer names; and if the row
\* still names a reservation that o dropped, o freed exactly the claims there are.
Fits(o, r, a) ==
    /\ r.state # "NONE"
    /\ o.new.state \notin {"NONE", "GONE"}
    /\ Named(o.new) => Named(o.old)
    /\ Named(r) => Named(o.old)
    /\ o.freed # {} => Named(o.old) /\ ~Named(o.new)
    /\ Named(r) /\ ~Named(o.new) => o.freed = a

\* A copy whose session has released nothing yet.
Open(o) == o.freed = {} /\ (Named(o.old) => Named(o.new))

\* A request that is about to insert a row has its id for itself.
PlaceInv(c) ==
    req[c].pc = "place" => /\ row[req[c].d] = Unborn
                           /\ \A e \in Client : e # c => req[e].d # req[c].d

TickInv(d) ==
    tick[d].st # "out" => /\ Fits(tick[d].obj, row[d], alloc[d])
                          /\ tick[d].st # "done" => Open(tick[d].obj)

ReqInv(c) ==
    req[c].pc \in {"call", "commit"} =>
        /\ Fits(req[c].obj, row[req[c].d], alloc[req[c].d])
        /\ req[c].pc = "call" => Open(req[c].obj)

ClaimInv ==
    /\ TypeOK
    /\ GpusExclusive
    /\ \A d \in Dep : Sound(row[d], place[d], alloc[d])
    /\ \A d \in Dep : TickInv(d)
    /\ \A c \in Client : PlaceInv(c) /\ ReqInv(c)

\* A freshly loaded row.
LEMMA LoadFits ==
    ASSUME NEW r \in Row, r.state \notin {"NONE", "GONE"}, NEW a
    PROVE  Fits(Loaded(r), r, a) /\ Open(Loaded(r))
BY DEF Fits, Open, Loaded, Row

\* A step that leaves the reservation alone (_create_container, _await_health,
\* restart_deployment, the worker's except branch).
LEMMA KeepFits ==
    ASSUME NEW r \in Row, NEW a, NEW o \in Obj, Fits(o, r, a), Open(o),
           NEW s \in States \ {"NONE", "GONE"}, NEW h \in SUBSET Columns,
           "reservation_id" \in h <=> Named(o.new)
    PROVE  Fits(With(o, s, h, {}), r, a) /\ Open(With(o, s, h, {}))
BY DEF Fits, Open, With, Obj, Row, Named

\* A step that gives the devices back (_fail, stop_deployment).
LEMMA LeaveFits ==
    ASSUME NEW d \in Dep, NEW r \in Row, NEW o \in Obj, Fits(o, r, alloc[d]), Open(o)
    PROVE  /\ Fits(Fail(d, o), r, alloc[d]) /\ ~Named(Fail(d, o).new)
           /\ Fits(Stopped(d, o), r, alloc[d]) /\ ~Named(Stopped(d, o).new)
BY DEF Fits, Open, Fail, Stopped, With, Released, Unreserved, Obj, Row, Named

\* The commit of a copy: the row stays sound, the claims all go or all stay, and
\* every other copy of the row still fits.
LEMMA FlushFits ==
    ASSUME NEW r \in Row, NEW p, NEW a \in SUBSET Gpu, NEW o \in Obj,
           Sound(r, p, a), Fits(o, r, a), r.state # "GONE"
    PROVE  /\ Sound(Flushed(o, r), p, a \ o.freed)
           /\ Flushed(o, r).state \notin {"NONE", "GONE"}
           /\ a \ o.freed \in {a, {}}
           /\ \A q \in Obj : Fits(q, r, a) => Fits(q, Flushed(o, r), a \ o.freed)
<1>1. Named(Flushed(o, r)) <=> Named(r) /\ Named(o.new)
  BY DEF Fits, Flushed, Named, Obj, Row
<1>2. Flushed(o, r).state \notin {"NONE", "GONE"}
  BY DEF Fits, Flushed, Obj, Row
<1>3. Named(r) /\ Named(o.new) => a \ o.freed = a
  BY DEF Fits
<1>4. ~(Named(r) /\ Named(o.new)) => a \ o.freed = {}
  BY DEF Fits, Sound
<1>5. Sound(Flushed(o, r), p, a \ o.freed)
  BY <1>1, <1>2, <1>3, <1>4 DEF Sound
<1>6. ASSUME NEW q \in Obj, Fits(q, r, a)
      PROVE  Fits(q, Flushed(o, r), a \ o.freed)
  BY <1>1, <1>2, <1>3, <1>6 DEF Fits
<1> QED
  BY <1>2, <1>3, <1>4, <1>5, <1>6

\* A copy fits a row that is gone, whatever is left of its claims.
LEMMA GoneFits ==
    ASSUME NEW r, NEW a, NEW b, NEW o, Fits(o, r, a)
    PROVE  Fits(o, Gone, b)
BY DEF Fits, Gone, Named

LEMMA GoneSound == \A p, a : Sound(Gone, p, a)
BY DEF Sound, Gone, Named

LEMMA ClaimInit == Init => ClaimInv
<1> SUFFICES ASSUME Init PROVE ClaimInv
  OBVIOUS
<1>1. \A d \in Dep : Sound(row[d], place[d], alloc[d])
  BY DEF Init, Sound, Unborn, Named
<1>2. GpusExclusive /\ (\A d \in Dep : TickInv(d))
  BY DEF Init, GpusExclusive, TickInv, Absent
<1>3. \A c \in Client : PlaceInv(c) /\ ReqInv(c)
  BY DEF Init, PlaceInv, ReqInv, Free
<1> QED
  BY <1>1, <1>2, <1>3, TypeInit DEF ClaimInv

\* What a commit may do to the rows there are.
Evolves(d) ==
    /\ row[d].state = "NONE" <=> row'[d].state = "NONE"
    /\ row[d].state = "NONE" => row'[d] = row[d] /\ alloc'[d] = alloc[d]
    /\ Sound(row'[d], place[d], alloc'[d])
    /\ alloc'[d] \in {alloc[d], {}}
    /\ \A q \in Obj : Fits(q, row[d], alloc[d]) => Fits(q, row'[d], alloc'[d])

LEMMA IdleEvolves ==
    ClaimInv /\ UNCHANGED <<row, alloc>> => \A d \in Dep : Evolves(d)
BY DEF ClaimInv, Evolves

LEMMA TickCommitEvolves == ClaimInv /\ TickCommit => \A d \in Dep : Evolves(d)
<1> SUFFICES ASSUME ClaimInv, TickCommit, NEW d \in Dep PROVE Evolves(d)
  OBVIOUS
<1> DEFINE o == tick[d].obj
           r == Flushed(o, row[d])
           a == alloc[d] \ o.freed
<1>1. /\ Sound(row[d], place[d], alloc[d])
      /\ row[d] \in Row /\ alloc[d] \in SUBSET Gpu
      /\ d \in InTick => o \in Obj /\ Fits(o, row[d], alloc[d])
  BY DEF ClaimInv, TickInv, TypeOK, InTick
<1>2. CASE d \in Written
  <2>1. row[d].state \notin {"NONE", "GONE"} /\ d \in InTick
    BY <1>2 DEF TickCommit, Exists, Written
  <2>2. row'[d] = r /\ alloc'[d] = a
    BY <2>1, <1>2 DEF TickCommit
  <2>3. o \in Obj /\ Fits(o, row[d], alloc[d])
    BY <2>1, <1>1
  <2> HIDE DEF o
  <2>4. /\ Sound(r, place[d], a)
        /\ r.state \notin {"NONE", "GONE"}
        /\ a \in {alloc[d], {}}
        /\ \A q \in Obj : Fits(q, row[d], alloc[d]) => Fits(q, r, a)
    BY ONLY <1>1, <2>1, <2>3, FlushFits
  <2> QED
    BY <2>1, <2>2, <2>4 DEF Evolves
<1>3. CASE d \notin Written
  <2>1. row'[d] = row[d]
    BY <1>3 DEF TickCommit
  <2>2. d \in InTick => o.freed = {}
    BY <1>1, <1>3 DEF Written, Dirty, Fits, Named
  <2>3. alloc'[d] = alloc[d]
    BY <2>2, <1>1 DEF TickCommit
  <2> QED
    BY <2>1, <2>3, <1>1 DEF Evolves
<1> QED
  BY <1>2, <1>3

LEMMA RequestCommitEvolves ==
    ASSUME ClaimInv, NEW c \in Client, RequestCommit(c)
    PROVE  \A d \in Dep : Evolves(d)
<1> DEFINE d == req[c].d
           o == req[c].obj
           r == Flushed(o, row[d])
           a == alloc[d] \ o.freed
<1>1. /\ d \in Dep /\ o \in Obj /\ Fits(o, row[d], alloc[d])
      /\ row[d] \in Row /\ alloc[d] \in SUBSET Gpu
      /\ Sound(row[d], place[d], alloc[d])
  BY DEF ClaimInv, ReqInv, RequestCommit, TypeOK, ReqType
<1>2. \A e \in Dep : e # d => Evolves(e)
  BY DEF RequestCommit, ClaimInv, Evolves, TypeOK
<1>3. CASE ~Exists(d)
  BY <1>3, IdleEvolves DEF RequestCommit
<1>4. CASE Exists(d)
  <2>1. row[d].state \notin {"NONE", "GONE"}
    BY <1>4 DEF Exists
  <2>2. row'[d] \in {r, Gone} /\ alloc'[d] = a
    BY <1>1, <1>4 DEF RequestCommit, TypeOK, ClaimInv
  <2> HIDE DEF d, o
  <2>3. /\ Sound(r, place[d], a)
        /\ r.state \notin {"NONE", "GONE"}
        /\ a \in {alloc[d], {}}
        /\ \A q \in Obj : Fits(q, row[d], alloc[d]) => Fits(q, r, a)
    BY ONLY <1>1, <2>1, FlushFits
  <2>4. /\ Sound(Gone, place[d], a)
        /\ \A q \in Obj : Fits(q, row[d], alloc[d]) => Fits(q, Gone, a)
    BY ONLY GoneSound, GoneFits
  <2>5. Gone.state # "NONE"
    BY DEF Gone
  <2>6. Evolves(d)
    BY <2>1, <2>2, <2>3, <2>4, <2>5 DEF Evolves
  <2> QED
    BY <1>2, <2>6
<1> QED
  BY <1>3, <1>4

LEMMA DeleteNodeEvolves ==
    ASSUME ClaimInv, NEW n \in Node, DeleteNode(n)
    PROVE  \A d \in Dep : Evolves(d)
<1> SUFFICES ASSUME NEW d \in Dep PROVE Evolves(d)
  OBVIOUS
<1>1. CASE place[d].node = n
  <2>1. row'[d] = Gone /\ alloc'[d] = {}
    BY <1>1 DEF DeleteNode
  <2>2. row[d].state # "NONE" /\ Gone.state # "NONE"
    BY <1>1, PlatformAssumption DEF ClaimInv, Sound, NoPlace, Gone
  <2>3. /\ Sound(Gone, place[d], {})
        /\ \A q \in Obj : Fits(q, row[d], alloc[d]) => Fits(q, Gone, {})
    BY ONLY GoneSound, GoneFits
  <2> QED
    BY <2>1, <2>2, <2>3 DEF Evolves
<1>2. CASE place[d].node # n
  BY <1>2 DEF DeleteNode, ClaimInv, Evolves
<1> QED
  BY <1>1, <1>2

\* Whatever else a step does, sessions only end.
LEMMA EvolveKeeps ==
    ASSUME ClaimInv, TypeOK', UNCHANGED place,
           \A d \in Dep : Evolves(d),
           \A d \in Dep : tick'[d] \in {tick[d], Absent},
           \A c \in Client : req'[c] \in {req[c], Free}
    PROVE  ClaimInv'
<1>1. GpusExclusive'
  BY DEF ClaimInv, GpusExclusive, Evolves
<1>2. \A d \in Dep : Sound(row[d], place[d], alloc[d])'
  BY DEF Evolves
<1>3. ASSUME NEW d \in Dep PROVE TickInv(d)'
  <2>1. tick[d].obj \in Obj
    BY DEF ClaimInv, TypeOK
  <2>2. TickInv(d)
    BY DEF ClaimInv
  <2>3. tick'[d] = Absent \/ tick'[d] = tick[d]
    OBVIOUS
  <2> QED
    BY <2>1, <2>2, <2>3 DEF TickInv, Absent, Evolves
<1>4. ASSUME NEW c \in Client PROVE PlaceInv(c)' /\ ReqInv(c)'
  <2>1. req[c] \in ReqType /\ req[c].obj \in Obj
    BY DEF ClaimInv, TypeOK, ReqType
  <2>2. req[c].pc \in {"place", "call", "commit"} => req[c].d \in Dep
    BY <2>1 DEF ReqType
  <2>3. PlaceInv(c) /\ ReqInv(c)
    BY DEF ClaimInv
  <2>4. CASE req'[c] = Free
    BY <2>4 DEF Free, PlaceInv, ReqInv
  <2>5. CASE req'[c] = req[c]
    <3>1. req[c].pc = "place" => row'[req[c].d] = Unborn
      BY <2>2, <2>3 DEF PlaceInv, Evolves, Unborn
    <3>2. req[c].pc = "place" => \A e \in Client : e # c => req'[e].d # req[c].d
      BY <2>2, <2>3, PlatformAssumption DEF PlaceInv, Free
    <3>3. ReqInv(c)'
      BY <2>1, <2>2, <2>3, <2>5 DEF ReqInv, Evolves
    <3> QED
      BY <3>1, <3>2, <3>3, <2>5 DEF PlaceInv
  <2> QED
    BY <2>4, <2>5
<1> QED
  BY <1>1, <1>2, <1>3, <1>4 DEF ClaimInv

\* A step of the worker on one row, before the commit.
LEMMA PutKeeps ==
    ASSUME ClaimInv, TypeOK', UNCHANGED <<row, place, alloc, req>>,
           NEW d \in Dep, NEW st \in {"starting", "done"}, NEW o \in Obj, Put(d, st, o),
           Fits(o, row[d], alloc[d]), st # "done" => Open(o)
    PROVE  ClaimInv'
<1>1. \A e \in Dep : TickInv(e)'
  BY DEF ClaimInv, TypeOK, TickInv, Put
<1> QED
  BY <1>1 DEF ClaimInv, GpusExclusive, PlaceInv, ReqInv

LEMMA ClaimWorker == ClaimInv /\ Worker => ClaimInv'
<1> SUFFICES ASSUME ClaimInv, Worker PROVE ClaimInv'
  OBVIOUS
<1>0. TypeOK /\ TypeOK'
  BY TypeWorker DEF ClaimInv
<1>a. \A d \in Dep : Advancing(d) \/ tick[d].st = "starting" =>
          /\ tick[d].obj \in Obj
          /\ Fits(tick[d].obj, row[d], alloc[d])
          /\ Open(tick[d].obj)
  BY <1>0 DEF ClaimInv, TickInv, Advancing, TypeOK
<1>b. \A d \in Dep : row[d] \in Row /\ alloc[d] \in SUBSET Gpu
  BY <1>0 DEF TypeOK
<1>c. \A o \in Obj : o.new.has \in SUBSET Columns
  BY DEF Obj, Row
<1>1. CASE TickLoad
  <2>1. \A d \in Dep : TickInv(d)'
    <3>1. \A d \in Dep : row[d].state \in Pending =>
              Fits(Loaded(row[d]), row[d], alloc[d]) /\ Open(Loaded(row[d]))
      BY <1>b, LoadFits DEF Pending
    <3> QED
      BY <3>1, <1>1 DEF TickLoad, TickInv, Absent
  <2> QED
    BY <2>1, <1>0, <1>1 DEF ClaimInv, TickLoad, GpusExclusive, PlaceInv, ReqInv
<1>2. ASSUME NEW d \in Dep, NodeMissing(d) PROVE ClaimInv'
  <2>1. Fits(Fail(d, tick[d].obj), row[d], alloc[d]) /\ Fail(d, tick[d].obj) \in Obj
    BY <1>0, <1>a, <1>b, <1>2, LeaveFits, ObjTypes DEF NodeMissing, TypeOK
  <2> QED
    BY <2>1, <1>0, <1>2, PutKeeps DEF NodeMissing
<1>3. ASSUME NEW d \in Dep, CreateContainer(d) PROVE ClaimInv'
  <2> DEFINE o == With(tick[d].obj, "CREATING", tick[d].obj.new.has, {})
  <2>1. o \in Obj /\ Fits(o, row[d], alloc[d]) /\ Open(o)
    BY <1>a, <1>b, <1>c, <1>3, KeepFits, ObjTypes DEF CreateContainer, States, Named
  <2>2. Fail(d, o) \in Obj /\ Fits(Fail(d, o), row[d], alloc[d])
    BY <2>1, <1>0, <1>b, LeaveFits, ObjTypes DEF TypeOK
  <2>3. Put(d, "starting", o) \/ Put(d, "done", Fail(d, o))
    BY <1>3 DEF CreateContainer
  <2>4. UNCHANGED <<row, place, alloc, req>>
    BY <1>3 DEF CreateContainer
  <2> QED
    BY <2>1, <2>2, <2>3, <2>4, <1>0, PutKeeps
<1>4. ASSUME NEW d \in Dep, StartContainer(d) PROVE ClaimInv'
  <2> DEFINE o == tick[d].obj
             has == o.new.has \cup {"container_id", "internal_url"}
             up == With(o, "HEALTH_CHECK", has, {})
  <2>1. o \in Obj /\ Fits(o, row[d], alloc[d]) /\ Open(o)
    BY <1>a, <1>4 DEF StartContainer
  <2>2. has \in SUBSET Columns /\ ("reservation_id" \in has <=> Named(o.new))
    BY <2>1, <1>c DEF Columns, Named
  <2>3. up \in Obj /\ Fits(up, row[d], alloc[d])
    BY <2>1, <2>2, <1>b, KeepFits, ObjTypes DEF States
  <2>4. Fail(d, o) \in Obj /\ Fits(Fail(d, o), row[d], alloc[d])
    BY <2>1, <1>0, <1>b, LeaveFits, ObjTypes DEF TypeOK
  <2>5. Put(d, "done", up) \/ Put(d, "done", Fail(d, o))
    BY <1>4 DEF StartContainer
  <2>6. UNCHANGED <<row, place, alloc, req>>
    BY <1>4 DEF StartContainer
  <2> QED
    BY <2>3, <2>4, <2>5, <2>6, <1>0, PutKeeps
<1>5. ASSUME NEW d \in Dep, AwaitHealth(d) PROVE ClaimInv'
  <2> DEFINE o == tick[d].obj
             up == With(o, "RUNNING", o.new.has, {})
  <2>1. o \in Obj /\ Fits(o, row[d], alloc[d]) /\ Open(o)
    BY <1>a, <1>5 DEF AwaitHealth
  <2>2. up \in Obj /\ Fits(up, row[d], alloc[d])
    BY <2>1, <1>b, <1>c, KeepFits, ObjTypes DEF States, Named
  <2>3. Fail(d, o) \in Obj /\ Fits(Fail(d, o), row[d], alloc[d])
    BY <2>1, <1>0, <1>b, LeaveFits, ObjTypes DEF TypeOK
  <2>4. Put(d, "done", up) \/ Put(d, "done", Fail(d, o))
    BY <1>5 DEF AwaitHealth
  <2>5. UNCHANGED <<row, place, alloc, req>>
    BY <1>5 DEF AwaitHealth
  <2> QED
    BY <2>2, <2>3, <2>4, <2>5, <1>0, PutKeeps
<1>6. ASSUME NEW d \in Dep, AdvanceRaises(d) PROVE ClaimInv'
  <2> DEFINE o == With(tick[d].obj, "FAILED", tick[d].obj.new.has, {})
  <2>1. o \in Obj /\ Fits(o, row[d], alloc[d])
    BY <1>a, <1>b, <1>c, <1>6, KeepFits, ObjTypes DEF AdvanceRaises, States, Named
  <2> QED
    BY <2>1, <1>0, <1>6, PutKeeps DEF AdvanceRaises
<1>7. CASE TickCommit
  BY <1>0, <1>7, TickCommitEvolves, EvolveKeeps DEF TickCommit, EndTick
<1>8. CASE TickRollback
  BY <1>0, <1>8, IdleEvolves, EvolveKeeps DEF TickRollback, EndTick
<1> QED
  BY <1>1, <1>2, <1>3, <1>4, <1>5, <1>6, <1>7, <1>8 DEF Worker

\* A session that changes while the database stays as it is.
LEMMA RequestKeeps ==
    ASSUME ClaimInv, TypeOK', UNCHANGED <<row, place, alloc, tick>>,
           NEW c \in Client, NEW r \in ReqType, req' = [req EXCEPT ![c] = r],
           r.pc \in {"call", "commit"} =>
               /\ Fits(r.obj, row[r.d], alloc[r.d])
               /\ r.pc = "call" => Open(r.obj),
           r.pc = "place" => /\ row[r.d] = Unborn
                             /\ \A e \in Client : e # c => req[e].d # r.d,
           \A e \in Client : e # c /\ req[e].pc = "place" => req[e].d # r.d
    PROVE  ClaimInv'
<1>1. req'[c] = r /\ \A e \in Client : e # c => req'[e] = req[e]
  BY DEF ClaimInv, TypeOK
<1>2. \A e \in Client : ReqInv(e)'
  BY <1>1 DEF ClaimInv, ReqInv
<1>3. \A e \in Client : PlaceInv(e)'
  BY <1>1 DEF ClaimInv, PlaceInv
<1> QED
  BY <1>2, <1>3 DEF ClaimInv, GpusExclusive, TickInv

\* An agent's answer.
LEMMA AnsweredKeeps ==
    ASSUME ClaimInv, TypeOK', UNCHANGED <<row, place, alloc, tick>>,
           NEW c \in Client, req[c].pc = "call", NEW o \in Obj, Answered(c, o),
           Fits(o, row[req[c].d], alloc[req[c].d])
    PROVE  ClaimInv'
<1> DEFINE r == [req[c] EXCEPT !.pc = "commit", !.obj = o]
<1>1. req[c] \in ReqType /\ req[c].d \in Dep
  BY DEF ClaimInv, TypeOK, ReqType
<1>2. r \in ReqType /\ r.d = req[c].d /\ r.pc = "commit" /\ r.obj = o
  BY <1>1 DEF ReqType
<1>3. \A e \in Client : e # c /\ req[e].pc = "place" => req[e].d # r.d
  BY <1>2 DEF ClaimInv, PlaceInv
<1>4. req' = [req EXCEPT ![c] = r]
  BY DEF Answered
<1> HIDE DEF r
<1> QED
  BY <1>2, <1>3, <1>4, RequestKeeps

\* A request that loads an existing row.
LEMMA LoadKeeps ==
    ASSUME ClaimInv, TypeOK', UNCHANGED <<row, place, alloc, tick>>,
           NEW c \in Client, NEW d \in Dep, Exists(d),
           NEW r \in ReqType, Begin(c, r), r.d = d, r.pc \in {"call", "commit"},
           \/ r.obj = Loaded(row[d])
           \/ r.obj = Stopped(d, Loaded(row[d])) /\ r.pc = "commit"
    PROVE  ClaimInv'
<1>1. row[d] \in Row /\ row[d].state \notin {"NONE", "GONE"} /\ Loaded(row[d]) \in Obj
  BY ObjTypes DEF ClaimInv, TypeOK, Exists
<1>2. Fits(Loaded(row[d]), row[d], alloc[d]) /\ Open(Loaded(row[d]))
  BY <1>1, LoadFits
<1>3. Fits(Stopped(d, Loaded(row[d])), row[d], alloc[d])
  BY <1>1, <1>2, LeaveFits
<1>4. \A e \in Client : req[e].pc = "place" => req[e].d # d
  BY <1>1 DEF ClaimInv, PlaceInv, Unborn
<1> QED
  BY <1>2, <1>3, <1>4, RequestKeeps DEF Begin

\* The reservation is made: no session can have a copy of a row that was not there.
LEMMA ReserveKeeps ==
    ASSUME ClaimInv, TypeOK', NEW c \in Client, Reserve(c)
    PROVE  ClaimInv'
<1> DEFINE d == req[c].d
           at == req[c].at
<1>1. d \in Dep /\ at \in [node : Node \cup {None}, gpus : SUBSET Gpu]
  BY DEF ClaimInv, TypeOK, ReqType, Reserve
<1>2. row[d] = Unborn /\ \A e \in Client : e # c => req[e].d # d
  BY DEF ClaimInv, PlaceInv, Reserve
<1>3. /\ alloc'[d] = at.gpus /\ place'[d] = at
      /\ row'[d] = [state |-> "SCHEDULING",
                    has |-> IF at.gpus = {} THEN {} ELSE {"reservation_id"}]
  BY <1>1 DEF Reserve, ClaimInv, TypeOK
<1>4. \A e \in Dep : e # d => /\ row'[e] = row[e]
                              /\ alloc'[e] = alloc[e]
                              /\ place'[e] = place[e]
  BY DEF Reserve, ClaimInv, TypeOK
<1>5. \A e \in Dep : Sound(row[e], place[e], alloc[e])'
  BY <1>1, <1>3, <1>4 DEF ClaimInv, Sound, Named
<1>6. GpusExclusive'
  <2>1. \A e \in Dep : at.gpus \cap alloc[e] = {}
    BY DEF Reserve, IndexAdmits, Claimed
  <2> QED
    BY <1>1, <1>3, <1>4, <2>1 DEF ClaimInv, GpusExclusive
<1>7. \A e \in Dep : TickInv(e)'
  <2>1. tick[d].st = "out"
    BY <1>1, <1>2 DEF ClaimInv, TickInv, Fits, Unborn
  <2> QED
    BY <1>4, <2>1 DEF ClaimInv, TickInv, Reserve
<1>8. ASSUME NEW e \in Client PROVE PlaceInv(e)' /\ ReqInv(e)'
  <2>1. CASE e = c
    BY <2>1 DEF Reserve, End, Free, PlaceInv, ReqInv, ClaimInv, TypeOK
  <2>2. CASE e # c
    <3>1. req'[e] = req[e] /\ req[e].d # d
      BY <2>2, <1>2 DEF Reserve, End, ClaimInv, TypeOK
    <3>2. req[e].pc \in {"place", "call", "commit"} => req[e].d \in Dep
      BY DEF ClaimInv, TypeOK, ReqType
    <3>3. ReqInv(e)'
      BY <1>4, <3>1, <3>2 DEF ClaimInv, ReqInv
    <3>4. req'[c].d = None
      BY DEF Reserve, End, Free, ClaimInv, TypeOK
    <3>5. \A f \in Client : f # c => req'[f] = req[f]
      BY DEF Reserve, End, ClaimInv, TypeOK
    <3>6. PlaceInv(e)'
      BY <1>4, <3>1, <3>2, <3>4, <3>5, PlatformAssumption DEF ClaimInv, PlaceInv
    <3> QED
      BY <3>3, <3>6
  <2> QED
    BY <2>1, <2>2
<1> QED
  BY <1>5, <1>6, <1>7, <1>8 DEF ClaimInv

LEMMA AttachKeeps ==
    ASSUME ClaimInv, TypeOK', NEW d \in Dep, AttachExternal(d)
    PROVE  ClaimInv'
<1>1. row'[d] = [state |-> "RUNNING", has |-> {"internal_url"}]
  BY DEF AttachExternal, ClaimInv, TypeOK
<1>2. \A e \in Dep : e # d => row'[e] = row[e]
  BY DEF AttachExternal, ClaimInv, TypeOK
<1>3. row[d] = Unborn /\ \A c \in Client : req[c].d # d
  BY DEF AttachExternal, Fresh
<1>4. \A e \in Dep : Sound(row[e], place[e], alloc[e])'
  BY <1>1, <1>2, <1>3 DEF AttachExternal, ClaimInv, Sound, Named, Unborn
<1>5. tick[d].st = "out"
  BY <1>3 DEF ClaimInv, TickInv, Fits, Unborn
<1>6. \A e \in Dep : TickInv(e)'
  BY <1>2, <1>5 DEF AttachExternal, ClaimInv, TickInv
<1>7. \A c \in Client : req[c].pc \in {"place", "call", "commit"} => req[c].d \in Dep
  BY DEF ClaimInv, TypeOK, ReqType
<1>8. \A c \in Client : PlaceInv(c)' /\ ReqInv(c)'
  BY <1>2, <1>3, <1>7 DEF AttachExternal, ClaimInv, PlaceInv, ReqInv
<1> QED
  BY <1>4, <1>6, <1>8 DEF ClaimInv, AttachExternal, GpusExclusive

LEMMA ClaimOperators == ClaimInv /\ Operators => ClaimInv'
<1> SUFFICES ASSUME ClaimInv, Operators PROVE ClaimInv'
  OBVIOUS
<1>0. TypeOK /\ TypeOK'
  BY TypeOperators DEF ClaimInv
<1>a. Loaded(Unborn) \in Obj
  BY ObjTypes
<1>b. \A d \in Dep : Loaded(row[d]) \in Obj /\ Stopped(d, Loaded(row[d])) \in Obj
  BY <1>0, ObjTypes DEF TypeOK
<1>c. \A c \in Client : req[c].pc = "call" =>
          /\ req[c].d \in Dep /\ req[c].obj \in Obj
          /\ row[req[c].d] \in Row
          /\ Fits(req[c].obj, row[req[c].d], alloc[req[c].d])
          /\ Open(req[c].obj)
  BY <1>0 DEF ClaimInv, ReqInv, TypeOK, ReqType
<1>1. ASSUME NEW c \in Client, NEW d \in Dep, NEW n \in Node, NEW gpus \in SUBSET Gpu,
             PlanDeployment(c, d, n, gpus)
      PROVE  ClaimInv'
  <2> DEFINE r == [Free EXCEPT !.op = "deploy", !.pc = "place", !.d = d,
                               !.at = [node |-> n, gpus |-> gpus]]
  <2>1. r \in ReqType /\ r.pc = "place" /\ r.d = d
    BY <1>a DEF Free, ReqType
  <2>2. row[d] = Unborn /\ \A e \in Client : req[e].d # d
    BY <1>1 DEF PlanDeployment, Fresh
  <2>3. req' = [req EXCEPT ![c] = r] /\ UNCHANGED <<row, place, alloc, tick>>
    BY <1>1 DEF PlanDeployment, Begin
  <2> HIDE DEF r
  <2> QED
    BY <2>1, <2>2, <2>3, <1>0, RequestKeeps
<1>2. ASSUME NEW c \in Client, Reserve(c) PROVE ClaimInv'
  BY <1>0, <1>2, ReserveKeeps
<1>3. ASSUME NEW c \in Client, ReserveRefused(c) \/ ReconcileEnd(c) PROVE ClaimInv'
  BY <1>0, <1>3, IdleEvolves, EvolveKeeps DEF ReserveRefused, ReconcileEnd, End, TypeOK
<1>4. ASSUME NEW c \in Client, NEW d \in Dep, NEW op \in {"stop", "delete"},
             StopRead(c, d, op)
      PROVE  ClaimInv'
  <2> DEFINE r == [Free EXCEPT !.op = op, !.d = d,
                               !.pc = IF HasContainer(d) THEN "call" ELSE "commit",
                               !.obj = IF HasContainer(d) THEN Loaded(row[d])
                                       ELSE Stopped(d, Loaded(row[d]))]
  <2>1. r \in ReqType /\ r.d = d /\ r.pc \in {"call", "commit"}
    BY <1>b DEF Free, ReqType, NoPlace
  <2>2. \/ r.obj = Loaded(row[d])
        \/ r.obj = Stopped(d, Loaded(row[d])) /\ r.pc = "commit"
    BY DEF Free
  <2>3. Begin(c, r) /\ Exists(d) /\ UNCHANGED <<row, place, alloc, tick>>
    BY <1>4 DEF StopRead
  <2> HIDE DEF r
  <2> QED
    BY <2>1, <2>2, <2>3, <1>0, LoadKeeps
<1>5. ASSUME NEW c \in Client, NEW d \in Dep, DeleteRead(c, d) PROVE ClaimInv'
  <2> DEFINE r == [Free EXCEPT !.op = "delete", !.d = d, !.pc = "commit",
                               !.obj = Loaded(row[d])]
  <2>1. r \in ReqType /\ r.d = d /\ r.pc = "commit" /\ r.obj = Loaded(row[d])
    BY <1>b DEF Free, ReqType, NoPlace
  <2>2. Begin(c, r) /\ Exists(d) /\ UNCHANGED <<row, place, alloc, tick>>
    BY <1>5 DEF DeleteRead
  <2> HIDE DEF r
  <2> QED
    BY <2>1, <2>2, <1>0, LoadKeeps
<1>6. ASSUME NEW c \in Client, NEW d \in Dep, RestartRead(c, d) PROVE ClaimInv'
  <2> DEFINE r == [Free EXCEPT !.op = "restart", !.d = d, !.pc = "call",
                               !.obj = Loaded(row[d])]
  <2>1. r \in ReqType /\ r.d = d /\ r.pc = "call" /\ r.obj = Loaded(row[d])
    BY <1>b DEF Free, ReqType, NoPlace
  <2>2. Begin(c, r) /\ Exists(d) /\ UNCHANGED <<row, place, alloc, tick>>
    BY <1>6 DEF RestartRead
  <2> HIDE DEF r
  <2> QED
    BY <2>1, <2>2, <1>0, LoadKeeps
<1>7. ASSUME NEW c \in Client, StopContainer(c) PROVE ClaimInv'
  <2> DEFINE d == req[c].d
             o == Stopped(d, req[c].obj)
  <2>1. o \in Obj /\ Fits(o, row[d], alloc[d])
    BY <1>0, <1>7, <1>c, LeaveFits, ObjTypes DEF StopContainer, TypeOK
  <2>2. /\ req[c].pc = "call" /\ Answered(c, o)
        /\ UNCHANGED <<row, place, alloc, tick>>
    BY <1>7 DEF StopContainer
  <2> HIDE DEF o
  <2> QED
    BY <2>1, <2>2, <1>0, AnsweredKeeps
<1>8. ASSUME NEW c \in Client, RestartContainer(c) PROVE ClaimInv'
  <2> DEFINE d == req[c].d
             up == With(req[c].obj, "HEALTH_CHECK", req[c].obj.new.has, {})
             failed == Fail(d, req[c].obj)
  <2>1. failed \in Obj /\ Fits(failed, row[d], alloc[d])
    BY <1>0, <1>8, <1>c, LeaveFits, ObjTypes DEF RestartContainer, TypeOK
  <2>2. req[c].obj.new.has \in SUBSET Columns
    BY <1>8, <1>c DEF RestartContainer, Obj, Row
  <2>3. up \in Obj /\ Fits(up, row[d], alloc[d])
    BY <1>8, <1>c, <2>2, KeepFits, ObjTypes DEF RestartContainer, States, Named
  <2>4. /\ req[c].pc = "call" /\ (Answered(c, up) \/ Answered(c, failed))
        /\ UNCHANGED <<row, place, alloc, tick>>
    BY <1>8 DEF RestartContainer
  <2> HIDE DEF up, failed
  <2> QED
    BY <2>1, <2>3, <2>4, <1>0, AnsweredKeeps
<1>9. ASSUME NEW c \in Client, RequestCommit(c) PROVE ClaimInv'
  BY <1>0, <1>9, RequestCommitEvolves, EvolveKeeps DEF RequestCommit, End, TypeOK
<1>10. ASSUME NEW c \in Client, ReconcileRead(c) PROVE ClaimInv'
  <2> DEFINE r == [Free EXCEPT !.op = "reconcile", !.pc = "scan",
                               !.known = {d \in Dep : HasContainer(d)}]
  <2>1. r \in ReqType /\ r.pc = "scan" /\ r.d = None
    BY <1>a DEF Free, ReqType, NoPlace
  <2>2. req' = [req EXCEPT ![c] = r] /\ UNCHANGED <<row, place, alloc, tick>>
    BY <1>10 DEF ReconcileRead, Begin
  <2>3. \A e \in Client : req[e].pc = "place" => req[e].d # None
    BY <1>0, PlatformAssumption DEF TypeOK, ReqType
  <2> HIDE DEF r
  <2> QED
    BY <2>1, <2>2, <2>3, <1>0, RequestKeeps
<1>11. ASSUME NEW c \in Client, NEW d \in Dep, ReconcileRemove(c, d) PROVE ClaimInv'
  BY <1>0, <1>11, IdleEvolves, EvolveKeeps DEF ReconcileRemove
<1>12. ASSUME NEW d \in Dep, AttachExternal(d) PROVE ClaimInv'
  BY <1>0, <1>12, AttachKeeps
<1>13. ASSUME NEW n \in Node, DeleteNode(n) PROVE ClaimInv'
  BY <1>0, <1>13, DeleteNodeEvolves, EvolveKeeps DEF DeleteNode
<1> QED
  BY <1>1, <1>2, <1>3, <1>4, <1>5, <1>6, <1>7, <1>8, <1>9, <1>10, <1>11, <1>12, <1>13
  DEF Operators

LEMMA ClaimStep == ClaimInv /\ [Next]_vars => ClaimInv'
<1> SUFFICES ASSUME ClaimInv, [Next]_vars PROVE ClaimInv'
  OBVIOUS
<1>0. TypeOK'
  BY TypeStep DEF ClaimInv
<1>1. CASE Crash
  BY <1>0, <1>1, IdleEvolves, EvolveKeeps DEF Crash, EndTick
<1>2. CASE UNCHANGED vars
  BY <1>0, <1>2, IdleEvolves, EvolveKeeps DEF vars
<1> QED
  BY <1>1, <1>2, ClaimWorker, ClaimOperators DEF Next

LEMMA ClaimCorrect == Spec => []ClaimInv
BY ClaimInit, ClaimStep, PTL DEF Spec

\* No device is ever claimed by two reservations, whatever sessions interleave,
\* fail or roll back (reserve, uq_gpu_allocations_active).
THEOREM Exclusion == Spec => []GpusExclusive
<1>1. ClaimInv => GpusExclusive
  BY DEF ClaimInv
<1> QED
  BY <1>1, ClaimCorrect, PTL

\* A row that names its reservation has its devices, all of them and no others,
\* although sessions write rows they read long before (_fail, stop_deployment).
THEOREM Backing == Spec => []ClaimBacksRow
<1>1. ClaimInv => ClaimBacksRow
  BY DEF ClaimInv, ClaimBacksRow, Sound, Named, HoldsClaim
<1> QED
  BY <1>1, ClaimCorrect, PTL

-----------------------------------------------------------------------------
(* Refinement.                                                             *)

\* A step that makes no reservation gives leases back, possibly none.
LEMMA EvolveRefines ==
    ASSUME ClaimInv, \A d \in Dep : Evolves(d)
    PROVE  [Claims!Next]_Leases
<1> DEFINE deps == {d \in Dep : alloc[d] # {} /\ alloc'[d] = {}}
<1>1. \A d \in deps : Phase(d) = "held"
  BY DEF ClaimInv, Sound, Phase
<1>2. \A d \in deps : Phase(d)' = "released"
  BY <1>1 DEF Evolves, Phase
<1>3. \A d \in Dep \ deps : alloc'[d] = alloc[d] /\ Phase(d)' = Phase(d)
  BY DEF Evolves, Phase
<1>4. Leases' = [d \in Dep |-> IF d \in deps THEN Claims!NoLease("released") ELSE Leases[d]]
  BY <1>2, <1>3 DEF Leases, Claims!NoLease
<1>5. Claims!GiveBack(deps)
  BY <1>1, <1>4 DEF Claims!GiveBack, Leases, Phase
<1>6. \E held \in SUBSET Dep : Claims!GiveBack(held)
  <2>1. deps \in SUBSET Dep
    OBVIOUS
  <2> HIDE DEF deps
  <2> QED
    BY <1>5, <2>1 DEF Claims!GiveBack
<1>7. Claims!Next
  BY <1>6 DEF Claims!Next, Claims!GiveBack, Claims!Grant, Claims!Decline
<1> QED
  BY <1>7

\* The reservation of a deployment that was never there grants its lease.
LEMMA ReserveRefines ==
    ASSUME ClaimInv, NEW c \in Client, Reserve(c)
    PROVE  Claims!Next
<1> DEFINE d == req[c].d
           gpus == req[c].at.gpus
<1>1. d \in Dep /\ gpus \in SUBSET Gpu
  BY DEF ClaimInv, TypeOK, ReqType, Reserve
<1>2. row[d].state = "NONE" /\ row'[d].state = "SCHEDULING" /\ alloc'[d] = gpus
  BY <1>1 DEF ClaimInv, PlaceInv, Reserve, TypeOK, Unborn
<1>3. Leases[d].phase = "unused"
  BY <1>1, <1>2 DEF Leases, Phase
<1>4. \A e \in Dep : e # d => row'[e] = row[e] /\ alloc'[e] = alloc[e]
  BY DEF Reserve, ClaimInv, TypeOK
<1>5. \A e \in Dep : gpus \cap alloc[e] = {}
  BY DEF Reserve, IndexAdmits, Claimed
<1> DEFINE lease == [phase |-> IF gpus # {} THEN "held" ELSE "released", gpus |-> gpus]
<1>6. Leases' = [Leases EXCEPT ![d] = lease]
  BY <1>1, <1>2, <1>4 DEF Leases, Phase
<1> HIDE DEF d, gpus
<1>7. CASE gpus # {}
  <2>1. lease = [phase |-> "held", gpus |-> gpus]
    BY <1>7
  <2>2. gpus \cap Claims!Leased = {}
    BY <1>5 DEF Claims!Leased, Leases
  <2>3. Claims!Grant(d, gpus)
    BY <1>3, <1>6, <1>7, <2>1, <2>2 DEF Claims!Grant
  <2>4. \E e \in Dep, g \in SUBSET Gpu : Claims!Grant(e, g)
    BY <1>1, <2>3 DEF Claims!Grant
  <2> QED
    BY <2>4 DEF Claims!Next, Claims!Grant, Claims!Decline, Claims!GiveBack
<1>8. CASE gpus = {}
  <2>1. lease = Claims!NoLease("released")
    BY <1>8 DEF Claims!NoLease
  <2>2. Claims!Decline(d)
    BY <1>3, <1>6, <2>1 DEF Claims!Decline
  <2>3. \E e \in Dep : Claims!Decline(e)
    BY <1>1, <2>2 DEF Claims!Decline
  <2> QED
    BY <2>3 DEF Claims!Next, Claims!Grant, Claims!Decline, Claims!GiveBack
<1> QED
  BY <1>7, <1>8

LEMMA AttachRefines ==
    ASSUME ClaimInv, NEW d \in Dep, AttachExternal(d)
    PROVE  Claims!Next
<1>1. row[d] = Unborn /\ alloc[d] = {}
  BY DEF AttachExternal, Fresh, ClaimInv, Sound, Unborn
<1>2. row'[d].state = "RUNNING" /\ \A e \in Dep : e # d => row'[e] = row[e]
  BY DEF AttachExternal, ClaimInv, TypeOK
<1>3. Leases[d].phase = "unused"
  BY <1>1 DEF Leases, Phase, Unborn
<1>4. Leases' = [Leases EXCEPT ![d] = Claims!NoLease("released")]
  BY <1>1, <1>2 DEF Leases, Phase, Claims!NoLease, AttachExternal
<1>5. \E e \in Dep : Claims!Decline(e)
  BY <1>3, <1>4 DEF Claims!Decline
<1> QED
  BY <1>5 DEF Claims!Next, Claims!Grant, Claims!Decline, Claims!GiveBack

LEMMA StepRefines == ClaimInv /\ [Next]_vars => [Claims!Next]_Leases
<1> SUFFICES ASSUME ClaimInv, [Next]_vars PROVE [Claims!Next]_Leases
  OBVIOUS
<1>1. CASE UNCHANGED <<row, alloc>>
  BY <1>1, IdleEvolves, EvolveRefines
<1>2. CASE TickCommit
  BY <1>2, TickCommitEvolves, EvolveRefines
<1>3. ASSUME NEW c \in Client, RequestCommit(c) PROVE [Claims!Next]_Leases
  BY <1>3, RequestCommitEvolves, EvolveRefines
<1>4. ASSUME NEW n \in Node, DeleteNode(n) PROVE [Claims!Next]_Leases
  BY <1>4, DeleteNodeEvolves, EvolveRefines
<1>5. ASSUME NEW c \in Client, Reserve(c) PROVE [Claims!Next]_Leases
  BY <1>5, ReserveRefines
<1>6. ASSUME NEW d \in Dep, AttachExternal(d) PROVE [Claims!Next]_Leases
  BY <1>6, AttachRefines
<1>7. Worker => TickCommit \/ UNCHANGED <<row, alloc>>
  BY DEF Worker, TickLoad, NodeMissing, CreateContainer, StartContainer, AwaitHealth,
         AdvanceRaises, TickRollback
<1>8. Operators => \/ UNCHANGED <<row, alloc>>
                   \/ \E c \in Client : Reserve(c) \/ RequestCommit(c)
                   \/ \E d \in Dep : AttachExternal(d)
                   \/ \E n \in Node : DeleteNode(n)
  BY DEF Operators, PlanDeployment, ReserveRefused, StopRead, DeleteRead, RestartRead,
         ReconcileRemove, StopContainer, RestartContainer, ReconcileRead, ReconcileEnd
<1>9. Crash \/ UNCHANGED vars => UNCHANGED <<row, alloc>>
  BY DEF Crash, vars
<1> QED
  BY <1>1, <1>2, <1>3, <1>4, <1>5, <1>6, <1>7, <1>8, <1>9 DEF Next

\* The database, the worker and the operators' requests together keep the promise
\* of GpuClaims: a lease is granted once and whole, on free devices, is given back
\* whole and never regained.
THEOREM Refinement == Spec => ImplementsClaims
<1>1. Init => Claims!Init
  BY DEF Init, Claims!Init, Claims!NoLease, Leases, Phase, Unborn
<1> QED
  BY <1>1, StepRefines, ClaimCorrect, PTL DEF Spec, ImplementsClaims, Claims!Spec

-----------------------------------------------------------------------------
(* No stranded claim. The worker's except branch marks a row FAILED and keeps *)
(* its claim, so this holds of the code only while advance() raises nothing it *)
(* does not handle itself.                                                 *)

Live == {"SCHEDULING", "HEALTH_CHECK", "RUNNING"}

\* A copy that still names the reservation says that the deployment is live.
KeepsLive(o) == Named(o.new) => o.new.state \in Live

StrandInv ==
    /\ NoStrandedClaim
    /\ \A d \in Dep : tick[d].st \in {"todo", "done"} => KeepsLive(tick[d].obj)
    /\ \A c \in Client : req[c].pc = "commit" =>
           /\ KeepsLive(req[c].obj)
           /\ req[c].op = "delete" => ~Named(req[c].obj.new)

\* What a commit of such a copy leaves claimed belongs to a live row.
LEMMA FlushLive ==
    ASSUME NEW r \in Row, NEW p, NEW a \in SUBSET Gpu, NEW o \in Obj,
           Sound(r, p, a), Fits(o, r, a), KeepsLive(o),
           a # {} => Named(r) /\ r.state \in Live
    PROVE  /\ a \ o.freed # {} => /\ Named(Flushed(o, r))
                                  /\ Flushed(o, r).state \in Live
           /\ ~Named(o.new) => a \ o.freed = {}
<1>1. Named(Flushed(o, r)) <=> Named(r) /\ Named(o.new)
  BY DEF Fits, Flushed, Named, Obj, Row
<1>2. ~Named(o.new) => a \ o.freed = {}
  BY DEF Fits
<1>3. CASE Named(o.new) /\ Named(r)
  <2>1. o.new.state \in Live /\ r.state \in Live
    BY <1>3 DEF KeepsLive, Sound
  <2>2. Flushed(o, r).state \in {o.new.state, r.state}
    BY DEF Flushed
  <2> QED
    BY <1>1, <1>2, <1>3, <2>1, <2>2
<1> QED
  BY <1>2, <1>3

\* Released or loaded copies keep no claim of a deployment that is not live.
LEMMA LeaveLive ==
    \A d \in Dep, o \in Obj : KeepsLive(Fail(d, o)) /\ KeepsLive(Stopped(d, o))
                              /\ ~Named(Stopped(d, o).new)
BY DEF KeepsLive, Named, Fail, Stopped, With, Unreserved

LEMMA StrandWorker ==
    ASSUME "worker_exception" \notin Faults, ClaimInv, StrandInv, Worker
    PROVE  StrandInv'
<1>0. TypeOK
  BY DEF ClaimInv
<1>a. \A d \in Dep : HoldsClaim(d) => row[d].state \in Live
  BY DEF ClaimInv, Sound, Named, HoldsClaim, StrandInv, NoStrandedClaim, Live
<1>b. ASSUME NEW d \in Dep, NEW st, NEW o, Put(d, st, o), UNCHANGED <<row, alloc, req>>,
             st # "starting" => KeepsLive(o)
      PROVE  StrandInv'
  <2>1. \A e \in Dep : tick'[e] = IF e = d THEN [st |-> st, obj |-> o] ELSE tick[e]
    BY <1>0, <1>b DEF Put, TypeOK
  <2>2. \A e \in Dep : tick'[e].st \in {"todo", "done"} => KeepsLive(tick'[e].obj)
    BY <2>1, <1>b DEF StrandInv
  <2> QED
    BY <2>2, <1>b DEF StrandInv, NoStrandedClaim, HoldsClaim
<1>1. CASE TickLoad
  <2>1. \A d \in Dep : tick'[d].st = "todo" => tick'[d].obj = Loaded(row[d])
    BY <1>1 DEF TickLoad, Absent
  <2>2. \A d \in Dep : tick'[d].st # "done"
    BY <1>1 DEF TickLoad, Absent
  <2>3. \A d \in Dep : KeepsLive(Loaded(row[d]))
    BY <1>a DEF KeepsLive, Loaded, Named, HoldsClaim
  <2>4. \A d \in Dep : tick'[d].st \in {"todo", "done"} => KeepsLive(tick'[d].obj)
    BY <2>1, <2>2, <2>3
  <2> QED
    BY <2>4, <1>1 DEF TickLoad, StrandInv, NoStrandedClaim, HoldsClaim
<1>2. ASSUME NEW d \in Dep, NodeMissing(d) PROVE StrandInv'
  BY <1>0, <1>b, <1>2, LeaveLive DEF NodeMissing, TypeOK
<1>3. ASSUME NEW d \in Dep, CreateContainer(d) PROVE StrandInv'
  <2> DEFINE o == With(tick[d].obj, "CREATING", tick[d].obj.new.has, {})
  <2>1. o \in Obj
    BY <1>0, ObjTypes DEF TypeOK, Obj, Row, States
  <2>2. Put(d, "starting", o) \/ Put(d, "done", Fail(d, o))
    BY <1>3 DEF CreateContainer
  <2>3. UNCHANGED <<row, alloc, req>>
    BY <1>3 DEF CreateContainer
  <2> HIDE DEF o
  <2> QED
    BY <2>1, <2>2, <2>3, <1>b, LeaveLive
<1>4. ASSUME NEW d \in Dep, StartContainer(d) PROVE StrandInv'
  <2> DEFINE o == tick[d].obj
             up == With(o, "HEALTH_CHECK",
                        o.new.has \cup {"container_id", "internal_url"}, {})
  <2>1. o \in Obj
    BY <1>0 DEF TypeOK
  <2>2. KeepsLive(up)
    BY DEF KeepsLive, With, Live
  <2>3. Put(d, "done", up) \/ Put(d, "done", Fail(d, o))
    BY <1>4 DEF StartContainer
  <2>4. UNCHANGED <<row, alloc, req>>
    BY <1>4 DEF StartContainer
  <2> HIDE DEF o, up
  <2> QED
    BY <2>1, <2>2, <2>3, <2>4, <1>b, LeaveLive
<1>5. ASSUME NEW d \in Dep, AwaitHealth(d) PROVE StrandInv'
  <2> DEFINE o == tick[d].obj
             up == With(o, "RUNNING", o.new.has, {})
  <2>1. o \in Obj
    BY <1>0 DEF TypeOK
  <2>2. KeepsLive(up)
    BY DEF KeepsLive, With, Live
  <2>3. Put(d, "done", up) \/ Put(d, "done", Fail(d, o))
    BY <1>5 DEF AwaitHealth
  <2>4. UNCHANGED <<row, alloc, req>>
    BY <1>5 DEF AwaitHealth
  <2> HIDE DEF o, up
  <2> QED
    BY <2>1, <2>2, <2>3, <2>4, <1>b, LeaveLive
<1>6. \A d \in Dep : ~AdvanceRaises(d)
  BY DEF AdvanceRaises
<1>7. CASE TickCommit
  <2>1. ASSUME NEW d \in Dep, alloc'[d] # {}
        PROVE  "reservation_id" \in row'[d].has /\ row'[d].state \in Live
    <3> DEFINE o == tick[d].obj
    <3>1. alloc[d] # {} /\ HoldsClaim(d) /\ row[d].state \in Live
      BY <2>1, <1>7, <1>a DEF TickCommit, StrandInv, NoStrandedClaim
    <3>2. CASE d \notin Written
      BY <3>1, <3>2, <1>7 DEF TickCommit, HoldsClaim
    <3>3. CASE d \in Written
      <4>1. d \in InTick
        BY <3>3 DEF Written
      <4>2. tick[d].st = "done" /\ o \in Obj /\ Fits(o, row[d], alloc[d]) /\ KeepsLive(o)
        BY <4>1, <1>0, <1>7
        DEF TickCommit, TickFinished, InTick, ClaimInv, TickInv, StrandInv, TypeOK
      <4>3. row'[d] = Flushed(o, row[d]) /\ alloc'[d] = alloc[d] \ o.freed
        BY <4>1, <3>3, <1>7 DEF TickCommit
      <4>4. /\ row[d] \in Row /\ alloc[d] \in SUBSET Gpu
            /\ Sound(row[d], place[d], alloc[d]) /\ Named(row[d])
        BY <1>0, <3>1 DEF TypeOK, ClaimInv, HoldsClaim, Named
      <4> HIDE DEF o
      <4>5. alloc[d] \ o.freed # {} => /\ Named(Flushed(o, row[d]))
                                       /\ Flushed(o, row[d]).state \in Live
        BY ONLY <3>1, <4>2, <4>4, FlushLive
      <4> QED
        BY <2>1, <4>3, <4>5 DEF Named
    <3> QED
      BY <3>2, <3>3
  <2> QED
    BY <2>1, <1>7 DEF TickCommit, EndTick, Absent, StrandInv, NoStrandedClaim, HoldsClaim, Live
<1>8. CASE TickRollback
  BY <1>8 DEF TickRollback, EndTick, Absent, StrandInv, NoStrandedClaim, HoldsClaim
<1> QED
  BY <1>1, <1>2, <1>3, <1>4, <1>5, <1>6, <1>7, <1>8 DEF Worker

\* A request that changes nothing but its own session.
LEMMA StrandRequest ==
    ASSUME ClaimInv, StrandInv, UNCHANGED <<row, alloc, tick>>,
           NEW c \in Client, \A e \in Client : e # c => req'[e] = req[e],
           req'[c].pc = "commit" => /\ KeepsLive(req'[c].obj)
                                    /\ req'[c].op = "delete" => ~Named(req'[c].obj.new)
    PROVE  StrandInv'
<1>1. \A e \in Client : req'[e].pc = "commit" =>
          /\ KeepsLive(req'[e].obj)
          /\ req'[e].op = "delete" => ~Named(req'[e].obj.new)
  BY DEF StrandInv
<1> QED
  BY <1>1 DEF StrandInv, NoStrandedClaim, HoldsClaim

LEMMA StrandOperators == ClaimInv /\ StrandInv /\ Operators => StrandInv'
<1> SUFFICES ASSUME ClaimInv, StrandInv, Operators PROVE StrandInv'
  OBVIOUS
<1>0. TypeOK
  BY DEF ClaimInv
<1>a. \A d \in Dep : HoldsClaim(d) => row[d].state \in Live
  BY DEF ClaimInv, Sound, Named, HoldsClaim, StrandInv, NoStrandedClaim, Live
<1>b. \A c \in Client : \A r :
          Begin(c, r) \/ req' = [req EXCEPT ![c] = r] =>
          req'[c] = r /\ \A e \in Client : e # c => req'[e] = req[e]
  BY <1>0 DEF Begin, TypeOK
<1>1. ASSUME NEW c \in Client, NEW d \in Dep, NEW n \in Node, NEW gpus \in SUBSET Gpu,
             PlanDeployment(c, d, n, gpus)
      PROVE  StrandInv'
  BY <1>0, <1>1, StrandRequest DEF PlanDeployment, Begin, Free, TypeOK
<1>2. ASSUME NEW c \in Client, Reserve(c) PROVE StrandInv'
  <2> DEFINE d == req[c].d
             gpus == req[c].at.gpus
  <2>1. d \in Dep
    BY <1>0, <1>2 DEF Reserve, TypeOK, ReqType
  <2>2. /\ row'[d].state = "SCHEDULING" /\ alloc'[d] = gpus
        /\ gpus # {} => "reservation_id" \in row'[d].has
    BY <1>0, <1>2, <2>1 DEF Reserve, TypeOK
  <2>3. \A e \in Dep : e # d => row'[e] = row[e] /\ alloc'[e] = alloc[e]
    BY <1>0, <1>2 DEF Reserve, TypeOK
  <2>4. \A e \in Client : req'[e].pc = "commit" => req'[e] = req[e]
    BY <1>0, <1>2 DEF Reserve, End, Free, TypeOK
  <2>5. NoStrandedClaim'
    BY <2>2, <2>3 DEF StrandInv, NoStrandedClaim, HoldsClaim
  <2> QED
    BY <2>4, <2>5, <1>2 DEF Reserve, StrandInv
<1>3. ASSUME NEW c \in Client, ReserveRefused(c) \/ ReconcileEnd(c) PROVE StrandInv'
  BY <1>0, <1>3, StrandRequest DEF ReserveRefused, ReconcileEnd, End, Free, TypeOK
<1>4. ASSUME NEW c \in Client, NEW d \in Dep, NEW op \in {"stop", "delete"},
             StopRead(c, d, op)
      PROVE  StrandInv'
  <2> DEFINE r == [Free EXCEPT !.op = op, !.d = d,
                               !.pc = IF HasContainer(d) THEN "call" ELSE "commit",
                               !.obj = IF HasContainer(d) THEN Loaded(row[d])
                                       ELSE Stopped(d, Loaded(row[d]))]
  <2>1. r.pc = "commit" => r.obj = Stopped(d, Loaded(row[d]))
    BY DEF Free
  <2>2. Loaded(row[d]) \in Obj
    BY <1>0, ObjTypes DEF TypeOK
  <2>3. Begin(c, r) /\ UNCHANGED <<row, alloc, tick>>
    BY <1>4 DEF StopRead
  <2> HIDE DEF r
  <2> QED
    BY <2>1, <2>2, <2>3, <1>b, LeaveLive, StrandRequest
<1>5. ASSUME NEW c \in Client, NEW d \in Dep, DeleteRead(c, d) PROVE StrandInv'
  <2> DEFINE r == [Free EXCEPT !.op = "delete", !.d = d, !.pc = "commit",
                               !.obj = Loaded(row[d])]
  <2>1. ~HoldsClaim(d)
    BY <1>5, <1>a DEF DeleteRead, Settled, Live
  <2>2. KeepsLive(Loaded(row[d])) /\ ~Named(Loaded(row[d]).new)
    BY <2>1 DEF KeepsLive, Named, Loaded, HoldsClaim
  <2>3. r.obj = Loaded(row[d])
    BY DEF Free
  <2>4. Begin(c, r) /\ UNCHANGED <<row, alloc, tick>>
    BY <1>5 DEF DeleteRead
  <2> HIDE DEF r
  <2> QED
    BY <2>2, <2>3, <2>4, <1>b, StrandRequest
<1>6. ASSUME NEW c \in Client, NEW d \in Dep, RestartRead(c, d) PROVE StrandInv'
  BY <1>0, <1>6, StrandRequest DEF RestartRead, Begin, Free, TypeOK
<1>7. ASSUME NEW c \in Client, NEW o \in Obj, Answered(c, o), req[c].pc = "call",
             KeepsLive(o), req[c].op = "delete" => ~Named(o.new),
             UNCHANGED <<row, alloc, tick>>
      PROVE  StrandInv'
  <2> DEFINE r == [req[c] EXCEPT !.pc = "commit", !.obj = o]
  <2>1. r.obj = o /\ r.op = req[c].op
    BY <1>0 DEF TypeOK, ReqType
  <2>2. req' = [req EXCEPT ![c] = r]
    BY <1>7 DEF Answered
  <2> HIDE DEF r
  <2> QED
    BY <2>1, <2>2, <1>7, <1>b, StrandRequest
<1>c. \A c \in Client : req[c].pc = "call" => req[c].d \in Dep /\ req[c].obj \in Obj
  BY <1>0 DEF TypeOK, ReqType
<1>8. ASSUME NEW c \in Client, StopContainer(c) PROVE StrandInv'
  <2> DEFINE o == Stopped(req[c].d, req[c].obj)
  <2>1. o \in Obj /\ KeepsLive(o) /\ ~Named(o.new)
    BY <1>0, <1>c, <1>8, LeaveLive, ObjTypes DEF StopContainer, TypeOK
  <2>2. Answered(c, o) /\ req[c].pc = "call" /\ UNCHANGED <<row, alloc, tick>>
    BY <1>8 DEF StopContainer
  <2> HIDE DEF o
  <2> QED
    BY <2>1, <2>2, <1>7
<1>9. ASSUME NEW c \in Client, RestartContainer(c) PROVE StrandInv'
  <2> DEFINE up == With(req[c].obj, "HEALTH_CHECK", req[c].obj.new.has, {})
             failed == Fail(req[c].d, req[c].obj)
  <2>1. up \in Obj /\ KeepsLive(up)
    BY <1>c, <1>9, ObjTypes DEF RestartContainer, KeepsLive, With, Live, Obj, Row, States
  <2>2. failed \in Obj /\ KeepsLive(failed)
    BY <1>0, <1>c, <1>9, LeaveLive, ObjTypes DEF RestartContainer, TypeOK
  <2>3. /\ Answered(c, up) \/ Answered(c, failed)
        /\ req[c].pc = "call" /\ req[c].op = "restart" /\ UNCHANGED <<row, alloc, tick>>
    BY <1>9 DEF RestartContainer
  <2> HIDE DEF up, failed
  <2> QED
    BY <2>1, <2>2, <2>3, <1>7
<1>10. ASSUME NEW c \in Client, RequestCommit(c) PROVE StrandInv'
  <2> DEFINE d == req[c].d
             o == req[c].obj
  <2>1. /\ d \in Dep /\ o \in Obj /\ Fits(o, row[d], alloc[d])
        /\ KeepsLive(o) /\ (req[c].op = "delete" => ~Named(o.new))
        /\ row[d] \in Row /\ alloc[d] \in SUBSET Gpu /\ Sound(row[d], place[d], alloc[d])
    BY <1>0, <1>10 DEF RequestCommit, ClaimInv, ReqInv, StrandInv, TypeOK, ReqType
  <2>2. \A e \in Dep : e # d => row'[e] = row[e] /\ alloc'[e] = alloc[e]
    BY <1>0, <1>10 DEF RequestCommit, TypeOK
  <2>3. \A e \in Client : req'[e].pc = "commit" => req'[e] = req[e]
    BY <1>0, <1>10 DEF RequestCommit, End, Free, TypeOK
  <2>4. alloc'[d] # {} => "reservation_id" \in row'[d].has /\ row'[d].state \in Live
    <3>1. alloc[d] # {} => Named(row[d]) /\ row[d].state \in Live
      BY <2>1 DEF StrandInv, NoStrandedClaim, HoldsClaim, Named, Live
    <3>2. CASE ~Exists(d)
      BY <3>1, <3>2, <1>10 DEF RequestCommit, Named
    <3>3. CASE Exists(d)
      <4>1. alloc'[d] = alloc[d] \ o.freed
        BY <1>0, <2>1, <3>3, <1>10 DEF RequestCommit, TypeOK
      <4>2. req[c].op # "delete" => row'[d] = Flushed(o, row[d])
        BY <1>0, <2>1, <3>3, <1>10 DEF RequestCommit, TypeOK
      <4> HIDE DEF d, o
      <4>3. /\ alloc[d] \ o.freed # {} => /\ Named(Flushed(o, row[d]))
                                          /\ Flushed(o, row[d]).state \in Live
            /\ ~Named(o.new) => alloc[d] \ o.freed = {}
        BY ONLY <2>1, <3>1, FlushLive
      <4> QED
        BY <2>1, <4>1, <4>2, <4>3 DEF Named
    <3> QED
      BY <3>2, <3>3
  <2>5. NoStrandedClaim'
    BY <2>2, <2>4 DEF StrandInv, NoStrandedClaim, HoldsClaim, Live
  <2> QED
    BY <2>3, <2>5, <1>10 DEF RequestCommit, StrandInv
<1>11. ASSUME NEW c \in Client, ReconcileRead(c) PROVE StrandInv'
  BY <1>0, <1>11, StrandRequest DEF ReconcileRead, Begin, Free, TypeOK
<1>12. ASSUME NEW c \in Client, NEW d \in Dep, ReconcileRemove(c, d) PROVE StrandInv'
  BY <1>12 DEF ReconcileRemove, StrandInv, NoStrandedClaim, HoldsClaim
<1>13. ASSUME NEW d \in Dep, AttachExternal(d) PROVE StrandInv'
  <2>1. alloc[d] = {}
    BY <1>13 DEF AttachExternal, Fresh, ClaimInv, Sound, Unborn
  <2>2. \A e \in Dep : e # d => row'[e] = row[e]
    BY <1>0, <1>13 DEF AttachExternal, TypeOK
  <2> QED
    BY <2>1, <2>2, <1>13 DEF AttachExternal, StrandInv, NoStrandedClaim, HoldsClaim
<1>14. ASSUME NEW n \in Node, DeleteNode(n) PROVE StrandInv'
  <2>1. \A d \in Dep : alloc'[d] # {} => alloc'[d] = alloc[d] /\ row'[d] = row[d]
    BY <1>14 DEF DeleteNode
  <2> QED
    BY <2>1, <1>14 DEF DeleteNode, StrandInv, NoStrandedClaim, HoldsClaim
<1> QED
  BY <1>1, <1>2, <1>3, <1>4, <1>5, <1>6, <1>8, <1>9, <1>10, <1>11, <1>12, <1>13, <1>14
  DEF Operators

LEMMA StrandInit == Init => StrandInv
BY DEF Init, StrandInv, NoStrandedClaim, Absent, Free

LEMMA StrandStep ==
    ASSUME "worker_exception" \notin Faults
    PROVE  ClaimInv /\ StrandInv /\ [Next]_vars => StrandInv'
<1>1. StrandInv /\ Crash => StrandInv'
  BY DEF Crash, EndTick, Absent, Free, StrandInv, NoStrandedClaim, HoldsClaim
<1>2. StrandInv /\ UNCHANGED vars => StrandInv'
  BY DEF vars, StrandInv, NoStrandedClaim, HoldsClaim
<1> QED
  BY <1>1, <1>2, StrandWorker, StrandOperators DEF Next

\* Devices are claimed only for deployments that are coming up or serving: every
\* way out of those states, by whichever session commits last, gives them back.
THEOREM NothingStranded ==
    ASSUME "worker_exception" \notin Faults
    PROVE  Spec => []NoStrandedClaim
<1>1. StrandInv => NoStrandedClaim
  BY DEF StrandInv
<1>2. ClaimInv /\ StrandInv /\ [Next]_vars => StrandInv'
  BY StrandStep
<1> QED
  BY <1>1, <1>2, StrandInit, ClaimCorrect, PTL DEF Spec

-----------------------------------------------------------------------------
(* Devices of active deployments. A stop releases what a worker's copy still *)
(* drives on, and a restart drives on what was released; with neither, the *)
(* tick that drives a row is the only session that changes it until it is  *)
(* deleted.                                                                *)

Holding == Active \cup {"SCHEDULING"}

\* The row is as the tick read it, and what is not failed was not released.
HoldInv ==
    /\ \A d \in Dep : row[d].state \in Holding => alloc[d] = place[d].gpus
    /\ \A d \in Dep : tick[d].st # "out" =>
          /\ row[d].state # "GONE" => tick[d].obj.old = row[d]
          /\ tick[d].obj.old.state \in Holding
          /\ tick[d].obj.new.state \in Holding => tick[d].obj.freed = {}
    /\ \A c \in Client : req[c].pc \in {"call", "commit"} => req[c].op = "delete"

LEMMA HoldInit == Init => HoldInv
BY DEF Init, HoldInv, Unborn, Absent, Free, Holding, Active

\* The worker drives a row on.
LEMMA HoldPut ==
    ASSUME TypeOK, HoldInv, UNCHANGED <<row, place, alloc, req>>,
           NEW d \in Dep, NEW st, NEW o, Put(d, st, o), tick[d].st # "out",
           o.old = tick[d].obj.old, o.new.state \in Holding => o.freed = {}
    PROVE  HoldInv'
<1>1. \A e \in Dep : tick'[e] = IF e = d THEN [st |-> st, obj |-> o] ELSE tick[e]
  BY DEF TypeOK, Put
<1> QED
  BY <1>1 DEF HoldInv

\* A request reads a row, or its answer comes.
LEMMA HoldRequest ==
    ASSUME HoldInv, UNCHANGED <<row, place, alloc, tick>>,
           NEW c \in Client, \A e \in Client : e # c => req'[e] = req[e],
           req'[c].pc \in {"call", "commit"} => req'[c].op = "delete"
    PROVE  HoldInv'
BY DEF HoldInv

LEMMA HoldWorker == ClaimInv /\ HoldInv /\ Worker => HoldInv'
<1> SUFFICES ASSUME ClaimInv, HoldInv, Worker PROVE HoldInv'
  OBVIOUS
<1>0. TypeOK
  BY DEF ClaimInv
<1>a. \A d \in Dep : /\ Fail(d, tick[d].obj).old = tick[d].obj.old
                     /\ Fail(d, tick[d].obj).new.state = "FAILED"
  BY DEF Fail, With
<1>b. "FAILED" \notin Holding
  BY DEF Holding, Active
<1>c. \A d \in Dep : tick[d].st \in {"out", "todo", "starting", "done"}
  BY <1>0 DEF TypeOK
<1>1. CASE TickLoad
  <2>1. ASSUME NEW d \in Dep, tick'[d].st # "out"
        PROVE  /\ tick'[d].obj.old = row[d] /\ row[d].state \in Holding
               /\ tick'[d].obj.freed = {}
    BY <1>1, <2>1 DEF TickLoad, Absent, Loaded, Pending, Holding, Active
  <2> QED
    BY <1>1, <2>1 DEF TickLoad, HoldInv
<1>2. ASSUME NEW d \in Dep, NodeMissing(d) PROVE HoldInv'
  BY <1>0, <1>2, <1>a, <1>b, HoldPut DEF NodeMissing, Advancing
<1>3. ASSUME NEW d \in Dep, CreateContainer(d) PROVE HoldInv'
  <2> DEFINE o == With(tick[d].obj, "CREATING", tick[d].obj.new.has, {})
  <2>1. /\ o.old = tick[d].obj.old /\ o.freed = {}
        /\ Fail(d, o).old = o.old /\ Fail(d, o).new.state = "FAILED"
    BY DEF With, Fail
  <2>2. /\ Put(d, "starting", o) \/ Put(d, "done", Fail(d, o))
        /\ tick[d].st = "todo" /\ UNCHANGED <<row, place, alloc, req>>
    BY <1>3 DEF CreateContainer, Advancing
  <2> HIDE DEF o
  <2> QED
    BY <1>0, <1>b, <2>1, <2>2, HoldPut
<1>4. ASSUME NEW d \in Dep, StartContainer(d) PROVE HoldInv'
  <2> DEFINE o == tick[d].obj
             up == With(o, "HEALTH_CHECK",
                        o.new.has \cup {"container_id", "internal_url"}, {})
  <2>1. up.old = o.old /\ up.freed = {}
    BY DEF With
  <2>2. /\ Put(d, "done", up) \/ Put(d, "done", Fail(d, o))
        /\ tick[d].st = "starting" /\ UNCHANGED <<row, place, alloc, req>>
    BY <1>4 DEF StartContainer
  <2> HIDE DEF up
  <2> QED
    BY <1>0, <1>a, <1>b, <2>1, <2>2, HoldPut
<1>5. ASSUME NEW d \in Dep, AwaitHealth(d) PROVE HoldInv'
  <2> DEFINE o == tick[d].obj
             up == With(o, "RUNNING", o.new.has, {})
  <2>1. up.old = o.old /\ up.freed = {}
    BY DEF With
  <2>2. /\ Put(d, "done", up) \/ Put(d, "done", Fail(d, o))
        /\ tick[d].st = "todo" /\ UNCHANGED <<row, place, alloc, req>>
    BY <1>5 DEF AwaitHealth, Advancing
  <2> HIDE DEF up
  <2> QED
    BY <1>0, <1>a, <1>b, <2>1, <2>2, HoldPut
<1>6. ASSUME NEW d \in Dep, AdvanceRaises(d) PROVE HoldInv'
  <2> DEFINE o == With(tick[d].obj, "FAILED", tick[d].obj.new.has, {})
  <2>1. o.old = tick[d].obj.old /\ o.freed = {}
    BY DEF With
  <2>2. /\ Put(d, "done", o)
        /\ tick[d].st # "out" /\ UNCHANGED <<row, place, alloc, req>>
    BY <1>6 DEF AdvanceRaises, Advancing
  <2> HIDE DEF o
  <2> QED
    BY <1>0, <2>1, <2>2, HoldPut
<1>7. CASE TickCommit
  <2>1. ASSUME NEW d \in Dep, row'[d].state \in Holding
        PROVE  alloc'[d] = place[d].gpus
    <3> DEFINE o == tick[d].obj
    <3>1. CASE d \notin InTick
      <4>1. row'[d] = row[d] /\ alloc'[d] = alloc[d]
        BY <1>7, <3>1 DEF TickCommit, Written
      <4> QED
        BY <2>1, <4>1 DEF HoldInv
    <3>2. CASE d \in InTick
      <4>1. alloc'[d] = alloc[d] \ o.freed /\ tick[d].st # "out"
        BY <1>7, <3>2 DEF TickCommit, InTick
      <4>2. row[d].state # "GONE"
        <5>1. d \in Written => row[d].state # "GONE"
          BY <1>7 DEF TickCommit, Exists
        <5>2. d \notin Written => row'[d] = row[d]
          BY <1>7 DEF TickCommit
        <5> QED
          BY <2>1, <5>1, <5>2 DEF Holding, Active
      <4>3. o.old = row[d] /\ alloc[d] = place[d].gpus
        BY <4>1, <4>2 DEF HoldInv
      <4>4. row'[d].state = o.new.state
        <5>1. CASE d \in Written
          BY <1>7, <4>3, <5>1 DEF TickCommit, Flushed
        <5>2. CASE d \notin Written
          BY <1>7, <3>2, <4>3, <5>2 DEF TickCommit, Written, Dirty
        <5> QED
          BY <5>1, <5>2
      <4>5. o.freed = {}
        BY <2>1, <4>1, <4>4 DEF HoldInv
      <4> QED
        BY <4>1, <4>3, <4>5
    <3> QED
      BY <3>1, <3>2
  <2> QED
    BY <1>7, <2>1 DEF TickCommit, EndTick, Absent, HoldInv
<1>8. CASE TickRollback
  BY <1>8 DEF TickRollback, EndTick, Absent, HoldInv
<1> QED
  BY <1>1, <1>2, <1>3, <1>4, <1>5, <1>6, <1>7, <1>8 DEF Worker

LEMMA HoldOperators ==
    ASSUME "stop" \notin Ops, "restart" \notin Ops, ClaimInv, HoldInv, Operators
    PROVE  HoldInv'
<1>0. TypeOK
  BY DEF ClaimInv
<1>a. \A c \in Client : \A r :
          Begin(c, r) \/ req' = [req EXCEPT ![c] = r] =>
          req'[c] = r /\ \A e \in Client : e # c => req'[e] = req[e]
  BY <1>0 DEF Begin, TypeOK
\* A row that is inserted is no tick's, and holds what it claims.
<1>b. ASSUME NEW d \in Dep, row[d] = Unborn, UNCHANGED tick,
             \A e \in Dep : e # d => /\ row'[e] = row[e] /\ alloc'[e] = alloc[e]
                                     /\ place'[e] = place[e],
             alloc'[d] = place'[d].gpus,
             \A c \in Client : req'[c] \in {req[c], Free}
      PROVE  HoldInv'
  <2>1. tick[d].st = "out"
    BY <1>b DEF ClaimInv, TickInv, Fits, Unborn
  <2> QED
    BY <1>b, <2>1 DEF HoldInv, Free
<1>1. ASSUME NEW c \in Client, NEW d \in Dep, NEW n \in Node, NEW gpus \in SUBSET Gpu,
             PlanDeployment(c, d, n, gpus)
      PROVE  HoldInv'
  BY <1>0, <1>1, HoldRequest DEF PlanDeployment, Begin, Free, TypeOK
<1>2. ASSUME NEW c \in Client, Reserve(c) PROVE HoldInv'
  <2> DEFINE d == req[c].d
  <2>1. d \in Dep /\ row[d] = Unborn
    BY <1>0, <1>2 DEF Reserve, TypeOK, ReqType, ClaimInv, PlaceInv
  <2>2. /\ alloc'[d] = place'[d].gpus
        /\ \A e \in Dep : e # d => /\ row'[e] = row[e] /\ alloc'[e] = alloc[e]
                                   /\ place'[e] = place[e]
    BY <1>0, <1>2, <2>1 DEF Reserve, TypeOK
  <2>3. UNCHANGED tick /\ \A e \in Client : req'[e] \in {req[e], Free}
    BY <1>0, <1>2 DEF Reserve, End, TypeOK
  <2> HIDE DEF d
  <2> QED
    BY <1>b, <2>1, <2>2, <2>3
<1>3. ASSUME NEW c \in Client, ReserveRefused(c) \/ ReconcileEnd(c) PROVE HoldInv'
  BY <1>0, <1>3, HoldRequest DEF ReserveRefused, ReconcileEnd, End, Free, TypeOK
<1>4. ASSUME NEW c \in Client, NEW d \in Dep, NEW op \in {"stop", "delete"},
             StopRead(c, d, op)
      PROVE  HoldInv'
  <2> DEFINE r == [Free EXCEPT !.op = op, !.d = d,
                               !.pc = IF HasContainer(d) THEN "call" ELSE "commit",
                               !.obj = IF HasContainer(d) THEN Loaded(row[d])
                                       ELSE Stopped(d, Loaded(row[d]))]
  <2>1. op = "delete" /\ r.op = op
    BY <1>4 DEF StopRead, Free
  <2>2. Begin(c, r) /\ UNCHANGED <<row, place, alloc, tick>>
    BY <1>4 DEF StopRead
  <2> HIDE DEF r
  <2> QED
    BY <2>1, <2>2, <1>a, HoldRequest
<1>5. ASSUME NEW c \in Client, NEW d \in Dep, DeleteRead(c, d) PROVE HoldInv'
  BY <1>0, <1>5, HoldRequest DEF DeleteRead, Begin, Free, TypeOK
<1>6. ASSUME NEW c \in Client, NEW d \in Dep, RestartRead(c, d) PROVE HoldInv'
  BY <1>6 DEF RestartRead
<1>7. ASSUME NEW c \in Client, StopContainer(c) PROVE HoldInv'
  <2> DEFINE r == [req[c] EXCEPT !.pc = "commit", !.obj = Stopped(req[c].d, req[c].obj)]
  <2>1. r.op = req[c].op /\ req[c].op = "delete"
    BY <1>0, <1>7 DEF StopContainer, HoldInv, TypeOK, ReqType
  <2>2. req' = [req EXCEPT ![c] = r] /\ UNCHANGED <<row, place, alloc, tick>>
    BY <1>7 DEF StopContainer, Answered
  <2> HIDE DEF r
  <2> QED
    BY <2>1, <2>2, <1>a, HoldRequest
<1>8. ASSUME NEW c \in Client, RestartContainer(c) PROVE HoldInv'
  BY <1>8 DEF RestartContainer, HoldInv
<1>9. ASSUME NEW c \in Client, RequestCommit(c) PROVE HoldInv'
  <2>1. /\ UNCHANGED <<place, tick>>
        /\ \A e \in Client : e # c => req'[e] = req[e]
        /\ req'[c] = Free
    BY <1>0, <1>9 DEF RequestCommit, End, TypeOK
  <2>2. req[c].op = "delete"
    BY <1>9 DEF RequestCommit, HoldInv
  <2>3. \A e \in Dep : row'[e] = Gone \/ (row'[e] = row[e] /\ alloc'[e] = alloc[e])
    BY <1>0, <1>9, <2>2 DEF RequestCommit, TypeOK
  <2> QED
    BY <2>1, <2>3 DEF HoldInv, Gone, Free, Holding, Active
<1>10. ASSUME NEW c \in Client, ReconcileRead(c) PROVE HoldInv'
  BY <1>0, <1>10, HoldRequest DEF ReconcileRead, Begin, Free, TypeOK
<1>11. ASSUME NEW c \in Client, NEW d \in Dep, ReconcileRemove(c, d) PROVE HoldInv'
  BY <1>11 DEF ReconcileRemove, HoldInv
<1>12. ASSUME NEW d \in Dep, AttachExternal(d) PROVE HoldInv'
  <2>1. row[d] = Unborn /\ alloc[d] = place[d].gpus
    <3>1. row[d] = Unborn /\ Sound(row[d], place[d], alloc[d])
      BY <1>12 DEF AttachExternal, Fresh, ClaimInv
    <3> QED
      BY <3>1 DEF Sound, Unborn, NoPlace
  <2>2. /\ UNCHANGED <<place, alloc, tick, req>>
        /\ \A e \in Dep : e # d => row'[e] = row[e]
    BY <1>0, <1>12 DEF AttachExternal, TypeOK
  <2> QED
    BY <1>b, <2>1, <2>2
<1>13. ASSUME NEW n \in Node, DeleteNode(n) PROVE HoldInv'
  <2>1. \A e \in Dep : row'[e] = Gone \/ (row'[e] = row[e] /\ alloc'[e] = alloc[e])
    BY <1>13 DEF DeleteNode
  <2> QED
    BY <1>13, <2>1 DEF DeleteNode, HoldInv, Gone, Holding, Active
<1> QED
  BY <1>1, <1>2, <1>3, <1>4, <1>5, <1>6, <1>7, <1>8, <1>9, <1>10, <1>11, <1>12, <1>13
  DEF Operators

LEMMA HoldStep ==
    ASSUME "stop" \notin Ops, "restart" \notin Ops
    PROVE  ClaimInv /\ HoldInv /\ [Next]_vars => HoldInv'
<1>1. HoldInv /\ Crash => HoldInv'
  BY DEF Crash, EndTick, Absent, Free, HoldInv
<1>2. HoldInv /\ UNCHANGED vars => HoldInv'
  BY DEF vars, HoldInv
<1> QED
  BY <1>1, <1>2, HoldWorker, HoldOperators DEF Next

\* The devices of an active deployment are its own (ACTIVE_STATES), whatever the worker,
\* deletions, reconciliation, node removals and crashes do, where nobody stops or
\* restarts deployments: both drive a row whose devices another session has released.
THEOREM ActiveStaysHeld ==
    ASSUME "stop" \notin Ops, "restart" \notin Ops
    PROVE  Spec => []ActiveHoldsGpus
<1>1. HoldInv => ActiveHoldsGpus
  BY DEF HoldInv, ActiveHoldsGpus, Holding
<1>2. ClaimInv /\ HoldInv /\ [Next]_vars => HoldInv'
  BY HoldStep
<1> QED
  BY <1>1, <1>2, HoldInit, ClaimCorrect, PTL DEF Spec

-----------------------------------------------------------------------------
(* What is routable serves. A container is made only for a row that has none *)
(* and taken away only by a stop or delete that read the row with it, and    *)
(* whose commit then clears the address. A crash in between, a restart that  *)
(* fails and an out-of-date reconciliation leave the address to nothing.     *)

Routed == {"container_id", "internal_url"}

Adds(o) == o.new.has \ o.old.has # {}

\* A copy never clears the container's id, and never goes back to before it.
Onward(o) ==
    /\ "container_id" \in o.old.has => "container_id" \in o.new.has
    /\ o.new.state = "SCHEDULING" => o.old.state = "SCHEDULING"

\* A tick's object t of a row r whose container is h: who adds a container made it for
\* a row without one, and nobody has taken it away since.
TickServes(r, h, t) ==
    t.st # "out" =>
        /\ Onward(t.obj)
        /\ t.obj.old.state = "SCHEDULING" => "container_id" \notin r.has
        /\ t.st # "done" => ~Adds(t.obj)
        /\ t.st = "starting" => t.obj.old.state = "SCHEDULING" /\ t.obj.new.state = "CREATING"
        /\ Adds(t.obj) => /\ t.obj.old.state = "SCHEDULING"
                          /\ t.obj.new.state # "SCHEDULING"
                          /\ r.state # "GONE" => h = "running"

\* A request q about a row r: a container it is about to take away is the row's, and
\* the address was there when it read the row if it is now.
ReqServes(r, q) ==
    /\ q.pc # "scan"
    /\ q.pc \in {"call", "commit"} =>
           /\ q.op \in {"stop", "delete"}
           /\ Onward(q.obj) /\ ~Adds(q.obj)
    /\ q.pc = "call" =>
           /\ q.obj.new = q.obj.old
           /\ r.state # "GONE" => "container_id" \in r.has
           /\ "internal_url" \in r.has => "internal_url" \in q.obj.old.has

\* The commit of q will clear the address of d.
Clears(q, d) ==
    /\ q.d = d /\ q.pc = "commit"
    /\ "internal_url" \in q.obj.old.has /\ "internal_url" \notin q.obj.new.has

Serves(d) ==
    Routed \subseteq row[d].has =>
        host[d] = "running" \/ \E c \in Client : Clears(req[c], d)

Empty(r) == r.state = "SCHEDULING" => "container_id" \notin r.has

ServeInv ==
    /\ \A d \in Dep : Serves(d)
    /\ \A d \in Dep : Empty(row[d])
    /\ \A d \in Dep : TickServes(row[d], host[d], tick[d])
    /\ \A c \in Client : ReqServes(row[req[c].d], req[c])

LEMMA ServeInit == Init => ServeInv
BY DEF Init, ServeInv, Serves, Empty, TickServes, ReqServes, Unborn, Absent, Free, Routed

\* The worker drives a row on.
LEMMA ServePut ==
    ASSUME TypeOK, ServeInv, UNCHANGED <<row, req>>,
           NEW d \in Dep, NEW st, NEW o, Put(d, st, o),
           \A e \in Dep : e # d => host'[e] = host[e],
           host[d] = "running" => host'[d] = "running",
           TickServes(row[d], host'[d], [st |-> st, obj |-> o])
    PROVE  ServeInv'
<1>1. \A e \in Dep : tick'[e] = IF e = d THEN [st |-> st, obj |-> o] ELSE tick[e]
  BY DEF TypeOK, Put
<1>2. \A e \in Dep : TickServes(row'[e], host'[e], tick'[e])
  BY <1>1 DEF ServeInv
<1>3. \A e \in Dep : Serves(e)'
  BY DEF ServeInv, Serves
<1> QED
  BY <1>2, <1>3 DEF ServeInv

LEMMA ServeDrives ==
    ASSUME ClaimInv, ServeInv, NEW d \in Dep,
           \/ NodeMissing(d) \/ CreateContainer(d) \/ StartContainer(d)
           \/ AwaitHealth(d) \/ AdvanceRaises(d)
    PROVE  ServeInv'
<1> DEFINE o == tick[d].obj
           r == row[d]
<1>0. /\ TypeOK /\ o \in Obj /\ r \in Row
      /\ tick[d].st \in {"out", "todo", "starting", "done"}
      /\ host \in [Dep -> Containers]
  BY DEF ClaimInv, TypeOK
<1>1. TickServes(r, host[d], tick[d]) /\ Empty(r)
  BY DEF ServeInv
\* Failing adds nothing.
<1>2. \A h : \A q \in Obj : Onward(q) /\ ~Adds(q)
                              /\ (q.old.state = "SCHEDULING" => "container_id" \notin r.has) =>
          /\ TickServes(r, h, [st |-> "done", obj |-> Fail(d, q)])
          /\ \A f : TickServes(r, h, [st |-> "done", obj |-> With(q, "FAILED", q.new.has, f)])
          /\ \A f : TickServes(r, h, [st |-> "done", obj |-> With(q, "RUNNING", q.new.has, f)])
  BY DEF TickServes, Onward, Adds, Fail, With, Unreserved
<1>3. \A h : tick[d].st # "out" /\ tick[d].st # "done" =>
          Onward(o) /\ ~Adds(o) /\ (o.old.state = "SCHEDULING" => "container_id" \notin r.has)
  BY <1>1 DEF TickServes
<1>4. CASE NodeMissing(d)
  <2>1. Put(d, "done", Fail(d, o)) /\ UNCHANGED <<row, req, host>> /\ tick[d].st = "todo"
    BY <1>4 DEF NodeMissing, Advancing
  <2> HIDE DEF o, r
  <2>2. TickServes(r, host'[d], [st |-> "done", obj |-> Fail(d, o)])
    BY <1>0, <1>2, <1>3, <2>1
  <2> QED
    BY <1>0, <2>1, <2>2, ServePut DEF r
<1>5. CASE CreateContainer(d)
  <2> DEFINE q == With(o, "CREATING", o.new.has, {})
  <2>1. /\ Put(d, "starting", q) \/ Put(d, "done", Fail(d, q))
        /\ UNCHANGED <<row, req>> /\ tick[d].st = "todo" /\ o.new.state = "SCHEDULING"
        /\ \A e \in Dep : e # d => host'[e] = host[e]
        /\ host[d] = "running" => host'[d] = "running"
    BY <1>0, <1>5 DEF CreateContainer, Advancing
  <2>2. q \in Obj /\ o.old.state = "SCHEDULING"
    BY <1>0, <1>1, <2>1, ObjTypes DEF TickServes, Onward, Obj, Row, States
  <2>3. Onward(q) /\ ~Adds(q) /\ q.old = o.old /\ q.new.state = "CREATING"
    BY <1>3, <2>1 DEF Onward, Adds, With
  <2>4. "container_id" \notin r.has
    BY <1>3, <2>1, <2>2
  <2> HIDE DEF o, r, q
  <2>5. TickServes(r, host'[d], [st |-> "starting", obj |-> q])
    BY <2>2, <2>3, <2>4 DEF TickServes
  <2>6. TickServes(r, host'[d], [st |-> "done", obj |-> Fail(d, q)])
    BY <1>2, <2>2, <2>3, <2>4
  <2> QED
    BY <1>0, <2>1, <2>5, <2>6, ServePut DEF r
<1>6. CASE StartContainer(d)
  <2> DEFINE up == With(o, "HEALTH_CHECK",
                        o.new.has \cup {"container_id", "internal_url"}, {})
  <2>1. /\ (Put(d, "done", up) /\ host'[d] = "running") \/ Put(d, "done", Fail(d, o))
        /\ UNCHANGED <<row, req>> /\ tick[d].st = "starting"
        /\ \A e \in Dep : e # d => host'[e] = host[e]
        /\ host[d] = "running" => host'[d] = "running"
    BY <1>0, <1>6 DEF StartContainer
  <2>2. o.old.state = "SCHEDULING" /\ "container_id" \notin r.has
    BY <1>1, <2>1 DEF TickServes
  <2>3. Onward(up) /\ up.old = o.old /\ up.new.state = "HEALTH_CHECK"
    BY DEF Onward, With
  <2> HIDE DEF o, r, up
  <2>4. host'[d] = "running" => TickServes(r, host'[d], [st |-> "done", obj |-> up])
    BY <2>2, <2>3 DEF TickServes
  <2>5. TickServes(r, host'[d], [st |-> "done", obj |-> Fail(d, o)])
    BY <1>0, <1>2, <1>3, <2>1
  <2> QED
    BY <1>0, <2>1, <2>4, <2>5, ServePut DEF r
<1>7. CASE AwaitHealth(d)
  <2>1. /\ Put(d, "done", With(o, "RUNNING", o.new.has, {})) \/ Put(d, "done", Fail(d, o))
        /\ UNCHANGED <<row, req, host>> /\ tick[d].st = "todo"
    BY <1>7 DEF AwaitHealth, Advancing
  <2> HIDE DEF o, r
  <2>2. /\ TickServes(r, host'[d], [st |-> "done", obj |-> With(o, "RUNNING", o.new.has, {})])
        /\ TickServes(r, host'[d], [st |-> "done", obj |-> Fail(d, o)])
    BY <1>0, <1>2, <1>3, <2>1
  <2> QED
    BY <1>0, <2>1, <2>2, ServePut DEF r
<1>8. CASE AdvanceRaises(d)
  <2>1. /\ Put(d, "done", With(o, "FAILED", o.new.has, {}))
        /\ UNCHANGED <<row, req, host>> /\ tick[d].st \in {"todo", "starting"}
    BY <1>8 DEF AdvanceRaises, Advancing
  <2> HIDE DEF o, r
  <2>2. TickServes(r, host'[d], [st |-> "done", obj |-> With(o, "FAILED", o.new.has, {})])
    BY <1>0, <1>2, <1>3, <2>1
  <2> QED
    BY <1>0, <2>1, <2>2, ServePut DEF r
<1> QED
  BY <1>4, <1>5, <1>6, <1>7, <1>8

\* What a commit may make of a row: a container stays until the row is gone, and an
\* address comes only with it.
Moves(r, s) ==
    /\ s.state = "GONE" => s.has = {}
    /\ s.state # "GONE" => r.state # "GONE"
    /\ s.state # "GONE" /\ "container_id" \in r.has => "container_id" \in s.has
    /\ "container_id" \in r.has /\ "internal_url" \in s.has => "internal_url" \in r.has

LEMMA MovesServe ==
    ASSUME NEW r, NEW s, NEW q, Moves(r, s), ReqServes(r, q)
    PROVE  ReqServes(s, q)
BY DEF Moves, ReqServes

LEMMA GoneMoves == Empty(Gone) /\ \A r : Moves(r, Gone)
BY DEF Moves, Gone, Empty

LEMMA FlushServes ==
    ASSUME NEW r \in Row, NEW o \in Obj, r.state # "GONE", o.new.state # "GONE",
           Onward(o), Empty(r),
           Adds(o) => /\ "container_id" \notin r.has
                      /\ o.old.state = "SCHEDULING" /\ o.new.state # "SCHEDULING"
    PROVE  /\ Moves(r, Flushed(o, r)) /\ Empty(Flushed(o, r))
           /\ ~Adds(o) => Flushed(o, r).has \subseteq r.has
<1> DEFINE s == Flushed(o, r)
<1>1. s.has = (r.has \ (o.old.has \ o.new.has)) \cup (o.new.has \ o.old.has)
  BY DEF Flushed
<1>2. s.state = IF o.new.state # o.old.state THEN o.new.state ELSE r.state
  BY DEF Flushed
<1> HIDE DEF s
<1>3. s.state # "GONE"
  BY <1>2
<1>4. "container_id" \in r.has => "container_id" \in s.has
  BY <1>1 DEF Onward
<1>5. "container_id" \in r.has /\ "internal_url" \in s.has => "internal_url" \in r.has
  BY <1>1 DEF Adds
<1>6. Empty(s)
  <2>1. CASE Adds(o)
    BY <1>2, <2>1 DEF Empty
  <2>2. CASE ~Adds(o)
    <3>1. s.state = "SCHEDULING" => r.state = "SCHEDULING"
      BY <1>2 DEF Onward
    <3> QED
      BY <1>1, <2>2, <3>1 DEF Empty, Adds
  <2> QED
    BY <2>1, <2>2
<1> QED
  BY <1>1, <1>3, <1>4, <1>5, <1>6 DEF Moves, Adds, s

LEMMA ServeTickCommit == ClaimInv /\ ServeInv /\ TickCommit => ServeInv'
<1> SUFFICES ASSUME ClaimInv, ServeInv, TickCommit PROVE ServeInv'
  OBVIOUS
<1>0. TypeOK
  BY DEF ClaimInv
<1>1. ASSUME NEW d \in Dep
      PROVE  /\ row'[d] = row[d] \/ (Moves(row[d], row'[d]) /\ Empty(row'[d]))
             /\ Serves(d)'
             /\ Empty(row'[d])
  <2> DEFINE o == tick[d].obj
             r == row[d]
  <2>0. /\ UNCHANGED <<host, req>> /\ Serves(d) /\ Empty(r)
        /\ r \in Row /\ o \in Obj
    BY <1>0 DEF TickCommit, ServeInv, TypeOK
  <2>1. CASE d \in Written
    <3>1. row'[d] = Flushed(o, r) /\ Exists(d) /\ tick[d].st # "out"
      BY <2>1 DEF TickCommit, Written, InTick
    <3>2. r.state # "GONE" /\ TickServes(r, host[d], tick[d]) /\ Fits(o, r, alloc[d])
      BY <3>1 DEF Exists, ServeInv, ClaimInv, TickInv
    <3>3. /\ Onward(o) /\ o.new.state # "GONE"
          /\ Adds(o) => /\ "container_id" \notin r.has /\ host[d] = "running"
                        /\ o.old.state = "SCHEDULING" /\ o.new.state # "SCHEDULING"
      BY <3>1, <3>2 DEF TickServes, Fits
    <3> HIDE DEF o, r
    <3>4. /\ Moves(r, Flushed(o, r)) /\ Empty(Flushed(o, r))
          /\ ~Adds(o) => Flushed(o, r).has \subseteq r.has
      BY <2>0, <3>2, <3>3, FlushServes
    <3>5. Serves(d)'
      BY <2>0, <3>1, <3>3, <3>4 DEF Serves, r
    <3> QED
      BY <3>1, <3>4, <3>5 DEF r
  <2>2. CASE d \notin Written
    <3>1. row'[d] = r
      BY <2>2 DEF TickCommit
    <3> QED
      BY <2>0, <3>1 DEF Serves
  <2> QED
    BY <2>1, <2>2
<1>2. ASSUME NEW d \in Dep PROVE TickServes(row'[d], host'[d], tick'[d])
  BY DEF TickCommit, EndTick, Absent, TickServes
<1>3. ASSUME NEW c \in Client PROVE ReqServes(row'[req'[c].d], req'[c])
  <2> DEFINE q == req[c]
  <2>1. ReqServes(row[q.d], q) /\ req'[c] = q /\ (q.pc = "call" => q.d \in Dep)
    BY <1>0 DEF ServeInv, TickCommit, TypeOK, ReqType
  <2> HIDE DEF q
  <2>2. CASE q.pc = "call"
    BY <1>1, <2>1, <2>2, MovesServe
  <2>3. CASE q.pc # "call"
    BY <2>1, <2>3 DEF ReqServes
  <2> QED
    BY <2>2, <2>3
<1> QED
  BY <1>1, <1>2, <1>3 DEF ServeInv

LEMMA ServeWorker == ClaimInv /\ ServeInv /\ Worker => ServeInv'
<1> SUFFICES ASSUME ClaimInv, ServeInv, Worker PROVE ServeInv'
  OBVIOUS
<1>1. CASE TickLoad
  <2>1. ASSUME NEW d \in Dep PROVE TickServes(row[d], host[d], tick'[d])
    <3>1. tick'[d] = Absent \/ tick'[d] = [st |-> "todo", obj |-> Loaded(row[d])]
      BY <1>1 DEF TickLoad
    <3>2. Empty(row[d])
      BY DEF ServeInv
    <3> QED
      BY <3>1, <3>2 DEF TickServes, Absent, Loaded, Onward, Adds, Empty
  <2> QED
    BY <1>1, <2>1 DEF TickLoad, ServeInv, Serves
<1>2. CASE TickRollback
  <2>1. ASSUME NEW d \in Dep PROVE TickServes(row[d], host[d], tick'[d])
    BY <1>2 DEF TickRollback, EndTick, Absent, TickServes
  <2> QED
    BY <1>2, <2>1 DEF TickRollback, ServeInv, Serves
<1> QED
  BY <1>1, <1>2, ServeTickCommit, ServeDrives DEF Worker

\* A request that changes nothing but its own session.
LEMMA ServeRequest ==
    ASSUME ServeInv, UNCHANGED <<row, host, tick>>,
           NEW c \in Client, req[c].pc # "commit",
           \A e \in Client : e # c => req'[e] = req[e],
           ReqServes(row[req'[c].d], req'[c])
    PROVE  ServeInv'
<1>1. \A d \in Dep : Serves(d)'
  BY DEF ServeInv, Serves, Clears
<1>2. \A e \in Client : ReqServes(row'[req'[e].d], req'[e])
  BY DEF ServeInv
<1> QED
  BY <1>1, <1>2 DEF ServeInv

\* What is not about a container yet, or no longer.
LEMMA IdleServes ==
    ASSUME NEW r, NEW q, q.pc \in {"free", "place"}
    PROVE  ReqServes(r, q)
BY DEF ReqServes

\* A row is inserted: no tick has it, and no request is about it.
LEMMA ServeInsert ==
    ASSUME ClaimInv, ServeInv, UNCHANGED <<host, tick>>, NEW d \in Dep, row[d] = Unborn,
           \A e \in Dep : e # d => row'[e] = row[e],
           "container_id" \notin row'[d].has,
           \A c \in Client : req'[c] = req[c] \/ (req'[c] = Free /\ req[c].pc = "place")
    PROVE  ServeInv'
<1>1. tick[d].st = "out"
  BY DEF ClaimInv, TickInv, Fits, Unborn
<1>2. ASSUME NEW c \in Client PROVE ReqServes(row'[req'[c].d], req'[c])
  <2>1. CASE req[c].pc = "call"
    <3>1. req[c].d \in Dep /\ req[c].d # d
      BY <2>1 DEF ClaimInv, TypeOK, ReqType, ReqInv, Fits, Unborn
    <3>2. req'[c] = req[c]
      BY <2>1
    <3> QED
      BY <3>1, <3>2 DEF ServeInv
  <2>2. CASE req[c].pc # "call"
    <3>1. ReqServes(row[req[c].d], req[c])
      BY DEF ServeInv
    <3> QED
      BY <2>2, <3>1 DEF ReqServes, Free
  <2> QED
    BY <2>1, <2>2
<1>3. ASSUME NEW e \in Dep PROVE Serves(e)'
  <2>1. \A c \in Client : Clears(req[c], e) => Clears(req'[c], e)
    BY DEF Clears
  <2> QED
    BY <2>1 DEF ServeInv, Serves, Routed
<1>4. \A e \in Dep : Empty(row'[e]) /\ TickServes(row'[e], host'[e], tick'[e])
  BY <1>1 DEF ServeInv, Empty, TickServes
<1> QED
  BY <1>2, <1>3, <1>4 DEF ServeInv

LEMMA ServeStopRead ==
    ASSUME ClaimInv, ServeInv, NEW c \in Client, NEW d \in Dep, NEW op \in {"stop", "delete"},
           StopRead(c, d, op)
    PROVE  ServeInv'
<1> DEFINE l == Loaded(row[d])
           r == [Free EXCEPT !.op = op, !.d = d,
                             !.pc = IF HasContainer(d) THEN "call" ELSE "commit",
                             !.obj = IF HasContainer(d) THEN l ELSE Stopped(d, l)]
<1>0. TypeOK /\ row[d] \in Row
  BY DEF ClaimInv, TypeOK
<1>1. /\ r.op = op /\ r.d = d
      /\ r.pc = IF HasContainer(d) THEN "call" ELSE "commit"
      /\ r.obj = IF HasContainer(d) THEN l ELSE Stopped(d, l)
  BY DEF Free
<1>2. Begin(c, r) /\ UNCHANGED <<row, host, tick>>
  BY DEF StopRead
<1>3. /\ l.old = row[d] /\ l.new = row[d]
      /\ Onward(l) /\ ~Adds(l) /\ Onward(Stopped(d, l)) /\ ~Adds(Stopped(d, l))
  BY DEF Loaded, Onward, Adds, Stopped, With, Unreserved
<1> HIDE DEF l, r
<1>4. ReqServes(row[d], r)
  BY <1>1, <1>3 DEF ReqServes, HasContainer
<1>5. req'[c] = r /\ req[c] = Free /\ \A e \in Client : e # c => req'[e] = req[e]
  BY <1>0, <1>2 DEF Begin, TypeOK
<1> QED
  BY <1>1, <1>2, <1>4, <1>5, ServeRequest DEF Free

LEMMA ServeDeleteRead ==
    ASSUME ClaimInv, ServeInv, NEW c \in Client, NEW d \in Dep, DeleteRead(c, d)
    PROVE  ServeInv'
<1> DEFINE r == [Free EXCEPT !.op = "delete", !.d = d, !.pc = "commit",
                             !.obj = Loaded(row[d])]
<1>1. r.op = "delete" /\ r.d = d /\ r.pc = "commit" /\ r.obj = Loaded(row[d])
  BY DEF Free
<1>2. Begin(c, r) /\ UNCHANGED <<row, host, tick>>
  BY DEF DeleteRead
<1>3. Onward(Loaded(row[d])) /\ ~Adds(Loaded(row[d]))
  BY DEF Loaded, Onward, Adds
<1> HIDE DEF r
<1>4. ReqServes(row[d], r)
  BY <1>1, <1>3 DEF ReqServes
<1>5. req'[c] = r /\ req[c] = Free /\ \A e \in Client : e # c => req'[e] = req[e]
  BY <1>2 DEF Begin, ClaimInv, TypeOK
<1> QED
  BY <1>1, <1>2, <1>4, <1>5, ServeRequest DEF Free

\* The agent has taken the container away, or has not; the commit will clear the address.
LEMMA ServeStopContainer ==
    ASSUME ClaimInv, ServeInv, NEW c \in Client, StopContainer(c)
    PROVE  ServeInv'
<1> DEFINE d == req[c].d
           o == req[c].obj
           s == Stopped(d, o)
           q == [req[c] EXCEPT !.pc = "commit", !.obj = s]
<1>0. /\ TypeOK /\ d \in Dep /\ req[c].pc = "call" /\ req[c].op \in {"stop", "delete"}
      /\ req[c] \in ReqType /\ Sound(row[d], place[d], alloc[d])
  BY DEF StopContainer, ClaimInv, TypeOK, ReqType
<1>1. q.pc = "commit" /\ q.obj = s /\ q.d = d /\ q.op = req[c].op
  BY <1>0 DEF ReqType
<1>2. /\ UNCHANGED <<row, tick>>
      /\ req'[c] = q /\ \A e \in Client : e # c => req'[e] = req[e]
      /\ \A e \in Dep : e # d => host'[e] = host[e]
  BY <1>0 DEF StopContainer, Answered, TypeOK
<1>3. ReqServes(row[d], req[c])
  BY DEF ServeInv
<1>4. /\ o.new = o.old /\ Onward(o) /\ ~Adds(o)
      /\ row[d].state # "GONE" => "container_id" \in row[d].has
      /\ "internal_url" \in row[d].has => "internal_url" \in o.old.has
  BY <1>0, <1>3 DEF ReqServes
<1>5. /\ Onward(s) /\ ~Adds(s) /\ s.old = o.old
      /\ "internal_url" \notin s.new.has
  BY <1>4 DEF Onward, Adds, Stopped, With, Unreserved
<1> HIDE DEF q, s, o
<1>6. ReqServes(row[d], q)
  BY <1>0, <1>1, <1>5 DEF ReqServes
<1>7. ASSUME NEW e \in Dep PROVE Serves(e)'
  <2>1. CASE e = d
    <3>1. "internal_url" \in row[d].has => Clears(req'[c], d)
      BY <1>1, <1>2, <1>4, <1>5 DEF Clears
    <3> QED
      BY <1>2, <2>1, <3>1 DEF Serves, Routed
  <2>2. CASE e # d
    <3>1. \A b \in Client : Clears(req[b], e) => Clears(req'[b], e)
      BY <1>0, <1>2 DEF Clears
    <3> QED
      BY <1>2, <2>2, <3>1 DEF ServeInv, Serves
  <2> QED
    BY <2>1, <2>2
<1>8. ASSUME NEW e \in Dep PROVE TickServes(row[e], host'[e], tick[e])
  <2>1. TickServes(row[e], host[e], tick[e])
    BY DEF ServeInv
  <2>2. CASE e = d
    BY <1>4, <2>1, <2>2 DEF TickServes
  <2>3. CASE e # d
    BY <1>2, <2>1, <2>3
  <2> QED
    BY <2>2, <2>3
<1>9. \A e \in Client : ReqServes(row'[req'[e].d], req'[e])
  BY <1>1, <1>2, <1>6 DEF ServeInv
<1> QED
  BY <1>2, <1>7, <1>8, <1>9 DEF ServeInv

LEMMA ServeCommit ==
    ASSUME ClaimInv, ServeInv, NEW c \in Client, RequestCommit(c)
    PROVE  ServeInv'
<1> DEFINE d == req[c].d
           o == req[c].obj
           r == row[d]
<1>0. /\ TypeOK /\ d \in Dep /\ req[c].pc = "commit" /\ o \in Obj /\ r \in Row
      /\ Sound(r, place[d], alloc[d]) /\ Empty(r) /\ Fits(o, r, alloc[d])
  BY DEF RequestCommit, ClaimInv, TypeOK, ReqType, ServeInv, ReqInv
<1>1. /\ UNCHANGED <<host, tick>>
      /\ req'[c] = Free /\ \A e \in Client : e # c => req'[e] = req[e]
      /\ \A e \in Dep : e # d => row'[e] = row[e]
  BY <1>0 DEF RequestCommit, End, TypeOK
<1>2. Onward(o) /\ ~Adds(o)
  BY <1>0 DEF ServeInv, ReqServes
<1>3. o.new.state # "GONE"
  BY <1>0 DEF Fits
\* The row is gone, or what is left of it was there, without what the commit clears.
<1>4. CASE ~Exists(d)
  <2>1. row' = row /\ r.has = {}
    BY <1>0, <1>4 DEF RequestCommit, Exists, Sound, Unborn, Gone
  <2>2. ASSUME NEW e \in Dep PROVE Serves(e)'
    <3>1. CASE e = d
      BY <2>1, <3>1 DEF Serves, Routed
    <3>2. CASE e # d
      <4>1. \A b \in Client : Clears(req[b], e) => Clears(req'[b], e)
        BY <1>1, <3>2 DEF Clears
      <4> QED
        BY <1>1, <2>1, <4>1 DEF ServeInv, Serves
    <3> QED
      BY <3>1, <3>2
  <2>3. \A e \in Client : ReqServes(row'[req'[e].d], req'[e])
    BY <1>1, <2>1, IdleServes DEF ServeInv, Free
  <2> QED
    BY <1>1, <2>1, <2>2, <2>3 DEF ServeInv
<1>5. CASE Exists(d)
  <2>1. row'[d] = Gone \/ row'[d] = Flushed(o, r)
    BY <1>0, <1>5 DEF RequestCommit, TypeOK
  <2>2. r.state # "GONE"
    BY <1>5 DEF Exists
  <2>3. Gone.has = {} /\ Gone.state = "GONE"
    BY DEF Gone
  <2> HIDE DEF o, r
  <2>4. /\ Moves(r, row'[d]) /\ Empty(row'[d])
        /\ row'[d].has \subseteq r.has
        /\ Clears(req[c], d) => "internal_url" \notin row'[d].has
    <3>1. CASE row'[d] = Gone
      BY <2>3, <3>1, GoneMoves
    <3>2. CASE row'[d] = Flushed(o, r)
      <4>1. /\ Moves(r, Flushed(o, r)) /\ Empty(Flushed(o, r))
            /\ Flushed(o, r).has \subseteq r.has
        BY <1>0, <1>2, <1>3, <2>2, FlushServes
      <4>2. Clears(req[c], d) => "internal_url" \notin Flushed(o, r).has
        BY DEF Clears, Flushed, o
      <4> QED
        BY <3>2, <4>1, <4>2
    <3> QED
      BY <2>1, <3>1, <3>2
  <2>5. ASSUME NEW e \in Dep PROVE Serves(e)'
    <3>1. CASE e = d
      <4>1. ASSUME Routed \subseteq row'[d].has
            PROVE  host[d] = "running" \/ \E b \in Client : Clears(req'[b], d)
        <5>1. Routed \subseteq r.has /\ ~Clears(req[c], d)
          BY <2>4, <4>1 DEF Routed
        <5>2. host[d] = "running" \/ \E b \in Client : Clears(req[b], d)
          BY <1>0, <5>1 DEF ServeInv, Serves, r
        <5> QED
          BY <1>1, <5>1, <5>2
      <4> QED
        BY <1>1, <3>1, <4>1 DEF Serves
    <3>2. CASE e # d
      <4>1. \A b \in Client : Clears(req[b], e) => Clears(req'[b], e)
        BY <1>1, <3>2 DEF Clears
      <4> QED
        BY <1>1, <3>2, <4>1 DEF ServeInv, Serves
    <3> QED
      BY <3>1, <3>2
  <2>6. ASSUME NEW e \in Dep PROVE Empty(row'[e]) /\ TickServes(row'[e], host[e], tick[e])
    <3>1. CASE e = d
      <4>1. TickServes(r, host[d], tick[d])
        BY <1>0 DEF ServeInv, r
      <4>2. TickServes(row'[d], host[d], tick[d])
        BY <2>4, <4>1 DEF TickServes, Moves
      <4> QED
        BY <2>4, <3>1, <4>2
    <3>2. CASE e # d
      BY <1>1, <3>2 DEF ServeInv
    <3> QED
      BY <3>1, <3>2
  <2>7. ASSUME NEW e \in Client PROVE ReqServes(row'[req'[e].d], req'[e])
    <3>1. CASE e = c
      BY <1>1, <3>1, IdleServes DEF Free
    <3>2. CASE e # c
      <4>1. req'[e] = req[e] /\ ReqServes(row[req[e].d], req[e])
        BY <1>1, <3>2 DEF ServeInv
      <4>2. CASE req[e].d = d
        BY <2>4, <4>1, <4>2, MovesServe DEF r
      <4>3. CASE req[e].d # d /\ req[e].pc = "call"
        <5>1. req[e].d \in Dep
          BY <1>0, <4>3 DEF TypeOK, ReqType
        <5> QED
          BY <1>1, <4>1, <4>3, <5>1
      <4>4. CASE req[e].pc # "call"
        BY <4>1, <4>4 DEF ReqServes
      <4> QED
        BY <4>2, <4>3, <4>4
    <3> QED
      BY <3>1, <3>2
  <2> QED
    BY <1>1, <2>5, <2>6, <2>7 DEF ServeInv
<1> QED
  BY <1>4, <1>5

LEMMA ServeOperators ==
    ASSUME "restart" \notin Ops, "reconcile" \notin Ops, ClaimInv, ServeInv, Operators
    PROVE  ServeInv'
<1>0. TypeOK
  BY DEF ClaimInv
<1>1. ASSUME NEW c \in Client, NEW d \in Dep, NEW n \in Node, NEW gpus \in SUBSET Gpu,
             PlanDeployment(c, d, n, gpus)
      PROVE  ServeInv'
  <2> DEFINE r == [Free EXCEPT !.op = "deploy", !.pc = "place", !.d = d,
                               !.at = [node |-> n, gpus |-> gpus]]
  <2>1. r.pc = "place"
    BY DEF Free
  <2>2. Begin(c, r) /\ UNCHANGED <<row, host, tick>>
    BY <1>1 DEF PlanDeployment
  <2> HIDE DEF r
  <2>3. req'[c] = r /\ req[c] = Free /\ \A e \in Client : e # c => req'[e] = req[e]
    BY <1>0, <2>2 DEF Begin, TypeOK
  <2> QED
    BY <2>1, <2>2, <2>3, IdleServes, ServeRequest DEF Free
<1>2. ASSUME NEW c \in Client, Reserve(c) PROVE ServeInv'
  <2> DEFINE d == req[c].d
  <2>1. d \in Dep /\ row[d] = Unborn /\ req[c].pc = "place"
    BY <1>0, <1>2 DEF Reserve, TypeOK, ReqType, ClaimInv, PlaceInv
  <2>2. /\ "container_id" \notin row'[d].has
        /\ \A e \in Dep : e # d => row'[e] = row[e]
    BY <1>0, <1>2, <2>1 DEF Reserve, TypeOK
  <2>3. UNCHANGED <<host, tick>> /\ req'[c] = Free /\ \A e \in Client : e # c => req'[e] = req[e]
    BY <1>0, <1>2 DEF Reserve, End, TypeOK
  <2> HIDE DEF d
  <2> QED
    BY <2>1, <2>2, <2>3, ServeInsert
<1>3. ASSUME NEW c \in Client, ReserveRefused(c) PROVE ServeInv'
  <2>1. /\ req'[c] = Free /\ \A e \in Client : e # c => req'[e] = req[e]
        /\ req[c].pc = "place" /\ UNCHANGED <<row, host, tick>>
    BY <1>0, <1>3 DEF ReserveRefused, End, TypeOK
  <2> QED
    BY <2>1, IdleServes, ServeRequest DEF Free
<1>4. ASSUME NEW c \in Client, NEW d \in Dep, RestartRead(c, d) PROVE ServeInv'
  BY <1>4 DEF RestartRead
<1>5. ASSUME NEW c \in Client, RestartContainer(c) PROVE ServeInv'
  BY <1>5 DEF RestartContainer, ServeInv, ReqServes
<1>6. ASSUME NEW c \in Client, ReconcileRead(c) \/ ReconcileEnd(c) PROVE ServeInv'
  BY <1>6 DEF ReconcileRead, ReconcileEnd, ServeInv, ReqServes
<1>7. ASSUME NEW c \in Client, NEW d \in Dep, ReconcileRemove(c, d) PROVE ServeInv'
  BY <1>7 DEF ReconcileRemove, ServeInv, ReqServes
<1>8. ASSUME NEW d \in Dep, AttachExternal(d) PROVE ServeInv'
  <2>1. /\ row[d] = Unborn /\ UNCHANGED <<host, tick, req>>
        /\ \A e \in Dep : e # d => row'[e] = row[e]
        /\ "container_id" \notin row'[d].has
    BY <1>0, <1>8 DEF AttachExternal, Fresh, TypeOK
  <2> QED
    BY <2>1, ServeInsert
<1>9. ASSUME NEW n \in Node, DeleteNode(n) PROVE ServeInv'
  <2>1. \A d \in Dep : row'[d] = Gone \/ row'[d] = row[d]
    BY <1>9 DEF DeleteNode
  <2>2. UNCHANGED <<host, tick, req>> /\ Gone.has = {} /\ Gone.state = "GONE"
    BY <1>9 DEF DeleteNode, Gone
  <2>3. ASSUME NEW d \in Dep
        PROVE  Serves(d)' /\ Empty(row'[d]) /\ TickServes(row'[d], host[d], tick[d])
    BY <2>1, <2>2 DEF ServeInv, Serves, Routed, Empty, TickServes
  <2>4. ASSUME NEW e \in Client PROVE ReqServes(row'[req[e].d], req[e])
    <3>1. ReqServes(row[req[e].d], req[e]) /\ (req[e].pc = "call" => req[e].d \in Dep)
      BY <1>0 DEF ServeInv, TypeOK, ReqType
    <3>2. CASE req[e].pc = "call"
      BY <2>1, <3>1, <3>2, GoneMoves, MovesServe
    <3>3. CASE req[e].pc # "call"
      BY <3>1, <3>3 DEF ReqServes
    <3> QED
      BY <3>2, <3>3
  <2> QED
    BY <2>2, <2>3, <2>4 DEF ServeInv
<1> QED
  BY <1>1, <1>2, <1>3, <1>4, <1>5, <1>6, <1>7, <1>8, <1>9, ServeStopRead, ServeDeleteRead,
     ServeStopContainer, ServeCommit
  DEF Operators

LEMMA ServeStep ==
    ASSUME "restart" \notin Ops, "reconcile" \notin Ops, "crash" \notin Faults
    PROVE  ClaimInv /\ ServeInv /\ [Next]_vars => ServeInv'
<1>1. ~Crash
  BY DEF Crash
<1>2. ServeInv /\ UNCHANGED vars => ServeInv'
  BY DEF vars, ServeInv, Serves
<1> QED
  BY <1>1, <1>2, ServeWorker, ServeOperators DEF Next

\* A deployment the gateway would route to is up, or a stop of it is about to commit
\* (stop_deployment clears the address), whatever the worker and other stops, deletions
\* and failing agents do, where nobody restarts or reconciles and the control plane does
\* not stop: each of these can leave the address of a container that is not running.
THEOREM RoutableStaysServing ==
    ASSUME "restart" \notin Ops, "reconcile" \notin Ops, "crash" \notin Faults
    PROVE  Spec => []RoutableIsServing
<1>1. ServeInv => RoutableIsServing
  BY DEF ServeInv, Serves, Routed, Clears, RoutableIsServing
<1>2. ClaimInv /\ ServeInv /\ [Next]_vars => ServeInv'
  BY ServeStep
<1> QED
  BY <1>1, <1>2, ServeInit, ClaimCorrect, PTL DEF Spec

----------------------------------------------------------------------------
(* Placement: what a plan names, whatever is asked for and claimed.        *)

P == INSTANCE Placement

\* The instance counts as this module does.
LEMMA SameCount == \A S : P!Cardinality(S) = Cardinality(S)
BY Zenon DEF P!Cardinality, Cardinality

\* The first `count` devices by load and index, for any set of devices in places of
\* their own.
Early(on, h) == {k \in on : P!Before(k, h)}
FirstFew(on, count) == {h \in on : Cardinality(Early(on, h)) < count}

Places(on) ==
    /\ IsFiniteSet(on)
    /\ \A g \in on : g.index \in Nat /\ g.util \in Nat
    /\ \A g, h \in on : g.index = h.index => g = h

LEMMA EarlyGrows ==
    ASSUME NEW on, Places(on), NEW h \in on
    PROVE  /\ IsFiniteSet(Early(on, h))
           /\ Cardinality(Early(on, h)) \in 0 .. Cardinality(on) - 1
           /\ \A k \in on : P!Before(k, h) => Cardinality(Early(on, k)) < Cardinality(Early(on, h))
<1>1. \A k \in on : k.index \in Nat /\ k.util \in Nat
  BY DEF Places
<1>2. IsFiniteSet(on)
  BY DEF Places
<1>3. \A k \in on : Early(on, k) \in SUBSET on /\ IsFiniteSet(Early(on, k))
                    /\ Cardinality(Early(on, k)) \in Nat
  BY <1>2, FS_Subset, FS_CardinalityType DEF Early
<1>4. \A k \in on : k \notin Early(on, k)
  BY <1>1 DEF Early, P!Before
<1>5. Cardinality(Early(on, h)) \in 0 .. Cardinality(on) - 1
  <2>1. Early(on, h) \in SUBSET (on \ {h})
    BY <1>3, <1>4
  <2>2. IsFiniteSet(on \ {h}) /\ Cardinality(on \ {h}) = Cardinality(on) - 1
    BY <1>2, FS_RemoveElement
  <2>3. Cardinality(Early(on, h)) <= Cardinality(on \ {h})
    BY <2>1, <2>2, FS_Subset
  <2>4. Cardinality(on) \in Nat
    BY <1>2, FS_CardinalityType
  <2> QED
    BY <1>3, <2>2, <2>3, <2>4
<1>6. ASSUME NEW k \in on, P!Before(k, h)
      PROVE  Cardinality(Early(on, k)) < Cardinality(Early(on, h))
  <2>1. k \in Early(on, h)
    BY <1>6 DEF Early
  <2>2. \A x \in on : P!Before(x, k) => P!Before(x, h)
    BY <1>1, <1>6 DEF P!Before
  <2>3. Early(on, k) \in SUBSET (Early(on, h) \ {k})
    BY <1>4, <2>2 DEF Early
  <2>4. IsFiniteSet(Early(on, h) \ {k})
        /\ Cardinality(Early(on, h) \ {k}) = Cardinality(Early(on, h)) - 1
    BY <1>3, <2>1, FS_RemoveElement
  <2>5. Cardinality(Early(on, k)) <= Cardinality(Early(on, h) \ {k})
    BY <2>3, <2>4, FS_Subset
  <2> QED
    BY <1>3, <2>4, <2>5
<1> QED
  BY <1>3, <1>5, <1>6

\* As many as asked for, if there are; and nobody before one of them is left out.
LEMMA FirstFewAre ==
    ASSUME NEW on, Places(on), NEW count \in Nat, count <= Cardinality(on)
    PROVE  /\ IsFiniteSet(FirstFew(on, count)) /\ Cardinality(FirstFew(on, count)) = count
           /\ \A c \in FirstFew(on, count), d \in on :
                 P!Before(d, c) => d \in FirstFew(on, count)
<1> DEFINE n == Cardinality(on)
           few == FirstFew(on, count)
           Rank == [h \in on |-> Cardinality(Early(on, h))]
           rank == [h \in few |-> Cardinality(Early(on, h))]
<1>1. IsFiniteSet(on) /\ n \in Nat
  BY FS_CardinalityType DEF Places
<1>2. \A h \in on : Rank[h] = Cardinality(Early(on, h)) /\ Rank[h] \in 0 .. n - 1
  BY EarlyGrows
<1>3. \A h, k \in on : P!Before(k, h) => Rank[k] < Rank[h]
  BY <1>2, EarlyGrows
<1>4. \A h, k \in on : h = k \/ P!Before(h, k) \/ P!Before(k, h)
  BY DEF Places, P!Before
<1> HIDE DEF Rank, n
<1>5. \A h, k \in on : Rank[h] = Rank[k] => h = k
  BY <1>2, <1>3, <1>4
<1>6. Rank \in [on -> 0 .. n - 1]
  BY <1>2 DEF Rank
<1>7. Rank \in Injection(on, 0 .. n - 1)
  BY <1>5, <1>6 DEF Injection, IsInjective
<1>8. Rank \in Surjection(on, 0 .. n - 1)
  <2>1. IsFiniteSet(0 .. n - 1) /\ Cardinality(0 .. n - 1) = n
    BY <1>1, FS_Interval, 0 \in Int, n - 1 \in Int
  <2> QED
    BY <1>1, <1>7, <2>1, FS_Injection DEF n
<1>9. few = {h \in on : Rank[h] < count}
  BY <1>2 DEF FirstFew
<1>10. rank \in Bijection(few, 0 .. count - 1)
  <2> HIDE DEF few
  <2>1. \A h \in few : h \in on /\ Rank[h] < count /\ rank[h] = Rank[h]
    BY <1>2, <1>9
  <2>2. rank \in [few -> 0 .. count - 1]
    <3>1. \A h \in few : rank[h] \in 0 .. count - 1
      BY <1>2, <2>1
    <3> QED
      BY <3>1
  <2>3. \A h, k \in few : rank[h] = rank[k] => h = k
    BY <1>5, <2>1
  <2>4. ASSUME NEW i \in 0 .. count - 1
        PROVE  \E h \in few : rank[h] = i
    <3>1. i \in 0 .. n - 1
      BY <1>1 DEF n
    <3>2. PICK h \in on : Rank[h] = i
      BY <1>8, <3>1 DEF Surjection
    <3>3. h \in few
      BY <1>9, <3>2
    <3> QED
      BY <2>1, <3>2, <3>3
  <2> HIDE DEF rank
  <2>5. rank \in Injection(few, 0 .. count - 1)
    BY <2>2, <2>3 DEF Injection, IsInjective
  <2>6. rank \in Surjection(few, 0 .. count - 1)
    BY <2>2, <2>4 DEF Surjection
  <2> QED
    BY <2>5, <2>6 DEF Bijection
<1>11. IsFiniteSet(few) /\ Cardinality(few) = count
  <2> HIDE DEF few, rank
  <2>1. IsFiniteSet(0 .. count - 1) /\ Cardinality(0 .. count - 1) = count
    BY FS_Interval, 0 \in Int, count - 1 \in Int
  <2>2. ExistsBijection(few, 0 .. count - 1)
    BY <1>10 DEF ExistsBijection
  <2>3. ExistsBijection(0 .. count - 1, few)
    BY <2>2, Fun_ExistsBijSymmetric
  <2> QED
    BY <2>1, <2>3, FS_Bijection
<1>12. ASSUME NEW c \in few, NEW d \in on, P!Before(d, c)
       PROVE  d \in few
  <2> HIDE DEF few
  <2>1. c \in on /\ Rank[c] < count
    BY <1>9
  <2>2. Rank[d] < Rank[c]
    BY <1>3, <1>12, <2>1
  <2>3. Rank[d] < count
    BY <1>2, <2>1, <2>2
  <2> QED
    BY <1>9, <2>3
<1> QED
  BY <1>11, <1>12

\* What the platform knows of cards: two of a node are at two places.
Known(cards, sample) ==
    /\ IsFiniteSet(cards)
    /\ \A c \in cards : c.index \in Nat /\ c.total \in Nat
    /\ \A c, d \in cards : c.node = d.node /\ c.index = d.index => c = d
    /\ \A c \in cards \cap DOMAIN sample : sample[c].used \in Nat /\ sample[c].util \in Nat

Asked(Nds) == [pin: SUBSET Nds, gpus: Seq(Nat), count: Nat, need: Nat]

Busy(c, sample) == IF c \in DOMAIN sample THEN sample[c].util ELSE 0

Spare(c, sample) ==
    IF c \in DOMAIN sample
       THEN IF sample[c].used < c.total THEN c.total - sample[c].used ELSE 0
       ELSE c.total

\* Nobody has claimed it and, as far as the platform knows, there is room on it.
Fit(c, r, sample, claimed) == c.index \notin claimed[c.node] /\ Spare(c, sample) >= r.need

FitOn(n, r, cards, sample, claimed) ==
    {c \in cards : c.node = n /\ Fit(c, r, sample, claimed)}

\* The device a card is.
Device(c, cards, sample, claimed) ==
    [node |-> c.node, index |-> c.index, total |-> c.total,
     used |-> IF c \in DOMAIN sample THEN sample[c].used ELSE 0,
     util |-> IF c \in DOMAIN sample THEN sample[c].util ELSE 0,
     reserved |-> c.index \notin P!FreeIndices(cards, claimed, c.node)]

\* The devices of the cards of a node, of those looked at, that fit.
FitIn(ns, n, r, cards, sample, claimed) ==
    {c \in FitOn(n, r, cards, sample, claimed) : c.node \in ns}

DevicesOf(some, cards, sample, claimed) == {Device(c, cards, sample, claimed) : c \in some}

LEMMA DeviceIs ==
    ASSUME NEW cards, NEW sample, Known(cards, sample),
           NEW claimed, NEW c \in cards, NEW r, r.need \in Nat
    PROVE  LET g == Device(c, cards, sample, claimed) IN
           /\ g.node = c.node /\ g.index = c.index /\ g.util = Busy(c, sample)
           /\ g.index \in Nat /\ g.util \in Nat
           /\ P!Usable(g, r) <=> Fit(c, r, sample, claimed)
<1> DEFINE g == Device(c, cards, sample, claimed)
<1>1. c.index \in Nat /\ c.total \in Nat
  BY DEF Known
<1>2. c \in DOMAIN sample => sample[c].used \in Nat /\ sample[c].util \in Nat
  BY DEF Known
<1>3. /\ g.node = c.node /\ g.index = c.index /\ g.util = Busy(c, sample) /\ g.total = c.total
      /\ g.used = IF c \in DOMAIN sample THEN sample[c].used ELSE 0
      /\ g.reserved = (c.index \notin P!FreeIndices(cards, claimed, c.node))
  BY DEF Device, Busy
<1>4. c.index \in P!FreeIndices(cards, claimed, c.node) <=> c.index \notin claimed[c.node]
  BY DEF P!FreeIndices, P!OnNode
<1> HIDE DEF g
<1>5. P!MemoryFree(g) = Spare(c, sample)
  BY <1>1, <1>2, <1>3 DEF P!MemoryFree, Spare
<1>6. P!Usable(g, r) <=> Fit(c, r, sample, claimed)
  BY <1>3, <1>4, <1>5 DEF P!Usable, Fit
<1>7. g.util \in Nat
  BY <1>2, <1>3 DEF Busy
<1> QED
  BY <1>1, <1>3, <1>6, <1>7 DEF g

\* The usable devices of a node stand for the cards of it that fit, each in its place.
Usables(r, devices, n) == {g \in P!OnNode(devices, n) : P!Usable(g, r)}

LEMMA UsablesAre ==
    ASSUME NEW cards, NEW sample, Known(cards, sample),
           NEW claimed, NEW r, r.need \in Nat, NEW ns, NEW n
    PROVE  /\ Places(Usables(r, P!Resources(cards, sample, claimed, ns), n))
           /\ Usables(r, P!Resources(cards, sample, claimed, ns), n)
                = DevicesOf(FitIn(ns, n, r, cards, sample, claimed), cards, sample, claimed)
<1> DEFINE Dev(c) == Device(c, cards, sample, claimed)
           here == FitIn(ns, n, r, cards, sample, claimed)
           devices == P!Resources(cards, sample, claimed, ns)
           on == Usables(r, devices, n)
           f == [c \in here |-> Dev(c)]
<1>1. devices = {Dev(c) : c \in {d \in cards : d.node \in ns}}
  BY DEF P!Resources, Device
<1>2. \A c \in cards : /\ Dev(c).node = c.node /\ Dev(c).index = c.index
                       /\ Dev(c).index \in Nat /\ Dev(c).util \in Nat
                       /\ P!Usable(Dev(c), r) <=> Fit(c, r, sample, claimed)
  BY DeviceIs
<1> HIDE DEF Dev, devices
<1>3. on = {Dev(c) : c \in here}
  BY <1>1, <1>2 DEF Usables, P!OnNode, FitIn, FitOn
<1> HIDE DEF on
<1>4. here \subseteq cards /\ \A c \in here : c.node = n
  BY DEF FitIn, FitOn
<1>5. IsFiniteSet(here)
  BY <1>4, FS_Subset DEF Known
<1>6. f \in Surjection(here, on)
  BY <1>3 DEF Surjection
<1> HIDE DEF here, f
<1>7. IsFiniteSet(on)
  BY <1>5, <1>6, FS_Surjection
<1>8. \A g \in on : g.index \in Nat /\ g.util \in Nat
  BY <1>2, <1>3, <1>4
<1>9. ASSUME NEW g \in on, NEW h \in on, g.index = h.index
      PROVE  g = h
  <2>1. PICK c \in here : g = Dev(c)
    BY <1>3
  <2>2. PICK d \in here : h = Dev(d)
    BY <1>3
  <2>3. c.index = d.index /\ c.node = d.node /\ c \in cards /\ d \in cards
    BY <1>2, <1>4, <1>9, <2>1, <2>2
  <2>4. c = d
    BY <2>3 DEF Known
  <2> QED
    BY <2>1, <2>2, <2>4
<1>10. Places(on)
  BY <1>7, <1>8, <1>9 DEF Places
<1> QED
  BY <1>3, <1>10 DEF on, here, devices, Dev, DevicesOf

\* The plan of the scheduler's own choice: the first few of a node that has enough.
LEMMA AutoIs ==
    ASSUME NEW r, NEW devices, NEW p \in P!PlanAuto(r, devices)
    PROVE  LET on == Usables(r, devices, p.node) IN
           /\ r.pin = {} \/ p.node \in r.pin
           /\ Cardinality(on) >= r.count
           /\ p.gpus = {g.index : g \in FirstFew(on, r.count)}
           /\ \E g \in on : g.node = p.node
<1>1. PICK n \in P!LeastLoaded(r, devices) : p = [node |-> n, gpus |-> P!Chosen(r, devices, n)]
  BY DEF P!PlanAuto
<1>2. n \in P!Fitting(r, devices)
  BY DEF P!LeastLoaded
<1>3. p.node = n /\ p.gpus = P!Chosen(r, devices, n)
  BY <1>1
<1> DEFINE usable == {g \in devices : P!Usable(g, r)}
           on == Usables(r, devices, n)
<1>4. P!OnNode(usable, n) = on
  BY DEF P!OnNode, Usables
<1>5. /\ n \in P!Nodes(usable)
      /\ r.pin = {} \/ n \in r.pin
      /\ P!Cardinality(P!OnNode(usable, n)) >= r.count
  BY <1>2 DEF P!Fitting
<1>6. Cardinality(on) >= r.count
  BY <1>4, <1>5, SameCount
<1>7. \E g \in on : g.node = n
  BY <1>4, <1>5 DEF P!Nodes, P!OnNode
<1>8. P!Chosen(r, devices, n) = {g.index : g \in FirstFew(on, r.count)}
  <2>1. P!Chosen(r, devices, n)
          = {g.index : g \in {h \in on : P!Cardinality({k \in on : P!Before(k, h)}) < r.count}}
    BY DEF P!Chosen, Usables
  <2> HIDE DEF on
  <2>2. {h \in on : P!Cardinality({k \in on : P!Before(k, h)}) < r.count} = FirstFew(on, r.count)
    BY SameCount DEF FirstFew, Early
  <2> QED
    BY <2>1, <2>2
<1> QED
  BY <1>3, <1>5, <1>6, <1>7, <1>8

\* A plan comes of the devices of some nodes that were looked at, with the count of the
\* operator's own indices if there are any.
Wanted(r) == [r EXCEPT !.count = IF r.gpus # <<>> THEN Len(r.gpus) ELSE r.count]

LEMMA WantedIs ==
    ASSUME NEW Nds, NEW r \in Asked(Nds)
    PROVE  /\ Wanted(r) \in Asked(Nds)
           /\ Wanted(r).pin = r.pin /\ Wanted(r).gpus = r.gpus /\ Wanted(r).need = r.need
           /\ Wanted(r).count = IF r.gpus # <<>> THEN Len(r.gpus) ELSE r.count
BY DEF Wanted, Asked

LEMMA PlacedIs ==
    ASSUME NEW node, NEW cards, NEW sample, NEW claimed, NEW r,
           NEW p \in P!Placed(r, node, cards, sample, claimed)
    PROVE  \E ns \in P!Picked(node, r.pin) :
              p \in P!Plan(Wanted(r), P!Resources(cards, sample, claimed, ns))
BY DEF P!Placed, Wanted

\* A node that is looked at may be used.
LEMMA PickedMayBeUsed ==
    ASSUME NEW node, NEW pin, NEW ns \in P!Picked(node, pin), NEW n \in ns
    PROVE  IF pin = {} THEN ~node[n].disabled ELSE n \in pin /\ node[n].status = "ONLINE"
BY DEF P!Picked, P!Pollable

\* Different devices of a set in places of its own have different indices.
LEMMA IndicesCount ==
    ASSUME NEW on, Places(on), NEW few \in SUBSET on
    PROVE  Cardinality({g.index : g \in few}) = Cardinality(few)
<1> DEFINE T == {g.index : g \in few}
           f == [g \in few |-> g.index]
<1>1. \A g, h \in few : g.index = h.index => g = h
  BY DEF Places
<1>2. f \in Injection(few, T)
  BY <1>1 DEF Injection, IsInjective
<1>3. f \in Surjection(few, T)
  BY DEF Surjection
<1>4. IsFiniteSet(few)
  BY FS_Subset DEF Places
<1> HIDE DEF T, f
<1>5. ExistsBijection(few, T)
  BY <1>2, <1>3 DEF Bijection, ExistsBijection
<1>6. Cardinality(T) = Cardinality(few)
  BY <1>4, <1>5, FS_Bijection
<1> QED
  BY <1>6 DEF T

\* Indices that are all different are as many as they are.
LEMMA ListedCount ==
    ASSUME NEW seq \in Seq(Nat), \A i, j \in DOMAIN seq : seq[i] = seq[j] => i = j
    PROVE  Cardinality({seq[i] : i \in DOMAIN seq}) = Len(seq)
<1> DEFINE T == {seq[i] : i \in DOMAIN seq}
           f == [i \in 1 .. Len(seq) |-> seq[i]]
<1>1. DOMAIN seq = 1 .. Len(seq) /\ Len(seq) \in Nat
  OBVIOUS
<1>2. f \in Injection(1 .. Len(seq), T)
  BY <1>1 DEF Injection, IsInjective
<1>3. f \in Surjection(1 .. Len(seq), T)
  BY <1>1 DEF Surjection
<1> HIDE DEF T, f
<1>4. ExistsBijection(1 .. Len(seq), T)
  BY <1>2, <1>3 DEF Bijection, ExistsBijection
<1>5. IsFiniteSet(1 .. Len(seq)) /\ Cardinality(1 .. Len(seq)) = Len(seq)
  BY <1>1, FS_Interval, 1 \in Int, Len(seq) \in Int
<1>6. Cardinality(T) = Len(seq)
  BY <1>4, <1>5, FS_Bijection
<1> QED
  BY <1>6 DEF T

\* The scheduler's own choice on a node that was looked at, in terms of cards.
Choice(p, ns, r, cards, sample, claimed) ==
    LET on == Usables(r, P!Resources(cards, sample, claimed, ns), p.node) IN
    /\ p.node \in ns
    /\ Places(on) /\ r.count <= Cardinality(on)
    /\ p.gpus = {g.index : g \in FirstFew(on, r.count)}
    /\ on = DevicesOf(FitOn(p.node, r, cards, sample, claimed), cards, sample, claimed)

LEMMA ChoiceIs ==
    ASSUME NEW Nds, NEW cards, NEW node, NEW sample, Known(cards, sample),
           NEW claimed, NEW r \in Asked(Nds), r.gpus = <<>>,
           NEW p \in P!Placed(r, node, cards, sample, claimed)
    PROVE  \E ns \in P!Picked(node, r.pin) : Choice(p, ns, r, cards, sample, claimed)
<1> DEFINE q == Wanted(r)
<1>1. PICK ns \in P!Picked(node, r.pin) : p \in P!Plan(q, P!Resources(cards, sample, claimed, ns))
  BY PlacedIs
<1>2. q = r
  BY DEF Wanted, Asked
<1> HIDE DEF q
<1> DEFINE devices == P!Resources(cards, sample, claimed, ns)
           on == Usables(r, devices, p.node)
<1>3. p \in P!PlanAuto(r, devices)
  BY <1>1, <1>2 DEF P!Plan
<1> HIDE DEF devices
<1>4. /\ Cardinality(on) >= r.count
      /\ p.gpus = {g.index : g \in FirstFew(on, r.count)}
      /\ \E g \in on : g.node = p.node
  BY <1>3, AutoIs
<1>5. r.need \in Nat /\ r.count \in Nat
  BY DEF Asked
<1> DEFINE here == FitIn(ns, p.node, r, cards, sample, claimed)
<1>6. Places(on) /\ on = DevicesOf(here, cards, sample, claimed)
  BY <1>5, UsablesAre DEF devices
<1> HIDE DEF on
<1>7. p.node \in ns
  BY <1>4, <1>6 DEF DevicesOf, Device, FitIn, FitOn
<1>8. here = FitOn(p.node, r, cards, sample, claimed)
  BY <1>7 DEF FitIn, FitOn
<1>9. r.count <= Cardinality(on)
  <2>1. Cardinality(on) \in Nat
    BY <1>6, FS_CardinalityType DEF Places
  <2> QED
    BY <1>4, <1>5, <2>1
<1> HIDE DEF here
<1>10. Choice(p, ns, r, cards, sample, claimed)
  BY <1>4, <1>6, <1>7, <1>8, <1>9 DEF on, devices, Choice
<1> QED
  BY <1>10

\* plan, _plan_explicit: a plan names devices of one node that may be used, none of them
\* claimed and each with the memory asked for, as many as asked for: the operator's own if
\* they are named, once each.
THEOREM PlansFit ==
    ASSUME NEW Nds, NEW cards, NEW node, NEW sample, Known(cards, sample),
           NEW claimed, NEW r \in Asked(Nds),
           NEW p \in P!Placed(r, node, cards, sample, claimed)
    PROVE  /\ IF r.pin = {} THEN ~node[p.node].disabled
              ELSE p.node \in r.pin /\ node[p.node].status = "ONLINE"
           /\ \A i \in p.gpus : \E c \in FitOn(p.node, r, cards, sample, claimed) : c.index = i
           /\ r.gpus = <<>> => Cardinality(p.gpus) = r.count
           /\ r.gpus # <<>> => /\ p.gpus = {r.gpus[i] : i \in DOMAIN r.gpus}
                               /\ P!Reservable(r) => Cardinality(p.gpus) = Len(r.gpus)
<1>1. r.need \in Nat /\ r.count \in Nat /\ r.gpus \in Seq(Nat)
  BY DEF Asked
<1>2. CASE r.gpus = <<>>
  <2>1. PICK ns \in P!Picked(node, r.pin) : Choice(p, ns, r, cards, sample, claimed)
    BY <1>2, ChoiceIs
  <2> DEFINE on == Usables(r, P!Resources(cards, sample, claimed, ns), p.node)
             few == FirstFew(on, r.count)
  <2>2. /\ p.node \in ns
        /\ Places(on) /\ r.count <= Cardinality(on) /\ p.gpus = {g.index : g \in few}
        /\ on = DevicesOf(FitOn(p.node, r, cards, sample, claimed), cards, sample, claimed)
    BY <2>1 DEF Choice
  <2> HIDE DEF on
  <2>3. few \in SUBSET on
    BY DEF FirstFew
  <2>4. Cardinality(few) = r.count
    BY <1>1, <2>2, FirstFewAre
  <2> HIDE DEF few
  <2>5. Cardinality(p.gpus) = r.count
    BY <2>2, <2>3, <2>4, IndicesCount
  <2>6. \A c \in cards : Device(c, cards, sample, claimed).index = c.index
    BY <1>1, DeviceIs
  <2>7. \A i \in p.gpus : \E c \in FitOn(p.node, r, cards, sample, claimed) : c.index = i
    BY <2>2, <2>3, <2>6 DEF FitOn, DevicesOf
  <2>8. IF r.pin = {} THEN ~node[p.node].disabled
        ELSE p.node \in r.pin /\ node[p.node].status = "ONLINE"
    BY <2>1, <2>2, PickedMayBeUsed
  <2> QED
    BY <1>2, <2>5, <2>7, <2>8
<1>3. CASE r.gpus # <<>>
  <2> DEFINE q == Wanted(r)
  <2>1. PICK ns \in P!Picked(node, r.pin) :
           p \in P!Plan(q, P!Resources(cards, sample, claimed, ns))
    BY PlacedIs
  <2>2. q.pin = r.pin /\ q.gpus = r.gpus /\ q.need = r.need
    BY WantedIs
  <2> HIDE DEF q
  <2> DEFINE devices == P!Resources(cards, sample, claimed, ns)
  <2>3. p \in P!PlanExplicit(q, devices)
    BY <1>3, <2>1, <2>2 DEF P!Plan
  <2>4. PICK n \in r.pin :
           /\ p = [node |-> n, gpus |-> {r.gpus[i] : i \in DOMAIN r.gpus}]
           /\ \A i \in DOMAIN r.gpus :
                 \E g \in P!OnNode(devices, n) : g.index = r.gpus[i] /\ P!Usable(g, q)
    <3> HIDE DEF devices
    <3> QED
      BY <2>2, <2>3 DEF P!PlanExplicit
  <2>5. p.node = n /\ p.gpus = {r.gpus[i] : i \in DOMAIN r.gpus}
    BY <2>4
  <2> DEFINE on == Usables(q, devices, n)
             fit == FitIn(ns, n, q, cards, sample, claimed)
  <2>6. on = DevicesOf(fit, cards, sample, claimed)
    BY <1>1, <2>2, UsablesAre
  <2>7. \A i \in DOMAIN r.gpus : \E g \in on : g.index = r.gpus[i]
    BY <2>4 DEF Usables
  <2> HIDE DEF on, devices
  <2>8. \A c \in cards : Device(c, cards, sample, claimed).index = c.index
    BY <1>1, DeviceIs
  <2>9. \A i \in DOMAIN r.gpus : \E c \in fit : c.index = r.gpus[i]
    BY <2>6, <2>7, <2>8 DEF DevicesOf, FitIn, FitOn
  <2>10. fit \subseteq FitOn(n, r, cards, sample, claimed) /\ \A c \in fit : n \in ns
    BY <2>2 DEF FitIn, FitOn, Fit
  <2>11. 1 \in DOMAIN r.gpus
    BY <1>1, <1>3
  <2>12. n \in ns
    BY <2>9, <2>10, <2>11
  <2>13. IF r.pin = {} THEN ~node[n].disabled ELSE n \in r.pin /\ node[n].status = "ONLINE"
    BY <2>1, <2>12, PickedMayBeUsed
  <2>14. P!Reservable(r) => Cardinality(p.gpus) = Len(r.gpus)
    BY <1>1, <2>5, ListedCount DEF P!Reservable
  <2> HIDE DEF fit
  <2>15. \A i \in p.gpus : \E c \in FitOn(p.node, r, cards, sample, claimed) : c.index = i
    BY <2>5, <2>9, <2>10
  <2> QED
    BY <1>3, <2>5, <2>13, <2>14, <2>15
<1> QED
  BY <1>2, <1>3

\* plan: of the devices of the node that fit, no busier one is taken while an idler one is
\* left.
THEOREM IdlersFirst ==
    ASSUME NEW Nds, NEW cards, NEW node, NEW sample, Known(cards, sample),
           NEW claimed, NEW r \in Asked(Nds), r.gpus = <<>>,
           NEW p \in P!Placed(r, node, cards, sample, claimed),
           NEW c \in FitOn(p.node, r, cards, sample, claimed), c.index \in p.gpus,
           NEW d \in FitOn(p.node, r, cards, sample, claimed), d.index \notin p.gpus
    PROVE  Busy(c, sample) <= Busy(d, sample)
<1>1. r.need \in Nat /\ r.count \in Nat
  BY DEF Asked
<1>2. PICK ns \in P!Picked(node, r.pin) : Choice(p, ns, r, cards, sample, claimed)
  BY ChoiceIs
<1> DEFINE on == Usables(r, P!Resources(cards, sample, claimed, ns), p.node)
           few == FirstFew(on, r.count)
           gc == Device(c, cards, sample, claimed)
           gd == Device(d, cards, sample, claimed)
<1>3. /\ Places(on) /\ r.count <= Cardinality(on) /\ p.gpus = {g.index : g \in few}
      /\ gc \in on /\ gd \in on
  BY <1>2 DEF Choice, DevicesOf
<1>4. c \in cards /\ d \in cards
  BY DEF FitOn
<1>5. gc.index = c.index /\ gc.util = Busy(c, sample) /\ gc.index \in Nat /\ gc.util \in Nat
  BY <1>1, <1>4, DeviceIs
<1>6. gd.index = d.index /\ gd.util = Busy(d, sample) /\ gd.index \in Nat /\ gd.util \in Nat
  BY <1>1, <1>4, DeviceIs
<1> HIDE DEF on, gc, gd
<1>7. few \subseteq on
  BY DEF FirstFew
<1>8. \A x \in few, y \in on : P!Before(y, x) => y \in few
  BY <1>1, <1>3, FirstFewAre
<1> HIDE DEF few
<1>9. gc \in few
  <2>1. PICK g \in few : g.index = gc.index
    BY <1>3, <1>5
  <2> QED
    BY <1>3, <1>7, <2>1 DEF Places
<1>10. gd \notin few
  BY <1>3, <1>6
<1>11. ~P!Before(gd, gc)
  BY <1>3, <1>8, <1>9, <1>10
<1> QED
  BY <1>5, <1>6, <1>11 DEF P!Before
=============================================================================
