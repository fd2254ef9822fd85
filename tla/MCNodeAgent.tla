---------------------------- MODULE MCNodeAgent ----------------------------
(***************************************************************************)
(* The node agent under every small host, beside the instance of           *)
(* FleetSync: container requests (HostContainers) over every host of two   *)
(* containers and every two ways the calls may meet; and what a host says  *)
(* of its cards (Probes).                                                  *)
(***************************************************************************)
EXTENDS MCFleetSync, Integers, FiniteSets, Sequences, SequencesExt

----------------------------------------------------------------------------
(* HostContainers.                                                         *)

HC == INSTANCE HostContainers WITH AllowUnmanaged <- FALSE

Bystander == [id |-> 9, name |-> "db", image |-> "i", label |-> FALSE, state |-> "RUNNING",
              gpus |-> {}]
BoxStates == {"CREATED", "RUNNING", "RESTARTING", "PAUSED", "EXITED", "DEAD", "UNKNOWN"}
Ours == [id: {1}, name: {"m"}, image: {"i"}, label: BOOLEAN, state: BoxStates, gpus: {{0}}]

Hosts == [docker: {"up", "down"}, images: SUBSET {"i"}, network: BOOLEAN,
          boxes: {{Bystander} \cup s : s \in {{}} \cup {{b} : b \in Ours}}]
Ways == [link: {"fine", "tls", "down", "late", "lost"}, token: BOOLEAN,
         daemon: {"works", "refuses", "fades"}]
Fine == [link |-> "fine", token |-> TRUE, daemon |-> "works"]
Verbs == {"start", "stop", "restart", "remove", "force"}
Requests == [deployment: {"m"}, image: {"i"}, gpus: {{0, 1}}, mock: BOOLEAN]

Reaches(way) == way.link \in {"fine", "late", "lost"} /\ way.token

\* What the platform does not own is never touched, by a request of an operator
\* or of the worker, whatever becomes of the call (_require_managed).
ForeignUntouched(h, w1, w2) ==
    \A b \in h.boxes : ~b.label =>
       /\ \A op \in Verbs : b \in HC!Operate({[id |-> b.id, state |-> "RUNNING"]}, h, w1, b.id, op).host.boxes
       /\ b \in HC!StopModel(h, w1, w2, b.id).host.boxes
       /\ b \in HC!RestartModel(h, w1, b.id).host.boxes
       /\ \A r \in Requests : b \in HC!DeployModel(h, w1, w2, r, 2).host.boxes

\* An operator is told "done" only of what the host did, and then the row says
\* what the host holds; a refusal is told apart from a fault and audited as one;
\* and what was not done or not answered changes no row (_control).
OperatorsKnow(h, way) ==
    \A op \in Verbs, known \in BOOLEAN :
       LET seen == IF known THEN {[id |-> 1, state |-> "EXITED"]} ELSE {}
           o == HC!Operate(seen, h, way, 1, op) IN
       /\ o.told = "done" => {[id |-> b.id, state |-> b.state] : b \in HC!Named(o.host, 1)} = o.rows
       /\ HC!HttpStatus(o.told) = 409 <=>
             known /\ Reaches(way) /\ way.link = "fine" /\ h.docker = "up"
               /\ \E b \in h.boxes : b.id = 1 /\ ~b.label
       /\ o.told # "done" => o.rows = seen
       /\ o.told \in {"conflict", "unknown"} \/ ~Reaches(way) => o.host = h
       /\ ~known => o.told = "unknown" /\ HC!Logs(seen, h, way, 1) = "unknown"
       /\ o.audit # {} <=> known

\* Whatever became of a first attempt to stop, a second that gets through leaves
\* no container of the platform's; and an attempt that did not stop it keeps it
\* (stop_model).
StoppingAgainEnds(h, w1, w2) ==
    LET first == HC!StopModel(h, w1, w2, 1) IN
    /\ h.docker = "up" => \A b \in HC!Named(HC!StopModel(first.host, Fine, Fine, 1).host, 1) : ~b.label
    /\ HC!AskControl(h, w1, 1, "stop").class # "ok" => HC!Named(first.host, 1) # {} \/ HC!Named(h, 1) = {}
    /\ first.host.boxes \ HC!Named(first.host, 1) = h.boxes \ HC!Named(h, 1)

\* A deployment that starts runs what was asked for and nothing else took its
\* name; one that fails leaves at most a container the platform may find by its
\* label and remove, after which the same request goes through (deploy_model).
DeployingAgainStarts(h, w1, w2) ==
    \A r \in Requests :
       LET d == HC!DeployModel(h, w1, w2, r, 2)
           new == d.host.boxes \ h.boxes
           swept == [d.host EXCEPT !.boxes = {b \in @ : ~b.label}]
           again == HC!DeployModel(swept, Fine, Fine, r, 3) IN
       /\ d.state = "STARTING" <=> d.ref = {2}
       /\ d.state = "STARTING" =>
             \E b \in new : /\ b.id = 2 /\ b.state = "RUNNING" /\ b.label
                            /\ b.gpus = IF r.mock THEN {} ELSE r.gpus
       /\ Cardinality(new) <= 1 /\ h.boxes \subseteq d.host.boxes
       /\ h.images = {} => d.host = h
       /\ LET l == HC!ListManaged(d.host, Fine) IN l.class = "ok" => new \subseteq l.info
       /\ h.docker = "up" /\ h.images = {"i"} /\ h.network =>
             (again.state = "STARTING" <=> \A b \in swept.boxes : b.name # "m")
       /\ d.state = "FAILED" /\ new # {} =>
             HC!DeployModel(d.host, Fine, Fine, r, 3).state = "FAILED"

\* Reconciliation is given every container with the label or nothing at all; a
\* status is RUNNING only of a container that runs; an image counts as there
\* wherever Docker is (list_managed, get_status, image_exists).
AnswersAreTrue(h, way) ==
    LET l == HC!ListManaged(h, way) IN
    /\ l.class = "ok" => l.info = {b \in h.boxes : b.label}
    /\ l.class # "ok" => l.info = {}
    /\ HC!GetStatus(h, way, 1) = "RUNNING" => \E b \in HC!Named(h, 1) : b.state = "RUNNING"
    /\ way.link = "down" => l.class = "unreachable"
    /\ l.class = "unreachable" => way.link \in {"down", "late"}
    /\ HC!FetchLogs(h, way, 1) = "lines" => Reaches(way) /\ HC!Named(h, 1) # {}
    /\ HC!ImageExists(h, way, "i") => h.docker = "up" /\ Reaches(way)

ASSUME ContainersChecked ==
    \A h \in Hosts, w1 \in Ways :
       /\ OperatorsKnow(h, w1)
       /\ AnswersAreTrue(h, w1)
       /\ \A w2 \in Ways :
             /\ ForeignUntouched(h, w1, w2)
             /\ StoppingAgainEnds(h, w1, w2)
             /\ DeployingAgainStarts(h, w1, w2)

\* Shares are never negative, also where a counter began again with the container.
ASSUME StatsChecked ==
    \A a, b, c, d \in 0 .. 4, n \in {1, 2} :
       /\ HC!CpuPercent(a, b, c, d, n) >= 0
       /\ HC!CpuPercent(a, b, c, d, n) <= n * 100 * (IF a > b THEN a - b ELSE 0)
       /\ HC!MemoryUsed(a, b) \in 0 .. a

----------------------------------------------------------------------------
(* Probes.                                                                 *)

P == INSTANCE Probes

\* Lines of dmon that are whole, one and two words short.
Whole == <<50, 100, 40, P!NA, P!NA, P!NA, 0, P!NA>>
Lines == {Whole, SubSeq(Whole, 1, 7), SubSeq(Whole, 1, 6)}

Cards == [index: {0}, uuid: {<<"u", 0>>}, total: {1000, P!NA}, peers: {{0, 1}},
          smi: [util: {50}, used: {100, 990}, temp: {40, 84, 90, P!NA}, ecc: {0, 1, P!NA}],
          dmon: Lines]
Second == [index |-> 1, uuid |-> <<"u", 1>>, total |-> 1000, peers |-> {0, 1},
           smi |-> [util |-> 0, used |-> 0, temp |-> 40, ecc |-> 0], dmon |-> Whole]

Answers == {"works", "fails", "absent"}
GpuHosts(cs) == [smi: Answers, engine: Answers, topo: BOOLEAN, dmon: {"works", "fails"},
                 apps: {"works", "fails"}, cards: {cs},
                 procs: {{[uuid |-> c.uuid, pid |-> 1, comma |-> FALSE, used |-> 7] : c \in cs}}]
Fake == [count |-> 2, total |-> 81920, load |-> [i \in 0 .. 1 |-> 5 + 90 * i]]

Drivers == {"dcgm", "nvidia_smi"}
AnswerOf(probe, h) == P!GetGpus(probe, h, Fake)

\* Cards are synthetic only where the probe is, however the host changes after
\* the choice; and a host whose driver answered when it was made is never given
\* the fake (select_probe).
NeverSilentlyFake(h) ==
    \A kind \in {"auto", "fake"} \cup Drivers :
       LET probe == P!SelectProbe(kind, h) IN
       /\ P!SmiAvailable(h) /\ kind # "fake" => probe # "fake"
       /\ \A smi \in Answers : LET a == AnswerOf(probe, [h EXCEPT !.smi = smi]) IN
             /\ a.body.synthetic <=> probe = "fake"
             /\ \A d \in a.body.devices : d.uuid \in {<<"u", 0>>, <<"u", 1>>} <=> probe # "fake"

\* DCGM costs nothing that nvidia-smi has: the same cards, and an answer whenever
\* nvidia-smi alone would give one, unless a line of dmon ends one word early.
DcgmOnlyAdds(h) ==
    LET d == AnswerOf("dcgm", h)
        s == AnswerOf("nvidia_smi", h) IN
    d.body.available =>
       /\ s.body.available
       /\ {x.uuid : x \in d.body.devices} = {x.uuid : x \in s.body.devices}
       /\ d.body.processes = s.body.processes
       /\ ~h.topo => d.body.devices = s.body.devices
       /\ d.body.metrics = {} <=> h.cards = {}
       /\ h.dmon = "fails" \/ (\A c \in h.cards : ~P!Accepted(c.dmon)) => d.body.metrics = s.body.metrics
LinesCost(h) ==
    P!DcgmAvailable(h) =>
       (AnswerOf("dcgm", h).code = 503 <=> h.dmon = "works" /\ \E c \in h.cards : P!Overrun(c.dmon))

\* One answer agrees with itself: samples and processes are of listed cards, no
\* card is sampled twice, and /health counts what /gpus lists.
AnswersAgree(h) ==
    \A probe \in Drivers \cup {"fake"} :
       LET a == AnswerOf(probe, h)
           listed == {d.uuid : d \in a.body.devices}
           health == P!Health(probe, h, Fake, TRUE) IN
       /\ {m.uuid : m \in a.body.metrics} \subseteq listed
       /\ Cardinality(a.body.metrics) = Cardinality({m.uuid : m \in a.body.metrics})
       /\ {p.uuid : p \in a.body.processes} \subseteq listed
       /\ a.body.available => health.gpus = Cardinality(listed)
       /\ health.status = "degraded" => a.code = 503
       /\ a.code = 503 => health.status = "degraded" \/ probe = "dcgm"
       /\ \A d \in a.body.devices : d.index \notin d.peers
       /\ \A cache \in {{}, {P!Nothing}} :
             LET kept == P!Fetch(cache, a) IN
             /\ P!Synthetic(kept) => probe = "fake"
             /\ cache # {} => kept = cache

\* Health is read off the sample: failing memory is never anything but critical,
\* and what the host does not say raises no alarm (classify_health).
AlarmsAreMeasured(h) ==
    \A m \in AnswerOf("nvidia_smi", h).body.metrics : \A c \in h.cards : c.uuid = m.uuid =>
       /\ m.health = "CRITICAL" <=> c.smi.ecc > 0 \/ c.smi.temp >= 90
       /\ m.ecc = {} <=> c.smi.ecc = P!NA
       /\ m.health # "HEALTHY" <=> c.smi.ecc > 0 \/ c.smi.temp >= 83 \/ (c.total # P!NA /\ c.smi.used * 100 >= c.total * 98)

ASSUME ProbesChecked ==
    \A cs \in {{c} : c \in Cards} \cup {{c, Second} : c \in Cards} \cup {{}} : \A h \in GpuHosts(cs) :
       NeverSilentlyFake(h) /\ DcgmOnlyAdds(h) /\ LinesCost(h) /\ AnswersAgree(h) /\ AlarmsAreMeasured(h)

\* The fake alarms nobody, whatever its load.
ASSUME FakeIsHealthy ==
    \A load \in [0 .. 1 -> {5, 50, 95}] : \A m \in P!FakeMetrics(2, 81920, load) :
       m.health = "HEALTHY" /\ m.used < m.total

Phrase == -2

\* A cell of dmon is read as what it says if every cell before it is one word;
\* after a "NOT SUPPORTED" the values stand one column to the right.
ASSUME ColumnsRead ==
    \A cells \in [1 .. P!Fields -> {0, 95, P!NA, Phrase}] :
       LET line == FlattenSeq([i \in DOMAIN cells |->
                       IF cells[i] = Phrase THEN <<P!NA, P!NA>> ELSE <<cells[i]>>])
           says(i) == IF cells[i] = Phrase THEN P!NA ELSE cells[i]
           plain(i) == \A j \in 1 .. i - 1 : cells[j] # Phrase
           m == P!DcgmSample([Second EXCEPT !.dmon = line]) IN
       /\ plain(3) => m.temp = P!Num(says(3))
       /\ plain(7) => m.ecc = P!OptInt(says(7))
       /\ ~plain(3) /\ plain(2) => m.temp = 0
       /\ Cardinality({i \in 1 .. 6 : cells[i] = Phrase}) = 1 /\ plain(6)
             => m.ecc = P!OptInt(IF cells[6] = Phrase THEN P!NA ELSE says(6))
=============================================================================
