------------------------------ MODULE Probes ------------------------------
(***************************************************************************)
(* What a node says of its cards (node-agent/app/probes, /gpus and /health *)
(* of node-agent/app/api.py), and the control plane's view of one answer   *)
(* (NodeAgentGpuProbe).                                                    *)
(* A host is [smi, engine, topo, dmon, apps, cards, procs]: what           *)
(* nvidia-smi and DCGM's engine do, each "works", "fails" (an exit code or *)
(* a timeout) or "absent"; whether topo answers; what dmon and the list of *)
(* processes do; the cards and the processes on them.                      *)
(* A card is [index, uuid, total, peers, smi, dmon]: a reading of          *)
(* nvidia-smi is [util, used, temp, ecc] and a line of dmon is a sequence  *)
(* of the words printed after the index.  A cell is a number, or NA for    *)
(* the words that mean none; dmon's "NOT SUPPORTED" is two words, each NA. *)
(* Left out: clocks, power, PCIe counters, versions and names, except for  *)
(* their place in a line of dmon.                                          *)
(***************************************************************************)
EXTENDS Integers, Sequences, FiniteSets

NA == -1

\* What a call gives that raises, in place of the set it would give.
Raised == {[raised |-> TRUE]}
DidRaise(x) == x = Raised

----------------------------------------------------------------------------
(* base.classify_health, shared by every probe.                            *)

ClassifyHealth(temp, used, total, ecc) ==
    CASE ecc \notin {{}, {0}} \/ temp >= 90 -> "CRITICAL"
      [] ecc \in {{}, {0}} /\ temp \in 83 .. 89 -> "WARNING"
      [] ecc \in {{}, {0}} /\ temp < 83 /\ total > 0 /\ used * 100 >= total * 98 -> "WARNING"
      [] OTHER -> "HEALTHY"

Sample(card, util, used, total, temp, ecc) ==
    [uuid |-> card.uuid, util |-> util, used |-> used, total |-> total, temp |-> temp,
     ecc |-> ecc, health |-> ClassifyHealth(temp, used, total, ecc)]

----------------------------------------------------------------------------
(* NvidiaSmiGpuProbe.  _run raises unless the command exits 0 in time.     *)

\* _num and _opt_int: nothing is 0 for a quantity, and unknown for a counter.
Num(cell) == IF cell = NA THEN 0 ELSE cell
OptInt(cell) == IF cell = NA THEN {} ELSE {cell}

SmiAvailable(host) == host.smi = "works"

SmiDevices(host) ==
    IF host.smi # "works" THEN Raised
    ELSE {[index |-> c.index, uuid |-> c.uuid, total |-> Num(c.total), peers |-> {}] :
             c \in host.cards}

SmiMetrics(host) ==
    IF host.smi # "works" THEN Raised
    ELSE {Sample(c, Num(c.smi.util), Num(c.smi.used), Num(c.total), Num(c.smi.temp),
                 OptInt(c.smi.ecc)) : c \in host.cards}

\* list_processes: a command that fails has none; one that cannot be started
\* raises.  A comma in a name moves the memory out of its column (_rows).
SmiProcesses(host) ==
    CASE host.smi = "absent" -> Raised
      [] host.smi # "absent" /\ (host.smi = "fails" \/ host.apps = "fails") -> {}
      [] OTHER -> {[uuid |-> p.uuid, pid |-> p.pid, used |-> IF p.comma THEN 0 ELSE Num(p.used)] :
                      p \in host.procs}

----------------------------------------------------------------------------
(* DcgmGpuProbe: inventory of nvidia-smi, telemetry and topology of DCGM.  *)

DcgmAvailable(host) == host.engine = "works" /\ SmiAvailable(host)

\* _nvlink_topology: no answer is no peers.
Topology(host, index) ==
    IF host.engine = "works" /\ host.topo
    THEN UNION {c.peers \ {c.index} : c \in {d \in host.cards : d.index = index}}
    ELSE {}

DcgmDevices(host) ==
    IF DidRaise(SmiDevices(host)) THEN Raised
    ELSE {[d EXCEPT !.peers = Topology(host, d.index)] : d \in SmiDevices(host)}

\* A line's words: utilisation, memory, temperature, power, clock, corrected and
\* uncorrected errors, PCIe replays; taken as they stand.
Fields == 8

\* Lines too short are passed over, with one word short of enough let through,
\* and then looked past its end.
Accepted(line) == Len(line) >= Fields - 1
Overrun(line) == Len(line) = Fields - 1

DcgmSample(card) ==
    Sample(card, Num(card.dmon[1]), Num(card.dmon[2]), Num(card.total), Num(card.dmon[3]),
           OptInt(card.dmon[7]))

DcgmMetrics(host) ==
    LET read == {c \in host.cards : Accepted(c.dmon)} IN
    CASE DidRaise(SmiDevices(host)) -> Raised
      [] ~DidRaise(SmiDevices(host)) /\ (host.engine # "works" \/ host.dmon = "fails") ->
           SmiMetrics(host)
      [] OTHER -> IF \E c \in read : Overrun(c.dmon) THEN Raised
                  ELSE IF read = {} THEN SmiMetrics(host)
                  ELSE {DcgmSample(c) : c \in read}

----------------------------------------------------------------------------
(* FakeGpuProbe: cards under a load of 5 to 95 per cent each.              *)

FakeCards(n, total) ==
    {[index |-> i, uuid |-> <<"fake", i>>, total |-> total, peers |-> (0 .. n - 1) \ {i}] :
        i \in 0 .. n - 1}

FakeSample(card, load) ==
    Sample(card, load, (((card.total * (1000 + 65 * load)) \div 10000) \div 1024) * 1024, card.total,
           34 + (44 * load) \div 100, {0})

FakeMetrics(n, total, load) == {FakeSample(c, load[c.index]) : c \in FakeCards(n, total)}

----------------------------------------------------------------------------
(* The agent.                                                              *)

\* select_probe: what was asked for, or the best there is; once, at startup.
SelectProbe(kind, host) ==
    CASE kind # "auto" -> kind
      [] kind = "auto" /\ DcgmAvailable(host) -> "dcgm"
      [] kind = "auto" /\ ~DcgmAvailable(host) /\ SmiAvailable(host) -> "nvidia_smi"
      [] OTHER -> "fake"

IsAvailable(probe, host) ==
    CASE probe = "dcgm" -> DcgmAvailable(host)
      [] probe = "nvidia_smi" -> SmiAvailable(host)
      [] OTHER -> TRUE

Devices(probe, host, fake) ==
    CASE probe = "dcgm" -> DcgmDevices(host)
      [] probe = "nvidia_smi" -> SmiDevices(host)
      [] OTHER -> FakeCards(fake.count, fake.total)

Metrics(probe, host, fake) ==
    CASE probe = "dcgm" -> DcgmMetrics(host)
      [] probe = "nvidia_smi" -> SmiMetrics(host)
      [] OTHER -> FakeMetrics(fake.count, fake.total, fake.load)

Processes(probe, host) == IF probe = "fake" THEN {} ELSE SmiProcesses(host)

\* get_gpus: all of it or a 503, and a host without a driver is a CPU node.
Nothing == [available |-> FALSE, devices |-> {}, metrics |-> {}, processes |-> {},
            synthetic |-> FALSE]

GetGpus(probe, host, fake) ==
    LET parts == {Devices(probe, host, fake), Metrics(probe, host, fake),
                  Processes(probe, host)} IN
    CASE ~IsAvailable(probe, host) -> [code |-> 200, body |-> Nothing]
      [] IsAvailable(probe, host) /\ Raised \in parts -> [code |-> 503, body |-> Nothing]
      [] OTHER -> [code |-> 200,
                   body |-> [available |-> TRUE, devices |-> Devices(probe, host, fake),
                             metrics |-> Metrics(probe, host, fake),
                             processes |-> Processes(probe, host),
                             synthetic |-> probe = "fake"]]

\* health: reports and never raises.
Health(probe, host, fake, docker) ==
    LET failed == IsAvailable(probe, host) /\ DidRaise(Devices(probe, host, fake)) IN
    [status |-> IF docker /\ ~failed THEN "ok" ELSE "degraded",
     gpus |-> IF IsAvailable(probe, host) /\ ~failed
              THEN Cardinality(Devices(probe, host, fake)) ELSE 0]

----------------------------------------------------------------------------
(* NodeAgentGpuProbe, which keeps one answer until told to drop it.        *)

\* _fetch: a cache is a set of at most one body; a failure leaves it as it was.
Fetch(cache, answer) ==
    IF cache = {} /\ answer.code = 200 THEN {answer.body} ELSE cache
Synthetic(cache) == \E body \in cache : body.synthetic
Listed(cache) == UNION {body.devices : body \in cache}
=============================================================================
