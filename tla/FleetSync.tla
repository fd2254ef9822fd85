----------------------------- MODULE FleetSync -----------------------------
(***************************************************************************)
(* The fleet as the platform remembers it (services/infrastructure.py,     *)
(* workers/scheduler.py): hosts whose agents answer or not, cards that are *)
(* plugged into slots, containers that come and go, and the rows of nodes, *)
(* gpus and containers that sweeps, manual checks, registrations, the      *)
(* staleness job and operators' container requests keep up to date.        *)
(* A session commits all it saw at once or nothing.  The ORM writes a      *)
(* column only when it differs from what the session loaded.  A unique     *)
(* index makes the later of two writers wait and then fail; here it fails  *)
(* when it commits.  A chain of cards that each take the slot of the next  *)
(* is counted as a clash whatever order the updates take.                  *)
(* A container is its host's: container ids are unique in the fleet.       *)
(* Left out: telemetry, health events, processes, host facts, audit rows,  *)
(* the token's decryption (UNKNOWN), disabled nodes.                       *)
(***************************************************************************)
EXTENDS Naturals

CONSTANTS
    Node, Card, Slot, None,
    Check,       \* API sessions, for checks and registrations
    Checked,     \* the nodes somebody checks
    New,         \* cards not yet in the inventory
    Box,         \* containers
    HostOf,      \* [Box -> the host whose Docker has it]
    Managed,     \* those the platform created, by their label
    Operator,    \* API sessions that control containers
    Command,     \* what they ask for
    Sweep,       \* the session of sync_nodes, one at a time by _sync_lock
    Changes,     \* bound on what happens to the fleet
    Hiccups      \* bound on sweeps the database fails

ASSUME FleetAssumption ==
    /\ Sweep \notin Check
    /\ Checked \subseteq Node
    /\ New \subseteq Card
    /\ HostOf \in [Box -> Node]
    /\ Managed \subseteq Box
    /\ Command \subseteq {"start", "stop", "restart", "remove", "remove, forced"}
    /\ Changes \in Nat
    /\ Hiccups \in Nat

VARIABLES
    at,          \* [Card -> where it is plugged in]
    agent,       \* [Node -> mood of its agent]
    box,         \* [Box -> what its host's Docker says of it, or None]
    node,        \* [Node -> committed row]
    gpu,         \* [Card -> the place its committed row says, or None]
    inv,         \* [Box -> the state its committed row says, or None]
    ses,         \* [Session -> what it holds]
    ctl,         \* [Operator -> the request under way, or None]
    mark,        \* nodes mark_stale_nodes has decided on, or None
    changed,     \* what has happened to the fleet, up to Changes
    failed       \* sweeps the database failed, up to Hiccups

vars == <<at, agent, box, node, gpu, inv, ses, ctl, mark, changed, failed>>
world == <<at, agent, box, changed>>
rows == <<node, gpu, inv>>
rest == <<mark, failed>>

Session == Check \cup {Sweep}
Place == Node \X Slot
Status == {"ONLINE", "DEGRADED", "OFFLINE"}
Mood == {"up", "sick", "down"}
Seen == {"fresh", "old"}    \* old: more than STALE_POLL_MULTIPLIER intervals ago

NodeRow == [st: Status, seen: Seen]

State == {"RUNNING", "EXITED"}

\* What a session will do to a container's row.  last_seen_at makes an UPDATE of
\* every container listed; the state is written when it differs.
Plan == [do: {"insert", "update", "delete"}, st: State \cup {None}]

\* A request: the container, the state its row said, what the row shall say.
Request == [on: Box, cmd: Command, was: State, done: State \cup {"nothing", "deleted"}]

\* left: nodes still to contact; was: the status loaded, of those; list: the
\* containers a node listed, not yet compared with their rows; st, heard, put,
\* plan: what it will write.
Held == [on: BOOLEAN, left: SUBSET Node, was: [Node -> Status \cup {None}],
         st: [Node -> Status \cup {None}], heard: SUBSET Node,
         put: [Card -> Place \cup {None}],
         list: {None} \cup (Node \X [Box -> State \cup {None}]),
         plan: [Box -> Plan \cup {None}]]

Nothing(S) == [x \in S |-> None]
Idle == [on |-> FALSE, left |-> {}, was |-> Nothing(Node), st |-> Nothing(Node),
         heard |-> {}, put |-> Nothing(Card), list |-> None, plan |-> Nothing(Box)]

Injective(f) == \A c, d \in Card : c # d /\ f[c] # None => f[c] # f[d]

\* Agents may have died, though not all, and cards been plugged in, since the last
\* sweep.
Init ==
    /\ at \in {f \in [Card -> Place] : Injective(f)}
    /\ gpu = [c \in Card |-> IF c \in New THEN None ELSE at[c]]
    /\ agent \in [Node -> {"up", "down"}]
    /\ \E n \in Node : agent[n] = "up"
    /\ node = [n \in Node |-> [st |-> "ONLINE", seen |-> "fresh"]]
    /\ box = [x \in Box |-> "RUNNING"]
    /\ inv = box
    /\ ses = [s \in Session |-> Idle]
    /\ ctl = [o \in Operator |-> None]
    /\ mark = None
    /\ changed = 0
    /\ failed = 0

Goes(s, h) == ses' = [ses EXCEPT ![s] = h]

----------------------------------------------------------------------------
(* The fleet.                                                              *)

Happens == changed < Changes /\ changed' = changed + 1

\* A card is pulled, or put into a slot, in the place of the one there.
Move(c, p) ==
    /\ Happens
    /\ at[c] # p
    /\ at' = [d \in Card |-> IF d = c THEN p ELSE IF at[d] = p THEN None ELSE at[d]]
    /\ UNCHANGED <<agent, box, rows, ses, ctl, rest>>

AgentBecomes(n, m) ==
    /\ Happens
    /\ agent[n] # m
    /\ agent' = [agent EXCEPT ![n] = m]
    /\ UNCHANGED <<at, box, rows, ses, ctl, rest>>

\* A deployment makes a container, or one ends or goes, past the inventory.
BoxBecomes(x, st) ==
    /\ Happens
    /\ box[x] # st
    /\ box' = [box EXCEPT ![x] = st]
    /\ UNCHANGED <<at, agent, rows, ses, ctl, rest>>

\* Three poll intervals pass.  The answers a session still holds stay fresh.
TimePasses ==
    /\ node' = [n \in Node |-> [st |-> node[n].st, seen |-> "old"]]
    /\ UNCHANGED <<world, gpu, inv, ses, ctl, rest>>

----------------------------------------------------------------------------
(* sync_node, for a sweep of every node or a check of one.                 *)

Began(N) == [on |-> TRUE, left |-> N, st |-> Nothing(Node), heard |-> {},
             put |-> Nothing(Card), list |-> None, plan |-> Nothing(Box),
             was |-> [n \in Node |-> IF n \in N THEN node[n].st ELSE None]]

\* Mutant: nodes already offline are not contacted.
PollableIfUp == {n \in Node : node[n].st # "OFFLINE"}

\* list_pollable: offline nodes included.
Pollable == Node

BeginSweep ==
    /\ ses[Sweep] = Idle
    /\ Pollable # {}
    /\ Goes(Sweep, Began(Pollable))
    /\ UNCHANGED <<world, rows, ctl, rest>>

BeginCheck(s, n) ==
    /\ ses[s] = Idle
    /\ Goes(s, Began({n}))
    /\ UNCHANGED <<world, rows, ctl, rest>>

\* A status equal to the one loaded is not written.
Contacted(h, n, st) ==
    [h EXCEPT !.left = @ \ {n}, !.was[n] = None,
              !.st[n] = IF st = h.was[n] THEN None ELSE st]

\* The rows as session s sees them.
View(s) == [c \in Card |-> IF ses[s].put[c] # None THEN ses[s].put[c] ELSE gpu[c]]

Reported(n) == {c \in Card : at[c] # None /\ at[c][1] = n}

\* A reported slot another card's row holds: uq on (node_id, index).
SlotHeld(s, n) == \E c \in Reported(n), d \in Card : c # d /\ View(s)[d] = at[c]

\* Mutant: only cards the node already had are brought up to date.
PlacedIfKnown(s, n) ==
    [c \in Card |-> IF c \in Reported(n) /\ gpu[c] # None /\ gpu[c][1] = n
                       THEN at[c] ELSE ses[s].put[c]]

\* _sync_gpus: a card new to the fleet gets a row, one known elsewhere moves,
\* one no longer reported keeps its row.
Placed(s, n) ==
    [c \in Card |-> IF c \in Reported(n) /\ View(s)[c] # at[c]
                       THEN at[c] ELSE ses[s].put[c]]

Containers(n) == [b \in Box |-> IF HostOf[b] = n THEN box[b] ELSE None]

\* A node that lists no container changes no row: delete_missing has a guard.
Listing(n) == IF Containers(n) = Nothing(Box) THEN None ELSE <<n, Containers(n)>>

\* The agent answers, and lists its devices and its containers.
Synced(s, n, st, list) ==
    /\ ~SlotHeld(s, n)
    /\ Goes(s, [Contacted(ses[s], n, st) EXCEPT
                   !.heard = @ \cup {n}, !.put = Placed(s, n), !.list = list])

\* IntegrityError is not a NodeAgentError: it leaves sync_node and ends the
\* request, or the whole sweep.
Clashes(s, n) ==
    /\ SlotHeld(s, n)
    /\ Goes(s, Idle)

\* Sections are independent: DEGRADED if one fails, the devices or the containers
\* listed or not; DEGRADED and not heard when it is the first answer that fails.  A
\* probe that finds no driver is no failure: ONLINE, no device listed.
Partly(s, n) ==
    \E N \in SUBSET {n}, list \in {None, Listing(n)}, st \in {"ONLINE", "DEGRADED"} :
        /\ list # None \/ st = "ONLINE" => N = {n}
        /\ Goes(s, [Contacted(ses[s], n, st) EXCEPT !.heard = @ \cup N, !.list = list])

\* One node after the other, in no order that is promised.
Probe(s) ==
    /\ ses[s].list = None
    /\ \E n \in ses[s].left :
         \/ agent[n] = "up" /\ (Synced(s, n, "ONLINE", Listing(n)) \/ Clashes(s, n))
         \/ /\ agent[n] = "sick"
            /\ \/ \E list \in {None, Listing(n)} : Synced(s, n, "DEGRADED", list)
               \/ Clashes(s, n) \/ Partly(s, n)
         \/ agent[n] = "down" /\ Goes(s, Contacted(ses[s], n, "OFFLINE"))
    /\ UNCHANGED <<world, rows, ctl, rest>>

\* _sync_containers, its rows read after the agent has answered.
PlanFor(x, f) ==
    IF f[x] = None THEN IF inv[x] = None THEN None ELSE [do |-> "delete", st |-> None]
    ELSE IF inv[x] = None THEN [do |-> "insert", st |-> f[x]]
    ELSE [do |-> "update", st |-> IF inv[x] = f[x] THEN None ELSE f[x]]

Compare(s) ==
    /\ ses[s].list # None
    /\ Goes(s, [ses[s] EXCEPT !.list = None,
                  !.plan = [x \in Box |-> IF HostOf[x] = ses[s].list[1]
                                               THEN PlanFor(x, ses[s].list[2]) ELSE @[x]]])
    /\ UNCHANGED <<world, rows, ctl, rest>>

\* What another session committed since leaves the unique indexes whole.
SlotsFree(s) == Injective(View(s))

Written(s, n) ==
    [st |-> IF ses[s].st[n] # None THEN ses[s].st[n] ELSE node[n].st,
     seen |-> IF n \in ses[s].heard THEN "fresh" ELSE node[n].seen]

\* An INSERT of a row another session has inserted violates the index; an UPDATE
\* of one it has deleted raises StaleDataError.
RowsFit(s) ==
    \A x \in Box :
        LET p == ses[s].plan[x] IN
        p # None => (p.do = "insert" => inv[x] = None) /\ (p.do = "update" => inv[x] # None)

Kept(s) ==
    [x \in Box |-> LET p == ses[s].plan[x] IN
        IF p = None THEN inv[x]
        ELSE IF p.do = "delete" \/ p.st # None THEN p.st ELSE inv[x]]

Ready(s) == ses[s].on /\ ses[s].left = {} /\ ses[s].list = None

Commit(s) ==
    /\ Ready(s)
    /\ SlotsFree(s)
    /\ RowsFit(s)
    /\ node' = [n \in Node |-> Written(s, n)]
    /\ gpu' = View(s)
    /\ inv' = Kept(s)
    /\ Goes(s, Idle)
    /\ UNCHANGED <<world, ctl, rest>>

\* All that the session saw is lost.
CommitFails(s) ==
    /\ Ready(s)
    /\ ~SlotsFree(s) \/ ~RowsFit(s)
    /\ Goes(s, Idle)
    /\ UNCHANGED <<world, rows, ctl, rest>>

\* A deadlock, a lost connection, a stopped process.
Abort(s) ==
    /\ ses[s] # Idle
    /\ IF s = Sweep THEN failed < Hiccups /\ failed' = failed + 1 ELSE failed' = failed
    /\ Goes(s, Idle)
    /\ UNCHANGED <<world, rows, ctl, mark>>

----------------------------------------------------------------------------
(* DockerService._control and the node agent's control routes.             *)

Turns(o, r) == ctl' = [ctl EXCEPT ![o] = r]

\* _resolve: only a container with a row can be named.
Known(x) == inv[x] # None

Ask(o, x, c) ==
    /\ ctl[o] = None
    /\ Known(x)
    /\ Happens
    /\ Turns(o, [on |-> x, cmd |-> c, was |-> inv[x], done |-> "nothing"])
    /\ UNCHANGED <<at, agent, box, rows, ses, rest>>

\* What Docker makes of a command; it will not remove what runs unless forced.
Effect(c) ==
    CASE c \in {"start", "restart"} -> "RUNNING"
      [] c = "stop" -> "EXITED"
      [] OTHER -> None

\* The agent controls no container without the label.
Controllable(x) == box[x] # None /\ x \in Managed

Obeys(x, c) ==
    /\ agent[HostOf[x]] # "down"
    /\ Controllable(x)
    /\ ~(c = "remove" /\ box[x] = "RUNNING")

\* No answer, a late one, or an error.
Fails(x, c) == agent[HostOf[x]] # "up" \/ ~Obeys(x, c)

\* The answer may come too late (CONTROL_TIMEOUT): done, and not known to be.
Act(o) ==
    /\ ctl[o] # None
    /\ ctl[o].done = "nothing"
    /\ LET r == ctl[o] IN
         /\ Obeys(r.on, r.cmd)
         /\ box' = [box EXCEPT ![r.on] = Effect(r.cmd)]
         /\ \/ Turns(o, [on |-> r.on, cmd |-> r.cmd, was |-> r.was,
                          done |-> IF Effect(r.cmd) = None THEN "deleted" ELSE Effect(r.cmd)])
            \/ Turns(o, None)
    /\ UNCHANGED <<at, agent, changed, rows, ses, rest>>

\* Unreachable, refused or failed: nothing but an audit row of its own.
Denied(o) ==
    /\ ctl[o] # None
    /\ ctl[o].done = "nothing"
    /\ Fails(ctl[o].on, ctl[o].cmd)
    /\ Turns(o, None)
    /\ UNCHANGED <<world, rows, ses, rest>>

\* The cached row follows.  A DELETE of a row already gone only warns; an UPDATE of
\* one raises, and the answer is an error though the container has changed.
Record(o) ==
    /\ ctl[o] # None
    /\ ctl[o].done # "nothing"
    /\ LET r == ctl[o] IN
        inv' = [inv EXCEPT ![r.on] = IF r.done = "deleted" \/ @ = None THEN None
                                     ELSE IF r.done = r.was THEN @ ELSE r.done]
    /\ Turns(o, None)
    /\ UNCHANGED <<world, node, gpu, ses, rest>>

----------------------------------------------------------------------------
(* mark_stale_nodes: judged on what it loads, written at its commit.       *)

\* Mutant: the cutoff is compared the wrong way round.
RecentlySeen == {n \in Node : node[n].st # "OFFLINE" /\ node[n].seen = "fresh"}

Stale == {n \in Node : node[n].st # "OFFLINE" /\ node[n].seen = "old"}

JudgeStale ==
    /\ mark = None
    /\ Stale # {}
    /\ mark' = Stale
    /\ UNCHANGED <<world, rows, ses, ctl, failed>>

MarkStale ==
    /\ mark # None
    /\ node' = [n \in Node |-> [st |-> IF n \in mark THEN "OFFLINE" ELSE node[n].st,
                                seen |-> node[n].seen]]
    /\ mark' = None
    /\ UNCHANGED <<world, gpu, inv, ses, ctl, failed>>

----------------------------------------------------------------------------
Works(s) ==
    \/ Probe(s) \/ Compare(s)
    \/ Commit(s) \/ CommitFails(s)

Marks == JudgeStale \/ MarkStale

Fleet ==
    \/ \E c \in Card, p \in Place \cup {None} : Move(c, p)
    \/ \E n \in Node, m \in Mood : AgentBecomes(n, m)
    \/ \E x \in Box, st \in State \cup {None} : BoxBecomes(x, st)
    \/ TimePasses

Controls(o) ==
    \/ \E x \in Box, c \in Command : Ask(o, x, c)
    \/ Act(o) \/ Denied(o) \/ Record(o)

Next ==
    \/ Fleet
    \/ BeginSweep
    \/ \E s \in Session : Works(s) \/ Abort(s)
    \/ \E s \in Check, n \in Checked : BeginCheck(s, n)
    \/ \E o \in Operator : Controls(o)
    \/ Marks

Spec == Init /\ [][Next]_vars

\* The scheduler runs both jobs at their intervals, and a probe has a timeout.
FairSpec ==
    /\ Spec
    /\ WF_vars(BeginSweep)
    /\ WF_vars(Works(Sweep))
    /\ WF_vars(Marks)
    /\ WF_vars(TimePasses)

----------------------------------------------------------------------------
(* Properties.                                                             *)

TypeOK ==
    /\ at \in [Card -> Place \cup {None}]
    /\ agent \in [Node -> Mood]
    /\ node \in [Node -> NodeRow]
    /\ gpu \in [Card -> Place \cup {None}]
    /\ box \in [Box -> State \cup {None}]
    /\ inv \in [Box -> State \cup {None}]
    /\ ses \in [Session -> Held]
    /\ ctl \in [Operator -> Request \cup {None}]
    /\ mark \in {None} \cup SUBSET Node
    /\ changed \in 0 .. Changes
    /\ failed \in 0 .. Hiccups

\* A card is plugged in where the row of another says it is: the flush of its
\* node fails, whoever tries.
Clash == \E c, d \in Card : c # d /\ at[c] # None /\ gpu[d] = at[c]

\* The fleet changes at most Changes times, so what holds again and again holds
\* after the last change.

\* The poller is how a node comes back (list_pollable): one whose agent is up is
\* ONLINE again and again, though a staleness mark judged earlier may be written
\* over a sweep, unless a card clashes.
ComesBack ==
    \A n \in Node : []<>(agent[n] = "up" => node[n].st = "ONLINE" \/ Clash)

\* A node whose agent dies does not keep its last-known status for ever
\* (mark_stale_nodes), even while every sweep fails.
SilentGoesOffline ==
    \A n \in Node : []<>(agent[n] = "down" => node[n].st = "OFFLINE")

\* The inventory follows the hosts that are up: the rows of their cards say where
\* those are, and their containers' rows say what Docker says, whatever stale
\* answers and operators' updates were committed in between.  A host that lists no
\* container keeps the rows it has (delete_missing).
CardsKnown == \A c \in Card : at[c] # None /\ agent[at[c][1]] = "up" => gpu[c] = at[c]

BoxesKnown ==
    \A x \in Box :
        agent[HostOf[x]] = "up" /\ Containers(HostOf[x]) # Nothing(Box) => inv[x] = box[x]

InventoryConverges == []<>(Clash \/ (CardsKnown /\ BoxesKnown))
=============================================================================
