----------------------------- MODULE ModelNames -----------------------------
(***************************************************************************)
(* What a caller's model name stands for (services/model_registry.py,      *)
(* GatewayService.resolve and list_available): models, the aliases that    *)
(* point at them, and their deployments as the gateway sees them.  An      *)
(* administrator's session checks, then commits; the unique indexes and    *)
(* foreign keys are checked again at the commit.  Deployments change as    *)
(* module Deployments says; here they come, go and lose their address.     *)
(* Left out: files, checksums, types, descriptions, audit rows.            *)
(***************************************************************************)
EXTENDS Naturals

CONSTANTS
    Name,        \* names of models and aliases
    Model,       \* ids, each used once
    Alias,       \* ids, each used once
    Dep,         \* ids in the order of created_at, each used once
    Admin,       \* sessions, reused
    None

ASSUME NamesAssumption == Dep \subseteq Nat /\ None \notin Name \cup Model \cup Alias

VARIABLES
    model,       \* [Model -> committed row]
    alias,       \* [Alias -> committed row]
    dep,         \* [Dep -> committed row]
    adm          \* [Admin -> what a session is about to commit]

nvars == <<model, alias, dep, adm>>

Life == {"unborn", "here", "gone"}
ModelRow == [st: Life, name: Name \cup {None}]
AliasRow == [st: Life, name: Name \cup {None}, of: Model \cup {None}, on: BOOLEAN]

\* running without an address: a stop that a worker's tick wrote over.
DepRow == [st: Life, of: Model \cup {None}, running: BOOLEAN, url: BOOLEAN]

\* op: the request; m, n: the model to insert or delete, and its name; x, a, of,
\* on: the alias, its name, its model, whether enabled; None: not written.
Pending == [op: {"idle", "register", "drop", "alias", "update", "unalias", "manifest"},
            m: Model \cup {None}, n: Name \cup {None},
            x: Alias \cup {None}, a: Name \cup {None}, of: Model \cup {None}, on: BOOLEAN \cup {None}]
Idle == [op |-> "idle", m |-> None, n |-> None, x |-> None, a |-> None, of |-> None,
         on |-> None]

NamesInit ==
    /\ model = [m \in Model |-> [st |-> "unborn", name |-> None]]
    /\ alias = [x \in Alias |-> [st |-> "unborn", name |-> None, of |-> None, on |-> FALSE]]
    /\ dep = [d \in Dep |-> [st |-> "unborn", of |-> None, running |-> FALSE, url |-> FALSE]]
    /\ adm = [s \in Admin |-> Idle]

Models == {m \in Model : model[m].st = "here"}
Aliases == {x \in Alias : alias[x].st = "here"}
Deps == {d \in Dep : dep[d].st = "here"}

\* get_by_name, get_by_alias (only an alias that is enabled).
Called(n) == {m \in Models : model[m].name = n}
AliasOf(n) == {x \in Aliases : alias[x].name = n /\ alias[x].on}

----------------------------------------------------------------------------
(* What names stand for.                                                   *)

\* resolve: an alias wins over a model of the same name.
Meant(n) == IF AliasOf(n) # {} THEN {alias[x].of : x \in AliasOf(n)} ELSE Called(n)

Serving(m) == {d \in Deps : dep[d].of = m /\ dep[d].running}
Live(m) == {d \in Serving(m) : dep[d].url}

\* The oldest deployment with an address, or none.
Target(m) == {d \in Live(m) : \A e \in Live(m) : d <= e}

\* Mutant: an alias is listed only if the model has no other name.
ListedByModel == {n \in Name : \E m \in Called(n) : Serving(m) # {}}

\* list_available, at one moment: aliases that serve, then what runs.
Listed ==
    {n \in Name : \/ \E x \in AliasOf(n) : Serving(alias[x].of) # {}
                  \/ \E m \in Called(n) : Serving(m) # {}}

----------------------------------------------------------------------------
(* Administrators: check, then commit.                                     *)

Starts(s, p) ==
    /\ adm[s] = Idle
    /\ adm' = [adm EXCEPT ![s] = p]
    /\ UNCHANGED <<model, alias, dep>>

NewModel(m) == model[m].st = "unborn" /\ \A s \in Admin : adm[s].m # m
NewAlias(x) == alias[x].st = "unborn" /\ \A s \in Admin : adm[s].x # x

\* register_model does not look at the aliases.
Register(s, m, n) ==
    /\ NewModel(m)
    /\ Called(n) = {}
    /\ Starts(s, [Idle EXCEPT !.op = "register", !.m = m, !.n = n])

\* A tag of a running Ollama whose name is new; one that is known only gets its
\* endpoint refreshed.
ImportOllama(s, m, n) == Register(s, m, n)

\* Refused here for an active deployment, at the commit for any.
DeleteModel(s, m) ==
    /\ m \in Models
    /\ Serving(m) = {}
    /\ Starts(s, [Idle EXCEPT !.op = "drop", !.m = m])

\* A disabled alias of the name is not seen here.
CreateAlias(s, x, a, of, on) ==
    /\ NewAlias(x)
    /\ AliasOf(a) = {}
    /\ of \in Models
    /\ Called(a) = {}
    /\ Starts(s, [Idle EXCEPT !.op = "alias", !.x = x, !.a = a, !.of = of, !.on = on])

\* What equals the row as it is read is not written.
UpdateAlias(s, x, of, on) ==
    /\ x \in Aliases
    /\ of \in Models
    /\ Starts(s, [Idle EXCEPT !.op = "update", !.x = x,
                              !.of = IF of = alias[x].of THEN None ELSE of,
                              !.on = IF on = alias[x].on THEN None ELSE on])

DeleteAlias(s, x) ==
    /\ x \in Aliases
    /\ Starts(s, [Idle EXCEPT !.op = "unalias", !.x = x])

\* One manifest: the model if its name is new, the alias if it is not found.
LoadManifest(s, n, a) ==
    \E m \in Model, x \in Alias :
       /\ IF Called(n) = {} THEN NewModel(m) ELSE m \in Called(n)
       /\ NewAlias(x)
       /\ Starts(s, [Idle EXCEPT !.op = "manifest", !.m = m, !.n = n, !.of = m, !.on = TRUE,
                                 !.x = IF AliasOf(a) = {} THEN x ELSE None, !.a = a])

----------------------------------------------------------------------------
(* Commits.                                                                *)

Inserts(p) == p.op \in {"register", "manifest"} /\ model[p.m].st = "unborn"
Adds(p) == p.op \in {"alias", "manifest"} /\ p.x # None

\* Mutant: the model of an alias is looked up when it is read, and never again.
FitsUnreferenced(p) ==
    /\ Inserts(p) => Called(p.n) = {}
    /\ Adds(p) => \A y \in Aliases : alias[y].name # p.a
    /\ p.op \in {"update", "unalias"} => p.x \in Aliases
    /\ p.op = "drop" => p.m \in Models /\ \A d \in Deps : dep[d].of # p.m

\* Unique names, and references to rows that are there.
Fits(p) ==
    /\ Inserts(p) => Called(p.n) = {}
    /\ Adds(p) => \A y \in Aliases : alias[y].name # p.a
    /\ p.op \in {"alias", "update", "manifest"} /\ p.of # None =>
          p.of \in Models \/ Inserts(p)
    /\ p.op \in {"update", "unalias"} => p.x \in Aliases
    /\ p.op = "drop" => p.m \in Models /\ \A d \in Deps : dep[d].of # p.m

\* A model takes its aliases with it.
Cascades(p, x) == p.op = "drop" /\ alias[x].of = p.m

CommitAdmin(s) ==
    LET p == adm[s] IN
    /\ p # Idle
    /\ Fits(p)
    /\ model' = [m \in Model |->
                   IF m # p.m THEN model[m]
                   ELSE IF Inserts(p) THEN [st |-> "here", name |-> p.n]
                   ELSE IF p.op = "drop" THEN [st |-> "gone", name |-> None]
                   ELSE model[m]]
    /\ alias' = [x \in Alias |->
                   IF Cascades(p, x) \/ (p.op = "unalias" /\ x = p.x)
                      THEN [st |-> "gone", name |-> None, of |-> None, on |-> FALSE]
                   ELSE IF Adds(p) /\ x = p.x
                      THEN [st |-> "here", name |-> p.a, of |-> p.of, on |-> p.on]
                   ELSE IF p.op = "update" /\ x = p.x
                      THEN [st |-> "here", name |-> alias[x].name,
                            of |-> IF p.of = None THEN alias[x].of ELSE p.of,
                            on |-> IF p.on = None THEN alias[x].on ELSE p.on]
                   ELSE alias[x]]
    /\ adm' = [adm EXCEPT ![s] = Idle]
    /\ UNCHANGED dep

\* A constraint refuses, or the session fails.
AbortAdmin(s) ==
    /\ adm[s] # Idle
    /\ adm' = [adm EXCEPT ![s] = Idle]
    /\ UNCHANGED <<model, alias, dep>>

----------------------------------------------------------------------------
(* Deployments.                                                            *)

Deploys(d, m) ==
    /\ dep[d].st = "unborn"
    /\ \A e \in Dep : e < d => dep[e].st # "unborn"
    /\ m \in Models
    /\ dep' = [dep EXCEPT ![d] = [st |-> "here", of |-> m, running |-> FALSE, url |-> FALSE]]
    /\ UNCHANGED <<model, alias, adm>>

\* RUNNING only together with an address, which may go before the state; an
\* address before that makes no difference.
Changes(d, running, url) ==
    /\ d \in Deps
    /\ url => running
    /\ running /\ ~dep[d].running => url
    /\ dep' = [dep EXCEPT ![d] = [st |-> "here", of |-> dep[d].of, running |-> running,
                                  url |-> url]]
    /\ UNCHANGED <<model, alias, adm>>

Deleted(d) ==
    /\ d \in Deps
    /\ dep' = [dep EXCEPT ![d] = [st |-> "gone", of |-> None, running |-> FALSE, url |-> FALSE]]
    /\ UNCHANGED <<model, alias, adm>>

ModelRequests(s) ==
    \/ \E m \in Model, n \in Name : Register(s, m, n) \/ ImportOllama(s, m, n)
    \/ \E m \in Model : DeleteModel(s, m)
    \/ \E n, a \in Name : LoadManifest(s, n, a)

AliasRequests(s) ==
    \/ \E x \in Alias, a \in Name, of \in Model, on \in BOOLEAN : CreateAlias(s, x, a, of, on)
    \/ \E x \in Alias, of \in Model, on \in BOOLEAN : UpdateAlias(s, x, of, on)
    \/ \E x \in Alias : DeleteAlias(s, x)

Administration ==
    \E s \in Admin : ModelRequests(s) \/ AliasRequests(s) \/ CommitAdmin(s) \/ AbortAdmin(s)

Deployment ==
    \E d \in Dep :
       \/ \E m \in Model : Deploys(d, m)
       \/ \E running, url \in BOOLEAN : Changes(d, running, url)
       \/ Deleted(d)

NamesTypeOK ==
    /\ model \in [Model -> ModelRow]
    /\ alias \in [Alias -> AliasRow]
    /\ dep \in [Dep -> DepRow]
    /\ adm \in [Admin -> Pending]

\* resolve and list_available are written twice (gateway.py): what can be called
\* by a name is in the catalogue under that name, whatever aliases shadow it and
\* however deployments come and go.
CallableIsListed == \A n \in Name : (\E m \in Meant(n) : Target(m) # {}) => n \in Listed

\* Models are deleted while others point aliases at them or deploy them
\* (delete_model, create_alias, update_alias, load_manifests): the model an
\* administrator has read may be gone before the alias is committed, and an alias
\* always has its model, and so has a deployment.
NothingDangles ==
    /\ \A x \in Aliases : alias[x].of \in Models
    /\ \A d \in Deps : dep[d].of \in Models
=============================================================================
