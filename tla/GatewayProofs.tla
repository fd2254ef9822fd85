--------------------------- MODULE GatewayProofs ---------------------------
(***************************************************************************)
(* Proofs about ModelNames and Gateway: references that cross sessions     *)
(* never dangle; a window lets no more calls through than its limit,       *)
(* though its counter comes and goes; what reached a runtime is accounted  *)
(* once.                                                                   *)
(***************************************************************************)
EXTENDS Gateway, TLAPS

----------------------------------------------------------------------------
(* Names.                                                                  *)

\* What a session is about to commit names the rows its request is about; a
\* manifest's alias is for the manifest's own model.
PendingSound ==
    \A s \in Admin :
       LET p == adm[s] IN
       /\ p.op \in {"register", "drop", "manifest"} => p.m \in Model
       /\ p.op = "manifest" => p.of = p.m
       /\ p.op = "alias" => p.x \in Alias /\ p.of \in Model
       /\ p.op \in {"alias", "manifest"} => p.on \in BOOLEAN

NamesInv == NamesTypeOK /\ PendingSound /\ NothingDangles

LEMMA IdlePending == Idle \in Pending /\ Idle.op = "idle"
BY DEF Idle, Pending

LEMMA NamesStart == NamesInit => NamesInv
<1> SUFFICES ASSUME NamesInit PROVE NamesInv
  OBVIOUS
<1>1. NamesTypeOK
  BY IdlePending DEF NamesInit, NamesTypeOK, ModelRow, AliasRow, DepRow, Life
<1>2. PendingSound /\ NothingDangles
  BY IdlePending DEF NamesInit, PendingSound, NothingDangles, Aliases, Deps
<1> QED
  BY <1>1, <1>2 DEF NamesInv

\* A request that is checked, or given up, changes only what is pending.
LEMMA PendingStep ==
    ASSUME NamesInv, NEW s \in Admin, NEW p \in Pending,
           adm' = [adm EXCEPT ![s] = p],
           UNCHANGED <<model, alias, dep>>,
           /\ p.op \in {"register", "drop", "manifest"} => p.m \in Model
           /\ p.op = "manifest" => p.of = p.m
           /\ p.op = "alias" => p.x \in Alias /\ p.of \in Model
           /\ p.op \in {"alias", "manifest"} => p.on \in BOOLEAN
    PROVE  NamesInv'
<1>1. NamesTypeOK'
  BY DEF NamesInv, NamesTypeOK
<1>2. PendingSound'
  BY DEF NamesInv, NamesTypeOK, PendingSound
<1>3. NothingDangles'
  BY DEF NamesInv, NothingDangles, Aliases, Deps, Models
<1> QED
  BY <1>1, <1>2, <1>3 DEF NamesInv

LEMMA AbortStep ==
    ASSUME NamesInv, NEW s \in Admin, AbortAdmin(s)
    PROVE  NamesInv'
BY IdlePending, PendingStep DEF AbortAdmin

LEMMA ModelRequestStep ==
    ASSUME NamesInv, NEW s \in Admin, ModelRequests(s)
    PROVE  NamesInv'
<1>1. ASSUME NEW m \in Model, NEW n \in Name, Register(s, m, n)
      PROVE  NamesInv'
  <2> DEFINE p == [Idle EXCEPT !.op = "register", !.m = m, !.n = n]
  <2>1. p \in Pending /\ p.op = "register" /\ p.m = m
    BY DEF Idle, Pending
  <2> QED
    BY <1>1, <2>1, PendingStep DEF Register, Starts
<1>2. ASSUME NEW m \in Model, DeleteModel(s, m)
      PROVE  NamesInv'
  <2> DEFINE p == [Idle EXCEPT !.op = "drop", !.m = m]
  <2>1. p \in Pending /\ p.op = "drop" /\ p.m = m
    BY DEF Idle, Pending
  <2> QED
    BY <1>2, <2>1, PendingStep DEF DeleteModel, Starts
<1>3. ASSUME NEW n \in Name, NEW a \in Name, LoadManifest(s, n, a)
      PROVE  NamesInv'
  <2>1. PICK m \in Model, x \in Alias :
           Starts(s, [Idle EXCEPT !.op = "manifest", !.m = m, !.n = n, !.of = m, !.on = TRUE,
                                  !.x = IF AliasOf(a) = {} THEN x ELSE None, !.a = a])
    BY <1>3 DEF LoadManifest
  <2> DEFINE p == [Idle EXCEPT !.op = "manifest", !.m = m, !.n = n, !.of = m, !.on = TRUE,
                               !.x = IF AliasOf(a) = {} THEN x ELSE None, !.a = a]
  <2>2. p \in Pending /\ p.op = "manifest" /\ p.m = m /\ p.of = m /\ p.on = TRUE
    BY DEF Idle, Pending
  <2> QED
    BY <2>1, <2>2, PendingStep DEF Starts
<1> QED
  BY <1>1, <1>2, <1>3 DEF ModelRequests, ImportOllama

LEMMA AliasRequestStep ==
    ASSUME NamesInv, NEW s \in Admin, AliasRequests(s)
    PROVE  NamesInv'
<1>1. ASSUME NEW x \in Alias, NEW a \in Name, NEW of \in Model, NEW on \in BOOLEAN,
             CreateAlias(s, x, a, of, on)
      PROVE  NamesInv'
  <2> DEFINE p == [Idle EXCEPT !.op = "alias", !.x = x, !.a = a, !.of = of, !.on = on]
  <2>1. p \in Pending /\ p.op = "alias" /\ p.x = x /\ p.of = of /\ p.on = on
    BY DEF Idle, Pending
  <2> QED
    BY <1>1, <2>1, PendingStep DEF CreateAlias, Starts
<1>2. ASSUME NEW x \in Alias, NEW of \in Model, NEW on \in BOOLEAN, UpdateAlias(s, x, of, on)
      PROVE  NamesInv'
  <2> DEFINE p == [Idle EXCEPT !.op = "update", !.x = x,
                               !.of = IF of = alias[x].of THEN None ELSE of,
                               !.on = IF on = alias[x].on THEN None ELSE on]
  <2>1. p \in Pending /\ p.op = "update"
    BY DEF Idle, Pending
  <2> QED
    BY <1>2, <2>1, PendingStep DEF UpdateAlias, Starts
<1>3. ASSUME NEW x \in Alias, DeleteAlias(s, x)
      PROVE  NamesInv'
  <2> DEFINE p == [Idle EXCEPT !.op = "unalias", !.x = x]
  <2>1. p \in Pending /\ p.op = "unalias"
    BY DEF Idle, Pending
  <2> QED
    BY <1>3, <2>1, PendingStep DEF DeleteAlias, Starts
<1> QED
  BY <1>1, <1>2, <1>3 DEF AliasRequests

\* What a commit makes of an alias: it goes with its model or by itself, comes, is
\* changed, or stays.
Goes(p, x) == Cascades(p, x) \/ (p.op = "unalias" /\ x = p.x)
Comes(p, x) == Adds(p) /\ x = p.x
Turns(p, x) == p.op = "update" /\ x = p.x /\ ~Cascades(p, x)

LEMMA CommitCases ==
    ASSUME NEW s \in Admin, CommitAdmin(s), NEW x \in Alias
    PROVE  LET p == adm[s] IN
           /\ Goes(p, x) => alias'[x].st = "gone"
                            /\ alias'[x] = [st |-> "gone", name |-> None, of |-> None, on |-> FALSE]
           /\ Comes(p, x) => alias'[x] = [st |-> "here", name |-> p.a, of |-> p.of, on |-> p.on]
           /\ Turns(p, x) => alias'[x] = [st |-> "here", name |-> alias[x].name,
                                          of |-> IF p.of = None THEN alias[x].of ELSE p.of,
                                          on |-> IF p.on = None THEN alias[x].on ELSE p.on]
           /\ ~Goes(p, x) /\ ~Comes(p, x) /\ ~Turns(p, x) => alias'[x] = alias[x]
           /\ Comes(p, x) => ~Goes(p, x) /\ ~Turns(p, x)
           /\ Turns(p, x) => ~Goes(p, x)
<1> DEFINE p == adm[s]
<1>1. /\ Comes(p, x) => ~Goes(p, x) /\ ~Turns(p, x)
      /\ Turns(p, x) => ~Goes(p, x) /\ ~Comes(p, x)
  BY DEF Comes, Goes, Turns, Adds, Cascades
<1>2. alias'[x] =
         IF Goes(p, x) THEN [st |-> "gone", name |-> None, of |-> None, on |-> FALSE]
         ELSE IF Adds(p) /\ x = p.x THEN [st |-> "here", name |-> p.a, of |-> p.of, on |-> p.on]
         ELSE IF p.op = "update" /\ x = p.x
              THEN [st |-> "here", name |-> alias[x].name,
                    of |-> IF p.of = None THEN alias[x].of ELSE p.of,
                    on |-> IF p.on = None THEN alias[x].on ELSE p.on]
         ELSE alias[x]
  BY DEF CommitAdmin, Goes
<1> HIDE DEF p
<1>3. CASE Goes(p, x)
  BY <1>1, <1>2, <1>3 DEF p
<1>4. CASE Comes(p, x)
  BY <1>1, <1>2, <1>4 DEF p, Comes
<1>5. CASE Turns(p, x)
  BY <1>1, <1>2, <1>5 DEF p, Comes, Turns
<1>6. CASE ~Goes(p, x) /\ ~Comes(p, x) /\ ~Turns(p, x)
  BY <1>1, <1>2, <1>6 DEF p, Comes, Turns, Goes
<1> QED
  BY <1>3, <1>4, <1>5, <1>6

\* What the constraints let through: an alias gets a model that is there by the
\* end of the commit, and a model that goes takes its aliases and had no
\* deployment.
LEMMA CommitStep ==
    ASSUME NamesInv, NEW s \in Admin, CommitAdmin(s)
    PROVE  NamesInv'
<1> DEFINE p == adm[s]
<1>1. /\ p \in Pending
      /\ p.op \in {"register", "drop", "manifest"} => p.m \in Model
      /\ p.op = "manifest" => p.of = p.m
      /\ p.op = "alias" => p.x \in Alias /\ p.of \in Model
      /\ p.op \in {"alias", "manifest"} => p.on \in BOOLEAN
  BY DEF NamesInv, NamesTypeOK, PendingSound
<1>2. /\ Fits(p)
      /\ adm' = [adm EXCEPT ![s] = Idle]
      /\ dep' = dep
  BY DEF CommitAdmin
<1>3. \A m \in Model : model'[m] = IF m # p.m THEN model[m]
                                   ELSE IF Inserts(p) THEN [st |-> "here", name |-> p.n]
                                   ELSE IF p.op = "drop" THEN [st |-> "gone", name |-> None]
                                   ELSE model[m]
  BY DEF CommitAdmin
<1>4. \A x \in Alias :
         /\ Goes(p, x) => alias'[x].st = "gone"
                          /\ alias'[x] = [st |-> "gone", name |-> None, of |-> None, on |-> FALSE]
         /\ Comes(p, x) => alias'[x] = [st |-> "here", name |-> p.a, of |-> p.of, on |-> p.on]
         /\ Turns(p, x) => alias'[x] = [st |-> "here", name |-> alias[x].name,
                                        of |-> IF p.of = None THEN alias[x].of ELSE p.of,
                                        on |-> IF p.on = None THEN alias[x].on ELSE p.on]
         /\ ~Goes(p, x) /\ ~Comes(p, x) /\ ~Turns(p, x) => alias'[x] = alias[x]
         /\ Comes(p, x) => ~Goes(p, x) /\ ~Turns(p, x)
         /\ Turns(p, x) => ~Goes(p, x)
  BY CommitCases
<1> HIDE DEF p
<1>5. NamesTypeOK'
  <2>1. model' \in [Model -> ModelRow]
    <3>1. ASSUME NEW m \in Model PROVE model'[m] \in ModelRow
      BY <1>1, <1>3 DEF NamesInv, NamesTypeOK, ModelRow, Life, Pending
    <3> QED
      BY <3>1 DEF CommitAdmin
  <2>2. alias' \in [Alias -> AliasRow]
    <3>1. ASSUME NEW x \in Alias PROVE alias'[x] \in AliasRow
      <4>1. alias[x] \in AliasRow
        BY DEF NamesInv, NamesTypeOK
      <4>2. /\ p.a \in Name \cup {None} /\ p.of \in Model \cup {None}
            /\ p.on \in BOOLEAN \cup {None}
        BY <1>1 DEF Pending
      <4>3. CASE Comes(p, x)
        <5>1. alias'[x] = [st |-> "here", name |-> p.a, of |-> p.of, on |-> p.on]
          BY <1>4, <4>3, Zenon
        <5>2. p.on \in BOOLEAN
          BY <1>1, <4>3 DEF Comes, Adds
        <5> QED
          BY <4>2, <5>1, <5>2 DEF AliasRow, Life
      <4>4. CASE Turns(p, x)
        <5>1. (IF p.on = None THEN alias[x].on ELSE p.on) \in BOOLEAN
          BY <4>1, <4>2 DEF AliasRow
        <5>2. alias'[x] = [st |-> "here", name |-> alias[x].name,
                           of |-> IF p.of = None THEN alias[x].of ELSE p.of,
                           on |-> IF p.on = None THEN alias[x].on ELSE p.on]
          BY <1>4, <4>4, Zenon
        <5> QED
          BY <4>1, <4>2, <5>1, <5>2 DEF AliasRow, Life
      <4>5. CASE Goes(p, x)
        <5>1. alias'[x] = [st |-> "gone", name |-> None, of |-> None, on |-> FALSE]
          BY <1>4, <4>5, Zenon
        <5> QED
          BY <5>1 DEF AliasRow, Life
      <4> QED
        BY <1>4, <4>1, <4>3, <4>4, <4>5
    <3> QED
      BY <3>1 DEF CommitAdmin
  <2> QED
    BY <1>2, <2>1, <2>2, IdlePending DEF NamesInv, NamesTypeOK
<1>6. PendingSound'
  BY <1>2, IdlePending DEF NamesInv, NamesTypeOK, PendingSound
<1>7. ASSUME NEW m \in Model, m \in Models, ~(p.op = "drop" /\ m = p.m)
      PROVE  m \in Models'
  BY <1>3, <1>7 DEF Models, Inserts
<1>8. ASSUME NEW x \in Alias, x \in Aliases'
      PROVE  alias'[x].of \in Models'
  <2>0. alias'[x].st = "here" /\ alias[x] \in AliasRow /\ ~Goes(p, x)
    BY <1>4, <1>8 DEF Aliases, NamesInv, NamesTypeOK
  <2>1. CASE Comes(p, x)
    <3>1. p.of \in Model /\ p.of # None
      BY <1>1, <2>1, NamesAssumption DEF Comes, Adds
    <3>2. alias'[x].of = p.of
      <4>1. alias'[x] = [st |-> "here", name |-> p.a, of |-> p.of, on |-> p.on]
        BY <1>4, <2>1, Zenon
      <4> QED
        BY <4>1
    <3>3. p.of \in Models \/ Inserts(p)
      BY <1>2, <2>1, <3>1 DEF Fits, Comes, Adds
    <3>4. CASE Inserts(p)
      <4>1. p.op = "manifest"
        BY <2>1, <3>4 DEF Comes, Adds, Inserts
      <4> QED
        BY <1>1, <1>3, <3>2, <3>4, <4>1 DEF Models
    <3> QED
      BY <1>7, <2>1, <3>1, <3>2, <3>3, <3>4 DEF Comes, Adds
  <2>2. CASE Turns(p, x)
    <3>1. x \in Aliases
      BY <1>2, <2>2 DEF Fits, Turns
    <3>2. alias[x].of \in Models
      BY <3>1 DEF NamesInv, NothingDangles
    <3>3. p.of # None => p.of \in Models
      BY <1>2, <2>2 DEF Fits, Inserts, Turns
    <3>4. alias'[x].of = IF p.of = None THEN alias[x].of ELSE p.of
      <4>1. alias'[x] = [st |-> "here", name |-> alias[x].name,
                         of |-> IF p.of = None THEN alias[x].of ELSE p.of,
                         on |-> IF p.on = None THEN alias[x].on ELSE p.on]
        BY <1>4, <2>2, Zenon
      <4> QED
        BY <4>1
    <3> QED
      BY <1>7, <2>2, <3>2, <3>3, <3>4 DEF Turns, Models
  <2>3. CASE ~Comes(p, x) /\ ~Turns(p, x)
    <3>1. alias'[x] = alias[x]
      BY <1>4, <2>0, <2>3
    <3>2. alias[x].of \in Models
      BY <2>0, <3>1 DEF NamesInv, NothingDangles, Aliases
    <3> QED
      BY <1>7, <2>0, <3>1, <3>2 DEF Goes, Cascades, Models
  <2> QED
    BY <2>1, <2>2, <2>3
<1>9. ASSUME NEW d \in Dep, d \in Deps'
      PROVE  dep'[d].of \in Models'
  <2>1. d \in Deps /\ dep'[d] = dep[d]
    BY <1>2, <1>9 DEF Deps
  <2>2. dep[d].of \in Models
    BY <2>1 DEF NamesInv, NothingDangles
  <2>3. ~(p.op = "drop" /\ dep[d].of = p.m)
    BY <1>2, <2>1 DEF Fits
  <2> QED
    BY <1>7, <2>1, <2>2, <2>3 DEF Models
<1>10. NothingDangles'
  BY <1>8, <1>9 DEF NothingDangles, Aliases, Deps
<1> QED
  BY <1>5, <1>6, <1>10 DEF NamesInv

LEMMA DeploymentStep ==
    ASSUME NamesInv, Deployment
    PROVE  NamesInv'
<1>1. PICK d \in Dep, row \in DepRow :
         /\ dep' = [dep EXCEPT ![d] = row]
         /\ row.st = "here" => row.of \in Models
         /\ UNCHANGED <<model, alias, adm>>
  <2>1. ASSUME NEW d \in Dep, NEW m \in Model, Deploys(d, m)
        PROVE  \E row \in DepRow :
                  /\ dep' = [dep EXCEPT ![d] = row]
                  /\ row.st = "here" => row.of \in Models
                  /\ UNCHANGED <<model, alias, adm>>
    <3> DEFINE row == [st |-> "here", of |-> m, running |-> FALSE, url |-> FALSE]
    <3>1. row \in DepRow /\ row.of \in Models
      BY <2>1 DEF DepRow, Life, Deploys
    <3> QED
      BY <2>1, <3>1 DEF Deploys
  <2>2. ASSUME NEW d \in Dep, NEW running \in BOOLEAN, NEW url \in BOOLEAN, Changes(d, running, url)
        PROVE  \E row \in DepRow :
                  /\ dep' = [dep EXCEPT ![d] = row]
                  /\ row.st = "here" => row.of \in Models
                  /\ UNCHANGED <<model, alias, adm>>
    <3> DEFINE row == [st |-> "here", of |-> dep[d].of, running |-> running, url |-> url]
    <3>1. dep[d].of \in Models
      BY <2>2 DEF Changes, NamesInv, NothingDangles
    <3>2. row \in DepRow /\ row.of = dep[d].of
      BY <3>1 DEF DepRow, Life, Models
    <3> QED
      BY <2>2, <3>1, <3>2 DEF Changes
  <2>3. ASSUME NEW d \in Dep, Deleted(d)
        PROVE  \E row \in DepRow :
                  /\ dep' = [dep EXCEPT ![d] = row]
                  /\ row.st = "here" => row.of \in Models
                  /\ UNCHANGED <<model, alias, adm>>
    <3> DEFINE row == [st |-> "gone", of |-> None, running |-> FALSE, url |-> FALSE]
    <3>1. row \in DepRow /\ row.st # "here"
      BY DEF DepRow, Life
    <3> QED
      BY <2>3, <3>1 DEF Deleted
  <2> QED
    BY <2>1, <2>2, <2>3 DEF Deployment
<1>2. NamesTypeOK'
  BY <1>1 DEF NamesInv, NamesTypeOK
<1>3. PendingSound'
  BY <1>1 DEF NamesInv, PendingSound
<1>4. NothingDangles'
  BY <1>1 DEF NamesInv, NamesTypeOK, NothingDangles, Aliases, Deps, Models
<1> QED
  BY <1>2, <1>3, <1>4 DEF NamesInv

LEMMA AdministrationStep ==
    ASSUME NamesInv, Administration
    PROVE  NamesInv'
BY ModelRequestStep, AliasRequestStep, CommitStep, AbortStep DEF Administration

LEMMA NamesKept ==
    ASSUME NamesInv, UNCHANGED nvars
    PROVE  NamesInv'
BY DEF nvars, NamesInv, NamesTypeOK, PendingSound, NothingDangles, Aliases, Deps, Models

----------------------------------------------------------------------------
(* Calls.                                                                  *)

\* A call has no record before it is over; one that has not chosen has reached
\* nothing; and one at its counter is at most one window late.
CallSound(row, records, t) ==
    /\ row.pc \in {"new", "limit", "name", "served"} => ~row.reached
    /\ row.pc = "limit" => row.win <= t /\ t <= row.win + 1
    /\ row.pc # "over" => records = 0 /\ ~row.lost
    /\ row.pc = "over" => records \in {0, 1} /\ (row.reached /\ ~row.lost => records = 1)

CallsSound == \A c \in Call : CallSound(call[c], usage[c], now)

\* As long as calls of a window may come, its counter is there and counts them all.
WindowsSound ==
    \A w \in Window :
       /\ passed[w] <= Limit
       /\ now <= w + 1 => passed[w] <= bucket[w].n
       /\ w + 2 <= bucket[w].until

CallsInv ==
    /\ now \in Window
    /\ bucket \in [Window -> [n: Nat, until: Nat]]
    /\ passed \in [Window -> Nat]
    /\ call \in [Call -> CallRow]
    /\ usage \in [Call -> Nat]
    /\ CallsSound
    /\ WindowsSound

LEMMA GatewayFacts ==
    /\ Window \subseteq Nat /\ Never \in Nat
    /\ \A w \in Window : w + 2 <= Never
    /\ NewCall \in CallRow /\ ~NewCall.reached /\ ~NewCall.lost
    /\ \A t : CallSound(NewCall, 0, t)
<1>1. Window \subseteq Nat /\ Never \in Nat /\ \A w \in Window : w + 2 <= Never
  BY GatewayAssumption DEF Window, Never
<1>2. NewCall \in CallRow /\ ~NewCall.reached /\ ~NewCall.lost
  BY GatewayAssumption DEF NewCall, CallRow, Window
<1>3. \A t : CallSound(NewCall, 0, t)
  BY DEF NewCall, CallSound
<1> QED
  BY <1>1, <1>2, <1>3

\* What is left of a call that is over.
LEMMA OverFacts ==
    ASSUME NEW row \in CallRow
    PROVE  /\ Over(row) \in CallRow
           /\ Over(row).pc = "over"
           /\ Over(row).reached = row.reached
           /\ Over(row).lost = row.lost
<1>1. row.reached \in BOOLEAN /\ row.lost \in BOOLEAN
  BY DEF CallRow
<1> QED
  BY <1>1, GatewayFacts DEF Over, CallRow

LEMMA CallsStart == Init => CallsInv
<1> SUFFICES ASSUME Init PROVE CallsInv
  OBVIOUS
<1>1. /\ now \in Window
      /\ bucket \in [Window -> [n: Nat, until: Nat]]
      /\ passed \in [Window -> Nat]
      /\ call \in [Call -> CallRow]
      /\ usage \in [Call -> Nat]
  BY GatewayFacts, GatewayAssumption DEF Init, Window
<1>2. CallsSound
  BY GatewayFacts DEF Init, CallsSound
<1>3. WindowsSound
  BY GatewayFacts, GatewayAssumption DEF Init, WindowsSound
<1> QED
  BY <1>1, <1>2, <1>3 DEF CallsInv

\* A step of one call, which leaves what it does not say.
LEMMA CallStep ==
    ASSUME CallsInv, NEW c \in Call, NEW row \in CallRow,
           Steps(c, row), UNCHANGED <<now, usage>>,
           CallSound(row, usage[c], now),
           UNCHANGED <<bucket, passed>>
    PROVE  CallsInv'
<1>1. call' = [call EXCEPT ![c] = row]
  BY DEF Steps
<1>2. CallsSound'
  <2> SUFFICES ASSUME NEW d \in Call PROVE CallSound(call'[d], usage[d], now)
    BY DEF CallsSound
  <2> QED
    BY <1>1 DEF CallsInv, CallsSound
<1>3. WindowsSound'
  BY DEF CallsInv, WindowsSound
<1> QED
  BY <1>1, <1>2, <1>3 DEF CallsInv

\* What counting does to the counter of the call's window: one more, and time to
\* live at least until nobody of that window can come.
LEMMA CountedFacts ==
    ASSUME CallsInv, NEW c \in Call, At(c, "limit"), NEW t \in Nat, now + 2 <= t
    PROVE  LET w == call[c].win
               b == Counted(w, t) IN
           /\ w \in Window
           /\ b \in [Window -> [n: Nat, until: Nat]]
           /\ \A v \in Window : b[v].n = IF v = w THEN bucket[v].n + 1 ELSE bucket[v].n
           /\ \A v \in Window : v + 2 <= b[v].until
<1> DEFINE w == call[c].win
           row == [n |-> bucket[w].n + 1, until |-> IF bucket[w].n = 0 THEN t ELSE bucket[w].until]
<1>1. w \in Window /\ w <= now /\ w \in Nat /\ now \in Nat
  BY GatewayFacts DEF CallsInv, CallRow, CallsSound, CallSound, At
<1>2. bucket[w].n \in Nat /\ bucket[w].until \in Nat /\ w + 2 <= bucket[w].until
  BY <1>1 DEF CallsInv, WindowsSound
<1>3. row \in [n: Nat, until: Nat] /\ row.n = bucket[w].n + 1 /\ w + 2 <= row.until
  BY <1>1, <1>2
<1>4. Counted(w, t) = [bucket EXCEPT ![w] = row]
  BY DEF Counted
<1> HIDE DEF row
<1> QED
  BY <1>1, <1>3, <1>4 DEF CallsInv, WindowsSound

\* Counting with the answer or without: at most as many pass as were counted.
LEMMA CountStep ==
    ASSUME CallsInv, NEW c \in Call, Count(c) \/ FailOpen(c)
    PROVE  CallsInv'
<1> DEFINE w == call[c].win
<1>1. /\ At(c, "limit") /\ usage' = usage /\ now' = now
      /\ w \in Window /\ w \in Nat /\ now \in Nat /\ now <= w + 1
      /\ call[c] \in CallRow /\ ~call[c].reached /\ ~call[c].lost /\ usage[c] = 0
  BY GatewayFacts DEF CallsInv, CallRow, CallsSound, CallSound, At, Count, FailOpen
<1>2. /\ Over(call[c]) \in CallRow /\ CallSound(Over(call[c]), 0, now)
      /\ Resolving(call[c]) \in CallRow /\ CallSound(Resolving(call[c]), 0, now)
  <2>1. Over(call[c]) \in CallRow /\ CallSound(Over(call[c]), 0, now)
    BY <1>1, OverFacts DEF CallSound
  <2>2. 0 \in Window
    BY GatewayAssumption DEF Window
  <2>3. Resolving(call[c]) \in CallRow /\ CallSound(Resolving(call[c]), 0, now)
    BY <1>1, <2>2 DEF Resolving, CallRow, CallSound
  <2> QED
    BY <2>1, <2>3
<1>3. \A t \in Nat : now + 2 <= t =>
         /\ Counted(w, t) \in [Window -> [n: Nat, until: Nat]]
         /\ \A v \in Window : Counted(w, t)[v].n = IF v = w THEN bucket[v].n + 1 ELSE bucket[v].n
         /\ \A v \in Window : v + 2 <= Counted(w, t)[v].until
  BY <1>1, CountedFacts
<1>4. now + Ttl \in Nat /\ now + 2 <= now + Ttl /\ now + 2 <= Never
  BY <1>1, GatewayAssumption DEF Ttl, Never, CallsInv, Window
<1>5. /\ bucket' \in [Window -> [n: Nat, until: Nat]]
      /\ \A v \in Window : v + 2 <= bucket'[v].until
      /\ \A v \in Window : bucket'[v].n \in {bucket[v].n, bucket[v].n + 1}
      /\ Count(c) => bucket'[w].n = bucket[w].n + 1
  <2>1. CASE bucket' = bucket /\ ~Count(c)
    BY <2>1 DEF CallsInv, WindowsSound
  <2>2. CASE bucket' = Counted(w, now + Ttl)
    BY <1>1, <1>3, <1>4, <2>2
  <2>3. CASE bucket' = Counted(w, Never) /\ ~Count(c)
    BY <1>1, <1>3, <1>4, <2>3, GatewayFacts
  <2> QED
    BY <2>1, <2>2, <2>3 DEF Count, FailOpen
<1>6. call' \in {[call EXCEPT ![c] = Over(call[c])], [call EXCEPT ![c] = Resolving(call[c])]}
  BY DEF Count, FailOpen, Steps
<1>7. call' \in [Call -> CallRow] /\ CallsSound'
  <2>1. \A d \in Call : call'[d] \in CallRow /\ CallSound(call'[d], usage[d], now)
    BY <1>1, <1>2, <1>6 DEF CallsInv, CallsSound
  <2> QED
    BY <1>1, <1>6, <2>1 DEF CallsSound, CallsInv
<1>8. passed' \in [Window -> Nat] /\ WindowsSound'
  <2>1. CASE passed' = passed
    <3>1. \A v \in Window : bucket[v].n \in Nat /\ passed[v] \in Nat
      BY DEF CallsInv
    <3> QED
      BY <1>1, <1>5, <2>1, <3>1 DEF CallsInv, WindowsSound
  <2>2. CASE /\ Count(c)
             /\ passed' = [passed EXCEPT ![w] = @ + 1]
             /\ bucket[w].n + 1 <= Limit
    <3>1. \A v \in Window : bucket[v].n \in Nat /\ passed[v] \in Nat
      BY DEF CallsInv
    <3>2. passed[w] <= bucket[w].n
      BY <1>1 DEF CallsInv, WindowsSound
    <3>3. passed' \in [Window -> Nat]
      BY <1>1, <2>2, <3>1 DEF CallsInv
    <3>4. ASSUME NEW v \in Window
          PROVE  /\ passed'[v] <= Limit
                 /\ now <= v + 1 => passed'[v] <= bucket'[v].n
      <4>1. CASE v = w
        BY <1>1, <1>5, <2>2, <3>1, <3>2, <4>1, GatewayAssumption DEF CallsInv
      <4>2. CASE v # w
        BY <1>5, <2>2, <3>1, <4>2 DEF CallsInv, WindowsSound
      <4> QED
        BY <4>1, <4>2
    <3> QED
      BY <1>1, <1>5, <3>3, <3>4 DEF WindowsSound
  <2> QED
    <3>1. bucket[w].n + 1 > Limit \/ bucket[w].n + 1 <= Limit
      BY <1>1, GatewayAssumption DEF CallsInv
    <3> QED
      BY <2>1, <2>2, <3>1 DEF Count, FailOpen
<1> QED
  BY <1>1, <1>5, <1>7, <1>8 DEF CallsInv

\* The clock: a counter goes only when its window has been over for a window.
LEMMA TickStep ==
    ASSUME CallsInv, Tick
    PROVE  CallsInv'
<1>1. /\ now \in Nat /\ now' = now + 1 /\ now' \in Window /\ MaxTime \in Nat
      /\ UNCHANGED <<passed, call, usage>>
      /\ \A c \in Call : At(c, "limit") => call[c].win = now
  BY GatewayAssumption DEF Tick, CallsInv, Window
<1>2. \A w \in Window :
         bucket'[w] = IF bucket[w].until <= now + 1 THEN [n |-> 0, until |-> Never] ELSE bucket[w]
  BY DEF Tick
<1>3. bucket' \in [Window -> [n: Nat, until: Nat]]
  <2>1. ASSUME NEW w \in Window PROVE bucket'[w] \in [n: Nat, until: Nat]
    <3>1. [n |-> 0, until |-> Never] \in [n: Nat, until: Nat]
      BY GatewayFacts
    <3>2. bucket[w] \in [n: Nat, until: Nat]
      BY DEF CallsInv
    <3> QED
      BY <1>2, <3>1, <3>2
  <2> QED
    BY <2>1 DEF Tick
<1>4. CallsSound'
  <2> SUFFICES ASSUME NEW c \in Call PROVE CallSound(call[c], usage[c], now + 1)
    BY <1>1 DEF CallsSound
  <2>1. CallSound(call[c], usage[c], now)
    BY DEF CallsInv, CallsSound
  <2> QED
    BY <1>1, <2>1 DEF CallSound, At
<1>5. WindowsSound'
  <2> SUFFICES ASSUME NEW w \in Window
               PROVE  /\ passed[w] <= Limit
                      /\ now + 1 <= w + 1 => passed[w] <= bucket'[w].n
                      /\ w + 2 <= bucket'[w].until
    BY <1>1 DEF WindowsSound
  <2>1. /\ w \in Nat /\ w + 2 <= Never
        /\ bucket[w].until \in Nat /\ bucket[w].n \in Nat /\ passed[w] \in Nat
    BY GatewayFacts DEF CallsInv
  <2>2. /\ passed[w] <= Limit
        /\ now <= w + 1 => passed[w] <= bucket[w].n
        /\ w + 2 <= bucket[w].until
    BY DEF CallsInv, WindowsSound
  <2>3. CASE bucket[w].until <= now + 1
    BY <1>1, <1>2, <2>1, <2>2, <2>3
  <2>4. CASE ~(bucket[w].until <= now + 1)
    BY <1>1, <1>2, <2>1, <2>2, <2>4
  <2> QED
    BY <2>3, <2>4
<1> QED
  BY <1>1, <1>3, <1>4, <1>5 DEF CallsInv

\* All other steps of a call: the counters are done with, and a record is written at
\* the very end.
LEMMA ServesStep ==
    ASSUME NamesInv, CallsInv, NEW c \in Call,
           \/ \E n \in Name, streamed \in BOOLEAN : Arrive(c, n, streamed)
           \/ Refused(c) \/ Lookup(c) \/ Choose(c) \/ Completed(c)
           \/ Streamed(c) \/ Disconnect(c) \/ Lost(c)
    PROVE  CallsInv'
<1>1. call[c] \in CallRow /\ CallSound(call[c], usage[c], now) /\ now \in Nat
  BY GatewayFacts DEF CallsInv, CallsSound
<1>2. ASSUME NEW n \in Name, NEW streamed \in BOOLEAN, Arrive(c, n, streamed)
      PROVE  CallsInv'
  <2> DEFINE row == [NewCall EXCEPT !.pc = "limit", !.name = n, !.streamed = streamed, !.win = now]
  <2>2. /\ row \in CallRow /\ row.pc = "limit" /\ row.win = now
        /\ ~row.reached /\ ~row.lost
    BY GatewayFacts DEF CallRow, CallsInv
  <2>3. usage[c] = 0
    BY <1>1, <1>2 DEF CallSound, Arrive, At
  <2>4. CallSound(row, usage[c], now)
    BY <1>1, <2>2, <2>3 DEF CallSound
  <2> QED
    BY <1>2, <2>2, <2>4, CallStep DEF Arrive
<1>3. CASE Refused(c) \/ (Lookup(c) /\ Steps(c, Over(call[c])))
           \/ (Choose(c) /\ Steps(c, Over(call[c])))
  <2>1. Over(call[c]) \in CallRow /\ CallSound(Over(call[c]), usage[c], now)
    BY <1>1, <1>3, OverFacts DEF CallSound, Refused, Lookup, Choose, At
  <2> QED
    BY <1>3, <2>1, CallStep DEF Refused, Lookup, Choose
<1>4. ASSUME NEW m \in Model, Lookup(c),
             Steps(c, [call[c] EXCEPT !.pc = "served", !.name = None, !.m = m])
      PROVE  CallsInv'
  <2> DEFINE row == [call[c] EXCEPT !.pc = "served", !.name = None, !.m = m]
  <2>1. row \in CallRow /\ CallSound(row, usage[c], now)
    BY <1>1, <1>4 DEF CallRow, CallSound, Lookup, At
  <2> QED
    BY <1>4, <2>1, CallStep DEF Lookup
<1>5. ASSUME Choose(c), ~Steps(c, Over(call[c])) PROVE CallsInv'
  <2> DEFINE row == [call[c] EXCEPT !.m = None, !.reached = TRUE,
                        !.pc = IF call[c].streamed THEN "stream" ELSE "runtime"]
  <2>1. row \in CallRow /\ CallSound(row, usage[c], now)
    BY <1>1, <1>5 DEF CallRow, CallSound, Choose, At
  <2> QED
    BY <1>5, <2>1, CallStep DEF Choose
<1>6. CASE Completed(c) \/ Streamed(c) \/ Disconnect(c)
  <2> DEFINE row == [call[c] EXCEPT !.pc = "record", !.streamed = FALSE]
  <2>1. row \in CallRow /\ CallSound(row, usage[c], now)
    BY <1>1, <1>6 DEF CallRow, CallSound, Completed, Streamed, Disconnect, At
  <2> QED
    BY <1>6, <2>1, CallStep DEF Completed, Streamed, Disconnect, Finished, Closed
<1>7. CASE Lost(c)
  <2> DEFINE row == [Over(call[c]) EXCEPT !.lost = call[c].reached]
  <2>1. row \in CallRow /\ CallSound(row, usage[c], now)
    <3>1. Over(call[c]) \in CallRow
      BY <1>1, OverFacts
    <3>2. row \in CallRow /\ row.pc = "over" /\ row.reached = call[c].reached /\ row.lost = call[c].reached
      BY <1>1, <3>1, OverFacts DEF CallRow
    <3>3. usage[c] = 0
      BY <1>1, <1>7 DEF CallSound, Lost, At
    <3> QED
      BY <3>2, <3>3 DEF CallSound
  <2> QED
    BY <1>7, <2>1, CallStep DEF Lost
<1>8. CASE Lookup(c)
  <2>1. CASE Steps(c, Over(call[c]))
    BY <1>3, <1>8, <2>1
  <2>2. CASE \E m \in Model :
                Steps(c, [call[c] EXCEPT !.pc = "served", !.name = None, !.m = m])
    BY <1>4, <1>8, <2>2
  <2>3. CASE \E m \in Meant(call[c].name) :
                Steps(c, [call[c] EXCEPT !.pc = "served", !.name = None, !.m = m])
    <3>1. Meant(call[c].name) \subseteq Model
      BY DEF NamesInv, NothingDangles, Meant, AliasOf, Called, Models, Aliases
    <3> QED
      BY <2>2, <2>3, <3>1
  <2> QED
    BY <1>8, <2>1, <2>3 DEF Lookup
<1> QED
  BY <1>2, <1>3, <1>5, <1>6, <1>7, <1>8

LEMMA RecordStep ==
    ASSUME CallsInv, NEW c \in Call, Record(c)
    PROVE  CallsInv'
<1>1. call[c] \in CallRow /\ CallSound(call[c], usage[c], now) /\ call[c].pc = "record"
  BY DEF CallsInv, CallsSound, Record, At
<1>2. usage[c] = 0 /\ Over(call[c]) \in CallRow /\ CallSound(Over(call[c]), 1, now)
  BY <1>1, OverFacts DEF CallSound
<1>3. /\ usage' = [usage EXCEPT ![c] = 1]
      /\ call' = [call EXCEPT ![c] = Over(call[c])]
      /\ UNCHANGED <<now, bucket, passed>>
  BY <1>2 DEF Record, Steps, CallsInv
<1>4. CallsSound'
  <2> SUFFICES ASSUME NEW d \in Call PROVE CallSound(call'[d], usage'[d], now)
    BY <1>3 DEF CallsSound
  <2>1. CASE d = c
    BY <1>2, <1>3, <2>1 DEF CallsInv
  <2>2. CASE d # c
    BY <1>3, <2>2 DEF CallsInv, CallsSound
  <2> QED
    BY <2>1, <2>2
<1>5. WindowsSound'
  BY <1>3 DEF CallsInv, WindowsSound
<1> QED
  BY <1>2, <1>3, <1>4, <1>5 DEF CallsInv

LEMMA CallsKept ==
    ASSUME CallsInv, UNCHANGED gvars
    PROVE  CallsInv'
BY DEF gvars, CallsInv, CallsSound, WindowsSound

\* One inductive invariant for both: calls read the names and never write them.
GatewayInv == NamesInv /\ CallsInv

LEMMA GatewayStep == GatewayInv /\ [Next]_vars => GatewayInv'
<1> SUFFICES ASSUME GatewayInv, [Next]_vars PROVE GatewayInv'
  OBVIOUS
<1> USE DEF GatewayInv
<1>1. CASE (Administration \/ Deployment) /\ UNCHANGED gvars
  BY <1>1, AdministrationStep, DeploymentStep, CallsKept
<1>2. CASE Tick
  <2>1. UNCHANGED nvars
    BY <1>2 DEF Tick
  <2> QED
    BY <1>2, <2>1, TickStep, NamesKept
<1>3. ASSUME NEW c \in Call,
             \/ \E n \in Name, streamed \in BOOLEAN : Arrive(c, n, streamed)
             \/ Serves(c) \/ FailOpen(c) \/ Disconnect(c) \/ Lost(c)
      PROVE  GatewayInv'
  <2>1. UNCHANGED nvars
    BY <1>3 DEF Arrive, Serves, Count, Refused, Lookup, Choose, Completed, Spoken, Embedded,
                Streamed, Record, FailOpen, Disconnect, Lost
  <2>2. CallsInv'
    BY <1>3, CountStep, ServesStep, RecordStep DEF Serves, Spoken, Embedded
  <2> QED
    BY <2>1, <2>2, NamesKept
<1>4. CASE UNCHANGED vars
  <2>1. UNCHANGED nvars /\ UNCHANGED gvars
    BY <1>4 DEF vars
  <2> QED
    BY <2>1, NamesKept, CallsKept
<1> QED
  BY <1>1, <1>2, <1>3, <1>4 DEF Next

LEMMA GatewayAlways == Spec => []GatewayInv
<1>1. Init => GatewayInv
  BY NamesStart, CallsStart DEF Init, GatewayInv
<1> QED
  BY <1>1, GatewayStep, PTL DEF Spec

----------------------------------------------------------------------------
(* Theorems.                                                               *)

\* Rows, counters and calls stay what their types say.
THEOREM GatewayTypes == Spec => []TypeOK
<1>1. GatewayInv => TypeOK
  BY DEF GatewayInv, NamesInv, CallsInv, TypeOK
<1> QED
  BY <1>1, GatewayAlways, PTL

\* No window lets more calls through its counter than the limit, for every limit and
\* every number of calls and windows, though counters expire and Redis fails
\* between its commands (check_rate_limit).
THEOREM LimitAlwaysHolds == Spec => []LimitHolds
<1>1. GatewayInv => LimitHolds
  BY DEF GatewayInv, CallsInv, WindowsSound, LimitHolds
<1> QED
  BY <1>1, GatewayAlways, PTL

\* What reached a runtime is accounted once, unless the record was lost (_record,
\* finalise_stream).
THEOREM AlwaysAccountedOnce == Spec => []AccountedOnce
<1>1. GatewayInv => AccountedOnce
  BY DEF GatewayInv, CallsInv, CallsSound, CallSound, AccountedOnce, At
<1> QED
  BY <1>1, GatewayAlways, PTL

\* Whatever administrators check before others commit, an alias and a deployment
\* point at a model that is there (delete_model, update_alias, load_manifests).
THEOREM NothingEverDangles == Spec => []NothingDangles
<1>1. GatewayInv => NothingDangles
  BY DEF GatewayInv, NamesInv
<1> QED
  BY <1>1, GatewayAlways, PTL

\* The catalogue and the resolution of names agree in every state there may be
\* (resolve, list_available).
THEOREM CallableAlwaysListed == Spec => []CallableIsListed
<1>1. CallableIsListed
  <2> SUFFICES ASSUME NEW n \in Name, NEW m \in Meant(n), Target(m) # {}
               PROVE  n \in Listed
    BY DEF CallableIsListed
  <2>1. Serving(m) # {}
    BY DEF Target, Live
  <2> QED
    BY <2>1 DEF Meant, Listed
<1> QED
  BY <1>1, PTL
=============================================================================
