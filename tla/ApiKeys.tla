------------------------------ MODULE ApiKeys ------------------------------
(***************************************************************************)
(* The keys of one application (services/api_keys.py) and who the gateway  *)
(* lets in (GatewayService.authenticate): minting, rotating, revoking.     *)
(* A session decides on the row it loaded, without a lock, and the ORM     *)
(* writes only the columns that differ from what it loaded, at its commit. *)
(* Time is counted in units of the grace period.  A NULL expiry is Never.  *)
(* Left out: names, scopes, hashes (a key is its id), last_used_at, the    *)
(* application's own row, which nothing disables.                          *)
(***************************************************************************)
EXTENDS Naturals

CONSTANTS
    Key,         \* key ids, each used once
    Admin,       \* sessions, reused
    Grace,       \* grace periods asked for
    None,
    MaxTime      \* bound on time: every grace period ends by then

ASSUME KeysAssumption == MaxTime \in Nat /\ Grace \subseteq Nat /\ None \notin Key

VARIABLES
    now,
    key,         \* [Key -> committed row]
    adm,         \* [Admin -> what a session holds]
    granted,     \* [Key -> until when its first ancestor was to work] (history)
    ended        \* keys somebody has revoked (history)

vars == <<now, key, adm, granted, ended>>
past == <<granted, ended>>

Never == MaxTime + 1
Time == 0 .. Never

Row == [here: BOOLEAN, exp: Time, revoked: BOOLEAN, to: Key \cup {None}]
NoKey == [here |-> FALSE, exp |-> 0, revoked |-> FALSE, to |-> None]

\* k: the key; was: its row as loaded; new: the replacement; exp: what rotation
\* makes of the expiry.
Session == [pc: {"idle", "rotate", "minted", "revoke"}, k: Key \cup {None},
            was: Row, new: Key \cup {None}, exp: Time]
Idle == [pc |-> "idle", k |-> None, was |-> NoKey, new |-> None, exp |-> 0]

\* is_active, as authenticate reads it on every call.
Active(k) == key[k].here /\ ~key[k].revoked /\ now < key[k].exp

Init ==
    /\ now = 0
    /\ key = [k \in Key |-> NoKey]
    /\ adm = [a \in Admin |-> Idle]
    /\ granted = [k \in Key |-> 0]
    /\ ended = {}

Goes(a, s) == adm' = [adm EXCEPT ![a] = s]

Earlier(s, t) == IF s < t THEN s ELSE t

\* An id is free when nobody has it, or is about to.
Unused(k) == ~key[k].here /\ \A a \in Admin : adm[a].new # k

Fresh(e) == [here |-> TRUE, exp |-> e, revoked |-> FALSE, to |-> None]

\* expires_at must be in the future.
CreateKey(k, e) ==
    /\ Unused(k)
    /\ now < e
    /\ key' = [key EXCEPT ![k] = Fresh(e)]
    /\ granted' = [granted EXCEPT ![k] = e]
    /\ UNCHANGED <<now, adm, ended>>

----------------------------------------------------------------------------
(* Rotating.                                                               *)

\* A revoked key is refused.
RotateRead(a, k) ==
    /\ adm[a] = Idle
    /\ key[k].here
    /\ ~key[k].revoked
    /\ Goes(a, [pc |-> "rotate", k |-> k, was |-> key[k], new |-> None, exp |-> 0])
    /\ UNCHANGED <<now, key, past>>

\* Mutant: no deadline for the old key.
KeptExpiry(old, g) == old.exp

\* The old key's expiry only moves earlier than the one that was read.
Shortened(old, g) == Earlier(old.exp, now + g)

\* The replacement is minted by create_key, which refuses an expired one.
Mint(a, k, g) ==
    /\ adm[a].pc = "rotate"
    /\ now < adm[a].was.exp
    /\ now + g <= MaxTime
    /\ Unused(k)
    /\ Goes(a, [pc |-> "minted", k |-> adm[a].k, was |-> adm[a].was, new |-> k,
                exp |-> Shortened(adm[a].was, g)])
    /\ UNCHANGED <<now, key, past>>

\* Mutant: the whole row is written back.
WholeRow(k, was, exp, new) ==
    [here |-> TRUE, exp |-> exp, revoked |-> was.revoked, to |-> new]

\* expires_at if it differs from what was read, and rotated_to.
Rotated(k, was, exp, new) ==
    [here |-> TRUE, exp |-> IF exp = was.exp THEN key[k].exp ELSE exp,
     revoked |-> key[k].revoked, to |-> new]

\* The replacement inherits the expiry that was read.
Inherited(was) == was.exp

RotateCommit(a) ==
    LET s == adm[a] IN
    /\ s.pc = "minted"
    /\ key' = [k \in Key |->
                  IF k = s.new THEN Fresh(Inherited(s.was))
                  ELSE IF k = s.k THEN Rotated(k, s.was, s.exp, s.new)
                  ELSE key[k]]
    /\ granted' = [granted EXCEPT ![s.new] = granted[s.k]]
    /\ Goes(a, Idle)
    /\ UNCHANGED <<now, ended>>

----------------------------------------------------------------------------
(* Revoking.                                                               *)

RevokeRead(a, k) ==
    /\ adm[a] = Idle
    /\ key[k].here
    /\ Goes(a, [pc |-> "revoke", k |-> k, was |-> key[k], new |-> None, exp |-> 0])
    /\ UNCHANGED <<now, key, past>>

\* revoked_at is written once.
RevokeCommit(a) ==
    LET k == adm[a].k IN
    /\ adm[a].pc = "revoke"
    /\ key' = [key EXCEPT ![k] = [here |-> TRUE, exp |-> key[k].exp, to |-> key[k].to,
                                  revoked |-> key[k].revoked \/ ~adm[a].was.revoked]]
    /\ ended' = ended \cup {k}
    /\ Goes(a, Idle)
    /\ UNCHANGED <<now, granted>>

\* A refusal, or a session that fails: it rolls back.
Abort(a) ==
    /\ adm[a] # Idle
    /\ Goes(a, Idle)
    /\ UNCHANGED <<now, key, past>>

Tick ==
    /\ now < MaxTime
    /\ now' = now + 1
    /\ UNCHANGED <<key, adm, past>>

Next ==
    \/ \E k \in Key, e \in Time : CreateKey(k, e)
    \/ \E a \in Admin :
          \/ \E k \in Key : RotateRead(a, k) \/ RevokeRead(a, k)
          \/ \E k \in Key, g \in Grace : Mint(a, k, g)
          \/ RotateCommit(a) \/ RevokeCommit(a) \/ Abort(a)
    \/ Tick

Spec == Init /\ [][Next]_vars

\* Time passes.
FairSpec == Spec /\ WF_vars(Tick)

----------------------------------------------------------------------------
(* Properties.                                                             *)

TypeOK ==
    /\ now \in 0 .. MaxTime
    /\ key \in [Key -> Row]
    /\ adm \in [Admin -> Session]
    /\ granted \in [Key -> Time]
    /\ ended \subseteq Key

\* Rotations and revocations decide on rows that others change meanwhile
\* (rotate_key, revoke_key): whoever gets in with a key does so before the end
\* that was given to the first key of its chain of rotations, and never after
\* the key was revoked.
ActiveIsGranted == \A k \in Key : Active(k) => now < granted[k] /\ k \notin ended

\* A rotation ends the key it replaces (rotate_key): its grace period runs out,
\* although other rotations may move the deadline.
RotatedKeyEnds == \A k \in Key : key[k].to # None ~> ~Active(k)
=============================================================================
