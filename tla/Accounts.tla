------------------------------ MODULE Accounts ------------------------------
(***************************************************************************)
(* The platform's accounts (services/auth.py, federation.py, user.py,      *)
(* seed.py): people sign in through a directory that hires, renames,       *)
(* regroups and loses them, administrators create, disable and appoint.    *)
(* A session reads, decides, and at its commit writes the columns it       *)
(* changed and the difference of the roles it read to those it wants.      *)
(* A person is the subject a provider vouches for, for good.               *)
(* Left out: passwords, mail addresses, tokens (each request reads its     *)
(* account anew), roles other than SUPER_ADMIN that let one administer,    *)
(* local sign-ins (they change no more than last_login_at), and accounts   *)
(* of a provider with no subject recorded, which nothing here makes (_find *)
(* would let the first person of the name have one).                       *)
(***************************************************************************)
EXTENDS Naturals

CONSTANTS
    Person,      \* subjects of the providers
    Redirect,    \* those whose provider is a redirect (OIDC), not LDAP
    Name,        \* user names
    Root,        \* the bootstrap administrator's name
    Id,          \* account ids, each used once
    Role,
    Super,       \* SUPER_ADMIN
    Default,     \* default_roles
    Groups,      \* what role_mapping makes of someone's groups
    Session,     \* requests, reused
    Link,        \* states of redirects under way, reused
    None

ASSUME AccountsAssumption ==
    /\ Redirect \subseteq Person /\ None \notin Person \cup Name \cup Id
    /\ Root \in Name /\ Super \in Role /\ Default \subseteq Role
    /\ Groups \subseteq SUBSET Role

VARIABLES
    dir,         \* [Person -> what the provider says of them]
    user,        \* [Id -> committed row and its roles]
    sess,        \* [Session -> what a request holds]
    link,        \* Redis: the states that may come back
    signed,      \* who has signed in as whom (history)
    appointed,   \* accounts an administrator gave Super to (history)
    off          \* disabled accounts nobody has enabled since (history)

vars == <<dir, user, sess, link, signed, appointed, off>>
past == <<signed, appointed, off>>

DirRow == [here: BOOLEAN, name: Name \cup {None}, wants: Groups \cup {{}}]
Away == [here |-> FALSE, name |-> None, wants |-> {}]

\* who: external_subject, None for a local account.
UserRow == [here: BOOLEAN, name: Name \cup {None}, who: Person \cup {None},
            on: BOOLEAN, roles: SUBSET Role]
NoUser == [here |-> FALSE, name |-> None, who |-> None, on |-> FALSE, roles |-> {}]

\* p, name, wants: the identity of who signs in; id, make: the row to write, and
\* whether it is new; plus, minus: roles to insert and delete; on: None if
\* is_active is not written.
SessionRow == [pc: {"idle", "subject", "name", "write"},
               p: Person \cup {None}, name: Name \cup {None}, wants: Groups \cup {{}},
               id: Id \cup {None}, make: BOOLEAN,
               plus: SUBSET Role, minus: SUBSET Role, on: BOOLEAN \cup {None}]
Idle == [pc |-> "idle", p |-> None, name |-> None, wants |-> {}, id |-> None,
         make |-> FALSE, plus |-> {}, minus |-> {}, on |-> None]

Init ==
    /\ dir = [p \in Person |-> Away]
    /\ user = [i \in Id |-> NoUser]
    /\ sess = [s \in Session |-> Idle]
    /\ link = {}
    /\ signed = {}
    /\ appointed = {}
    /\ off = {}

Users == {i \in Id : user[i].here}
Named(n) == {i \in Users : user[i].name = n}
Unused(i) == ~user[i].here /\ \A s \in Session : ~(sess[s].make /\ sess[s].id = i)

Goes(s, row) ==
    /\ sess' = [sess EXCEPT ![s] = row]
    /\ UNCHANGED <<dir, user, link, past>>

----------------------------------------------------------------------------
(* The directory.                                                          *)

Listed(p, n) == \E q \in Person \ {p} : dir[q].here /\ dir[q].name = n

\* Hired, renamed, moved to other groups: any entry under a free name.
Enters(p, n, w) ==
    /\ ~Listed(p, n)
    /\ dir' = [dir EXCEPT ![p] = [here |-> TRUE, name |-> n, wants |-> w]]
    /\ UNCHANGED <<user, sess, link, past>>

Leaves(p) ==
    /\ dir[p].here
    /\ dir' = [dir EXCEPT ![p] = Away]
    /\ UNCHANGED <<user, sess, link, past>>

----------------------------------------------------------------------------
(* Signing in through a provider.                                          *)

\* What the provider vouches for, as it is then.
Vouched(p) == [Idle EXCEPT !.pc = "subject", !.p = p, !.name = dir[p].name,
                           !.wants = dir[p].wants]

\* login, _try_external: a local account of the name is never offered to LDAP.
PasswordSignIn(s, p) ==
    /\ sess[s] = Idle
    /\ p \notin Redirect /\ dir[p].here
    /\ \A i \in Named(dir[p].name) : user[i].who # None
    /\ Goes(s, Vouched(p))

\* oidc_authorize.
Redirects(l) ==
    /\ l \notin link
    /\ link' = link \cup {l}
    /\ UNCHANGED <<dir, user, sess, past>>

\* oidc_callback: takes the state, then exchange: the provider's word, whatever
\* the name.
RedirectSignIn(s, p, l) ==
    /\ sess[s] = Idle
    /\ p \in Redirect /\ dir[p].here
    /\ l \in link
    /\ link' = link \ {l}
    /\ sess' = [sess EXCEPT ![s] = Vouched(p)]
    /\ UNCHANGED <<dir, user, past>>

\* Ten minutes have passed, or the exchange fails.
Forgotten(l) ==
    /\ l \in link
    /\ link' = link \ {l}
    /\ UNCHANGED <<dir, user, sess, past>>

\* Mutant: whatever the mapping says.
AsMapped(wants) == IF wants = {} THEN Default ELSE wants

\* _roles_for: the defaults only if no group matched, and never SUPER_ADMIN.
RolesFor(wants) == (IF wants = {} THEN Default ELSE wants) \ {Super}

\* _reconcile with sync_roles_on_login; refused if the account is disabled.
Reconciles(s, i) ==
    LET desired == RolesFor(sess[s].wants) IN
    IF user[i].on
       THEN Goes(s, [Idle EXCEPT !.pc = "write", !.p = sess[s].p, !.id = i,
                        !.plus = desired \ user[i].roles, !.minus = user[i].roles \ desired])
       ELSE Goes(s, Idle)

\* Mutant: found by name.
ByName(p, n) == {i \in Named(n) : user[i].who # None}

\* get_by_external_subject.
BySubject(p, n) == {i \in Users : user[i].who = p}

FindSubject(s) ==
    LET found == BySubject(sess[s].p, sess[s].name) IN
    /\ sess[s].pc = "subject"
    /\ \/ found = {} /\ Goes(s, [sess[s] EXCEPT !.pc = "name"])
       \/ \E i \in found : Reconciles(s, i)

\* Nobody has the name: _provision.
Provision(s, i) ==
    /\ sess[s].pc = "name"
    /\ Named(sess[s].name) = {}
    /\ Unused(i)
    /\ Goes(s, [sess[s] EXCEPT !.pc = "write", !.wants = {}, !.id = i, !.make = TRUE,
                               !.plus = RolesFor(sess[s].wants), !.on = TRUE])

\* The name is taken: by the account just made for the same person, or by a
\* local account, one of another provider, or one of another person.
FindName(s) ==
    /\ sess[s].pc = "name"
    /\ \E i \in Named(sess[s].name) :
          IF user[i].who = sess[s].p THEN Reconciles(s, i) ELSE Goes(s, Idle)

----------------------------------------------------------------------------
(* Administrators.                                                         *)

\* resolve_access_token reads the account on each request.
Alive(a) == a \in Users /\ user[a].on

\* has_permission: is_superuser, which only the bootstrap account is (it holds
\* the name Root as nobody can administer before it), or the role.
May(a) ==
    /\ Alive(a)
    /\ Super \in user[a].roles \/ (user[a].name = Root /\ user[a].who = None)

Writes(s, row) ==
    /\ sess[s] = Idle
    /\ Goes(s, [row EXCEPT !.pc = "write"])

CreateUser(s, i, n, roles) ==
    /\ Unused(i)
    /\ Named(n) = {}
    /\ Writes(s, [Idle EXCEPT !.name = n, !.id = i, !.make = TRUE, !.plus = roles, !.on = TRUE])

\* At start-up, if the name is free.
SeedAdmin(s, i) == CreateUser(s, i, Root, {Super})

\* What equals the row as it is read is not written, and nobody disables their
\* own account.
SetActive(s, a, i, on) ==
    /\ i \in Users
    /\ a = i => on
    /\ Writes(s, [Idle EXCEPT !.id = i, !.on = IF on = user[i].on THEN None ELSE on])

AssignRoles(s, i, roles) ==
    /\ i \in Users
    /\ Writes(s, [Idle EXCEPT !.id = i, !.plus = roles \ user[i].roles,
                              !.minus = user[i].roles \ roles])

----------------------------------------------------------------------------
(* Commits.                                                                *)

\* Mutant: no unique index on the subject.
NameFits(x) ==
    /\ x.make => Named(x.name) = {}
    /\ ~x.make => x.plus \cap user[x.id].roles = {}

\* Unique names, one account per subject, no role twice.
Fits(x) ==
    /\ x.make => Named(x.name) = {}
    /\ x.make /\ x.p # None => \A i \in Users : user[i].who # x.p
    /\ ~x.make => x.plus \cap user[x.id].roles = {}

\* Mutant: the row is written as it was read.
FlagAsRead(x) == IF x.on = None THEN TRUE ELSE x.on

Flag(x) == IF x.on = None THEN user[x.id].on ELSE x.on

Commit(s) ==
    LET x == sess[s]
        old == user[x.id]
        row == [here |-> TRUE, on |-> Flag(x),
                name |-> IF x.make THEN x.name ELSE old.name,
                who |-> IF x.make THEN x.p ELSE old.who,
                roles |-> (old.roles \cup x.plus) \ x.minus]
    IN
    /\ x.pc = "write"
    /\ Fits(x)
    /\ user' = [user EXCEPT ![x.id] = row]
    /\ sess' = [sess EXCEPT ![s] = Idle]
    /\ signed' = IF x.p = None THEN signed ELSE signed \cup {<<x.p, x.id>>}
    /\ appointed' = IF x.p = None /\ Super \in x.plus THEN appointed \cup {x.id} ELSE appointed
    /\ off' = IF x.on = None THEN off ELSE IF x.on THEN off \ {x.id} ELSE off \cup {x.id}
    /\ UNCHANGED <<dir, link>>

\* A refusal, a constraint, auto_provision off, or a session that fails.
Abort(s) ==
    /\ sess[s] # Idle
    /\ Goes(s, Idle)

Directory ==
    \E p \in Person :
       \/ \E n \in Name, w \in Groups : Enters(p, n, w)
       \/ Leaves(p)

SignIns(s) ==
    \/ \E p \in Person :
          PasswordSignIn(s, p) \/ \E l \in Link : RedirectSignIn(s, p, l)
    \/ FindSubject(s) \/ FindName(s)
    \/ \E i \in Id : Provision(s, i)

Administration(s) ==
    \E a, i \in Id :
       /\ May(a)
       /\ \/ \E n \in Name, roles \in Groups : CreateUser(s, i, n, roles)
          \/ \E on \in BOOLEAN : SetActive(s, a, i, on)
          \/ \E roles \in Groups : AssignRoles(s, i, roles)

Next ==
    \/ Directory
    \/ \E l \in Link : Redirects(l) \/ Forgotten(l)
    \/ \E s \in Session :
          \/ SignIns(s) \/ Administration(s)
          \/ \E i \in Id : SeedAdmin(s, i)
          \/ Commit(s) \/ Abort(s)

Spec == Init /\ [][Next]_vars

----------------------------------------------------------------------------
(* Properties.                                                             *)

TypeOK ==
    /\ dir \in [Person -> DirRow]
    /\ user \in [Id -> UserRow]
    /\ sess \in [Session -> SessionRow]
    /\ signed \subseteq Person \X Id
    /\ link \subseteq Link
    /\ appointed \subseteq Id
    /\ off \subseteq Id

\* The directory renames a person between two sign-ins that both find no account,
\* hands the old name to somebody else, and lists the person again after they left
\* (FederationService._find, _provision): whoever once got in always gets in to the
\* same account, and nobody else ever does.
OneAccountForLife == \A x, y \in signed : x[1] = y[1] <=> x[2] = y[2]

\* Names are reassigned when people leave or are renamed (_find): nobody ever
\* signs in to an account that is another's.
SignsInAsSelf == \A x \in signed : user[x[2]].who = x[1]

\* A sign-in that began before an account was disabled commits after it
\* (set_active, login): the account stays disabled.
DisabledStays == \A i \in Users : user[i].on => i \notin off

\* Sign-ins and administrators write their differences of the roles over each
\* other (_reconcile, assign_roles): SUPER_ADMIN comes only from an administrator.
SuperIsAppointed == \A i \in Users : Super \in user[i].roles => i \in appointed
=============================================================================
