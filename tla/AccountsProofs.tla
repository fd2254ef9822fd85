--------------------------- MODULE AccountsProofs ---------------------------
(***************************************************************************)
(* Proofs about the platform's accounts: a person has one for life, nobody *)
(* signs in to another's, a disabled account stays disabled, and           *)
(* SUPER_ADMIN comes only from an administrator.                           *)
(* A request decides on rows it read earlier.  What it holds keeps its     *)
(* meaning because a row's name and subject are written once, when it is   *)
(* made, because its id is one request's alone until then, and because     *)
(* what is written later is a difference and not the row as it was read.   *)
(*                                                                         *)
(* At the end, the audit log of one request: what shares the fate of its   *)
(* transaction, and what is there whatever becomes of it.                  *)
(***************************************************************************)
EXTENDS Accounts, Sequences, TLAPS

\* An id that no account has is as at first.
Blank == \A i \in Id : ~user[i].here => user[i] = NoUser

\* What a request is about to write: a row of its own if it makes one, or one that
\* is there, and the person's own if it signs somebody in.
Sound(x) ==
    /\ x.make => x.pc = "write"
    /\ x.pc = "write" =>
          /\ x.id \in Id
          /\ x.make <=> ~user[x.id].here
          /\ x.p # None => Super \notin x.plus
          /\ x.p # None /\ ~x.make => user[x.id].who = x.p

Requests == \A s \in Session : Sound(sess[s])

\* Two requests never make the same account.
OneMakerEach ==
    \A s, t \in Session : sess[s].make /\ sess[t].make /\ sess[s].id = sess[t].id => s = t

\* No two rows have one name or one person.
OneAccountEach ==
    \A i, j \in Users :
       i # j => /\ user[i].name # user[j].name
                /\ user[i].who # None => user[i].who # user[j].who

AccountsInv ==
    /\ TypeOK
    /\ Blank
    /\ Requests
    /\ OneMakerEach
    /\ OneAccountEach /\ SignsInAsSelf /\ DisabledStays /\ SuperIsAppointed

\* Nothing is there at first, and no request holds anything.
LEMMA InitAccounts == Init => AccountsInv
<1> SUFFICES ASSUME Init
             PROVE  AccountsInv
  OBVIOUS
<1> USE AccountsAssumption
<1>1. Away \in DirRow /\ NoUser \in UserRow /\ Idle \in SessionRow
  BY DEF Away, DirRow, NoUser, UserRow, Idle, SessionRow
<1>2. TypeOK
  BY <1>1 DEF Init, TypeOK
<1>3. Blank /\ Users = {}
  BY DEF Init, Blank, Users, NoUser
<1>4. Requests /\ OneMakerEach
  BY DEF Init, Requests, Sound, OneMakerEach, Idle
<1>5. OneAccountEach /\ SuperIsAppointed /\ DisabledStays
  BY <1>3 DEF OneAccountEach, SuperIsAppointed, DisabledStays
<1>6. SignsInAsSelf
  BY DEF Init, SignsInAsSelf
<1>7. QED
  BY <1>2, <1>3, <1>4, <1>5, <1>6 DEF AccountsInv

-----------------------------------------------------------------------------
(* A request that reads, decides or gives up writes nothing.               *)

LEMMA Holds ==
    ASSUME AccountsInv, NEW s \in Session, NEW u \in SessionRow,
           sess' = [sess EXCEPT ![s] = u], UNCHANGED <<dir, user, past>>,
           link' \subseteq Link, Sound(u),
           u.make => \A t \in Session : ~(sess[t].make /\ sess[t].id = u.id)
    PROVE  AccountsInv'
<1>1. TypeOK'
  BY DEF AccountsInv, TypeOK, past
<1>2. /\ Users' = Users /\ UNCHANGED <<user, signed, appointed, off>>
      /\ Blank' /\ OneAccountEach' /\ SignsInAsSelf' /\ DisabledStays' /\ SuperIsAppointed'
  BY DEF AccountsInv, past, Users, Blank, OneAccountEach, SignsInAsSelf, DisabledStays,
         SuperIsAppointed
<1>3. \A t \in Session : sess'[t] = IF t = s THEN u ELSE sess[t]
  BY DEF AccountsInv, TypeOK
<1>4. ASSUME NEW t \in Session PROVE Sound(sess[t])'
  <2>1. Sound(sess'[t])
    BY <1>3 DEF AccountsInv, Requests
  <2>2. QED
    BY <1>2, <2>1 DEF Sound
<1>5. OneMakerEach'
  BY <1>3 DEF AccountsInv, OneMakerEach
<1>6. QED
  BY <1>1, <1>2, <1>4, <1>5 DEF AccountsInv, Requests

\* What is idle holds nothing.
LEMMA IdleHolds == Idle \in SessionRow /\ Sound(Idle) /\ ~Idle.make
BY AccountsAssumption DEF Idle, SessionRow, Sound

\* The common case: the directory and the links are left alone, and no account is made.
LEMMA GoesOn ==
    ASSUME AccountsInv, NEW s \in Session, NEW u, Goes(s, u),
           u \in SessionRow, Sound(u), ~u.make
    PROVE  AccountsInv'
BY Holds DEF Goes, AccountsInv, TypeOK

LEMMA GivesUp ==
    ASSUME AccountsInv, NEW s \in Session, Goes(s, Idle)
    PROVE  AccountsInv'
BY GoesOn, IdleHolds

-----------------------------------------------------------------------------
(* Signing in.                                                             *)

\* The mapping gives roles, and never SUPER_ADMIN.
LEMMA MappedRoles ==
    ASSUME NEW wants \in Groups \cup {{}}
    PROVE  RolesFor(wants) \subseteq Role \ {Super}
BY AccountsAssumption DEF RolesFor

LEMMA VouchedSound ==
    ASSUME AccountsInv, NEW q \in Person
    PROVE  Vouched(q) \in SessionRow /\ Sound(Vouched(q)) /\ ~Vouched(q).make
<1>1. dir[q] \in DirRow
  BY DEF AccountsInv, TypeOK
<1>2. QED
  BY <1>1, AccountsAssumption DEF Vouched, DirRow, Idle, SessionRow, Sound

LEMMA ReconcilesKeeps ==
    ASSUME AccountsInv, NEW s \in Session, NEW i \in Users, Reconciles(s, i),
           user[i].who = sess[s].p
    PROVE  AccountsInv'
<1> DEFINE r == RolesFor(sess[s].wants)
           u == [Idle EXCEPT !.pc = "write", !.p = sess[s].p, !.id = i,
                             !.plus = r \ user[i].roles, !.minus = user[i].roles \ r]
<1>1. CASE Goes(s, Idle)
  BY <1>1, GivesUp
<1>2. CASE Goes(s, u)
  <2>1. i \in Id /\ user[i].here /\ user[i] \in UserRow /\ sess[s] \in SessionRow
    BY DEF AccountsInv, TypeOK, Users
  <2>2. r \subseteq Role /\ Super \notin r
    BY <2>1, MappedRoles DEF SessionRow
  <2> HIDE DEF r
  <2>3. u \in SessionRow
    BY <2>1, <2>2, AccountsAssumption DEF SessionRow, UserRow, Idle
  <2>4. Sound(u) /\ ~u.make
    BY <2>1, <2>2 DEF Sound, Idle
  <2>5. QED
    BY <1>2, <2>3, <2>4, GoesOn
<1>3. QED
  BY <1>1, <1>2 DEF Reconciles

LEMMA FindSubjectKeeps ==
    ASSUME AccountsInv, NEW s \in Session, FindSubject(s)
    PROVE  AccountsInv'
<1> DEFINE u == [sess[s] EXCEPT !.pc = "name"]
<1>1. sess[s].pc = "subject" /\ sess[s] \in SessionRow /\ Sound(sess[s])
  BY DEF FindSubject, AccountsInv, TypeOK, Requests
<1>2. CASE Goes(s, u)
  <2>1. u \in SessionRow /\ Sound(u) /\ ~u.make
    BY <1>1 DEF SessionRow, Sound
  <2>2. QED
    BY <1>2, <2>1, GoesOn
<1>3. ASSUME NEW i \in BySubject(sess[s].p, sess[s].name), Reconciles(s, i)
      PROVE  AccountsInv'
  BY <1>3, ReconcilesKeeps DEF BySubject
<1>4. QED
  BY <1>2, <1>3 DEF FindSubject

LEMMA FindNameKeeps ==
    ASSUME AccountsInv, NEW s \in Session, FindName(s)
    PROVE  AccountsInv'
<1>1. PICK i \in Named(sess[s].name) :
         IF user[i].who = sess[s].p THEN Reconciles(s, i) ELSE Goes(s, Idle)
  BY DEF FindName
<1>2. i \in Users
  BY DEF Named
<1>3. QED
  BY <1>1, <1>2, ReconcilesKeeps, GivesUp

\* An id that no account has, and no request makes one of.
LEMMA MakesKeeps ==
    ASSUME AccountsInv, NEW s \in Session, NEW i \in Id, Unused(i),
           NEW u \in SessionRow, Goes(s, u),
           u.make, u.pc = "write", u.id = i, u.p # None => Super \notin u.plus
    PROVE  AccountsInv'
<1>1. ~user[i].here /\ \A t \in Session : ~(sess[t].make /\ sess[t].id = i)
  BY DEF Unused
<1>2. Sound(u)
  BY <1>1 DEF Sound
<1>3. link \subseteq Link
  BY DEF AccountsInv, TypeOK
<1>4. QED
  BY <1>1, <1>2, <1>3, Holds DEF Goes

LEMMA ProvisionKeeps ==
    ASSUME AccountsInv, NEW s \in Session, NEW i \in Id, Provision(s, i)
    PROVE  AccountsInv'
<1> DEFINE r == RolesFor(sess[s].wants)
           u == [sess[s] EXCEPT !.pc = "write", !.wants = {}, !.id = i, !.make = TRUE,
                                !.plus = r, !.on = TRUE]
<1>1. sess[s] \in SessionRow /\ Unused(i) /\ Goes(s, u)
  BY DEF Provision, AccountsInv, TypeOK
<1>2. r \subseteq Role /\ Super \notin r
  BY <1>1, MappedRoles DEF SessionRow
<1> HIDE DEF r
<1>3. u \in SessionRow /\ u.make /\ u.pc = "write" /\ u.id = i /\ Super \notin u.plus
  BY <1>1, <1>2 DEF SessionRow
<1> HIDE DEF u
<1>4. QED
  BY <1>1, <1>3, MakesKeeps

LEMMA SignInsKeep ==
    ASSUME AccountsInv, NEW s \in Session, SignIns(s)
    PROVE  AccountsInv'
<1>1. ASSUME NEW q \in Person, PasswordSignIn(s, q) PROVE AccountsInv'
  BY <1>1, VouchedSound, GoesOn DEF PasswordSignIn
<1>2. ASSUME NEW q \in Person, NEW l \in Link, RedirectSignIn(s, q, l) PROVE AccountsInv'
  <2>1. link' \subseteq Link
    BY <1>2 DEF RedirectSignIn, AccountsInv, TypeOK
  <2>2. sess' = [sess EXCEPT ![s] = Vouched(q)] /\ UNCHANGED <<dir, user, past>>
    BY <1>2 DEF RedirectSignIn
  <2>3. QED
    BY <2>1, <2>2, VouchedSound, Holds
<1>3. QED
  BY <1>1, <1>2, FindSubjectKeeps, FindNameKeeps, ProvisionKeeps DEF SignIns

-----------------------------------------------------------------------------
(* Administrators.                                                         *)

LEMMA CreateUserKeeps ==
    ASSUME AccountsInv, NEW s \in Session, NEW i \in Id, NEW n \in Name,
           NEW roles \in SUBSET Role, CreateUser(s, i, n, roles)
    PROVE  AccountsInv'
<1> DEFINE u == [Idle EXCEPT !.pc = "write", !.name = n, !.id = i, !.make = TRUE,
                             !.plus = roles, !.on = TRUE]
<1>1. Unused(i) /\ Goes(s, u)
  BY DEF CreateUser, Writes, Idle
<1>2. u \in SessionRow /\ u.make /\ u.pc = "write" /\ u.id = i /\ u.p = None
  BY DEF SessionRow, Idle
<1> HIDE DEF u
<1>3. QED
  BY <1>1, <1>2, MakesKeeps

LEMMA SeedAdminKeeps ==
    ASSUME AccountsInv, NEW s \in Session, NEW i \in Id, SeedAdmin(s, i)
    PROVE  AccountsInv'
BY CreateUserKeeps, AccountsAssumption DEF SeedAdmin

\* A request about an account that is there.
LEMMA ChangesKeep ==
    ASSUME AccountsInv, NEW s \in Session, NEW i \in Users, NEW u \in SessionRow,
           Goes(s, u), u.pc = "write", u.id = i, ~u.make, u.p = None
    PROVE  AccountsInv'
<1>1. Sound(u)
  BY DEF Sound, Users
<1>2. QED
  BY <1>1, GoesOn

LEMMA SetActiveKeeps ==
    ASSUME AccountsInv, NEW s \in Session, NEW a \in Id, NEW i \in Id, NEW on \in BOOLEAN,
           SetActive(s, a, i, on)
    PROVE  AccountsInv'
<1> DEFINE f == IF on = user[i].on THEN None ELSE on
           u == [Idle EXCEPT !.pc = "write", !.id = i, !.on = f]
<1>1. i \in Users /\ Goes(s, u)
  BY DEF SetActive, Writes, Idle
<1>2. f \in BOOLEAN \cup {None}
  OBVIOUS
<1> HIDE DEF f
<1>3. u \in SessionRow /\ ~u.make /\ u.pc = "write" /\ u.id = i /\ u.p = None
  BY <1>2 DEF SessionRow, Idle
<1> HIDE DEF u
<1>4. QED
  BY <1>1, <1>3, ChangesKeep

LEMMA AssignRolesKeeps ==
    ASSUME AccountsInv, NEW s \in Session, NEW i \in Id, NEW roles \in Groups,
           AssignRoles(s, i, roles)
    PROVE  AccountsInv'
<1> DEFINE u == [Idle EXCEPT !.pc = "write", !.id = i, !.plus = roles \ user[i].roles,
                             !.minus = user[i].roles \ roles]
<1>1. i \in Users /\ Goes(s, u) /\ user[i] \in UserRow
  BY DEF AssignRoles, Writes, Idle, AccountsInv, TypeOK
<1>2. roles \subseteq Role /\ user[i].roles \subseteq Role
  BY <1>1, AccountsAssumption DEF UserRow
<1>3. u \in SessionRow /\ ~u.make /\ u.pc = "write" /\ u.id = i /\ u.p = None
  BY <1>2 DEF SessionRow, Idle
<1> HIDE DEF u
<1>4. QED
  BY <1>1, <1>3, ChangesKeep

LEMMA AdministrationKeeps ==
    ASSUME AccountsInv, NEW s \in Session, Administration(s)
    PROVE  AccountsInv'
<1>1. PICK a \in Id, i \in Id :
         \/ \E n \in Name, roles \in Groups : CreateUser(s, i, n, roles)
         \/ \E on \in BOOLEAN : SetActive(s, a, i, on)
         \/ \E roles \in Groups : AssignRoles(s, i, roles)
  BY DEF Administration
<1>2. Groups \subseteq SUBSET Role
  BY AccountsAssumption
<1>3. QED
  BY <1>1, <1>2, CreateUserKeeps, SetActiveKeeps, AssignRolesKeeps

-----------------------------------------------------------------------------
(* Commits.                                                                *)

LEMMA CommitKeeps ==
    ASSUME AccountsInv, NEW s \in Session, Commit(s)
    PROVE  AccountsInv'
<1> DEFINE x == sess[s]
           k == x.id
           old == user[k]
           row == [here |-> TRUE, on |-> Flag(x),
                   name |-> IF x.make THEN x.name ELSE old.name,
                   who |-> IF x.make THEN x.p ELSE old.who,
                   roles |-> (old.roles \cup x.plus) \ x.minus]
<1>1. /\ x \in SessionRow /\ k \in Id /\ old \in UserRow
      /\ x.pc = "write" /\ Fits(x)
      /\ x.make <=> ~old.here
      /\ x.p # None => Super \notin x.plus
      /\ x.p # None /\ ~x.make => old.who = x.p
  BY DEF Commit, AccountsInv, TypeOK, Requests, Sound
<1>2. /\ user' = [user EXCEPT ![k] = row]
      /\ sess' = [sess EXCEPT ![s] = Idle]
      /\ UNCHANGED <<dir, link>>
  BY DEF Commit
<1>3. x.make => old = NoUser
  BY <1>1 DEF AccountsInv, Blank
<1>4. row \in UserRow
  BY <1>1 DEF SessionRow, UserRow, Flag
<1>5. PICK z : z = row
  OBVIOUS
<1>6. /\ z \in UserRow /\ z.here
      /\ z.on = Flag(x)
      /\ x.make => z.name = x.name /\ z.who = x.p
      /\ ~x.make => z.name = old.name /\ z.who = old.who
      /\ z.roles = (old.roles \cup x.plus) \ x.minus
  BY <1>4, <1>5
<1>7. /\ \A i \in Id : user'[i] = IF i = k THEN z ELSE user[i]
      /\ user' \in [Id -> UserRow]
  BY <1>1, <1>2, <1>4, <1>5 DEF AccountsInv, TypeOK
<1>8. \A t \in Session : sess'[t] = IF t = s THEN Idle ELSE sess[t]
  BY <1>2 DEF AccountsInv, TypeOK
<1> HIDE DEF row
<1>9. Users' = Users \cup {k}
  BY <1>1, <1>6, <1>7 DEF Users
<1>10. TypeOK'
  <2>1. sess' \in [Session -> SessionRow]
    BY <1>2, IdleHolds DEF AccountsInv, TypeOK
  <2>2. signed' \subseteq Person \X Id
    BY <1>1 DEF Commit, AccountsInv, TypeOK, SessionRow
  <2>3. appointed' \subseteq Id /\ off' \subseteq Id
    BY <1>1 DEF Commit, AccountsInv, TypeOK
  <2>4. QED
    BY <1>2, <1>7, <2>1, <2>2, <2>3 DEF AccountsInv, TypeOK
<1>11. Blank'
  BY <1>6, <1>7 DEF AccountsInv, Blank
<1>12. Requests'
  <2>1. ASSUME NEW t \in Session PROVE Sound(sess[t])'
    <3>1. CASE t = s
      BY <1>8, <3>1 DEF Idle, Sound
    <3>2. CASE t # s
      <4>1. sess'[t] = sess[t] /\ Sound(sess[t])
        BY <1>8, <3>2 DEF AccountsInv, Requests
      <4>2. CASE sess[t].pc = "write" /\ sess[t].id = k
        <5>1. ~(sess[t].make /\ x.make)
          BY <3>2, <4>2 DEF AccountsInv, OneMakerEach
        <5>2. ~sess[t].make /\ ~x.make
          BY <1>1, <4>1, <4>2, <5>1 DEF Sound
        <5>3. user'[k] = z /\ z.here /\ z.who = old.who
          BY <1>1, <1>6, <1>7, <5>2
        <5>4. QED
          BY <4>1, <4>2, <5>2, <5>3 DEF Sound
      <4>3. CASE ~(sess[t].pc = "write" /\ sess[t].id = k)
        BY <1>7, <4>1, <4>3 DEF Sound
      <4>4. QED
        BY <4>2, <4>3
    <3>3. QED
      BY <3>1, <3>2
  <2>2. QED
    BY <2>1 DEF Requests
<1>13. OneMakerEach'
  BY <1>8 DEF AccountsInv, OneMakerEach, Idle
<1>14. OneAccountEach'
  <2>1. \A i \in Users \ {k} :
           /\ z.name # user[i].name
           /\ z.who # None => z.who # user[i].who
    <3>1. CASE x.make
      BY <1>1, <1>6, <3>1 DEF Fits, Named
    <3>2. CASE ~x.make
      BY <1>1, <1>6, <3>2 DEF AccountsInv, OneAccountEach, Users
    <3>3. QED
      BY <3>1, <3>2
  <2>2. \A i \in Users : i \in Id
    BY DEF Users
  <2>3. \A i, j \in Users \ {k} :
           i # j => /\ user[i].name # user[j].name
                    /\ user[i].who # None => user[i].who # user[j].who
    BY DEF AccountsInv, OneAccountEach
  <2>4. \A i \in Users' : /\ i \in Id
                          /\ i = k => user'[i] = z
                          /\ i # k => i \in Users \ {k} /\ user'[i] = user[i]
    BY <1>1, <1>7, <1>9, <2>2
  <2>5. ASSUME NEW i \in Users', NEW j \in Users', i # j
        PROVE  /\ user'[i].name # user'[j].name
               /\ user'[i].who # None => user'[i].who # user'[j].who
    BY <2>1, <2>3, <2>4, <2>5
  <2>6. QED
    BY <2>5 DEF OneAccountEach
<1>15. SignsInAsSelf'
  <2>1. ASSUME NEW y \in signed PROVE user'[y[2]].who = y[1]
    <3>1. y[1] \in Person /\ y[2] \in Id /\ user[y[2]].who = y[1]
      BY DEF AccountsInv, TypeOK, SignsInAsSelf
    <3>2. y[1] # None
      BY <3>1, AccountsAssumption
    <3>3. y[2] = k => ~x.make
      BY <1>3, <3>1, <3>2 DEF NoUser
    <3>4. QED
      BY <1>6, <1>7, <3>1, <3>3
  <2>2. x.p # None => user'[k].who = x.p
    BY <1>1, <1>6, <1>7
  <2>3. \A y \in signed' : y \in signed \/ (x.p # None /\ y = <<x.p, k>>)
    BY DEF Commit
  <2>4. QED
    BY <2>1, <2>2, <2>3 DEF SignsInAsSelf
<1>16. DisabledStays'
  <2>1. ASSUME NEW i \in Users', user'[i].on PROVE i \notin off'
    <3>1. CASE i # k
      <4>1. i \in Users /\ user'[i] = user[i]
        BY <1>7, <1>9, <3>1 DEF Users
      <4>2. i \notin off
        BY <2>1, <4>1 DEF AccountsInv, DisabledStays
      <4>3. QED
        BY <3>1, <4>2 DEF Commit
    <3>2. CASE i = k
      <4>1. Flag(x)
        BY <1>1, <1>6, <1>7, <2>1, <3>2
      <4>2. CASE x.on = None
        <5>1. old.on
          BY <4>1, <4>2 DEF Flag
        <5>2. old.here
          BY <1>1, <1>3, <5>1 DEF NoUser
        <5>3. k \notin off
          BY <1>1, <5>1, <5>2 DEF AccountsInv, DisabledStays, Users
        <5>4. QED
          BY <3>2, <4>2, <5>3 DEF Commit
      <4>3. CASE x.on # None
        BY <3>2, <4>1, <4>3 DEF Commit, Flag
      <4>4. QED
        BY <4>2, <4>3
    <3>3. QED
      BY <3>1, <3>2
  <2>2. QED
    BY <2>1 DEF DisabledStays
<1>17. SuperIsAppointed'
  <2>1. appointed \subseteq appointed'
    BY DEF Commit
  <2>2. Super \in x.plus => k \in appointed'
    BY <1>1 DEF Commit
  <2>3. Super \in old.roles => k \in appointed
    BY <1>1, <1>3 DEF AccountsInv, SuperIsAppointed, Users, NoUser
  <2>4. ASSUME NEW i \in Users', Super \in user'[i].roles PROVE i \in appointed'
    <3>1. CASE i # k
      <4>1. i \in Users /\ user'[i] = user[i]
        BY <1>7, <1>9, <3>1 DEF Users
      <4>2. QED
        BY <2>1, <2>4, <4>1 DEF AccountsInv, SuperIsAppointed
    <3>2. CASE i = k
      BY <1>1, <1>6, <1>7, <2>1, <2>2, <2>3, <2>4, <3>2
    <3>3. QED
      BY <3>1, <3>2
  <2>5. QED
    BY <2>4 DEF SuperIsAppointed
<1>18. QED
  BY <1>10, <1>11, <1>12, <1>13, <1>14, <1>15, <1>16, <1>17 DEF AccountsInv

-----------------------------------------------------------------------------
LEMMA DirectoryKeeps ==
    ASSUME AccountsInv, Directory
    PROVE  AccountsInv'
<1>1. UNCHANGED <<user, sess, link, past>>
  BY DEF Directory, Enters, Leaves
<1>2. dir' \in [Person -> DirRow]
  <2>1. dir \in [Person -> DirRow] /\ Away \in DirRow
    BY DEF AccountsInv, TypeOK, DirRow, Away
  <2>2. ASSUME NEW q \in Person, NEW n \in Name, NEW w \in Groups, Enters(q, n, w)
        PROVE  dir' \in [Person -> DirRow]
    <3>1. [here |-> TRUE, name |-> n, wants |-> w] \in DirRow
      BY DEF DirRow
    <3>2. QED
      BY <2>1, <2>2, <3>1 DEF Enters
  <2>3. ASSUME NEW q \in Person, Leaves(q)
        PROVE  dir' \in [Person -> DirRow]
    BY <2>1, <2>3 DEF Leaves
  <2>4. QED
    BY <2>2, <2>3 DEF Directory
<1>3. QED
  BY <1>1, <1>2 DEF AccountsInv, TypeOK, past, Blank, Requests, Sound, OneMakerEach, Users,
                    OneAccountEach, SignsInAsSelf, DisabledStays, SuperIsAppointed

LEMMA LinksKeep ==
    ASSUME AccountsInv, UNCHANGED <<dir, user, sess, past>>, link' \subseteq Link
    PROVE  AccountsInv'
BY DEF AccountsInv, TypeOK, past, Blank, Requests, Sound, OneMakerEach, Users,
       OneAccountEach, SignsInAsSelf, DisabledStays, SuperIsAppointed

LEMMA AccountsStep == AccountsInv /\ [Next]_vars => AccountsInv'
<1> SUFFICES ASSUME AccountsInv, [Next]_vars
             PROVE  AccountsInv'
  OBVIOUS
<1>1. CASE Directory
  BY <1>1, DirectoryKeeps
<1>2. ASSUME NEW l \in Link, Redirects(l) \/ Forgotten(l)
      PROVE  AccountsInv'
  BY <1>2, LinksKeep DEF Redirects, Forgotten, AccountsInv, TypeOK
<1>3. ASSUME NEW s \in Session,
             SignIns(s) \/ Administration(s) \/ \E i \in Id : SeedAdmin(s, i)
      PROVE  AccountsInv'
  BY <1>3, SignInsKeep, AdministrationKeeps, SeedAdminKeeps
<1>4. ASSUME NEW s \in Session, Commit(s) \/ Abort(s)
      PROVE  AccountsInv'
  BY <1>4, CommitKeeps, GivesUp DEF Abort
<1>5. CASE UNCHANGED vars
  BY <1>5, LinksKeep DEF vars, past, AccountsInv, TypeOK
<1>6. QED
  BY <1>1, <1>2, <1>3, <1>4, <1>5 DEF Next

\* Rows, requests and histories stay in their types, for any number of people, accounts
\* and requests.
THEOREM AccountTypes == Spec => []TypeOK
<1>1. AccountsInv => TypeOK
  BY DEF AccountsInv
<1>2. QED
  BY <1>1, InitAccounts, AccountsStep, PTL DEF Spec

\* A person has one account for life and no account two persons (_find, _provision),
\* however they are renamed and however their sign-ins and administrators interleave:
\* whom an account is for is what it was when they got in, and it is the only one.
THEOREM AccountsAreForLife == Spec => []OneAccountForLife
<1>1. AccountsInv => OneAccountForLife
  <2> SUFFICES ASSUME AccountsInv, NEW x \in signed, NEW y \in signed
               PROVE  x[1] = y[1] <=> x[2] = y[2]
    BY DEF OneAccountForLife
  <2>1. \A z \in signed : /\ z[1] \in Person /\ z[1] # None
                          /\ z[2] \in Id /\ user[z[2]].who = z[1]
    BY AccountsAssumption DEF AccountsInv, TypeOK, SignsInAsSelf
  <2>2. \A z \in signed : z[2] \in Users
    BY <2>1 DEF AccountsInv, Blank, NoUser, Users
  <2> QED
    BY <2>1, <2>2 DEF AccountsInv, OneAccountEach
<1>2. QED
  BY <1>1, InitAccounts, AccountsStep, PTL DEF Spec

\* Nobody signs in to an account that is another's (_find), though names change hands:
\* the account is found by its subject, or is the one made for it.
THEOREM EverySignInIsOnesOwn == Spec => []SignsInAsSelf
<1>1. AccountsInv => SignsInAsSelf
  BY DEF AccountsInv
<1>2. QED
  BY <1>1, InitAccounts, AccountsStep, PTL DEF Spec

\* No sign-in, and no other request that read it active, turns a disabled account on
\* again (set_active, _reconcile): the flag is written only by who changes it.
THEOREM DisabledAccountsStay == Spec => []DisabledStays
<1>1. AccountsInv => DisabledStays
  BY DEF AccountsInv
<1>2. QED
  BY <1>1, InitAccounts, AccountsStep, PTL DEF Spec

\* Who has SUPER_ADMIN was given it by an administrator or the seed, whatever the groups
\* of the directory say (_roles_for) and however differences of roles overlap.
THEOREM SuperStaysAppointed == Spec => []SuperIsAppointed
<1>1. AccountsInv => SuperIsAppointed
  BY DEF AccountsInv
<1>2. QED
  BY <1>1, InitAccounts, AccountsStep, PTL DEF Spec

----------------------------------------------------------------------------
(* The audit log, of one request.                                          *)

AU == INSTANCE AuditTrail

\* What a request is, and what the log holds of it: out was committed outside of its
\* transaction; what it staged is there if and only if its changes are kept.
Trail(q, out) ==
    /\ q = [log |-> q.log, now |-> q.now, staged |-> q.staged, changes |-> q.changes,
            kept |-> q.kept, answer |-> q.answer]
    /\ IF q.answer = "200" THEN q.log = out \o q.staged /\ q.kept = q.changes
       ELSE q.log = out /\ q.kept = {}

\* record: staged with the changes, or the request fails and nothing of it was done.
LEMMA RecordShares ==
    ASSUME NEW q, NEW out, Trail(q, out), AU!Running(q), NEW e, NEW fails \in BOOLEAN
    PROVE  Trail(AU!Record(q, e, fails), out)
           /\ (AU!Running(AU!Record(q, e, fails)) <=> ~fails)
           /\ AU!Record(q, e, fails).answer \in {"none", "500"}
<1> DEFINE d == AU!Record(q, e, fails)
<1>1. CASE fails
  <2>1. d = [q EXCEPT !.answer = "500"]
    BY <1>1 DEF AU!Record
  <2> HIDE DEF d
  <2>2. d = [log |-> q.log, now |-> q.now, staged |-> q.staged, changes |-> q.changes,
             kept |-> q.kept, answer |-> "500"]
    BY <2>1 DEF Trail
  <2>3. /\ d.log = q.log /\ d.staged = q.staged /\ d.kept = q.kept /\ d.answer = "500"
        /\ d = [log |-> d.log, now |-> d.now, staged |-> d.staged, changes |-> d.changes,
                kept |-> d.kept, answer |-> d.answer]
    BY <2>2
  <2>4. Trail(d, out) /\ ~AU!Running(d) /\ d.answer \in {"none", "500"}
    BY <2>3 DEF Trail, AU!Running
  <2> QED
    BY <1>1, <2>4 DEF d
<1>2. CASE ~fails
  <2>1. d = [q EXCEPT !.staged = Append(q.staged, e)]
    BY <1>2 DEF AU!Record, Trail
  <2> HIDE DEF d
  <2>2. d = [log |-> q.log, now |-> q.now, staged |-> Append(q.staged, e),
             changes |-> q.changes, kept |-> q.kept, answer |-> q.answer]
    BY <2>1 DEF Trail
  <2> QED
    BY <1>2, <2>2 DEF Trail, AU!Running, d
<1> QED
  BY <1>1, <1>2

\* What is in the log when an entry is to be written alone.
Outside(out, e, fails, factory) == IF factory /\ ~fails THEN Append(out, e) ELSE out

LEMMA IndependentShares ==
    ASSUME NEW q, NEW out, Trail(q, out), AU!Running(q), NEW e,
           NEW fails \in BOOLEAN, NEW factory \in BOOLEAN
    PROVE  /\ Trail(AU!RecordIndependent(q, e, fails, factory), Outside(out, e, fails, factory))
           /\ factory => AU!Running(AU!RecordIndependent(q, e, fails, factory))
           /\ AU!RecordIndependent(q, e, fails, factory).answer \in {"none", "500"}
<1> DEFINE d == AU!RecordIndependent(q, e, fails, factory)
<1>1. CASE ~factory
  <2>1. d = AU!Record(q, e, fails)
    BY <1>1 DEF AU!RecordIndependent
  <2> QED
    BY <1>1, <2>1, RecordShares DEF Outside
<1>2. CASE factory /\ fails
  <2>1. d = q
    BY <1>2 DEF AU!RecordIndependent
  <2> QED
    BY <1>2, <2>1 DEF Outside, AU!Running
<1>3. CASE factory /\ ~fails
  <2>1. d = [q EXCEPT !.log = Append(q.log, e)]
    BY <1>3 DEF AU!RecordIndependent, Trail
  <2> HIDE DEF d
  <2>2. d = [log |-> Append(q.log, e), now |-> q.now, staged |-> q.staged,
             changes |-> q.changes, kept |-> q.kept, answer |-> q.answer]
    BY <2>1 DEF Trail
  <2>3. /\ d.log = Append(out, e) /\ d.kept = q.kept /\ d.answer = "none"
        /\ d = [log |-> d.log, now |-> d.now, staged |-> d.staged, changes |-> d.changes,
                kept |-> d.kept, answer |-> d.answer]
    BY <2>2 DEF Trail, AU!Running
  <2>4. Trail(d, Append(out, e)) /\ AU!Running(d)
    BY <2>3 DEF Trail, AU!Running
  <2>5. Outside(out, e, fails, factory) = Append(out, e)
    BY <1>3 DEF Outside
  <2> QED
    BY <2>3, <2>4, <2>5 DEF d
<1> QED
  BY <1>1, <1>2, <1>3

\* require_permission: who may goes on as if never asked; who may not is answered so, and
\* the refusal is in the log unless it could not be written alone.
Decided(q, out, caller, permission, now, fails, factory) ==
    LET d == AU!RequirePermission(q, caller, permission, now, fails, factory)
        refusal == AU!Entry("check", caller.name, "DENIED", now) IN
    IF caller.superuser \/ permission \in caller.permissions THEN d = q
    ELSE /\ d.answer \in {"403", "500"} /\ (factory => d.answer = "403")
         /\ Trail(d, Outside(out, refusal, fails, factory))

LEMMA DenialShares ==
    ASSUME NEW q, NEW out, Trail(q, out), AU!Running(q), NEW caller, NEW permission, NEW now,
           NEW fails \in BOOLEAN, NEW factory \in BOOLEAN
    PROVE  Decided(q, out, caller, permission, now, fails, factory)
<1> DEFINE d == AU!RequirePermission(q, caller, permission, now, fails, factory)
           refusal == AU!Entry("check", caller.name, "DENIED", now)
           told == AU!RecordIndependent(q, refusal, fails, factory)
<1>1. CASE caller.superuser \/ permission \in caller.permissions
  BY <1>1 DEF Decided, AU!RequirePermission
<1>2. CASE ~(caller.superuser \/ permission \in caller.permissions)
  <2>1. d = [told EXCEPT !.answer = IF AU!Running(told) THEN "403" ELSE told.answer]
    <3>1. d = AU!Deny(q, caller.name, now, fails, factory)
      BY <1>2 DEF AU!RequirePermission
    <3> QED
      BY <3>1 DEF AU!Deny
  <2> HIDE DEF refusal
  <2>2. /\ Trail(told, Outside(out, refusal, fails, factory))
        /\ factory => AU!Running(told)
        /\ told.answer \in {"none", "500"}
    BY IndependentShares
  <2> HIDE DEF told, d
  <2>3. d = [log |-> told.log, now |-> told.now, staged |-> told.staged,
             changes |-> told.changes, kept |-> told.kept,
             answer |-> IF AU!Running(told) THEN "403" ELSE told.answer]
    BY <2>1, <2>2 DEF Trail
  <2>4. d.answer \in {"403", "500"} /\ (factory => d.answer = "403")
    BY <2>2, <2>3 DEF AU!Running
  <2>5. Trail(d, Outside(out, refusal, fails, factory))
    BY <2>2, <2>3, <2>4 DEF Trail
  <2> QED
    BY <1>2, <2>4, <2>5 DEF Decided, d, refusal
<1> QED
  BY <1>1, <1>2

\* record, record_independent, require_permission and the end of the session: whatever cannot
\* be written, what a request staged in the log is there if and only if its changes are
\* kept; what was committed alone is there either way, and nothing that is there is lost; an
\* entry that is written alone never decides an answer; and who may not is answered so
\* before anything of the request is kept.
THEOREM TrailSharesFate ==
    ASSUME NEW log, NEW at, NEW q, NEW out, Trail(q, out), NEW x, NEW e,
           NEW caller, NEW permission, NEW now, NEW fails \in BOOLEAN, NEW factory \in BOOLEAN
    PROVE  /\ Trail(AU!Begin(log, at), log) /\ AU!Running(AU!Begin(log, at))
           /\ AU!Running(q) =>
                /\ Trail(AU!Change(q, x), out) /\ AU!Running(AU!Change(q, x))
                /\ Trail(AU!Record(q, e, fails), out)
                /\ Trail(AU!RecordIndependent(q, e, fails, factory),
                         Outside(out, e, fails, factory))
                /\ factory => AU!Running(AU!RecordIndependent(q, e, fails, factory))
                /\ Decided(q, out, caller, permission, now, fails, factory)
           /\ q.answer # "200" =>
                /\ Trail(AU!Ends(q, fails), out) /\ ~AU!Running(AU!Ends(q, fails))
                /\ AU!Ends(q, fails).answer = "200" <=> AU!Running(q) /\ ~fails
<1>1. Trail(AU!Begin(log, at), log) /\ AU!Running(AU!Begin(log, at))
  BY DEF AU!Begin, Trail, AU!Running
<1>2. ASSUME AU!Running(q) PROVE Trail(AU!Change(q, x), out) /\ AU!Running(AU!Change(q, x))
  <2> DEFINE d == AU!Change(q, x)
  <2>1. d = [q EXCEPT !.changes = q.changes \cup {x}]
    BY DEF AU!Change, Trail
  <2> HIDE DEF d
  <2>2. d = [log |-> q.log, now |-> q.now, staged |-> q.staged,
             changes |-> q.changes \cup {x}, kept |-> q.kept, answer |-> q.answer]
    BY <2>1 DEF Trail
  <2> QED
    BY <1>2, <2>2 DEF Trail, AU!Running, d
<1>3. ASSUME q.answer # "200"
      PROVE  /\ Trail(AU!Ends(q, fails), out) /\ ~AU!Running(AU!Ends(q, fails))
             /\ AU!Ends(q, fails).answer = "200" <=> AU!Running(q) /\ ~fails
  <2> DEFINE d == AU!Ends(q, fails)
  <2>1. CASE AU!Running(q) /\ ~fails
    <3>1. d = [q EXCEPT !.log = q.log \o q.staged, !.kept = q.changes, !.answer = "200"]
      BY <2>1 DEF AU!Ends, Trail
    <3> HIDE DEF d
    <3>2. d = [log |-> q.log \o q.staged, now |-> q.now, staged |-> q.staged,
               changes |-> q.changes, kept |-> q.changes, answer |-> "200"]
      BY <3>1 DEF Trail
    <3>3. /\ d.log = out \o d.staged /\ d.kept = d.changes /\ d.answer = "200"
          /\ d = [log |-> d.log, now |-> d.now, staged |-> d.staged, changes |-> d.changes,
                  kept |-> d.kept, answer |-> d.answer]
      BY <1>3, <3>2 DEF Trail
    <3>4. Trail(d, out) /\ ~AU!Running(d)
      BY <3>3 DEF Trail, AU!Running
    <3> QED
      BY <2>1, <3>3, <3>4 DEF d
  <2>2. CASE ~(AU!Running(q) /\ ~fails)
    <3> DEFINE a == IF AU!Running(q) THEN "500" ELSE q.answer
    <3>1. d = [q EXCEPT !.answer = a]
      BY <2>2 DEF AU!Ends, Trail
    <3>2. a # "200" /\ a # "none"
      BY <1>3 DEF AU!Running
    <3> HIDE DEF d, a
    <3>3. d = [log |-> q.log, now |-> q.now, staged |-> q.staged,
               changes |-> q.changes, kept |-> q.kept, answer |-> a]
      BY <3>1 DEF Trail
    <3> QED
      BY <1>3, <2>2, <3>2, <3>3 DEF Trail, AU!Running, d
  <2> QED
    BY <2>1, <2>2
<1>4. AU!Running(q) =>
        /\ Trail(AU!Record(q, e, fails), out)
        /\ Trail(AU!RecordIndependent(q, e, fails, factory), Outside(out, e, fails, factory))
        /\ factory => AU!Running(AU!RecordIndependent(q, e, fails, factory))
        /\ Decided(q, out, caller, permission, now, fails, factory)
  BY RecordShares, IndependentShares, DenialShares
<1> QED
  BY <1>1, <1>2, <1>3, <1>4
=============================================================================
