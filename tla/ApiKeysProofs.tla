--------------------------- MODULE ApiKeysProofs ---------------------------
(***************************************************************************)
(* Proofs about ApiKeys: whatever sessions rotate and revoke on rows they  *)
(* read earlier, nobody gets in with a key beyond what was granted.        *)
(***************************************************************************)
EXTENDS ApiKeys, TLAPS

\* A committed expiry is within the grant, and a revocation is never undone.
RowsBounded ==
    /\ \A k \in Key : key[k].here => key[k].exp <= granted[k]
    /\ \A k \in ended : key[k].here /\ key[k].revoked

\* So is the row a session holds, and what was revoked when it read still is.
HeldBounded ==
    \A a \in Admin : adm[a].pc # "idle" =>
        /\ adm[a].k \in Key
        /\ key[adm[a].k].here
        /\ adm[a].was.exp <= granted[adm[a].k]
        /\ adm[a].was.revoked => key[adm[a].k].revoked

\* A replacement is nobody else's yet.
MintedFresh ==
    /\ \A a \in Admin : adm[a].pc = "minted" =>
          adm[a].new \in Key /\ ~key[adm[a].new].here /\ adm[a].exp <= adm[a].was.exp
    /\ \A a, b \in Admin :
          adm[a].pc = "minted" /\ adm[b].pc = "minted" /\ adm[a].new = adm[b].new => a = b

KeysInv == TypeOK /\ RowsBounded /\ HeldBounded /\ MintedFresh

LEMMA TimeFacts ==
    /\ Never \in Nat
    /\ \A t \in Time : t \in Nat
    /\ \A t \in 0 .. MaxTime : t \in Time /\ t \in Nat
BY KeysAssumption DEF Never, Time

\* An expiry moved earlier is a time, and not after the one that was read.
LEMMA ShortenedFacts ==
    ASSUME NEW old \in Row, NEW g \in Grace, now \in 0 .. MaxTime
    PROVE  Shortened(old, g) \in Time /\ Shortened(old, g) <= old.exp
BY KeysAssumption DEF Shortened, Earlier, Time, Never, Row

LEMMA RowFacts ==
    /\ NoKey \in Row
    /\ \A e \in Time : Fresh(e) \in Row
BY TimeFacts, KeysAssumption DEF NoKey, Fresh, Row, Time, Never

LEMMA IdleFacts == Idle \in Session
BY RowFacts, TimeFacts, KeysAssumption DEF Idle, Session, Time, Never

\* No key, no session.
LEMMA KeysInit == Init => KeysInv
<1> SUFFICES ASSUME Init PROVE KeysInv
  OBVIOUS
<1>1. TypeOK
  BY RowFacts, IdleFacts, KeysAssumption DEF Init, TypeOK, Time, Never
<1>2. RowsBounded /\ HeldBounded /\ MintedFresh
  BY DEF Init, NoKey, Idle, RowsBounded, HeldBounded, MintedFresh
<1> QED
  BY <1>1, <1>2 DEF KeysInv

\* Sessions that read, fail or end leave the rows alone.
LEMMA SessionStep ==
    ASSUME KeysInv, NEW a \in Admin, NEW s \in Session, Goes(a, s),
           UNCHANGED <<now, key, granted, ended>>,
           s.pc # "idle" => /\ s.k \in Key
                            /\ key[s.k].here
                            /\ s.was.exp <= granted[s.k]
                            /\ s.was.revoked => key[s.k].revoked,
           s.pc = "minted" => /\ s.new \in Key
                              /\ Unused(s.new)
                              /\ s.exp <= s.was.exp
    PROVE  KeysInv'
<1> USE DEF KeysInv
<1>1. adm' = [adm EXCEPT ![a] = s]
  BY DEF Goes
<1>2. TypeOK'
  BY <1>1 DEF TypeOK
<1>3. RowsBounded'
  BY DEF RowsBounded
<1>4. HeldBounded'
  BY <1>1 DEF HeldBounded, TypeOK
<1>5. MintedFresh'
  BY <1>1 DEF MintedFresh, TypeOK, Unused
<1> QED
  BY <1>2, <1>3, <1>4, <1>5

LEMMA CreateStep ==
    ASSUME KeysInv, NEW k \in Key, NEW e \in Time, CreateKey(k, e)
    PROVE  KeysInv'
<1> USE DEF KeysInv
<1>1. /\ key' = [key EXCEPT ![k] = Fresh(e)]
      /\ granted' = [granted EXCEPT ![k] = e]
      /\ UNCHANGED <<now, adm, ended>>
      /\ Unused(k)
  BY DEF CreateKey
<1>2. TypeOK'
  BY <1>1, RowFacts DEF TypeOK
<1>3. RowsBounded'
  BY <1>1, TimeFacts DEF RowsBounded, TypeOK, Unused, Fresh
<1>4. HeldBounded'
  BY <1>1 DEF HeldBounded, TypeOK, Unused, Fresh
<1>5. MintedFresh'
  BY <1>1 DEF MintedFresh, TypeOK, Unused, Fresh
<1> QED
  BY <1>2, <1>3, <1>4, <1>5

\* The old key ends no later than it did, the new one no later than it was to.
LEMMA RotateStep ==
    ASSUME KeysInv, NEW a \in Admin, RotateCommit(a)
    PROVE  KeysInv'
<1> USE DEF KeysInv
<1> DEFINE s == adm[a]
           row == Rotated(s.k, s.was, s.exp, s.new)
<1>1. /\ s \in Session /\ s.pc = "minted" /\ s.was \in Row /\ s.exp \in Time
      /\ s.k \in Key /\ key[s.k].here /\ s.was.exp <= granted[s.k]
      /\ s.new \in Key /\ ~key[s.new].here /\ s.exp <= s.was.exp
      /\ s.k # s.new
  BY DEF RotateCommit, HeldBounded, MintedFresh, TypeOK, Session
<1>2. /\ key' = [k \in Key |-> IF k = s.new THEN Fresh(s.was.exp)
                               ELSE IF k = s.k THEN row ELSE key[k]]
      /\ granted' = [granted EXCEPT ![s.new] = granted[s.k]]
      /\ adm' = [adm EXCEPT ![a] = Idle]
      /\ UNCHANGED <<now, ended>>
  BY DEF RotateCommit, Goes, Inherited
<1>3. /\ row \in Row /\ row.here
      /\ row.revoked = key[s.k].revoked
      /\ row.exp <= granted[s.k]
  <2>1. key[s.k] \in Row /\ key[s.k].exp <= granted[s.k]
    BY <1>1 DEF TypeOK, RowsBounded
  <2>2. s.exp <= granted[s.k]
    BY <1>1, TimeFacts DEF TypeOK, Row
  <2> QED
    BY <1>1, <2>1, <2>2 DEF Rotated, Row
<1>4. Fresh(s.was.exp) \in Row /\ Fresh(s.was.exp).exp = s.was.exp /\ Fresh(s.was.exp).here
  BY <1>1, RowFacts DEF Row, Fresh
<1> HIDE DEF row
<1>5. TypeOK'
  BY <1>1, <1>2, <1>3, <1>4, IdleFacts DEF TypeOK
<1>6. RowsBounded'
  <2>1. s.new \notin ended
    BY <1>1 DEF RowsBounded
  <2> QED
    BY <1>1, <1>2, <1>3, <1>4, <2>1 DEF RowsBounded, TypeOK
<1>7. HeldBounded'
  <2> SUFFICES ASSUME NEW b \in Admin, adm'[b].pc # "idle"
               PROVE  /\ adm'[b].k \in Key
                      /\ key'[adm'[b].k].here
                      /\ adm'[b].was.exp <= granted'[adm'[b].k]
                      /\ adm'[b].was.revoked => key'[adm'[b].k].revoked
    BY DEF HeldBounded
  <2>1. b # a /\ adm'[b] = adm[b]
    BY <1>2 DEF TypeOK, Idle
  <2>2. adm[b].k \in Key /\ key[adm[b].k].here /\ adm[b].k # s.new
    BY <1>1, <2>1 DEF HeldBounded
  <2> QED
    BY <1>1, <1>2, <1>3, <2>1, <2>2 DEF HeldBounded, TypeOK
<1>8. MintedFresh'
  <2>1. \A b \in Admin : adm'[b].pc = "minted" => b # a /\ adm'[b] = adm[b]
    BY <1>2 DEF TypeOK, Idle
  <2>2. \A b \in Admin \ {a} : adm[b].pc = "minted" => adm[b].new # s.new /\ adm[b].new # s.k
    BY <1>1 DEF MintedFresh
  <2> QED
    BY <1>1, <1>2, <2>1, <2>2 DEF MintedFresh
<1> QED
  BY <1>5, <1>6, <1>7, <1>8

\* What was revoked when the session read is revoked still.
LEMMA RevokeStep ==
    ASSUME KeysInv, NEW a \in Admin, RevokeCommit(a)
    PROVE  KeysInv'
<1> USE DEF KeysInv
<1> DEFINE k == adm[a].k
           row == [here |-> TRUE, exp |-> key[k].exp, to |-> key[k].to,
                   revoked |-> key[k].revoked \/ ~adm[a].was.revoked]
<1>1. /\ k \in Key /\ key[k].here
      /\ adm[a].was.revoked => key[k].revoked
      /\ key[k] \in Row
      /\ adm[a].was \in Row
  BY DEF RevokeCommit, HeldBounded, TypeOK, Session
<1>2. /\ key' = [key EXCEPT ![k] = row]
      /\ ended' = ended \cup {k}
      /\ adm' = [adm EXCEPT ![a] = Idle]
      /\ UNCHANGED <<now, granted>>
  BY DEF RevokeCommit, Goes
<1>3. row \in Row
  BY <1>1 DEF Row
<1>4. row.here /\ row.revoked /\ row.exp = key[k].exp
  BY <1>1
<1> HIDE DEF row
<1>5. TypeOK'
  BY <1>1, <1>2, <1>3, IdleFacts DEF TypeOK
<1>6. RowsBounded'
  BY <1>1, <1>2, <1>4 DEF RowsBounded, TypeOK
<1>7. HeldBounded'
  BY <1>1, <1>2, <1>4 DEF HeldBounded, TypeOK, Idle
<1>8. MintedFresh'
  BY <1>1, <1>2, <1>4 DEF MintedFresh, TypeOK, Idle
<1> QED
  BY <1>5, <1>6, <1>7, <1>8

\* The invariant holds through every step.
LEMMA KeysStep == KeysInv /\ [Next]_vars => KeysInv'
<1> SUFFICES ASSUME KeysInv, [Next]_vars PROVE KeysInv'
  OBVIOUS
<1>1. CASE \E k \in Key, e \in Time : CreateKey(k, e)
  BY <1>1, CreateStep
<1>2. ASSUME NEW a \in Admin, NEW k \in Key, RotateRead(a, k) PROVE KeysInv'
  <2> DEFINE s == [pc |-> "rotate", k |-> k, was |-> key[k], new |-> None, exp |-> 0]
  <2>1. s \in Session
    BY TimeFacts, KeysAssumption DEF KeysInv, TypeOK, Session, Time, Never
  <2>2. s.was.exp <= granted[s.k] /\ key[s.k].here
    BY <1>2 DEF RotateRead, KeysInv, RowsBounded
  <2> QED
    BY <1>2, <2>1, <2>2, SessionStep DEF RotateRead, past
<1>3. ASSUME NEW a \in Admin, NEW k \in Key, RevokeRead(a, k) PROVE KeysInv'
  <2> DEFINE s == [pc |-> "revoke", k |-> k, was |-> key[k], new |-> None, exp |-> 0]
  <2>1. s \in Session
    BY TimeFacts, KeysAssumption DEF KeysInv, TypeOK, Session, Time, Never
  <2>2. s.was.exp <= granted[s.k] /\ key[s.k].here
    BY <1>3 DEF RevokeRead, KeysInv, RowsBounded
  <2> QED
    BY <1>3, <2>1, <2>2, SessionStep DEF RevokeRead, past
<1>4. ASSUME NEW a \in Admin, NEW k \in Key, NEW g \in Grace, Mint(a, k, g) PROVE KeysInv'
  <2> DEFINE old == adm[a]
             s == [pc |-> "minted", k |-> old.k, was |-> old.was, new |-> k,
                   exp |-> Shortened(old.was, g)]
  <2>1. /\ old \in Session /\ old.was \in Row /\ old.k \in Key /\ key[old.k].here
        /\ old.was.exp <= granted[old.k] /\ (old.was.revoked => key[old.k].revoked)
    BY <1>4 DEF Mint, KeysInv, TypeOK, HeldBounded, Session
  <2>2. Shortened(old.was, g) \in Time /\ Shortened(old.was, g) <= old.was.exp
    BY <2>1, ShortenedFacts DEF KeysInv, TypeOK
  <2>3. s \in Session
    BY <2>1, <2>2 DEF Session
  <2>4. Goes(a, s) /\ Unused(k) /\ UNCHANGED <<now, key, granted, ended>>
    BY <1>4 DEF Mint, past
  <2> QED
    BY <2>1, <2>2, <2>3, <2>4, SessionStep
<1>5. CASE \E a \in Admin : RotateCommit(a)
  BY <1>5, RotateStep
<1>6. CASE \E a \in Admin : RevokeCommit(a)
  BY <1>6, RevokeStep
<1>7. ASSUME NEW a \in Admin, Abort(a) PROVE KeysInv'
  BY <1>7, IdleFacts, SessionStep DEF Abort, past, Idle
<1>8. CASE Tick
  <2>1. now' \in 0 .. MaxTime
    BY <1>8, KeysAssumption DEF Tick, KeysInv, TypeOK
  <2> QED
    BY <1>8, <2>1
       DEF Tick, past, KeysInv, TypeOK, RowsBounded, HeldBounded, MintedFresh
<1>9. CASE UNCHANGED vars
  BY <1>9 DEF vars, past, KeysInv, TypeOK, RowsBounded, HeldBounded, MintedFresh
<1> QED
  BY <1>1, <1>2, <1>3, <1>4, <1>5, <1>6, <1>7, <1>8, <1>9 DEF Next

\* The types, for any number of keys, administrators and grace periods.
THEOREM KeysTyped == Spec => []TypeOK
<1> QED
  BY KeysInit, KeysStep, PTL DEF Spec, KeysInv

\* rotate_key, revoke_key, authenticate: whoever gets in with a key does so within
\* the time granted to the first key of its chain, and not after a revocation.
THEOREM ActiveStaysGranted == Spec => []ActiveIsGranted
<1>1. KeysInv => ActiveIsGranted
  <2> SUFFICES ASSUME KeysInv, NEW k \in Key, Active(k)
               PROVE  now < granted[k] /\ k \notin ended
    BY DEF ActiveIsGranted
  <2>1. now \in Nat /\ key[k].exp \in Nat /\ granted[k] \in Nat
    BY TimeFacts DEF KeysInv, TypeOK, Row
  <2> QED
    BY <2>1 DEF Active, KeysInv, RowsBounded
<1> QED
  BY <1>1, KeysInit, KeysStep, PTL DEF Spec
=============================================================================
