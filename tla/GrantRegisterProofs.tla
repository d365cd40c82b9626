------------------------ MODULE GrantRegisterProofs -------------------------
(***************************************************************************)
(* What GrantRegister promises, for every set of accounts and grants.       *)
(***************************************************************************)
EXTENDS GrantRegister, TLAPS

TypeOK ==
    /\ register \in [Accounts -> Grants \cup {NoGrant}]
    /\ pending \in [Accounts -> SUBSET (Grants \cup {NoGrant})]
    /\ issued \subseteq Grants

\* No two accounts hold the same grant.
OneAccount ==
    \A a, b \in Accounts : a # b => Held(a) \cap Held(b) = {}

\* Only grants that were issued are held.
HeldIssued == \A a \in Accounts : Held(a) \subseteq issued

IInv == TypeOK /\ HeldIssued /\ OneAccount

\* A step makes an account hold a grant only by issuing it: a grant that no
\* account holds any more is gone.
NothingReturns ==
    [][\A a \in Accounts : Held(a)' \ Held(a) \subseteq issued' \ issued]_vars

-----------------------------------------------------------------------------

\* What one step does to the grants that are held: the account of the step may
\* come to hold one new grant, the others keep theirs.
LEMMA HeldStep ==
    ASSUME NoGrant \notin Grants, IInv, Next
    PROVE  /\ TypeOK'
           /\ issued \subseteq issued'
           /\ \A a \in Accounts : Held(a)' \subseteq Held(a) \cup (issued' \ issued)
           /\ \E a \in Accounts : \A b \in Accounts \ {a} : Held(b)' = Held(b)
<1> DEFINE Good(a) ==
             /\ TypeOK'
             /\ issued \subseteq issued'
             /\ \A b \in Accounts \ {a} :
                   register'[b] = register[b] /\ pending'[b] = pending[b]
             /\ Held(a)' \subseteq Held(a) \cup (issued' \ issued)
<1>1. ASSUME NEW a \in Accounts,
             \/ Read(a)
             \/ \E g \in Grants \ issued : Bring(a, g)
             \/ \E old \in (pending[a] \cap Grants) \ refused,
                   new \in Grants \ issued : Rotate(a, old, new)
             \/ \E v \in pending[a] : Write(a, v) \/ Drop(a, v)
      PROVE  Good(a)
  <2>1. CASE Read(a)
    BY <2>1 DEF Read, IInv, TypeOK, Held
  <2>2. ASSUME NEW g \in Grants \ issued, Bring(a, g)
        PROVE  Good(a)
    BY <2>2 DEF Bring, IInv, TypeOK, Held
  <2>3. ASSUME NEW old \in (pending[a] \cap Grants) \ refused,
               NEW new \in Grants \ issued, Rotate(a, old, new)
        PROVE  Good(a)
    <3>1. PICK kept \in {pending[a], pending[a] \ {old}} :
             pending' = [pending EXCEPT ![a] = kept \cup {new}]
      BY <2>3 DEF Rotate
    <3>2. issued' = issued \cup {new} /\ UNCHANGED register
      BY <2>3 DEF Rotate
    <3>3. QED
      BY <3>1, <3>2 DEF IInv, TypeOK, Held
  <2>4. ASSUME NEW v \in pending[a], Write(a, v) \/ Drop(a, v)
        PROVE  Good(a)
    <3>1. v \in Grants \cup {NoGrant} /\ UNCHANGED issued
      BY <2>4 DEF Write, Drop, End, IInv, TypeOK
    <3>2. /\ pending'[a] \subseteq pending[a]
          /\ register'[a] \in {register[a], v}
      BY <2>4 DEF Write, Drop, End, IInv, TypeOK
    <3>3. TypeOK'
      BY <2>4, <3>1 DEF Write, Drop, End, IInv, TypeOK
    <3>4. \A b \in Accounts \ {a} :
             register'[b] = register[b] /\ pending'[b] = pending[b]
      BY <2>4 DEF Write, Drop, End, IInv, TypeOK
    <3>5. QED
      BY <3>1, <3>2, <3>3, <3>4 DEF Held
  <2>5. QED
    BY <1>1, <2>1, <2>2, <2>3, <2>4
<1>2. PICK a \in Accounts : Good(a)
  BY <1>1 DEF Next
<1>3. \A b \in Accounts \ {a} : Held(b)' = Held(b)
  BY <1>2 DEF Held
<1>4. QED
  BY <1>2, <1>3

\* Every grant that is held was issued, and no two accounts hold the same one.
THEOREM Invariance ==
    ASSUME NoGrant \notin Grants
    PROVE  Spec => []IInv
<1>1. Init => IInv
  BY DEF Init, IInv, TypeOK, HeldIssued, OneAccount, Held
<1>2. ASSUME IInv, [Next]_vars PROVE IInv'
  <2>1. CASE Next
    <3>1. /\ TypeOK'
          /\ issued \subseteq issued'
          /\ \A a \in Accounts :
                Held(a)' \subseteq Held(a) \cup (issued' \ issued)
          /\ \E a \in Accounts : \A b \in Accounts \ {a} : Held(b)' = Held(b)
      BY <1>2, <2>1, HeldStep
    <3>2. HeldIssued'
      BY <1>2, <3>1 DEF IInv, HeldIssued
    <3>3. OneAccount'
      <4>1. PICK c \in Accounts : \A b \in Accounts \ {c} : Held(b)' = Held(b)
        BY <3>1
      <4>2. \A b \in Accounts \ {c} : Held(c)' \cap Held(b)' = {}
        BY <1>2, <3>1, <4>1 DEF IInv, HeldIssued, OneAccount
      <4>3. QED
        BY <1>2, <4>1, <4>2 DEF IInv, OneAccount
    <3>4. QED
      BY <3>1, <3>2, <3>3 DEF IInv
  <2>2. CASE UNCHANGED vars
    BY <1>2, <2>2 DEF vars, IInv, TypeOK, HeldIssued, OneAccount, Held
  <2>3. QED
    BY <1>2, <2>1, <2>2
<1>3. QED
  BY <1>1, <1>2, PTL DEF Spec

\* A grant that no register has and no request under way may still write is gone:
\* no later step brings it back, whatever it rotates or writes late.
THEOREM GoneForGood ==
    ASSUME NoGrant \notin Grants
    PROVE  Spec => NothingReturns
<1> DEFINE A == \A a \in Accounts : Held(a)' \ Held(a) \subseteq issued' \ issued
<1>1. IInv /\ Next => A
  BY HeldStep
<1> HIDE DEF A
<1>2. IInv /\ [Next]_vars => [A]_vars
  BY <1>1
<1>3. Spec => [][A]_vars
  BY <1>2, Invariance, PTL DEF Spec
<1>4. QED
  BY <1>3 DEF NothingReturns, A
=============================================================================
