------------------------------ MODULE ByteLocks ------------------------------
(***************************************************************************)
(* What POSIX record locks promise: every byte of a file carries, for each *)
(* owner, no lock, a read lock or a write lock, and a request is granted   *)
(* exactly when no other owner holds a conflicting lock on its bytes.      *)
(***************************************************************************)
EXTENDS Integers, TLAPS

CONSTANTS Owner, Byte

VARIABLE held   \* [Owner -> [Byte -> {"none", "read", "write"}]]

Init == held = [o \in Owner |-> [b \in Byte |-> "none"]]

\* Another owner's lock on one of the bytes forbids a lock of this type.
Denied(o, type, bytes) ==
    \E p \in Owner \ {o}, b \in bytes :
        held[p][b] = "write" \/ (type = "write" /\ held[p][b] # "none")

\* Put a lock of a type, or none, on a set of bytes.
Place(o, type, bytes) ==
    /\ held'[o] = [b \in Byte |-> IF b \in bytes THEN type ELSE held[o][b]]
    /\ held' = [held EXCEPT ![o] = held'[o]]
    /\ type = "none" \/ ~Denied(o, type, bytes)

Interval(lo, hi) == {b \in Byte : lo <= b /\ b <= hi}

\* A request that changes what its owner holds; any other is a stuttering step.
Next ==
    \E o \in Owner :
        /\ held'[o] # held[o]
        /\ \E type \in {"none", "read", "write"}, lo, hi \in Byte :
              lo <= hi /\ Place(o, type, Interval(lo, hi))

Spec == Init /\ [][Next]_held

TypeOK == held \in [Owner -> [Byte -> {"none", "read", "write"}]]

\* A write lock on a byte excludes every lock of every other owner on it.
Exclusive ==
    \A o, p \in Owner, b \in Byte :
        o # p /\ held[o][b] = "write" => held[p][b] = "none"
------------------------------------------------------------------------------
\* Placing a lock only where it is not denied keeps write locks exclusive.
LEMMA ExclusiveStep == TypeOK /\ Exclusive /\ [Next]_held => (TypeOK /\ Exclusive)'
<1> SUFFICES ASSUME TypeOK, Exclusive, [Next]_held PROVE TypeOK' /\ Exclusive'
  OBVIOUS
<1>1. CASE UNCHANGED held
  BY <1>1 DEF TypeOK, Exclusive
<1>2. ASSUME NEW o \in Owner, NEW type \in {"none", "read", "write"},
             NEW bytes \in SUBSET Byte, Place(o, type, bytes)
      PROVE  TypeOK' /\ Exclusive'
  <2>1. TypeOK'
    BY <1>2 DEF Place, TypeOK
  <2>2. \A p \in Owner, b \in Byte :
          held'[p][b] = IF p = o /\ b \in bytes THEN type ELSE held[p][b]
    BY <1>2 DEF Place, TypeOK
  <2>3. type # "none" =>
          \A p \in Owner \ {o}, b \in bytes :
             held[p][b] # "write" /\ (type = "write" => held[p][b] = "none")
    BY <1>2 DEF Place, Denied
  <2>4. Exclusive'
    BY <2>2, <2>3 DEF Exclusive
  <2>5. QED
    BY <2>1, <2>4
<1>3. ASSUME Next PROVE TypeOK' /\ Exclusive'
  BY <1>2, <1>3 DEF Next, Interval
<1>4. QED
  BY <1>1, <1>3

\* For any owners and any file size, no two owners ever hold conflicting locks
\* on a byte: the mutual exclusion that fcntl locks are used for.
THEOREM ByteLocksExclusive == Spec => []Exclusive
<1>1. Init => TypeOK /\ Exclusive
  BY DEF Init, TypeOK, Exclusive
<1>2. QED
  BY <1>1, ExclusiveStep, PTL DEF Spec
==============================================================================
