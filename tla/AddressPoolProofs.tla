------------------------- MODULE AddressPoolProofs --------------------------
(***************************************************************************)
(* Proofs about the UE address pool, for any prefix, limit and owners.     *)
(* LeasesAgree is inductive with TypeOK and LowestFirst; the first gives   *)
(* the ranges, and LowestFirst that a scan needs no second round.          *)
(***************************************************************************)
EXTENDS AddressPool, FiniteSetTheorems, WellFoundedInduction, TLAPS

IInv == TypeOK /\ LeasesAgree /\ LowestFirst

(* The limit never exceeds the number of addresses that can be leased. *)
LEMMA LimitType == limit \in 0..Size-3 /\ Size - 3 \in Nat
  BY PoolAssumption DEF limit, Capacity

(* The set of leased addresses is finite. *)
LEMMA LeasedFinite ==
    ASSUME TypeOK PROVE IsFiniteSet(DOMAIN ownerBy)
<1>1. IsFiniteSet(1..Size-2)
  BY FS_Interval, PoolAssumption
<1> QED
  BY <1>1, FS_Subset, Zenon DEF TypeOK

(* A new pool satisfies the invariant. *)
LEMMA NewHolds == New => IInv
<1> SUFFICES ASSUME New PROVE IInv
  OBVIOUS
<1>1. DOMAIN byOwner = {} /\ DOMAIN ownerBy = {}
  BY DEF New
<1>2. TypeOK
  BY <1>1, PoolAssumption, LimitType DEF New, TypeOK, Reserved
<1>3. LeasesAgree
  BY <1>1, FS_EmptySet DEF New, LeasesAgree
<1>4. LowestFirst
  BY DEF New, LowestFirst
<1> QED
  BY <1>2, <1>3, <1>4 DEF IInv

(* Acquire marks one free address and keeps the two maps inverse. *)
LEMMA AcquireKeeps ==
    ASSUME IInv, NEW o \in Owners, Acquire(o) PROVE IInv'
<1> USE PoolAssumption
<1>1. PICK k \in 0..Size-3 :
         /\ Scan(k)
         /\ bitmap' = bitmap \cup {Ahead(k)}
         /\ byOwner' = Put(byOwner, o, Ahead(k))
         /\ ownerBy' = Put(ownerBy, Ahead(k), o)
         /\ used' = used + 1 /\ cursor' = Successor(Ahead(k))
  BY DEF Acquire
<1> DEFINE a == Ahead(k)
<1>2. a \in 1..Size-2 /\ a \notin bitmap
  BY <1>1 DEF Ahead, Scan, IInv, TypeOK
<1>3. o \notin DOMAIN byOwner /\ used < limit
  BY DEF Acquire
<1>4. a \notin DOMAIN ownerBy /\ a \notin Reserved
  BY <1>2 DEF IInv, LeasesAgree
<1>5. /\ DOMAIN byOwner' = DOMAIN byOwner \cup {o}
      /\ byOwner'[o] = a
      /\ \A x \in DOMAIN byOwner : x # o => byOwner'[x] = byOwner[x]
      /\ DOMAIN ownerBy' = DOMAIN ownerBy \cup {a}
      /\ ownerBy'[a] = o
      /\ \A x \in DOMAIN ownerBy : x # a => ownerBy'[x] = ownerBy[x]
  BY <1>1 DEF Put
<1> HIDE DEF a
<1>6. TypeOK'
  <2>1. /\ bitmap' \subseteq 0..Size-1
        /\ DOMAIN byOwner' \subseteq Owners /\ DOMAIN ownerBy' \subseteq 1..Size-2
    <3>1. bitmap' = bitmap \cup {a} /\ a \in 0..Size-1
      BY <1>1, <1>2 DEF a
    <3> QED
      BY <3>1, <1>2, <1>5, Zenon DEF IInv, TypeOK
  <2>2. used' \in 0..limit
    BY <1>1, <1>3, LimitType DEF IInv, TypeOK
  <2>3. cursor' \in 1..Size-2
    BY <1>1, <1>2 DEF Successor, a
  <2> QED
    BY <2>1, <2>2, <2>3 DEF TypeOK
<1>7. LeasesAgree'
  <2>1. \A x \in DOMAIN byOwner' :
           byOwner'[x] \in DOMAIN ownerBy' /\ ownerBy'[byOwner'[x]] = x
    BY <1>3, <1>4, <1>5 DEF IInv, LeasesAgree
  <2>2. \A x \in DOMAIN ownerBy' :
           ownerBy'[x] \in DOMAIN byOwner' /\ byOwner'[ownerBy'[x]] = x
    BY <1>3, <1>4, <1>5 DEF IInv, LeasesAgree
  <2>3. bitmap' = Reserved \cup DOMAIN ownerBy' /\ DOMAIN ownerBy' \cap Reserved = {}
    BY <1>1, <1>4, <1>5 DEF IInv, LeasesAgree, a
  <2>4. used' = Cardinality(DOMAIN ownerBy')
    <3>1. IsFiniteSet(DOMAIN ownerBy) /\ used = Cardinality(DOMAIN ownerBy)
      BY LeasedFinite DEF IInv, LeasesAgree
    <3>2. Cardinality(DOMAIN ownerBy \cup {a}) = Cardinality(DOMAIN ownerBy) + 1
      BY <3>1, <1>4, FS_AddElement, Zenon
    <3> QED
      BY <3>1, <3>2, <1>1, <1>5
  <2> QED
    BY <2>1, <2>2, <2>3, <2>4 DEF LeasesAgree
<1>8. LowestFirst'
  <2> SUFFICES ASSUME NEW d \in 1..cursor'-1 PROVE d \in bitmap'
    BY DEF LowestFirst
  <2>1. cursor \in 1..Size-2 /\ k \in 0..Size-3
    BY DEF IInv, TypeOK
  <2>2. CASE cursor + k <= Size - 2
    <3>1. a = cursor + k /\ d <= a
      BY <1>1, <2>1, <2>2 DEF a, Ahead, Successor
    <3>2. CASE d = a
      BY <3>2, <1>1 DEF a
    <3>3. CASE d < cursor
      BY <3>3, <2>1, <1>1, <1>6 DEF IInv, LowestFirst, TypeOK
    <3>4. CASE d >= cursor /\ d # a
      <4>1. d - cursor \in 0..k-1 /\ Ahead(d - cursor) = d
        BY <3>1, <3>4, <2>1, <2>2 DEF Ahead
      <4> QED
        BY <4>1, <1>1 DEF Scan
    <3> QED
      BY <3>2, <3>3, <3>4, <2>1
  <2>3. CASE cursor + k > Size - 2
    <3>1. a = cursor + k - (Size - 2)
      BY <2>1, <2>3 DEF a, Ahead
    <3>2. a < cursor /\ a \in 1..Size-2
      BY <3>1, <2>1, <1>2
    <3> QED
      BY <3>2, <1>2, <2>1 DEF IInv, LowestFirst
  <2> QED
    BY <2>1, <2>2, <2>3
<1> QED
  BY <1>6, <1>7, <1>8 DEF IInv

(* Release frees one address and moves the cursor down to it. *)
LEMMA ReleaseKeeps ==
    ASSUME IInv, NEW o \in Owners, NEW a \in 0..Size-1, Release(o, a) PROVE IInv'
<1> USE PoolAssumption
<1>1. /\ o \in DOMAIN byOwner /\ byOwner[o] = a
      /\ a \in DOMAIN ownerBy /\ ownerBy[a] = o /\ a \in 1..Size-2
      /\ a \notin Reserved
  BY DEF Release, IInv, LeasesAgree, TypeOK
<1>2. /\ DOMAIN byOwner' = DOMAIN byOwner \ {o}
      /\ \A x \in DOMAIN byOwner' : byOwner'[x] = byOwner[x]
      /\ DOMAIN ownerBy' = DOMAIN ownerBy \ {a}
      /\ \A x \in DOMAIN ownerBy' : ownerBy'[x] = ownerBy[x]
  BY DEF Release, Drop
<1>3. used' = Cardinality(DOMAIN ownerBy')
  BY <1>1, <1>2, LeasedFinite, FS_RemoveElement DEF IInv, LeasesAgree, Release
<1>4. used' \in Nat /\ used' = used - 1
  BY <1>2, <1>3, LeasedFinite, FS_RemoveElement, FS_CardinalityType DEF IInv, Release
<1>5. TypeOK'
  <2>1. bitmap' \subseteq 0..Size-1 /\ DOMAIN byOwner' \subseteq Owners
        /\ DOMAIN ownerBy' \subseteq 1..Size-2
    BY <1>2 DEF IInv, TypeOK, Release
  <2>2. used' \in 0..limit
    BY <1>4, LimitType DEF IInv, TypeOK
  <2>3. cursor' \in 1..Size-2
    BY <1>1 DEF Release, IInv, TypeOK
  <2> QED
    BY <2>1, <2>2, <2>3 DEF TypeOK
<1>6. LeasesAgree'
  <2>1. \A x \in DOMAIN byOwner' :
           byOwner'[x] \in DOMAIN ownerBy' /\ ownerBy'[byOwner'[x]] = x
    BY <1>1, <1>2 DEF IInv, LeasesAgree
  <2>2. \A x \in DOMAIN ownerBy' :
           ownerBy'[x] \in DOMAIN byOwner' /\ byOwner'[ownerBy'[x]] = x
    BY <1>1, <1>2 DEF IInv, LeasesAgree
  <2>3. bitmap' = Reserved \cup DOMAIN ownerBy' /\ DOMAIN ownerBy' \cap Reserved = {}
    BY <1>1, <1>2 DEF IInv, LeasesAgree, Release
  <2> QED
    BY <2>1, <2>2, <2>3, <1>3 DEF LeasesAgree
<1>7. LowestFirst'
  BY <1>1 DEF IInv, LowestFirst, Release, TypeOK
<1> QED
  BY <1>5, <1>6, <1>7 DEF IInv

(* The elements of a sequence. *)
LEMMA Elements ==
    ASSUME NEW R, NEW s \in Seq(R)
    PROVE  Len(s) \in Nat /\ \A i \in 1..Len(s) : s[i] \in R
  OBVIOUS

(* Restore accepts a list only if owners and addresses are distinct. *)
LEMMA RestoreKeeps ==
    ASSUME IInv, NEW ls \in Recoveries, Restore(ls) PROVE IInv'
<1> USE PoolAssumption
<1> DEFINE n == Len(ls)
           addrs == {ls[i].addr : i \in 1..n}
           owners == {ls[i].owner : i \in 1..n}
<1>1. /\ n \in Nat
      /\ \A i \in 1..n : ls[i].owner \in Owners /\ ls[i].addr \in 1..Size-2 \ Reserved
  <2>1. ls \in Seq([owner : Owners \cup {None}, addr : Int])
    BY Zenon
  <2>2. n \in Nat /\ \A i \in 1..n : ls[i] \in [owner : Owners \cup {None}, addr : Int]
    BY <2>1, Elements, Zenon
  <2>3. \A i \in 1..n : ls[i].owner # None /\ ls[i].addr \in 0..Size-1 \ Reserved
    BY DEF Restore, Restorable
  <2> QED
    BY <2>2, <2>3 DEF Reserved
<1>2. \A i, j \in 1..n : i # j => ls[i].addr # ls[j].addr /\ ls[i].owner # ls[j].owner
  <2>1. \A i \in 1..n : \A j \in 1..i-1 : ls[j].addr # ls[i].addr /\ ls[j].owner # ls[i].owner
    BY DEF Restore, Restorable
  <2> SUFFICES ASSUME NEW i \in 1..n, NEW j \in 1..n, i # j
               PROVE  ls[i].addr # ls[j].addr /\ ls[i].owner # ls[j].owner
    OBVIOUS
  <2>2. j \in 1..i-1 \/ i \in 1..j-1
    BY <1>1
  <2> QED
    BY <2>1, <2>2
<1>3. /\ DOMAIN byOwner' = owners /\ DOMAIN ownerBy' = addrs
      /\ \A i \in 1..n : byOwner'[ls[i].owner] = ls[i].addr
      /\ \A i \in 1..n : ownerBy'[ls[i].addr] = ls[i].owner
  <2>1. byOwner' = [o \in owners |-> ls[CHOOSE i \in 1..n : ls[i].owner = o].addr]
        /\ ownerBy' = [a \in addrs |-> ls[CHOOSE i \in 1..n : ls[i].addr = a].owner]
    BY DEF Restore
  <2>2. \A i \in 1..n : (CHOOSE j \in 1..n : ls[j].owner = ls[i].owner) = i
    BY <1>2
  <2>3. \A i \in 1..n : (CHOOSE j \in 1..n : ls[j].addr = ls[i].addr) = i
    BY <1>2
  <2>4. \A i \in 1..n : byOwner'[ls[i].owner] = ls[i].addr
    <3> SUFFICES ASSUME NEW i \in 1..n PROVE byOwner'[ls[i].owner] = ls[i].addr
      OBVIOUS
    <3>1. byOwner'[ls[i].owner] = ls[CHOOSE j \in 1..n : ls[j].owner = ls[i].owner].addr
      BY <2>1, Zenon
    <3> QED
      BY <3>1, <2>2, Zenon
  <2>5. \A i \in 1..n : ownerBy'[ls[i].addr] = ls[i].owner
    <3> SUFFICES ASSUME NEW i \in 1..n PROVE ownerBy'[ls[i].addr] = ls[i].owner
      OBVIOUS
    <3>1. ownerBy'[ls[i].addr] = ls[CHOOSE j \in 1..n : ls[j].addr = ls[i].addr].owner
      BY <2>1, Zenon
    <3> QED
      BY <3>1, <2>3, Zenon
  <2> QED
    BY <2>1, <2>4, <2>5, Zenon
<1>4. IsFiniteSet(addrs) /\ Cardinality(addrs) = n
  <2> DEFINE f == [i \in 1..n |-> ls[i].addr]
  <2>1. f \in Bijection(1..n, addrs)
    BY <1>2 DEF Bijection, Injection, Surjection, IsInjective
  <2>2. ExistsBijection(1..n, addrs)
    BY <2>1 DEF ExistsBijection
  <2>3. IsFiniteSet(1..n) /\ Cardinality(1..n) = n
    <3>1. IsFiniteSet(1..n) /\ Cardinality(1..n) = IF 1 > n THEN 0 ELSE n - 1 + 1
      BY <1>1, FS_Interval
    <3> QED
      BY <3>1, <1>1
  <2> QED
    BY <2>2, <2>3, FS_Bijection
<1>5. bitmap' = Reserved \cup addrs /\ used' = n /\ n <= limit
      /\ cursor' \in 1..Size-2 /\ FirstFree(bitmap', cursor')
  BY DEF Restore, Restorable
<1> HIDE DEF n, addrs, owners
<1>6. TypeOK'
  <2>1. addrs \subseteq 1..Size-2 /\ owners \subseteq Owners
    BY <1>1 DEF addrs, owners
  <2>2. Reserved \subseteq 0..Size-1
    BY DEF Reserved
  <2> QED
    BY <2>1, <2>2, <1>1, <1>3, <1>5, LimitType DEF TypeOK
<1>7. LeasesAgree'
  <2>1. \A o \in owners : byOwner'[o] \in addrs /\ ownerBy'[byOwner'[o]] = o
    BY <1>3 DEF owners, addrs
  <2>2. \A a \in addrs : ownerBy'[a] \in owners /\ byOwner'[ownerBy'[a]] = a
    BY <1>3 DEF owners, addrs
  <2>3. addrs \cap Reserved = {}
    BY <1>1 DEF addrs
  <2> QED
    BY <2>1, <2>2, <2>3, <1>3, <1>4, <1>5 DEF LeasesAgree
<1>8. LowestFirst'
  <2>1. CASE \A d \in 1..cursor'-1 : d \in bitmap'
    BY <2>1 DEF LowestFirst
  <2>2. CASE cursor' = 1
    BY <2>2 DEF LowestFirst
  <2> QED
    BY <1>5, <2>1, <2>2, Zenon DEF FirstFree
<1> QED
  BY <1>6, <1>7, <1>8 DEF IInv

(* Every step keeps the invariant. *)
LEMMA Inductive == IInv /\ [Next]_vars => IInv'
<1> SUFFICES ASSUME IInv, [Next]_vars PROVE IInv'
  OBVIOUS
<1>1. ASSUME NEW o \in Owners, Acquire(o) PROVE IInv'
  BY <1>1, AcquireKeeps
<1>2. ASSUME NEW o \in Owners, NEW a \in 0..Size-1, Release(o, a) PROVE IInv'
  BY <1>2, ReleaseKeeps
<1>3. ASSUME NEW ls \in Recoveries, Restore(ls) PROVE IInv'
  BY <1>3, RestoreKeeps
<1>4. CASE Restart
  <2>1. DOMAIN byOwner' = {} /\ DOMAIN ownerBy' = {}
    BY <1>4 DEF Restart
  <2>2. TypeOK'
    BY <2>1, <1>4, PoolAssumption, LimitType DEF Restart, TypeOK, Reserved
  <2>3. LeasesAgree'
    BY <2>1, <1>4, FS_EmptySet DEF Restart, LeasesAgree
  <2>4. LowestFirst'
    BY <1>4 DEF Restart, LowestFirst
  <2> QED
    BY <2>2, <2>3, <2>4 DEF IInv
<1>5. CASE UNCHANGED vars
  BY <1>5 DEF vars, IInv, TypeOK, LeasesAgree, LowestFirst
<1> QED
  BY <1>1, <1>2, <1>3, <1>4, <1>5 DEF Next

(* Acquire never scans in vain below the limit: fewer leases than the      *)
(* limit leave an address unmarked, and the first one at or after the      *)
(* cursor stops the scan.                                                  *)
LEMMA RoomFollows == IInv => RoomIsFound
<1> SUFFICES ASSUME IInv, used < limit PROVE \E k \in 0..Size-3 : Scan(k)
  BY DEF RoomIsFound
<1> USE PoolAssumption
<1> DEFINE Leasable == (1..Size-2) \ {Gateway}
<1>1. IsFiniteSet(Leasable) /\ Cardinality(Leasable) = Size - 3
  <2>1. IsFiniteSet(1..Size-2) /\ Cardinality(1..Size-2) = Size - 2
    BY FS_Interval
  <2>2. /\ IsFiniteSet(Leasable)
        /\ Cardinality(Leasable) = IF Gateway \in 1..Size-2 THEN Cardinality(1..Size-2) - 1
                                   ELSE Cardinality(1..Size-2)
    BY <2>1, FS_RemoveElement, Zenon
  <2> QED
    BY <2>1, <2>2
<1>2. PICK a \in 1..Size-2 : a \notin bitmap
  <2> SUFFICES ASSUME 1..Size-2 \subseteq bitmap PROVE FALSE
    OBVIOUS
  <2>1. Leasable \subseteq DOMAIN ownerBy
    BY DEF IInv, LeasesAgree, Reserved
  <2>2. Cardinality(Leasable) <= Cardinality(DOMAIN ownerBy)
    BY <2>1, LeasedFinite, FS_Subset DEF IInv
  <2>3. Size - 3 <= used /\ used \in Nat
    BY <1>1, <2>2 DEF IInv, LeasesAgree, TypeOK
  <2> QED
    BY <2>3, LimitType
<1> DEFINE Hits == {k \in Nat : k \in 0..Size-3 /\ Ahead(k) \notin bitmap}
<1>3. cursor \in 1..Size-2 /\ cursor <= a
  BY <1>2 DEF IInv, TypeOK, LowestFirst
<1>4. a - cursor \in Hits
  BY <1>2, <1>3 DEF Ahead
<1>5. PICK k \in Hits : \A j \in Hits : ~(<<j, k>> \in OpToRel(<, Nat))
  BY <1>4, WFMin, NatLessThanWellFounded, Zenon
<1>6. \A j \in 0..k-1 : Ahead(j) \in bitmap
  <2> SUFFICES ASSUME NEW j \in 0..k-1, Ahead(j) \notin bitmap PROVE FALSE
    OBVIOUS
  <2>1. k \in Nat /\ k \in 0..Size-3
    BY <1>5, Zenon
  <2>2. j \in Nat /\ j \in 0..Size-3 /\ j < k
    BY <2>1
  <2>3. j \in Hits
    BY <2>2
  <2> QED
    BY <1>5, <2>1, <2>2, <2>3, Zenon DEF OpToRel
<1> QED
  BY <1>5, <1>6, Zenon DEF Scan

(* The fields keep their types and ranges, for any prefix and limit. *)
THEOREM TypeCorrect == Spec => []TypeOK
<1>1. IInv => TypeOK
  BY DEF IInv
<1> QED
  BY <1>1, NewHolds, Inductive, PTL DEF Spec

(* No address is ever leased to two owners, and none of the reserved ones  *)
(* is leased, through any sequence of leases, releases, restores and       *)
(* restarts.                                                               *)
THEOREM LeasesAlwaysAgree == Spec => []LeasesAgree
<1>1. IInv => LeasesAgree
  BY DEF IInv
<1> QED
  BY <1>1, NewHolds, Inductive, PTL DEF Spec

(* Acquire fails only at the configured limit, and leases the lowest free  *)
(* address.                                                                *)
THEOREM RoomAlwaysFound == Spec => [](RoomIsFound /\ LowestFirst)
<1>1. IInv => RoomIsFound /\ LowestFirst
  BY RoomFollows DEF IInv
<1> QED
  BY <1>1, NewHolds, Inductive, PTL DEF Spec
=============================================================================
