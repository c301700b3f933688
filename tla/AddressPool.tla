---------------------------- MODULE AddressPool -----------------------------
(***************************************************************************)
(* The UE address pool of PGW-C (internal/pgwc/ipam).  An address is its   *)
(* offset in the prefix; the network address, the broadcast address and    *)
(* the gateway are never leased.  Every operation holds the pool's mutex   *)
(* and is one step.                                                        *)
(***************************************************************************)
EXTENDS Integers, Sequences, FiniteSets

CONSTANTS
    Owners,       \* session owners (subscriber and APN)
    Size,         \* addresses in the prefix
    Gateway,      \* offset of the gateway
    MaxLeases,    \* configured limit, 0 for none
    Recoveries,   \* lists of leases a restart may find in the session store
    None

ASSUME PoolAssumption ==
    /\ Size \in Nat /\ Size >= 4
    /\ Gateway \in 1..Size-2 /\ MaxLeases \in Nat
    /\ Recoveries \subseteq Seq([owner : Owners \cup {None}, addr : Int])
    /\ None \notin Owners

VARIABLES
    bitmap,       \* marked offsets
    byOwner, ownerBy, used, cursor

vars == <<bitmap, byOwner, ownerBy, used, cursor>>

Capacity == Size - 3
limit == IF MaxLeases = 0 \/ MaxLeases > Capacity THEN Capacity ELSE MaxLeases
Reserved == {0, Size - 1, Gateway}

Put(f, k, v) == [x \in DOMAIN f \cup {k} |-> IF x = k THEN v ELSE f[x]]
Drop(f, k) == [x \in DOMAIN f \ {k} |-> f[x]]

New ==
    /\ bitmap = Reserved /\ used = 0 /\ cursor = 1
    /\ byOwner = [o \in {} |-> 0] /\ ownerBy = [a \in {} |-> None]

(* The offset after k steps of the cursor, which runs over 1..Size-2 and   *)
(* comes round, and the cursor that a step leaves behind.                  *)
Ahead(k) == IF cursor + k <= Size - 2 THEN cursor + k ELSE cursor + k - (Size - 2)

Successor(a) == IF a + 1 >= Size - 1 THEN 1 ELSE a + 1

(* The scan stops at the k-th step: the first unmarked offset. *)
Scan(k) ==
    /\ Ahead(k) \notin bitmap
    /\ \A j \in 0..k-1 : Ahead(j) \in bitmap

(* An owner that holds a lease gets it again, and nothing changes. *)
Acquire(o) ==
    /\ o \notin DOMAIN byOwner /\ used < limit
    /\ \E k \in 0..Size-3 :
          /\ Scan(k)
          /\ bitmap' = bitmap \cup {Ahead(k)}
          /\ byOwner' = Put(byOwner, o, Ahead(k))
          /\ ownerBy' = Put(ownerBy, Ahead(k), o)
          /\ used' = used + 1 /\ cursor' = Successor(Ahead(k))

(* A release that does not name the owner's own address is refused. *)
Release(o, a) ==
    /\ o \in DOMAIN byOwner /\ byOwner[o] = a
    /\ byOwner' = Drop(byOwner, o) /\ ownerBy' = Drop(ownerBy, a)
    /\ bitmap' = bitmap \ {a} /\ used' = used - 1
    /\ cursor' = IF a < cursor THEN a ELSE cursor

(* Mutant: the gateway's own address is not reserved before the check. *)
RestorableOverGateway(ls) ==
    /\ used = 0 /\ byOwner = [o \in {} |-> 0]
    /\ Len(ls) <= limit
    /\ \A i \in 1..Len(ls) :
          /\ ls[i].owner # None /\ ls[i].addr \in 0..Size-1 \ {0, Size - 1}
          /\ \A j \in 1..i-1 : ls[j].addr # ls[i].addr /\ ls[j].owner # ls[i].owner

Restorable(ls) ==
    /\ used = 0 /\ byOwner = [o \in {} |-> 0]
    /\ Len(ls) <= limit
    /\ \A i \in 1..Len(ls) :
          /\ ls[i].owner # None /\ ls[i].addr \in 0..Size-1 \ Reserved
          /\ \A j \in 1..i-1 : ls[j].addr # ls[i].addr /\ ls[j].owner # ls[i].owner

FirstFree(marked, c) ==
    \/ c \in 1..Size-2 /\ c \notin marked /\ \A d \in 1..c-1 : d \in marked
    \/ c = 1 /\ 1..Size-2 \subseteq marked

Restore(ls) ==
    LET addrs == {ls[i].addr : i \in 1..Len(ls)}
        owners == {ls[i].owner : i \in 1..Len(ls)}
    IN  /\ Restorable(ls)
        /\ bitmap' = Reserved \cup addrs
        /\ byOwner' = [o \in owners |->
                         ls[CHOOSE i \in 1..Len(ls) : ls[i].owner = o].addr]
        /\ ownerBy' = [a \in addrs |->
                         ls[CHOOSE i \in 1..Len(ls) : ls[i].addr = a].owner]
        /\ used' = Len(ls)
        /\ cursor' \in {c \in 1..Size-2 : FirstFree(bitmap', c)}

(* A process restart builds a new, empty pool. *)
Restart ==
    /\ bitmap' = Reserved /\ used' = 0 /\ cursor' = 1
    /\ byOwner' = [o \in {} |-> 0] /\ ownerBy' = [a \in {} |-> None]

Next ==
    \/ \E o \in Owners : Acquire(o)
    \/ \E o \in Owners, a \in 0..Size-1 : Release(o, a)
    \/ \E ls \in Recoveries : Restore(ls)
    \/ Restart

Spec == New /\ [][Next]_vars

-----------------------------------------------------------------------------
(* The pool's fields have the types and ranges the Go code declares. *)
TypeOK ==
    /\ bitmap \subseteq 0..Size-1
    /\ DOMAIN byOwner \subseteq Owners /\ DOMAIN ownerBy \subseteq 1..Size-2
    /\ used \in 0..limit /\ cursor \in 1..Size-2

(* No address is leased twice, none of the three reserved ones is leased,  *)
(* and the bitmap, the two maps and the counter describe the same leases.  *)
LeasesAgree ==
    /\ \A o \in DOMAIN byOwner :
          byOwner[o] \in DOMAIN ownerBy /\ ownerBy[byOwner[o]] = o
    /\ \A a \in DOMAIN ownerBy :
          ownerBy[a] \in DOMAIN byOwner /\ byOwner[ownerBy[a]] = a
    /\ bitmap = Reserved \cup DOMAIN ownerBy /\ DOMAIN ownerBy \cap Reserved = {}
    /\ used = Cardinality(DOMAIN ownerBy)

(* Acquire reports exhaustion only at the configured limit: while there is *)
(* room the scan meets a free address, wherever the cursor stands.         *)
RoomIsFound == used < limit => \E k \in 0..Size-3 : Scan(k)

(* No free address is behind the cursor, so Acquire always leases the      *)
(* lowest free one: an address is leased again as soon as it is released,  *)
(* and whoever still uses it meets its next owner.                         *)
LowestFirst == 1..cursor-1 \subseteq bitmap
=============================================================================
