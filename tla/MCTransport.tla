---------------------------- MODULE MCTransport ----------------------------
(* Two configurations of the transport: a reader that may be preempted     *)
(* anywhere, with duplicates from the network only; and one that no worker *)
(* overtakes between its two lookups, with a retransmission.               *)
EXTENDS Transport, TLC

CONSTANTS c1, c2, c3, w1, w2
MCCalls == {c1, c2, c3}
MCSilent == {c3}
MCWorkers == {w1, w2}
MCSymmetry == Permutations({c1, c2}) \cup Permutations({w1, w2})

VARIABLE part

Orderly == INSTANCE Transport WITH
               MaxRetransmits <- 1, MaxReplays <- 1, ReaderPreempted <- FALSE

MCInit == Init /\ part \in {"preempted", "orderly"}
MCNext ==
    /\ UNCHANGED part
    /\ \/ part = "preempted" /\ Next
       \/ part = "orderly" /\ Orderly!Next
MCSpec == MCInit /\ [][MCNext]_<<vars, part>>

(* dispatch: if no worker finishes between the reader's cache lookup and   *)
(* its in-flight lookup, duplicates and retransmissions never make the     *)
(* handler run twice for a request whose response is cached.               *)
OrderlyAtMostOnce == part = "orderly" => AtMostOnce
=============================================================================
