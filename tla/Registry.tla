------------------------------ MODULE Registry ------------------------------
(***************************************************************************)
(* Abstract specification of lmkd's process registry: what the record     *)
(* table promises to its clients, without the pid hash, the score buckets *)
(* or the process file descriptors.  A record maps a pid to its current   *)
(* oom_score_adj and to the peer that registered it (NoPeer once that      *)
(* peer disconnected).                                                    *)
(*                                                                         *)
(*  - a peer may create a record, or change or drop one it owns or one    *)
(*    that is unowned (claim_record);                                     *)
(*  - a peer's disconnect makes its records unowned (remove_claims);      *)
(*  - while a victim is being selected (selecting), no peer command runs, *)
(*    and only then may records be dropped without their owner: killed    *)
(*    victims, dead processes, failed kills.                              *)
(***************************************************************************)
EXTENDS Integers, TLC

CONSTANTS Pids, Peers, NoPeer, Adjs

VARIABLES recs, selecting

vars == <<recs, selecting>>

Rec == [adj : Adjs, owner : Peers \cup {NoPeer}]

TypeOK == recs \in UNION {[D -> Rec] : D \in SUBSET Pids} /\ selecting \in BOOLEAN

Claimable(p, a) == recs[p].owner \in {a, NoPeer}

Drop(D) == [q \in DOMAIN recs \ D |-> recs[q]]

Add(a, p, adj) ==
    /\ ~selecting /\ p \notin DOMAIN recs
    /\ recs' = (p :> [adj |-> adj, owner |-> a]) @@ recs

Change(a, p, adj) ==
    /\ ~selecting /\ p \in DOMAIN recs
    /\ Claimable(p, a)
    /\ recs' = [recs EXCEPT ![p] = [adj |-> adj, owner |-> a]]

Unregister(a, p) ==
    /\ ~selecting /\ p \in DOMAIN recs
    /\ Claimable(p, a)
    /\ recs' = Drop({p})

PurgeOwned(a) ==
    /\ ~selecting
    /\ recs' = Drop({p \in DOMAIN recs : Claimable(p, a)})

Orphan(a) ==
    /\ ~selecting
    /\ recs' = [p \in DOMAIN recs |->
               IF recs[p].owner = a THEN [recs[p] EXCEPT !.owner = NoPeer]
                                    ELSE recs[p]]

Command(A) == A /\ UNCHANGED selecting

StartSelect == ~selecting /\ selecting' = TRUE /\ UNCHANGED recs

(* A selection step drops records and may end the selection.              *)

Evict(D) ==
    /\ selecting /\ D \subseteq DOMAIN recs
    /\ recs' = Drop(D) /\ selecting' \in BOOLEAN

Init == recs = <<>> /\ ~selecting

Next ==
    \/ \E a \in Peers, p \in Pids, adj \in Adjs :
          Command(Add(a, p, adj)) \/ Command(Change(a, p, adj))
    \/ \E a \in Peers, p \in Pids : Command(Unregister(a, p))
    \/ \E a \in Peers : Command(PurgeOwned(a)) \/ Command(Orphan(a))
    \/ StartSelect
    \/ \E D \in SUBSET Pids : Evict(D)

Spec == Init /\ [][Next]_vars
=============================================================================
