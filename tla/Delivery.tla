------------------------------ MODULE Delivery ------------------------------
(***************************************************************************)
(* What an event bus promises for each (event, handler) pair an emission   *)
(* takes on: it is pending until it is done, or parked as a dead letter;   *)
(* a reprocess() makes every dead letter pending again.  Nothing is lost,  *)
(* nothing is done twice, and nothing comes back once it is done.          *)
(***************************************************************************)
VARIABLES pending, parked, done

vars == <<pending, parked, done>>

Init == pending = {} /\ parked = {} /\ done = {}

\* An emission takes on deliveries that were never seen before.
Accept ==
    /\ pending \subseteq pending'
    /\ (pending' \ pending) \cap (parked \cup done) = {}
    /\ UNCHANGED <<parked, done>>

\* Deliveries end: handled, reported as failed, or refused by a closed pool.
Finish ==
    /\ pending' \subseteq pending
    /\ done' = done \cup (pending \ pending')
    /\ UNCHANGED parked

Park ==
    \E d \in pending :
        /\ pending' = pending \ {d}
        /\ parked' = parked \cup {d}
        /\ UNCHANGED done

Reprocess ==
    /\ pending' = pending \cup parked
    /\ parked' = {}
    /\ UNCHANGED done

Next == Accept \/ Finish \/ Park \/ Reprocess

Spec == Init /\ [][Next]_vars
=============================================================================
