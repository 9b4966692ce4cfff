---------------------------- MODULE ApprovalStore ----------------------------
(***************************************************************************)
(* The in-memory approval store, src/internal/approval/store.go.  Every     *)
(* method holds the store's mutex from its first line to its last, so each  *)
(* one is a single atomic step: this is what an approval store promises,    *)
(* and the specification Gateway.tla is measured against.                   *)
(***************************************************************************)
CONSTANTS
  Ids,        \* approval identifiers
  Plans,      \* plan identifiers an approval can be for
  Deciders,   \* who decides (stands for decided_by, decided_at and the note)
  None        \* no record, or nobody decided yet

VARIABLE records    \* approval_id -> record, None when the map has no entry

Record == [plan : Plans, status : {"pending", "approved", "rejected"},
           by : Deciders \cup {None}]

TypeOK == records \in [Ids -> Record \cup {None}]

Init == records = [i \in Ids |-> None]

(* Callers pass a fresh newUUID(), so Create never meets an existing entry. *)
Create(i) ==
  /\ records[i] = None
  /\ \E p \in Plans :
       records' = [records EXCEPT ![i] = [plan |-> p, status |-> "pending", by |-> None]]

(* Decide returns an error and changes nothing unless the record exists and *)
(* is still pending and the decision is one of the two words it knows.      *)
Decide(i, d) ==
  /\ records[i] # None
  /\ records[i].status = "pending"
  /\ \E s \in {"approved", "rejected"} :
       records' = [records EXCEPT ![i] = [plan |-> @.plan, status |-> s, by |-> d]]

Next == \E i \in Ids : Create(i) \/ \E d \in Deciders : Decide(i, d)

Spec == Init /\ [][Next]_records
=============================================================================
