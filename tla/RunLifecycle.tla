---------------------------- MODULE RunLifecycle ----------------------------
(***************************************************************************)
(* What Core promises about the ownership of a Run, independently of how   *)
(* leases, offers and sessions are kept: a Run is granted once, to one     *)
(* owner; it ends at most once, either completed with one result or lost;  *)
(* and a Run is only ever re-executed under a new identity, as the one     *)
(* successor of a Run that is already lost.                                *)
(***************************************************************************)

CONSTANTS Runs,        \* run ids
          Owners,      \* Runner sessions that may own a Run
          Results,     \* terminal results
          None         \* "no value"

VARIABLES status,      \* status[r]: where r is in its life
          holder,      \* holder[r]: the owner r was granted to
          outcome,     \* outcome[r]: the one terminal result
          parent       \* parent[r]: the lost Run that r re-executes

lifecycle == <<status, holder, outcome, parent>>

Statuses == {"free", "owned", "completed", "lost"}

Init == /\ status  = [r \in Runs |-> "free"]
        /\ holder  = [r \in Runs |-> None]
        /\ outcome = [r \in Runs |-> None]
        /\ parent  = [r \in Runs |-> None]

(* A free Run gets its owner; as a successor only of a lost Run that has   *)
(* no successor yet.                                                       *)
Grant(r, o, p) ==
  /\ status[r] = "free"
  /\ p # None => status[p] = "lost" /\ \A q \in Runs : parent[q] # p
  /\ status' = [status EXCEPT ![r] = "owned"]
  /\ holder' = [holder EXCEPT ![r] = o]
  /\ parent' = [parent EXCEPT ![r] = p]
  /\ UNCHANGED outcome

Complete(r, x) ==
  /\ status[r] = "owned"
  /\ status'  = [status EXCEPT ![r] = "completed"]
  /\ outcome' = [outcome EXCEPT ![r] = x]
  /\ UNCHANGED <<holder, parent>>

Lose(r) ==
  /\ status[r] = "owned"
  /\ status' = [status EXCEPT ![r] = "lost"]
  /\ UNCHANGED <<holder, outcome, parent>>

Next == \E r \in Runs :
          \/ \E o \in Owners, p \in Runs \cup {None} : Grant(r, o, p)
          \/ \E x \in Results : Complete(r, x)
          \/ Lose(r)

Spec == Init /\ [][Next]_lifecycle
=============================================================================
