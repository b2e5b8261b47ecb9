---------------------------- MODULE ServedUsers ----------------------------
(***************************************************************************)
(* What the panel promises of a node's users: the node serves, of every    *)
(* user, something the database has said of it.  As long as the changes    *)
(* are calm (none is made while the node is being connected or while an    *)
(* earlier change of the same user is being sent, none waits in a client   *)
(* that is to be shut down when the node is started, and no start fails    *)
(* while the health check asks that client), a node that is started serves *)
(* the database as it is, and an update never takes a user back.           *)
(***************************************************************************)
EXTENDS Naturals

CONSTANTS Users

VARIABLES
  truth,     \* how often each user was changed in the database
  serving,   \* the node's backend runs
  copy,      \* the change of each user that the node serves
  calm

servedVars == <<truth, serving, copy, calm>>

ServedInit ==
  /\ truth = [u \in Users |-> 0]
  /\ serving = FALSE
  /\ copy = [u \in Users |-> 0]
  /\ calm = TRUE

Change(u) ==
  /\ truth' = [truth EXCEPT ![u] = @ + 1]
  /\ calm' \in {calm, FALSE}
  /\ UNCHANGED <<serving, copy>>

\* The node is started with a list of all users.
Load ==
  /\ serving' = TRUE
  /\ copy' \in [Users -> Nat]
  /\ \A u \in Users : copy'[u] <= truth[u]
  /\ calm' \in {calm, FALSE}
  /\ calm' => copy' = truth
  /\ UNCHANGED truth

\* One user is updated on the running node.
Update(u) ==
  /\ serving
  /\ \E v \in 0..truth[u] : copy' = [copy EXCEPT ![u] = v]
  /\ calm => copy'[u] >= copy[u]
  /\ UNCHANGED <<truth, serving, calm>>

Stop == serving' = FALSE /\ calm' \in {calm, FALSE} /\ UNCHANGED <<truth, copy>>

ServedNext == Load \/ Stop \/ \E u \in Users : Change(u) \/ Update(u)

ServedSpec == ServedInit /\ [][ServedNext]_servedVars
=============================================================================
