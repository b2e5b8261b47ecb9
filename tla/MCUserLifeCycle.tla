-------------------------- MODULE MCUserLifeCycle --------------------------
(* Instances of UserLifeCycle for TLC.                                      *)
EXTENDS UserLifeCycle, TLC

Adding == [limit |-> 1, adds |-> TRUE, lasts |-> 1]
Fixed  == [limit |-> 1, adds |-> FALSE, lasts |-> 0]

SomePlans == {Adding, Fixed}

\* One who will expire and one on hold, both with a next plan.
SomeUsers ==
  {[Blank EXCEPT !.expire = 1, !.plan = Adding],
   [Blank EXCEPT !.status = "on_hold", !.limit = 1, !.plan = Fixed]}

\* One field at a time or a status with a limit, and a next plan by itself.
SomeEdits ==
  {[status |-> s, expire |-> -1, limit |-> l, plan |-> NoPlan] :
     s \in {"active", "disabled"}, l \in {-1, 1}}
  \cup {[status |-> "same", expire |-> e, limit |-> -1, plan |-> NoPlan] : e \in {0, 1}}
  \cup {[status |-> "same", expire |-> -1, limit |-> l, plan |-> NoPlan] : l \in {0, 1}}
  \cup {[status |-> "same", expire |-> -1, limit |-> -1, plan |-> Adding],
         [status |-> "on_hold", expire |-> -1, limit |-> -1, plan |-> NoPlan]}
===========================================================================
