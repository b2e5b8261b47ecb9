--------------------------- MODULE UserLifeCycle ---------------------------
(***************************************************************************)
(* What the panel does to one of its users: the jobs that review users     *)
(* (jobs/review_users.py), reset their usage (reset_user_data_usage.py)    *)
(* and record their traffic (record_usages.py), and administrators         *)
(* (operation/user.py, db/crud/user.py), all at the same time.             *)
(*                                                                         *)
(* Everybody loads the user's row into a session of their own and writes   *)
(* it back later; a session writes the columns it gave another value than  *)
(* the one it loaded, by the row's id, whatever the row holds by then.     *)
(* The traffic recorder and the review jobs write by statements instead.   *)
(* Columns that decide nothing here, notifications, the sending of the     *)
(* user to the nodes (PanelNode) and its removal are left out; so is the   *)
(* timeout of a hold; a plan's template is its limit and its duration, and *)
(* the strategy of resets is the time a reset happens.                     *)
(***************************************************************************)
EXTENDS Integers, FiniteSets

CONSTANTS
  Requests,    \* administrators' requests at work at the same time
  Limits,      \* data limits given to users, 0 for none
  Created,     \* rows of users just created
  Plans,       \* next plans: [limit, adds: add_remaining_traffic, lasts: expire]
  NoPlan,      \* next_plan is None
  Edits,       \* what administrators ask for: [status, expire, limit, plan]
  MaxMoved,    \* bound: traffic the user moves
  MaxTime,     \* bound: the clock
  MaxEvents    \* bound: requests, resets by schedule and failures

ASSUME LifeAssumption ==
  /\ Limits \subseteq Nat /\ MaxMoved \in Nat /\ MaxTime \in Nat /\ MaxEvents \in Nat
  /\ Plans \subseteq [limit: Nat, adds: BOOLEAN, lasts: 0..1]
  /\ NoPlan \notin Plans
  /\ Edits \subseteq [status: {"same", "active", "disabled", "on_hold"}, expire: -1..MaxTime,
                      limit: {-1} \cup Limits, plan: Plans \cup {NoPlan}]
  /\ Created \subseteq [status: {"active", "on_hold"}, used: {0}, limit: Limits, expire: 0..1,
                        seen: {FALSE}, plan: Plans \cup {NoPlan}]
  /\ \A u \in Created : u.status = "on_hold" => u.expire = 0
  /\ Requests \cap {"expire", "limit", "hold", "reset"} = {}

VARIABLES
  user,      \* the row: status, used_traffic, data_limit, expire (0 for none),
             \* whether online_at is later than edit_at, next_plan
  logged,    \* used_traffic_at_reset of its usage_logs, added up
  charged,   \* used_traffic of its administrator
  moved,     \* traffic the user ever moved
  pending,   \* traffic the node has counted and not reported
  recorder,  \* the traffic recorder: its next step and the traffic it holds
  work,      \* the next step of each job and request, and the row it loaded
  now,
  raced,     \* history: which of status and used_traffic written over a
             \* value the writer never looked at
  stale,     \* history: a status was written for reasons that had gone
  failed,    \* history: reported traffic was dropped
  events

row   == <<user, logged>>
usage == <<charged, moved, pending, recorder>>
hist  == <<raced, stale, failed>>
lifeVars == <<row, usage, work, now, hist, events>>

Review  == {"expire", "limit", "hold"}
Workers == Review \cup {"reset"} \cup Requests

Rows == [status: {"active", "limited", "expired", "disabled", "on_hold"},
         used: 0..MaxMoved, limit: Int, expire: 0..MaxTime + 1,
         seen: BOOLEAN, plan: Plans \cup {NoPlan}]

UserTypeOK ==
  /\ user \in Rows
  /\ logged \in Nat /\ charged \in 0..MaxMoved
  /\ moved \in 0..MaxMoved /\ pending \in 0..MaxMoved
  /\ recorder \in [pc: {"idle", "users", "admin"}, value: 0..MaxMoved]
  /\ work \in [Workers -> [pc: {"idle", "update", "refresh", "plan", "reset", "loaded"}, copy: Rows]]
  /\ now \in 0..MaxTime
  /\ raced \subseteq {"status", "used"} /\ stale \in BOOLEAN /\ failed \in BOOLEAN
  /\ events \in 0..MaxEvents

Event == events < MaxEvents /\ events' = events + 1

-----------------------------------------------------------------------------
(* Rows.                                                                   *)

\* is_expired and is_limited.
Expired(u) == u.expire # 0 /\ u.expire <= now
Limited(u) == u.limit > 0 /\ u.limit <= u.used

Blank == [status |-> "active", used |-> 0, limit |-> 0, expire |-> 0, seen |-> FALSE, plan |-> NoPlan]
Idle  == [pc |-> "idle", copy |-> Blank]

\* A session is opened and the row loaded, or loaded again.
Load(w, pc) == work' = [work EXCEPT ![w] = [pc |-> pc, copy |-> user]]
Done(w) == work' = [work EXCEPT ![w] = Idle]
Copy(w) == work[w].copy

\* What a row is stopped for has changed since it was loaded.
Outdated(copy) == \/ user.used < copy.used
                  \/ \E c \in {"status", "limit", "expire"} : user[c] # copy[c]

\* The columns cols of the row are written by w.
Overwrite(w, cols) ==
  /\ raced' = raced \cup {c \in cols \cap {"status", "used"} : user[c] # Copy(w)[c]}
  /\ stale' = (stale \/ Outdated(Copy(w)))
  /\ UNCHANGED failed

\* The columns of new that differ from the row as it was loaded; a next plan
\* is a row of its own: the one that was loaded goes, not one given since.
Changed(w, new) ==
  {c \in DOMAIN new : new[c] # Copy(w)[c]}
    \ IF new.plan = NoPlan /\ user.plan # Copy(w).plan THEN {"plan"} ELSE {}

Merged(w, new) == [c \in DOMAIN new |-> IF c \in Changed(w, new) THEN new[c] ELSE user[c]]

\* commit().
Commit(w, new) == user' = Merged(w, new) /\ Overwrite(w, Changed(w, new))

LifeInit ==
  /\ user \in Created
  /\ logged = 0 /\ charged = 0 /\ moved = 0 /\ pending = 0
  /\ recorder = [pc |-> "idle", value |-> 0]
  /\ work = [w \in Workers |-> Idle]
  /\ now = 0
  /\ raced = {} /\ stale = FALSE /\ failed = FALSE
  /\ events = 0

-----------------------------------------------------------------------------
(* Traffic, and _record_user_usages_impl().                                *)

\* A node may serve a user for some time after it was stopped.
Move ==
  /\ moved < MaxMoved
  /\ moved' = moved + 1 /\ pending' = pending + 1
  /\ UNCHANGED <<row, charged, recorder, work, now, hist, events>>

\* Fault variant of Kept: the statistics are read without reset.
Fault_Kept == pending

\* What the node still has to report after an answer.
Kept == 0

Pull ==
  /\ recorder.pc = "idle" /\ pending > 0
  /\ recorder' = [pc |-> "users", value |-> pending]
  /\ pending' = Kept
  /\ UNCHANGED <<row, charged, moved, work, now, hist, events>>

ChargeUser ==
  /\ recorder.pc = "users"
  /\ user' = [user EXCEPT !.used = @ + recorder.value, !.seen = TRUE]
  /\ recorder' = [recorder EXCEPT !.pc = "admin"]
  /\ UNCHANGED <<logged, charged, moved, pending, work, now, hist, events>>

ChargeAdmin ==
  /\ recorder.pc = "admin"
  /\ charged' = charged + recorder.value
  /\ recorder' = [pc |-> "idle", value |-> 0]
  /\ UNCHANGED <<row, moved, pending, work, now, hist, events>>

\* The answer is late, a statement fails, or the job is cancelled after two
\* minutes: what it holds is dropped.
RecordFails ==
  /\ recorder.pc # "idle" /\ Event
  /\ recorder' = [pc |-> "idle", value |-> 0]
  /\ failed' = TRUE
  /\ UNCHANGED <<row, charged, moved, pending, work, now, raced, stale>>

-----------------------------------------------------------------------------
(* The jobs that review users.                                             *)

\* Fault variant of Reviewable: users over their limit never expire.
Fault_Reviewable(w) ==
  CASE w = "expire" -> user.status = "active" /\ Expired(user) /\ ~Limited(user)
    [] w = "limit"  -> user.status = "active" /\ Limited(user) /\ ~Expired(user)
    [] w = "hold"   -> user.status = "on_hold" /\ user.seen

\* get_active_to_expire_users(), get_active_to_limited_users() and
\* get_on_hold_to_active_users().
Reviewable(w) ==
  CASE w = "expire" -> user.status = "active" /\ Expired(user)
    [] w = "limit"  -> user.status = "active" /\ Limited(user)
    [] w = "hold"   -> user.status = "on_hold" /\ user.seen

Select(w) ==
  /\ work[w].pc = "idle" /\ Reviewable(w)
  /\ Load(w, "update")
  /\ UNCHANGED <<row, usage, now, hist, events>>

Verdict(w) == IF w = "expire" THEN "expired" ELSE "limited"

\* update_users_status(), or start_users_expire() with a hold of one tick:
\* by id, whatever became of the user.
UpdateStatus(w) ==
  /\ w \in Review /\ work[w].pc = "update"
  /\ IF w = "hold"
     THEN /\ user' = [user EXCEPT !.status = "active", !.expire = now + 1]
          /\ Overwrite(w, {"status", "expire"})
     ELSE /\ user' = [user EXCEPT !.status = Verdict(w)]
          /\ Overwrite(w, {"status"})
  /\ work' = [work EXCEPT ![w] = [Idle EXCEPT !.pc = "refresh"]]
  /\ UNCHANGED <<logged, usage, now, events>>

\* change_status() starts the next plan of the row as it is by then, also if
\* it has been given another status since.
Refresh(w) ==
  /\ work[w].pc = "refresh"
  /\ IF w # "hold" /\ user.plan # NoPlan
     THEN /\ Load(w, "plan")
          /\ raced' = raced \cup IF user.status = Verdict(w) THEN {} ELSE {"status"}
     ELSE Done(w) /\ UNCHANGED raced
  /\ UNCHANGED <<row, usage, now, stale, failed, events>>

\* Fault variant of Reset: a disabled user is active again.
Fault_Reset(u) ==
  [u EXCEPT !.used = 0, !.plan = NoPlan, !.status = IF @ = "expired" THEN @ ELSE "active"]

\* reset_user_data_usage(), which drops the next plan.
Reset(u) ==
  [u EXCEPT !.used = 0, !.plan = NoPlan, !.status = IF @ \in {"expired", "disabled"} THEN @ ELSE "active"]

\* reset_user_by_next(): also a template on hold leaves the user active, and
\* without an expiry.
Planned(u) ==
  [u EXCEPT !.limit  = u.plan.limit + IF u.plan.adds THEN u.limit - u.used ELSE 0,
            !.expire = IF u.plan.lasts = 0 THEN 0 ELSE now + u.plan.lasts,
            !.used = 0, !.plan = NoPlan, !.status = "active"]

\* The usage that was loaded is logged.
CommitReset(w, new) ==
  /\ Commit(w, new)
  /\ logged' = logged + Copy(w).used
  /\ Done(w)
  /\ UNCHANGED <<usage, now, events>>

StartPlan(w) == w \in Review /\ work[w].pc = "plan" /\ CommitReset(w, Planned(Copy(w)))

\* get_users_to_reset_data_usage(), when the period of the strategy is over.
SelectReset ==
  /\ work["reset"].pc = "idle"
  /\ user.status \in {"active", "limited"} /\ Event
  /\ Load("reset", "reset")
  /\ UNCHANGED <<row, usage, now, hist>>

ResetUsage == work["reset"].pc = "reset" /\ CommitReset("reset", Reset(Copy("reset")))

-----------------------------------------------------------------------------
(* Administrators.                                                         *)

\* The status of a user of which expire was set.
Dated(status, expire) ==
  IF expire = 0 THEN IF status = "expired" THEN "active" ELSE status
  ELSE IF status \notin {"active", "expired"} THEN status
  ELSE IF expire > now THEN "active" ELSE "expired"

\* Fault variant of Capped: a higher limit does not bring the user back.
Fault_Capped(status, limit, used) ==
  IF status \in {"expired", "disabled"} THEN status
  ELSE IF limit = 0 \/ used < limit THEN status
  ELSE "limited"

\* The status of a user of which data_limit was set.
Capped(status, limit, used) ==
  IF status \in {"expired", "disabled"} THEN status
  ELSE IF limit = 0 \/ used < limit THEN IF status = "on_hold" THEN status ELSE "active"
  ELSE "limited"

\* modify_user(): what is not asked for stays, except the next plan, which
\* goes when none is given.
Modified(u, e) ==
  LET asked  == IF e.status = "same" THEN u.status ELSE e.status
      expire == IF e.status = "on_hold" THEN 0 ELSE IF e.expire = -1 THEN u.expire ELSE e.expire
      dated  == IF e.status = "on_hold" \/ e.expire = -1 THEN asked ELSE Dated(asked, e.expire)
      limit  == IF e.limit = -1 THEN u.limit ELSE e.limit
  IN [u EXCEPT !.status = IF e.limit = -1 THEN dated ELSE Capped(dated, limit, u.used),
               !.expire = expire, !.limit = limit, !.plan = e.plan]

\* get_validated_user().
LoadUser(r) ==
  /\ work[r].pc = "idle" /\ Event
  /\ Load(r, "loaded")
  /\ UNCHANGED <<row, usage, now, hist>>

\* edit_at is written whatever else is.
Modify(r, e) ==
  /\ work[r].pc = "loaded"
  /\ LET new == Modified(Copy(r), e)
     IN /\ user' = [Merged(r, new) EXCEPT !.seen = FALSE]
        /\ Overwrite(r, Changed(r, new))
  /\ Done(r)
  /\ UNCHANGED <<logged, usage, now, events>>

ResetByAdmin(r) == work[r].pc = "loaded" /\ CommitReset(r, Reset(Copy(r)))

\* active_next_plan().
ActivatePlan(r) ==
  work[r].pc = "loaded" /\ Copy(r).plan # NoPlan /\ CommitReset(r, Planned(Copy(r)))

Tick ==
  /\ now < MaxTime /\ now' = now + 1
  /\ UNCHANGED <<row, usage, work, hist, events>>

Request(r) == (\E e \in Edits : Modify(r, e)) \/ ResetByAdmin(r) \/ ActivatePlan(r)
Job(w)     == Select(w) \/ UpdateStatus(w) \/ Refresh(w) \/ StartPlan(w)

LifeNext ==
  \/ Move \/ Pull \/ ChargeUser \/ ChargeAdmin \/ RecordFails \/ Tick
  \/ \E w \in Review : Job(w)
  \/ SelectReset \/ ResetUsage
  \/ \E r \in Requests : LoadUser(r) \/ Request(r)

\* The scheduler repeats its jobs, which run on.
LifeFairness == WF_lifeVars(\E w \in Review : Job(w))

LifeSpec == LifeInit /\ [][LifeNext]_lifeVars /\ LifeFairness

-----------------------------------------------------------------------------
(* Properties.                                                             *)

(* Traffic the node reported is charged once to the user, over all resets  *)
(* taken together, and once to its administrator, however recording        *)
(* crosses with edits and reviews: only failures lose any, and resets that *)
(* cross with a recording or with each other.                              *)
ChargedOnce ==
  LET unread == pending + IF recorder.pc = "users" THEN recorder.value ELSE 0
      unpaid == pending + recorder.value
  IN "used" \notin raced =>
       /\ user.used + logged + unread <= moved
       /\ charged + unpaid <= moved
       /\ ~failed => user.used + logged + unread = moved /\ charged + unpaid = moved

(* A user is limited only with a limit that is used up, and expired only   *)
(* after its time, through all edits, plans and reviews, unless one of     *)
(* them was decided on a row that changed before it was written.           *)
StoppedForReason ==
  ~stale => /\ user.status = "limited" => Limited(user)
            /\ user.status = "expired" => Expired(user)

(* Nobody but an administrator who asks for a status or for the next plan  *)
(* brings a disabled user back, unless someone who had not seen the        *)
(* disabling wrote over it, or it fell between a review and its plan.      *)
DisabledUntilEnabled ==
  [][user.status = "disabled" /\ user.status' # "disabled" /\ "status" \notin raced'
       => \E r \in Requests : \/ ActivatePlan(r)
                              \/ \E e \in Edits : e.status # "same" /\ Modify(r, e)]_lifeVars

(* A user whose time or traffic is over does not stay active, and one on   *)
(* hold that was seen online does not stay on hold.                        *)
Due == \/ user.status = "active" /\ (Expired(user) \/ Limited(user))
       \/ user.status = "on_hold" /\ user.seen
EverybodyReviewed == []<>~Due

(* No plan leaves a user a negative limit: "data_limit can be 0 or greater". *)
LimitNotNegative == user.limit >= 0
=============================================================================
