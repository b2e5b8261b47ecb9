------------------------ MODULE UserLifeCycleProofs ------------------------
(***************************************************************************)
(* Proofs about UserLifeCycle, for any traffic, plans, edits and number of *)
(* administrators' requests: type correctness, what the traffic is charged *)
(* to, and what a user is stopped and brought back by.                     *)
(***************************************************************************)
EXTENDS UserLifeCycle, TLAPS

Columns == {"status", "used", "limit", "expire", "seen", "plan"}
Statuses == {"active", "limited", "expired", "disabled", "on_hold"}

\* A row is known by its columns.
LEMMA RowColumns ==
  ASSUME NEW u, u = [c \in Columns |-> u[c]],
         u.status \in Statuses, u.used \in 0..MaxMoved, u.limit \in Int,
         u.expire \in 0..MaxTime + 1, u.seen \in BOOLEAN, u.plan \in Plans \cup {NoPlan}
  PROVE  u \in Rows
BY DEF Columns, Statuses, Rows

LEMMA RowType ==
  ASSUME NEW u \in Rows
  PROVE  /\ u = [c \in Columns |-> u[c]] /\ DOMAIN u = Columns
         /\ u.status \in Statuses /\ u.used \in 0..MaxMoved /\ u.limit \in Int
         /\ u.expire \in 0..MaxTime + 1 /\ u.seen \in BOOLEAN /\ u.plan \in Plans \cup {NoPlan}
BY DEF Columns, Statuses, Rows

\* What a session writes of a row: the columns it gave another value.
LEMMA MergedRow ==
  ASSUME NEW w \in Workers, NEW new \in Rows, user \in Rows, Copy(w) \in Rows
  PROVE  /\ Merged(w, new) \in Rows
         /\ \A c \in Columns \ {"plan"} :
              Merged(w, new)[c] = IF new[c] = Copy(w)[c] THEN user[c] ELSE new[c]
<1>. DEFINE m == Merged(w, new)
<1>1. m = [c \in Columns |-> IF c \in Changed(w, new) THEN new[c] ELSE user[c]]
  BY RowType DEF Merged
<1>2. \A c \in Columns \ {"plan"} : c \in Changed(w, new) <=> new[c] # Copy(w)[c]
  BY RowType DEF Changed, Columns
<1>3. \A c \in Columns : m[c] = new[c] \/ m[c] = user[c]
  BY <1>1
<1>4. m = [c \in Columns |-> m[c]]
  BY <1>1
<1>. HIDE DEF m
<1>5. m \in Rows
  BY <1>3, <1>4, RowColumns, RowType DEF Columns
<1>. QED
  BY <1>1, <1>2, <1>5 DEF m

-----------------------------------------------------------------------------
(* The inductive invariant.                                                *)

\* The traffic that is counted anywhere was moved.
TrafficOK ==
  /\ user.used + pending + (IF recorder.pc = "users" THEN recorder.value ELSE 0) <= moved
  /\ charged + pending + recorder.value <= moved
  /\ recorder.pc = "idle" => recorder.value = 0

\* What a review saw when it loaded a user is what it is for, and a next plan
\* starts for a user stopped by the review, unless somebody wrote between.
LoadedOK(w) ==
  /\ work[w].pc = "update" =>
       CASE w = "expire" -> /\ Copy(w).status = "active"
                            /\ Copy(w).expire # 0 /\ Copy(w).expire <= now
         [] w = "limit"  -> /\ Copy(w).status = "active"
                            /\ Copy(w).limit > 0 /\ Copy(w).limit <= Copy(w).used
         [] w = "hold"   -> Copy(w).status = "on_hold"
  /\ work[w].pc = "plan" => /\ Copy(w).plan # NoPlan
                            /\ "status" \notin raced => Copy(w).status # "disabled"

LifeInv ==
  /\ UserTypeOK
  /\ TrafficOK
  /\ \A w \in Review : LoadedOK(w)
  /\ ChargedOnce
  /\ StoppedForReason

-----------------------------------------------------------------------------
(* What the operations make of a row.                                      *)

LEMMA ResetRow ==
  ASSUME NEW u \in Rows
  PROVE  /\ Reset(u) \in Rows /\ Reset(u).used = 0
         /\ Reset(u).limit = u.limit /\ Reset(u).expire = u.expire
         /\ Reset(u).status = IF u.status \in {"expired", "disabled"} THEN u.status ELSE "active"
<1>. DEFINE status == IF u.status \in {"expired", "disabled"} THEN u.status ELSE "active"
<1>1. 0 \in 0..MaxMoved /\ NoPlan \in Plans \cup {NoPlan}
  BY LifeAssumption
<1>2. status \in Statuses
  BY DEF Statuses, Rows
<1>3. Reset(u) = [u EXCEPT !.used = 0, !.plan = NoPlan, !.status = status]
  BY DEF Reset
<1>. HIDE DEF status
<1>4. /\ Reset(u) \in Rows /\ Reset(u).used = 0 /\ Reset(u).status = status
      /\ Reset(u).limit = u.limit /\ Reset(u).expire = u.expire
  BY <1>1, <1>2, <1>3 DEF Rows, Statuses
<1>. QED
  BY <1>4 DEF status

LEMMA PlannedRow ==
  ASSUME NEW u \in Rows, u.plan # NoPlan, now \in 0..MaxTime
  PROVE  Planned(u) \in Rows /\ Planned(u).used = 0 /\ Planned(u).status = "active"
<1>. DEFINE limit == u.plan.limit + IF u.plan.adds THEN u.limit - u.used ELSE 0
            expire == IF u.plan.lasts = 0 THEN 0 ELSE now + u.plan.lasts
<1>1. u.plan.limit \in Nat /\ u.plan.lasts \in 0..1 /\ u.limit \in Int /\ u.used \in Nat
  BY LifeAssumption DEF Rows
<1>2. limit \in Int /\ expire \in 0..MaxTime + 1
  BY <1>1, LifeAssumption
<1>3. Planned(u) = [u EXCEPT !.limit = limit, !.expire = expire, !.used = 0,
                             !.plan = NoPlan, !.status = "active"]
  BY DEF Planned
<1>4. 0 \in 0..MaxMoved /\ NoPlan \in Plans \cup {NoPlan}
  BY LifeAssumption
<1>. HIDE DEF limit, expire
<1>. QED
  BY <1>2, <1>3, <1>4 DEF Rows

\* What modify_user() stores, and why a user is stopped after it.
LEMMA ModifiedRow ==
  ASSUME NEW u \in Rows, NEW e \in Edits, now \in 0..MaxTime
  PROVE  LET n == Modified(u, e) IN
         /\ n \in Rows /\ n.used = u.used
         /\ n.status = "limited" => \/ n.limit > 0 /\ n.limit <= n.used
                                    \/ u.status = "limited" /\ n.limit = u.limit
         /\ n.status = "expired" => \/ n.expire # 0 /\ n.expire <= now
                                    \/ u.status = "expired" /\ n.expire = u.expire
         /\ e.status = "same" /\ u.status = "disabled" => n.status = "disabled"
<1>. DEFINE asked  == IF e.status = "same" THEN u.status ELSE e.status
            expire == IF e.status = "on_hold" THEN 0 ELSE IF e.expire = -1 THEN u.expire ELSE e.expire
            dated  == IF e.status = "on_hold" \/ e.expire = -1 THEN asked ELSE Dated(asked, e.expire)
            limit  == IF e.limit = -1 THEN u.limit ELSE e.limit
            status == IF e.limit = -1 THEN dated ELSE Capped(dated, limit, u.used)
            n == Modified(u, e)
<1>1. /\ e.status \in {"same", "active", "disabled", "on_hold"} /\ e.expire \in -1..MaxTime
      /\ e.limit \in {-1} \cup Limits /\ e.plan \in Plans \cup {NoPlan}
      /\ e.limit # -1 => e.limit \in Nat
  BY LifeAssumption
<1>2. /\ u.status \in Statuses /\ u.used \in 0..MaxMoved /\ u.limit \in Int
      /\ u.expire \in 0..MaxTime + 1 /\ MaxTime \in Nat /\ MaxMoved \in Nat
  BY RowType, LifeAssumption
<1>3. n = [u EXCEPT !.status = status, !.expire = expire, !.limit = limit, !.plan = e.plan]
  BY DEF Modified
<1>4. /\ dated \in Statuses
      /\ dated = "limited" => u.status = "limited"
      /\ dated = "expired" => \/ expire # 0 /\ expire <= now
                              \/ u.status = "expired" /\ expire = u.expire
      /\ e.status = "same" /\ u.status = "disabled" => dated = "disabled"
  BY <1>1, <1>2 DEF Dated, Statuses
<1>5. expire \in 0..MaxTime + 1 /\ limit \in Int
  BY <1>1, <1>2
<1>6. /\ status \in Statuses
      /\ status = "limited" => \/ limit > 0 /\ limit <= u.used
                               \/ dated = "limited" /\ limit = u.limit
      /\ status = "expired" => dated = "expired"
      /\ dated = "disabled" => status = "disabled"
  <2>. HIDE DEF dated
  <2>. QED
    BY <1>1, <1>2, <1>4 DEF Capped, Statuses
<1>. HIDE DEF status, expire, limit
<1>7. /\ n \in Rows /\ n.used = u.used /\ n.status = status /\ n.limit = limit /\ n.expire = expire
  BY <1>1, <1>3, <1>5, <1>6 DEF Rows, Statuses
<1>. QED
  BY <1>4, <1>6, <1>7

-----------------------------------------------------------------------------
(* Every step preserves LifeInv.                                           *)

LEMMA TypeFacts ==
  ASSUME LifeInv
  PROVE  /\ user \in Rows /\ user.used \in Nat /\ logged \in Nat /\ charged \in Nat /\ moved \in Nat
         /\ pending \in Nat /\ recorder.value \in Nat /\ now \in 0..MaxTime
         /\ MaxMoved \in Nat /\ MaxTime \in Nat
         /\ work \in [Workers -> [pc: {"idle", "update", "refresh", "plan", "reset", "loaded"}, copy: Rows]]
         /\ \A w \in Workers : Copy(w) \in Rows /\ Copy(w).used \in Nat
BY LifeAssumption DEF LifeInv, UserTypeOK, Rows, Copy

\* What a review loaded keeps its meaning while the clock runs on.
LEMMA LoadedKept ==
  ASSUME NEW w \in Review, LoadedOK(w), work'[w] = work[w], Copy(w) \in Rows,
         now \in Int, now' \in Int, now <= now', raced \subseteq raced'
  PROVE  LoadedOK(w)'
<1>1. Copy(w).expire \in Int
  BY LifeAssumption DEF Rows
<1>2. Copy(w)' = Copy(w)
  BY DEF Copy
<1>3. CASE w = "expire"
  BY <1>1, <1>2, <1>3 DEF LoadedOK
<1>4. CASE w = "limit"
  BY <1>2, <1>4 DEF LoadedOK
<1>5. CASE w = "hold"
  BY <1>2, <1>5 DEF LoadedOK
<1>. QED
  BY <1>3, <1>4, <1>5 DEF Review

LEMMA IdleType ==
  Idle \in [pc: {"idle", "update", "refresh", "plan", "reset", "loaded"}, copy: Rows] /\ Idle.pc = "idle"
<1>1. Blank \in Rows
  BY LifeAssumption DEF Blank, Rows
<1>. QED
  BY <1>1 DEF Idle

\* A worker is done with its row, or has not got one yet.
LEMMA WorkDone ==
  ASSUME LifeInv, NEW w \in Workers, NEW pc \in {"idle", "refresh"},
         work' = [work EXCEPT ![w] = [Idle EXCEPT !.pc = pc]],
         now' = now, raced \subseteq raced'
  PROVE  /\ work' \in [Workers -> [pc: {"idle", "update", "refresh", "plan", "reset", "loaded"}, copy: Rows]]
         /\ \A v \in Review : LoadedOK(v)'
<1>. DEFINE T == [pc: {"idle", "update", "refresh", "plan", "reset", "loaded"}, copy: Rows]
<1>1. work \in [Workers -> T] /\ now \in 0..MaxTime /\ \A v \in Workers : Copy(v) \in Rows
  BY TypeFacts
<1>2. [Idle EXCEPT !.pc = pc] \in T /\ [Idle EXCEPT !.pc = pc].pc = pc
  BY IdleType
<1>3. work' \in [Workers -> T] /\ work'[w].pc = pc /\ \A v \in Workers \ {w} : work'[v] = work[v]
  BY <1>1, <1>2
<1>4. ASSUME NEW v \in Review PROVE LoadedOK(v)'
  <2>1. v \in Workers
    BY DEF Workers
  <2>2. CASE v = w
    BY <1>3, <2>2 DEF LoadedOK
  <2>3. CASE v # w
    BY <1>1, <1>3, <2>1, <2>3, LoadedKept DEF LifeInv
  <2>. QED
    BY <2>2, <2>3
<1>. QED
  BY <1>3, <1>4

\* A worker loads the row, a review only what it is for.
LEMMA WorkLoaded ==
  ASSUME LifeInv, NEW w \in Workers, NEW pc \in {"update", "plan", "reset", "loaded"}, Load(w, pc),
         now' = now, raced \subseteq raced', w \in Review => LoadedOK(w)'
  PROVE  /\ work' \in [Workers -> [pc: {"idle", "update", "refresh", "plan", "reset", "loaded"}, copy: Rows]]
         /\ \A v \in Review : LoadedOK(v)'
<1>. DEFINE T == [pc: {"idle", "update", "refresh", "plan", "reset", "loaded"}, copy: Rows]
<1>1. work \in [Workers -> T] /\ now \in 0..MaxTime /\ \A v \in Workers : Copy(v) \in Rows
      /\ user \in Rows
  BY TypeFacts
<1>2. work' = [work EXCEPT ![w] = [pc |-> pc, copy |-> user]]
  BY DEF Load
<1>3. work' \in [Workers -> T] /\ \A v \in Workers \ {w} : work'[v] = work[v]
  BY <1>1, <1>2
<1>4. ASSUME NEW v \in Review PROVE LoadedOK(v)'
  <2>1. v \in Workers
    BY DEF Workers
  <2>. QED
    BY <1>1, <1>3, <2>1, LoadedKept DEF LifeInv
<1>. QED
  BY <1>3, <1>4

\* Writing columns over the row.
LEMMA OverwriteType ==
  ASSUME LifeInv, NEW w \in Workers, NEW cols, Overwrite(w, cols)
  PROVE  /\ raced' \subseteq {"status", "used"} /\ stale' \in BOOLEAN /\ failed' \in BOOLEAN
         /\ raced \subseteq raced'
<1>1. raced \subseteq {"status", "used"} /\ stale \in BOOLEAN /\ failed \in BOOLEAN
  BY DEF LifeInv, UserTypeOK
<1>2. raced' \subseteq {"status", "used"} /\ raced \subseteq raced'
  BY <1>1 DEF Overwrite
<1>3. stale' \in BOOLEAN /\ failed' \in BOOLEAN
  BY <1>1 DEF Overwrite
<1>. QED
  BY <1>2, <1>3

\* Unless it is stale afterwards, the row is as the writer had loaded it, but
\* for the traffic charged since.
LEMMA NotOutdated ==
  ASSUME NEW w, NEW cols, Overwrite(w, cols), ~stale'
  PROVE  /\ ~stale /\ ~(user.used < Copy(w).used)
         /\ user.status = Copy(w).status /\ user.limit = Copy(w).limit
         /\ user.expire = Copy(w).expire
BY DEF Overwrite, Outdated

\* reset_user_data_usage() and reset_user_by_next(), whoever calls them.
LEMMA CommitResetStep ==
  ASSUME LifeInv, NEW w \in Workers, NEW new \in Rows, CommitReset(w, new), new.used = 0,
         \/ new.status = "active"
         \/ new.status = Copy(w).status /\ new.expire = Copy(w).expire /\ new.status # "limited"
  PROVE  LifeInv'
<1>. DEFINE m == Merged(w, new)
<1>1. /\ user' = m /\ logged' = logged + Copy(w).used
      /\ UNCHANGED <<charged, moved, pending, recorder, now, events>>
      /\ work' = [work EXCEPT ![w] = Idle] /\ Overwrite(w, Changed(w, new))
  BY DEF CommitReset, Commit, Done, usage
<1>2. /\ user \in Rows /\ user.used \in Nat /\ logged \in Nat /\ moved \in Nat /\ pending \in Nat
      /\ recorder.value \in Nat /\ now \in 0..MaxTime /\ Copy(w) \in Rows /\ Copy(w).used \in Nat
  BY TypeFacts
<1>3. /\ m \in Rows
      /\ m.used = IF Copy(w).used = 0 THEN user.used ELSE 0
      /\ m.status = IF new.status = Copy(w).status THEN user.status ELSE new.status
      /\ m.expire = IF new.expire = Copy(w).expire THEN user.expire ELSE new.expire
  BY <1>2, MergedRow DEF Columns
<1>4. /\ raced' \subseteq {"status", "used"} /\ stale' \in BOOLEAN /\ failed' \in BOOLEAN
      /\ raced \subseteq raced' /\ failed' = failed
  BY <1>1, OverwriteType DEF Overwrite
<1>5. /\ work' \in [Workers -> [pc: {"idle", "update", "refresh", "plan", "reset", "loaded"}, copy: Rows]]
      /\ \A v \in Review : LoadedOK(v)'
  <2>1. [Idle EXCEPT !.pc = "idle"] = Idle
    BY DEF Idle
  <2>. QED
    BY <1>1, <1>4, <2>1, WorkDone
<1>. HIDE DEF m
<1>6. UserTypeOK'
  BY <1>1, <1>2, <1>3, <1>4, <1>5 DEF LifeInv, UserTypeOK
<1>7. TrafficOK'
  BY <1>1, <1>2, <1>3 DEF LifeInv, TrafficOK
<1>8. ChargedOnce'
  <2>. SUFFICES ASSUME "used" \notin raced' PROVE m.used + logged' = user.used + logged
    BY <1>1, <1>2, <1>4 DEF LifeInv, ChargedOnce
  <2>1. CASE Copy(w).used = 0
    BY <1>1, <1>2, <1>3, <2>1
  <2>2. CASE Copy(w).used # 0
    <3>1. "used" \in Changed(w, new)
      BY <1>2, <2>2, RowType DEF Changed, Columns
    <3>2. user.used = Copy(w).used
      BY <1>1, <3>1 DEF Overwrite
    <3>. QED
      BY <1>1, <1>2, <1>3, <2>2, <3>2
  <2>. QED
    BY <2>1, <2>2
<1>9. StoppedForReason'
  <2>. SUFFICES ASSUME ~stale' PROVE /\ m.status # "limited"
                                     /\ m.status = "expired" => m.expire # 0 /\ m.expire <= now
    BY <1>1 DEF StoppedForReason, Expired
  <2>1. ~stale /\ user.status = Copy(w).status /\ user.expire = Copy(w).expire
    BY <1>1, NotOutdated
  <2>2. user.status = "expired" => user.expire # 0 /\ user.expire <= now
    BY <2>1 DEF LifeInv, StoppedForReason, Expired
  <2>. QED
    BY <1>3, <2>1, <2>2
<1>. QED
  BY <1>5, <1>6, <1>7, <1>8, <1>9 DEF LifeInv

\* modify_user().
LEMMA ModifyStep ==
  ASSUME LifeInv, NEW r \in Requests, NEW e \in Edits, Modify(r, e)
  PROVE  LifeInv'
<1>. DEFINE new == Modified(Copy(r), e)
            m == Merged(r, new)
<1>0. r \in Workers /\ r \notin Review
  BY LifeAssumption DEF Workers, Review
<1>1. /\ user' = [m EXCEPT !.seen = FALSE]
      /\ UNCHANGED <<logged, charged, moved, pending, recorder, now, events>>
      /\ work' = [work EXCEPT ![r] = Idle] /\ Overwrite(r, Changed(r, new))
  BY DEF Modify, Done, usage
<1>2. /\ user \in Rows /\ user.used \in Nat /\ now \in 0..MaxTime
      /\ Copy(r) \in Rows /\ Copy(r).used \in Nat
  BY <1>0, TypeFacts
<1>3. /\ new \in Rows /\ new.used = Copy(r).used
      /\ new.status = "limited" => \/ new.limit > 0 /\ new.limit <= new.used
                                   \/ Copy(r).status = "limited" /\ new.limit = Copy(r).limit
      /\ new.status = "expired" => \/ new.expire # 0 /\ new.expire <= now
                                   \/ Copy(r).status = "expired" /\ new.expire = Copy(r).expire
  BY <1>2, ModifiedRow
<1>. HIDE DEF new
<1>4. /\ m \in Rows
      /\ \A c \in Columns \ {"plan"} : m[c] = IF new[c] = Copy(r)[c] THEN user[c] ELSE new[c]
  BY <1>0, <1>2, <1>3, MergedRow
<1>5. /\ m.used = user.used
      /\ m.status = IF new.status = Copy(r).status THEN user.status ELSE new.status
      /\ m.expire = IF new.expire = Copy(r).expire THEN user.expire ELSE new.expire
      /\ m.limit = IF new.limit = Copy(r).limit THEN user.limit ELSE new.limit
  BY <1>3, <1>4 DEF Columns
<1>6. /\ raced' \subseteq {"status", "used"} /\ stale' \in BOOLEAN /\ failed' \in BOOLEAN
      /\ raced \subseteq raced' /\ failed' = failed
  BY <1>0, <1>1, OverwriteType DEF Overwrite
<1>7. /\ work' \in [Workers -> [pc: {"idle", "update", "refresh", "plan", "reset", "loaded"}, copy: Rows]]
      /\ \A v \in Review : LoadedOK(v)'
  <2>1. [Idle EXCEPT !.pc = "idle"] = Idle
    BY DEF Idle
  <2>. QED
    BY <1>0, <1>1, <1>6, <2>1, WorkDone
<1>. HIDE DEF m
<1>8. /\ user' \in Rows /\ user'.used = user.used /\ user'.status = m.status
      /\ user'.expire = m.expire /\ user'.limit = m.limit
  BY <1>1, <1>4, <1>5 DEF Rows
<1>9. UserTypeOK'
  BY <1>1, <1>6, <1>7, <1>8 DEF LifeInv, UserTypeOK
<1>10. TrafficOK' /\ ChargedOnce'
  BY <1>1, <1>6, <1>8 DEF LifeInv, TrafficOK, ChargedOnce
<1>11. StoppedForReason'
  <2>. SUFFICES ASSUME ~stale'
                PROVE  /\ m.status = "limited" => m.limit > 0 /\ m.limit <= user.used
                       /\ m.status = "expired" => m.expire # 0 /\ m.expire <= now
    BY <1>1, <1>8 DEF StoppedForReason, Expired, Limited
  <2>1. /\ ~stale /\ ~(user.used < Copy(r).used)
        /\ user.status = Copy(r).status /\ user.limit = Copy(r).limit
        /\ user.expire = Copy(r).expire
    BY <1>1, NotOutdated
  <2>2. /\ user.status = "limited" => user.limit > 0 /\ user.limit <= user.used
        /\ user.status = "expired" => user.expire # 0 /\ user.expire <= now
    BY <2>1 DEF LifeInv, StoppedForReason, Expired, Limited
  <2>3. m.status = new.status /\ m.limit = new.limit /\ m.expire = new.expire
    BY <1>5, <2>1
  <2>4. new.limit \in Int
    BY <1>3, RowType
  <2>. QED
    BY <1>2, <1>3, <2>1, <2>2, <2>3, <2>4
<1>. QED
  BY <1>7, <1>9, <1>10, <1>11 DEF LifeInv

\* update_users_status() and start_users_expire().
LEMMA UpdateStatusStep ==
  ASSUME LifeInv, NEW w \in Review, UpdateStatus(w)
  PROVE  LifeInv'
<1>. DEFINE cols == IF w = "hold" THEN {"status", "expire"} ELSE {"status"}
<1>1. /\ w \in Workers /\ work[w].pc = "update"
      /\ UNCHANGED <<logged, charged, moved, pending, recorder, now, events>>
      /\ work' = [work EXCEPT ![w] = [Idle EXCEPT !.pc = "refresh"]]
      /\ Overwrite(w, cols)
  BY DEF UpdateStatus, Workers, usage
<1>2. /\ user \in Rows /\ user.used \in Nat /\ now \in 0..MaxTime /\ MaxTime \in Nat
      /\ Copy(w) \in Rows /\ Copy(w).used \in Nat
  BY <1>1, TypeFacts
<1>3. /\ user' \in Rows /\ user'.used = user.used /\ user'.limit = user.limit
      /\ IF w = "hold" THEN user'.status = "active"
         ELSE user'.status = Verdict(w) /\ user'.expire = user.expire
  <2>1. CASE w = "hold"
    <3>1. user' = [user EXCEPT !.status = "active", !.expire = now + 1]
      BY <2>1 DEF UpdateStatus
    <3>2. now + 1 \in 0..MaxTime + 1
      BY <1>2
    <3>. QED
      BY <1>2, <2>1, <3>1, <3>2 DEF Rows
  <2>2. CASE w # "hold"
    <3>1. user' = [user EXCEPT !.status = Verdict(w)]
      BY <2>2 DEF UpdateStatus
    <3>. QED
      BY <1>2, <2>2, <3>1 DEF Rows, Verdict
  <2>. QED
    BY <2>1, <2>2
<1>. HIDE DEF cols
<1>4. /\ raced' \subseteq {"status", "used"} /\ stale' \in BOOLEAN /\ failed' \in BOOLEAN
      /\ raced \subseteq raced' /\ failed' = failed
  BY <1>1, OverwriteType DEF Overwrite
<1>5. /\ work' \in [Workers -> [pc: {"idle", "update", "refresh", "plan", "reset", "loaded"}, copy: Rows]]
      /\ \A v \in Review : LoadedOK(v)'
  BY <1>1, <1>4, WorkDone
<1>6. UserTypeOK'
  BY <1>1, <1>3, <1>4, <1>5 DEF LifeInv, UserTypeOK
<1>7. TrafficOK' /\ ChargedOnce'
  BY <1>1, <1>3, <1>4 DEF LifeInv, TrafficOK, ChargedOnce
<1>8. StoppedForReason'
  <2>. SUFFICES ASSUME ~stale'
                PROVE  /\ user'.status = "limited" => user.limit > 0 /\ user.limit <= user.used
                       /\ user'.status = "expired" => user'.expire # 0 /\ user'.expire <= now
    BY <1>1, <1>3 DEF StoppedForReason, Expired, Limited
  <2>1. /\ ~(user.used < Copy(w).used) /\ user.limit = Copy(w).limit /\ user.expire = Copy(w).expire
    BY <1>1, NotOutdated
  <2>2. LoadedOK(w)
    BY DEF LifeInv
  <2>3. user.limit \in Int
    BY <1>2, RowType
  <2>4. CASE w = "expire"
    BY <1>1, <1>3, <2>1, <2>2, <2>4 DEF LoadedOK, Verdict
  <2>5. CASE w = "limit"
    BY <1>1, <1>2, <1>3, <2>1, <2>2, <2>3, <2>5 DEF LoadedOK, Verdict
  <2>6. CASE w = "hold"
    BY <1>3, <2>6
  <2>. QED
    BY <2>4, <2>5, <2>6 DEF Review
<1>. QED
  BY <1>5, <1>6, <1>7, <1>8 DEF LifeInv

\* A step that leaves the sessions and what they wrote alone.
LEMMA SessionsKept ==
  ASSUME LifeInv, work' = work, raced' = raced, now' \in 0..MaxTime, now <= now'
  PROVE  \A w \in Review : LoadedOK(w)'
<1>. SUFFICES ASSUME NEW w \in Review PROVE LoadedOK(w)'
  OBVIOUS
<1>1. Copy(w) \in Rows /\ now \in 0..MaxTime /\ MaxTime \in Nat
  BY TypeFacts DEF Workers
<1>. QED
  BY <1>1, LoadedKept DEF LifeInv

LEMMA TrafficStep ==
  ASSUME LifeInv, Move \/ Pull \/ ChargeUser \/ ChargeAdmin \/ RecordFails
  PROVE  LifeInv'
<1>. USE DEF row, hist
<1>1. /\ user \in Rows /\ user.used \in Nat /\ logged \in Nat /\ charged \in Nat
      /\ moved \in Nat /\ moved <= MaxMoved /\ pending \in Nat
      /\ recorder \in [pc: {"idle", "users", "admin"}, value: 0..MaxMoved]
      /\ recorder.value \in Nat /\ MaxMoved \in Nat /\ user.limit \in Int
      /\ now \in 0..MaxTime /\ MaxTime \in Nat
  BY TypeFacts, RowType DEF LifeInv, UserTypeOK
<1>2. /\ work' = work /\ now' = now /\ logged' = logged /\ raced' = raced /\ stale' = stale
      /\ failed' \in BOOLEAN /\ (failed' = failed \/ failed' = TRUE)
      /\ events' \in 0..MaxEvents
  <2>1. /\ work' = work /\ now' = now /\ logged' = logged /\ raced' = raced /\ stale' = stale
    BY DEF Move, Pull, ChargeUser, ChargeAdmin, RecordFails
  <2>2. failed' = failed \/ failed' = TRUE
    BY DEF Move, Pull, ChargeUser, ChargeAdmin, RecordFails
  <2>3. events' = events \/ Event
    BY DEF Move, Pull, ChargeUser, ChargeAdmin, RecordFails
  <2>4. events \in 0..MaxEvents /\ MaxEvents \in Nat /\ failed \in BOOLEAN
    BY LifeAssumption DEF LifeInv, UserTypeOK
  <2>5. events' \in 0..MaxEvents
    BY <2>3, <2>4 DEF Event
  <2>. QED
    BY <2>1, <2>2, <2>4, <2>5
<1>3. \A w \in Review : LoadedOK(w)'
  BY <1>1, <1>2, SessionsKept
<1>4. /\ moved' \in 0..MaxMoved /\ pending' \in Nat /\ charged' \in Nat
      /\ recorder' \in [pc: {"idle", "users", "admin"}, value: Nat]
  BY <1>1 DEF Move, Pull, Kept, ChargeUser, ChargeAdmin, RecordFails
<1>5. /\ user'.used \in Nat /\ user'.used >= user.used
      /\ \A n \in 0..MaxMoved : user'.used = n => user' \in Rows
      /\ user'.status = user.status /\ user'.limit = user.limit /\ user'.expire = user.expire
  <2>1. CASE ChargeUser
    <3>. DEFINE n == user.used + recorder.value
    <3>1. user' = [user EXCEPT !.used = n, !.seen = TRUE] /\ n \in Nat /\ n >= user.used
      BY <1>1, <2>1 DEF ChargeUser
    <3>. HIDE DEF n
    <3>2. /\ user'.used = n /\ user'.status = user.status /\ user'.limit = user.limit
          /\ user'.expire = user.expire
      BY <1>1, <3>1 DEF Rows
    <3>3. n \in 0..MaxMoved => user' \in Rows
      BY <1>1, <3>1 DEF Rows
    <3>. QED
      BY <3>1, <3>2, <3>3
  <2>2. CASE ~ChargeUser
    BY <1>1, <2>2 DEF Move, Pull, ChargeAdmin, RecordFails
  <2>. QED
    BY <2>1, <2>2
<1>6. TrafficOK'
  <2>1. CASE Move
    BY <1>1, <2>1 DEF Move, LifeInv, TrafficOK
  <2>2. CASE Pull
    BY <1>1, <2>2 DEF Pull, Kept, LifeInv, TrafficOK
  <2>3. CASE ChargeUser
    <3>1. user'.used = user.used + recorder.value /\ recorder.pc = "users"
          /\ recorder' = [recorder EXCEPT !.pc = "admin"] /\ UNCHANGED <<charged, moved, pending>>
      BY <1>1, <2>3 DEF ChargeUser, Rows
    <3>2. recorder'.pc = "admin" /\ recorder'.value = recorder.value
      BY <1>1, <3>1
    <3>. QED
      BY <1>1, <3>1, <3>2 DEF LifeInv, TrafficOK
  <2>4. CASE ChargeAdmin
    BY <1>1, <2>4 DEF ChargeAdmin, LifeInv, TrafficOK
  <2>5. CASE RecordFails
    BY <1>1, <2>5 DEF RecordFails, LifeInv, TrafficOK
  <2>. QED
    BY <2>1, <2>2, <2>3, <2>4, <2>5
<1>7. UserTypeOK'
  <2>1. /\ user'.used <= MaxMoved /\ charged' <= MaxMoved /\ pending' <= MaxMoved
        /\ recorder'.value <= MaxMoved
    BY <1>1, <1>4, <1>5, <1>6 DEF TrafficOK
  <2>2. user' \in Rows /\ charged' \in 0..MaxMoved /\ pending' \in 0..MaxMoved
        /\ recorder' \in [pc: {"idle", "users", "admin"}, value: 0..MaxMoved]
    BY <1>1, <1>4, <1>5, <2>1
  <2>. QED
    BY <1>1, <1>2, <1>4, <2>2 DEF LifeInv, UserTypeOK
<1>8. ChargedOnce'
  <2>. SUFFICES ASSUME "used" \notin raced PROVE ChargedOnce'
    BY <1>2 DEF ChargedOnce
  <2>1. CASE Move
    BY <1>1, <2>1 DEF Move, LifeInv, ChargedOnce
  <2>2. CASE Pull
    BY <1>1, <2>2 DEF Pull, Kept, LifeInv, ChargedOnce, TrafficOK
  <2>3. CASE ChargeUser
    <3>1. user'.used = user.used + recorder.value /\ recorder.pc = "users" /\ failed' = failed
          /\ recorder' = [recorder EXCEPT !.pc = "admin"] /\ UNCHANGED <<charged, moved, pending>>
      BY <1>1, <2>3 DEF ChargeUser, Rows
    <3>2. recorder'.pc = "admin" /\ recorder'.value = recorder.value
      BY <1>1, <3>1
    <3>. QED
      BY <1>1, <1>2, <3>1, <3>2 DEF LifeInv, ChargedOnce
  <2>4. CASE ChargeAdmin
    BY <1>1, <2>4 DEF ChargeAdmin, LifeInv, ChargedOnce
  <2>5. CASE RecordFails
    BY <1>1, <2>5 DEF RecordFails, LifeInv, ChargedOnce
  <2>. QED
    BY <2>1, <2>2, <2>3, <2>4, <2>5
<1>9. StoppedForReason'
  BY <1>1, <1>2, <1>5 DEF LifeInv, StoppedForReason, Expired, Limited
<1>. QED
  BY <1>3, <1>6, <1>7, <1>8, <1>9 DEF LifeInv

LEMMA LifeInvNext == LifeInv /\ [LifeNext]_lifeVars => LifeInv'
<1>. SUFFICES ASSUME LifeInv, [LifeNext]_lifeVars PROVE LifeInv'
  OBVIOUS
<1>. USE DEF row, usage, hist
<1>0. /\ user \in Rows /\ now \in 0..MaxTime /\ MaxTime \in Nat
      /\ \A w \in Workers : Copy(w) \in Rows
      /\ Review \subseteq Workers /\ Requests \subseteq Workers /\ "reset" \in Workers
      /\ "reset" \notin Review /\ \A r \in Requests : r \notin Review
  BY TypeFacts, LifeAssumption DEF Workers, Review
\* What the steps leave to be shown that change neither the row nor the traffic.
<1>1. ASSUME UNCHANGED <<user, logged, charged, moved, pending, recorder, stale, failed>>,
             raced \subseteq raced', raced' \subseteq {"status", "used"},
             now' = now, events' \in 0..MaxEvents,
             work' \in [Workers -> [pc: {"idle", "update", "refresh", "plan", "reset", "loaded"}, copy: Rows]],
             \A w \in Review : LoadedOK(w)'
      PROVE  LifeInv'
  BY <1>1 DEF LifeInv, UserTypeOK, TrafficOK, ChargedOnce, StoppedForReason, Expired, Limited
<1>2. CASE Move \/ Pull \/ ChargeUser \/ ChargeAdmin \/ RecordFails
  BY <1>2, TrafficStep
<1>3. CASE Tick
  <2>1. now' \in 0..MaxTime /\ now <= now'
        /\ UNCHANGED <<user, logged, charged, moved, pending, recorder, raced, stale, failed, work, events>>
    BY <1>0, <1>3 DEF Tick
  <2>2. \A w \in Review : LoadedOK(w)'
    BY <2>1, SessionsKept
  <2>3. UserTypeOK' /\ TrafficOK' /\ ChargedOnce'
    BY <2>1 DEF LifeInv, UserTypeOK, TrafficOK, ChargedOnce
  <2>4. StoppedForReason'
    <3>1. user.expire \in Int
      BY <1>0, RowType
    <3>. QED
      BY <1>0, <2>1, <3>1 DEF LifeInv, StoppedForReason, Expired, Limited
  <2>. QED
    BY <2>2, <2>3, <2>4 DEF LifeInv
<1>4. ASSUME NEW w \in Review, Select(w) PROVE LifeInv'
  <2>1. /\ Reviewable(w) /\ Load(w, "update") /\ now' = now /\ raced' = raced /\ events' = events
        /\ UNCHANGED <<user, logged, charged, moved, pending, recorder, stale, failed>>
    BY <1>4 DEF Select
  <2>2. LoadedOK(w)'
    <3>1. work'[w] = [pc |-> "update", copy |-> user]
      BY <1>0, <2>1 DEF Load, LifeInv, UserTypeOK
    <3>2. CASE w = "expire"
      BY <2>1, <3>1, <3>2 DEF Reviewable, Expired, LoadedOK, Copy
    <3>3. CASE w = "limit"
      BY <2>1, <3>1, <3>3 DEF Reviewable, Limited, LoadedOK, Copy
    <3>4. CASE w = "hold"
      BY <2>1, <3>1, <3>4 DEF Reviewable, LoadedOK, Copy
    <3>. QED
      BY <3>2, <3>3, <3>4 DEF Review
  <2>3. /\ work' \in [Workers -> [pc: {"idle", "update", "refresh", "plan", "reset", "loaded"}, copy: Rows]]
        /\ \A v \in Review : LoadedOK(v)'
    BY <1>0, <2>1, <2>2, WorkLoaded
  <2>. QED
    BY <1>1, <2>1, <2>3 DEF LifeInv, UserTypeOK
<1>5. ASSUME NEW w \in Review, Refresh(w) PROVE LifeInv'
  <2>1. /\ now' = now /\ events' = events
        /\ UNCHANGED <<user, logged, charged, moved, pending, recorder, stale, failed>>
    BY <1>5 DEF Refresh
  <2>2. raced \subseteq raced' /\ raced' \subseteq {"status", "used"}
    BY <1>5 DEF Refresh, LifeInv, UserTypeOK
  <2>3. /\ work' \in [Workers -> [pc: {"idle", "update", "refresh", "plan", "reset", "loaded"}, copy: Rows]]
        /\ \A v \in Review : LoadedOK(v)'
    <3>1. CASE w # "hold" /\ user.plan # NoPlan
      <4>1. Load(w, "plan") /\ raced' = raced \cup IF user.status = Verdict(w) THEN {} ELSE {"status"}
        BY <1>5, <3>1 DEF Refresh
      <4>2. work'[w] = [pc |-> "plan", copy |-> user]
        BY <1>0, <4>1 DEF Load, LifeInv, UserTypeOK
      <4>3. LoadedOK(w)'
        BY <3>1, <4>1, <4>2 DEF LoadedOK, Copy, Verdict
      <4>. QED
        BY <1>0, <2>1, <2>2, <4>1, <4>3, WorkLoaded
    <3>2. CASE ~(w # "hold" /\ user.plan # NoPlan)
      <4>1. work' = [work EXCEPT ![w] = Idle] /\ [Idle EXCEPT !.pc = "idle"] = Idle
        BY <1>5, <3>2 DEF Refresh, Done, Idle
      <4>. QED
        BY <1>0, <2>1, <2>2, <4>1, WorkDone
    <3>. QED
      BY <3>1, <3>2
  <2>. QED
    BY <1>1, <2>1, <2>2, <2>3 DEF LifeInv, UserTypeOK
<1>6. ASSUME NEW w \in Review, StartPlan(w) PROVE LifeInv'
  <2>1. work[w].pc = "plan" /\ CommitReset(w, Planned(Copy(w)))
    BY <1>6 DEF StartPlan
  <2>2. Copy(w).plan # NoPlan
    BY <2>1 DEF LifeInv, LoadedOK
  <2>3. /\ Planned(Copy(w)) \in Rows /\ Planned(Copy(w)).used = 0
        /\ Planned(Copy(w)).status = "active"
    BY <1>0, <2>2, PlannedRow
  <2>. QED
    BY <1>0, <2>1, <2>3, CommitResetStep
<1>7. ASSUME NEW w \in Workers, CommitReset(w, Reset(Copy(w))) PROVE LifeInv'
  <2>1. /\ Reset(Copy(w)) \in Rows /\ Reset(Copy(w)).used = 0
        /\ Reset(Copy(w)).expire = Copy(w).expire
        /\ Reset(Copy(w)).status = IF Copy(w).status \in {"expired", "disabled"}
                                   THEN Copy(w).status ELSE "active"
    BY <1>0, ResetRow
  <2>. QED
    BY <1>7, <2>1, CommitResetStep
<1>8. CASE SelectReset
  <2>1. /\ Load("reset", "reset") /\ now' = now /\ raced' = raced /\ events' \in 0..MaxEvents
        /\ UNCHANGED <<user, logged, charged, moved, pending, recorder, stale, failed>>
    BY <1>8, LifeAssumption DEF SelectReset, Event, LifeInv, UserTypeOK
  <2>2. /\ work' \in [Workers -> [pc: {"idle", "update", "refresh", "plan", "reset", "loaded"}, copy: Rows]]
        /\ \A v \in Review : LoadedOK(v)'
    BY <1>0, <2>1, WorkLoaded
  <2>. QED
    BY <1>1, <2>1, <2>2 DEF LifeInv, UserTypeOK
<1>9. ASSUME NEW r \in Requests, LoadUser(r) PROVE LifeInv'
  <2>1. /\ Load(r, "loaded") /\ now' = now /\ raced' = raced /\ events' \in 0..MaxEvents
        /\ UNCHANGED <<user, logged, charged, moved, pending, recorder, stale, failed>>
    BY <1>9, LifeAssumption DEF LoadUser, Event, LifeInv, UserTypeOK
  <2>2. /\ work' \in [Workers -> [pc: {"idle", "update", "refresh", "plan", "reset", "loaded"}, copy: Rows]]
        /\ \A v \in Review : LoadedOK(v)'
    BY <1>0, <2>1, WorkLoaded
  <2>. QED
    BY <1>1, <2>1, <2>2 DEF LifeInv, UserTypeOK
<1>10. ASSUME NEW r \in Requests, Request(r) PROVE LifeInv'
  <2>1. CASE \E e \in Edits : Modify(r, e)
    BY <2>1, ModifyStep
  <2>2. CASE ResetByAdmin(r)
    BY <1>0, <1>7, <2>2 DEF ResetByAdmin
  <2>3. CASE ActivatePlan(r)
    <3>1. Copy(r).plan # NoPlan /\ CommitReset(r, Planned(Copy(r)))
      BY <2>3 DEF ActivatePlan
    <3>2. /\ Planned(Copy(r)) \in Rows /\ Planned(Copy(r)).used = 0
          /\ Planned(Copy(r)).status = "active"
      BY <1>0, <3>1, PlannedRow
    <3>. QED
      BY <1>0, <3>1, <3>2, CommitResetStep
  <2>. QED
    BY <1>10, <2>1, <2>2, <2>3 DEF Request
<1>11. CASE UNCHANGED lifeVars
  BY <1>11 DEF lifeVars, LifeInv, UserTypeOK, TrafficOK, ChargedOnce, StoppedForReason,
               Expired, Limited, LoadedOK, Copy
<1>. QED
  BY <1>0, <1>2, <1>3, <1>4, <1>5, <1>6, <1>7, <1>8, <1>9, <1>10, <1>11, UpdateStatusStep
     DEF LifeNext, Job, ResetUsage

LEMMA LifeInvInit == LifeInit => LifeInv
<1>. SUFFICES ASSUME LifeInit PROVE LifeInv
  OBVIOUS
<1>1. /\ user \in Rows /\ user.used = 0 /\ user.status \in {"active", "on_hold"}
  <2>1. /\ user \in [status: {"active", "on_hold"}, used: {0}, limit: Limits, expire: 0..1,
                     seen: {FALSE}, plan: Plans \cup {NoPlan}]
    BY LifeAssumption DEF LifeInit
  <2>2. Limits \subseteq Nat /\ MaxMoved \in Nat /\ MaxTime \in Nat
    BY LifeAssumption
  <2>3. Limits \subseteq Int /\ 0 \in 0..MaxMoved /\ 0..1 \subseteq 0..MaxTime + 1
    BY <2>2
  <2>. QED
    BY <2>1, <2>3 DEF Rows
<1>2. /\ logged = 0 /\ charged = 0 /\ moved = 0 /\ pending = 0 /\ now = 0 /\ events = 0
      /\ recorder = [pc |-> "idle", value |-> 0] /\ raced = {} /\ stale = FALSE /\ failed = FALSE
      /\ MaxMoved \in Nat /\ MaxTime \in Nat /\ MaxEvents \in Nat
      /\ \A w \in Workers : work[w] = Idle
  BY LifeAssumption DEF LifeInit
<1>3. work \in [Workers -> [pc: {"idle", "update", "refresh", "plan", "reset", "loaded"}, copy: Rows]]
  BY IdleType DEF LifeInit
<1>4. UserTypeOK
  <2>1. recorder \in [pc: {"idle", "users", "admin"}, value: 0..MaxMoved]
    BY <1>2
  <2>2. logged \in Nat /\ charged \in 0..MaxMoved /\ moved \in 0..MaxMoved
        /\ pending \in 0..MaxMoved /\ now \in 0..MaxTime /\ events \in 0..MaxEvents
    BY <1>2
  <2>3. raced \subseteq {"status", "used"} /\ stale \in BOOLEAN /\ failed \in BOOLEAN
    BY <1>2
  <2>. QED
    BY <1>1, <1>3, <2>1, <2>2, <2>3 DEF UserTypeOK
<1>5. TrafficOK /\ ChargedOnce
  BY <1>1, <1>2 DEF TrafficOK, ChargedOnce
<1>6. StoppedForReason /\ \A w \in Review : LoadedOK(w)
  BY <1>1, <1>2, IdleType DEF StoppedForReason, LoadedOK, Workers
<1>. QED
  BY <1>4, <1>5, <1>6 DEF LifeInv

LEMMA LifeInvAlways == LifeSpec => []LifeInv
BY LifeInvInit, LifeInvNext, PTL DEF LifeSpec

(* Type correctness; in particular the usage of a user is never more than  *)
(* what was moved, however resets and recordings cross.                    *)
THEOREM UserTypeCorrect == LifeSpec => []UserTypeOK
<1>1. LifeInv => UserTypeOK
  BY DEF LifeInv
<1>. QED
  BY <1>1, LifeInvAlways, PTL

(* Reported traffic is charged once to the user, over all resets, and once *)
(* to its administrator, for any traffic, any number of requests and any   *)
(* interleaving of recording, reviews, resets and edits: unless two of     *)
(* them wrote the usage over each other, nothing is charged twice, and     *)
(* only failures lose any.                                                 *)
THEOREM TrafficChargedOnce == LifeSpec => []ChargedOnce
<1>1. LifeInv => ChargedOnce
  BY DEF LifeInv
<1>. QED
  BY <1>1, LifeInvAlways, PTL

(* A limited user has a limit that is used up and an expired one is past   *)
(* its time, through all edits, plans and reviews, unless a status was     *)
(* written on a row that had changed.                                      *)
THEOREM UserStoppedForReason == LifeSpec => []StoppedForReason
<1>1. LifeInv => StoppedForReason
  BY DEF LifeInv
<1>. QED
  BY <1>1, LifeInvAlways, PTL

\* Whoever resets a disabled user without having seen it active again wrote over
\* the disabling, or leaves it.
LEMMA ResetKeepsDisabled ==
  ASSUME LifeInv, NEW w \in Workers, NEW new \in Rows, CommitReset(w, new),
         user.status = "disabled", "status" \notin raced',
         Copy(w).status = "disabled" => new.status = "disabled"
  PROVE  user'.status = "disabled"
<1>1. user' = Merged(w, new) /\ Overwrite(w, Changed(w, new))
  BY DEF CommitReset, Commit
<1>2. Merged(w, new).status = IF new.status = Copy(w).status THEN user.status ELSE new.status
  BY TypeFacts, MergedRow DEF Columns
<1>3. new.status # Copy(w).status => "status" \in Changed(w, new)
  BY RowType DEF Changed, Columns
<1>4. new.status # Copy(w).status => user.status = Copy(w).status
  BY <1>1, <1>3 DEF Overwrite
<1>. QED
  BY <1>1, <1>2, <1>4

(* Nobody but an administrator who asks for a status or for the next plan  *)
(* brings a disabled user back, unless someone who had not seen the        *)
(* disabling wrote over it, or it fell between a review and its plan.      *)
THEOREM DisabledUserStays == LifeSpec => DisabledUntilEnabled
<1>1. ASSUME LifeInv, [LifeNext]_lifeVars, user.status = "disabled", user'.status # "disabled",
             "status" \notin raced'
      PROVE  \E r \in Requests : \/ ActivatePlan(r)
                                 \/ \E e \in Edits : e.status # "same" /\ Modify(r, e)
  <2>0. /\ user \in Rows /\ \A w \in Workers : Copy(w) \in Rows
        /\ Review \subseteq Workers /\ Requests \subseteq Workers /\ "reset" \in Workers
        /\ now \in 0..MaxTime
    BY <1>1, TypeFacts DEF Workers
  <2>1. CASE user' = user
    BY <1>1, <2>1
  <2>2. CASE ChargeUser
    BY <1>1, <2>0, <2>2 DEF ChargeUser, Rows
  <2>3. ASSUME NEW w \in Review, UpdateStatus(w) PROVE FALSE
    <3>1. /\ Overwrite(w, IF w = "hold" THEN {"status", "expire"} ELSE {"status"})
          /\ work[w].pc = "update"
      BY <2>3 DEF UpdateStatus
    <3>2. user.status = Copy(w).status
      BY <1>1, <3>1 DEF Overwrite
    <3>3. Copy(w).status # "disabled"
      BY <1>1, <3>1 DEF LifeInv, LoadedOK, Review
    <3>. QED
      BY <1>1, <3>2, <3>3
  <2>4. ASSUME NEW w \in Review, StartPlan(w) PROVE FALSE
    <3>1. CommitReset(w, Planned(Copy(w))) /\ work[w].pc = "plan"
      BY <2>4 DEF StartPlan
    <3>2. raced \subseteq raced'
      BY <3>1 DEF CommitReset, Commit, Overwrite
    <3>3. Copy(w).plan # NoPlan /\ Copy(w).status # "disabled"
      BY <1>1, <3>1, <3>2 DEF LifeInv, LoadedOK
    <3>4. Planned(Copy(w)) \in Rows
      BY <2>0, <3>3, PlannedRow
    <3>. QED
      BY <1>1, <2>0, <3>1, <3>3, <3>4, ResetKeepsDisabled
  <2>5. ASSUME NEW w \in Workers, CommitReset(w, Reset(Copy(w))) PROVE FALSE
    <3>1. /\ Reset(Copy(w)) \in Rows
          /\ Copy(w).status = "disabled" => Reset(Copy(w)).status = "disabled"
      BY <2>0, ResetRow
    <3>. QED
      BY <1>1, <2>5, <3>1, ResetKeepsDisabled
  <2>6. ASSUME NEW r \in Requests, NEW e \in Edits, Modify(r, e) PROVE e.status # "same"
    <3>. SUFFICES ASSUME e.status = "same" PROVE FALSE
      OBVIOUS
    <3>. DEFINE new == Modified(Copy(r), e)
    <3>1. /\ user' = [Merged(r, new) EXCEPT !.seen = FALSE] /\ Overwrite(r, Changed(r, new))
      BY <2>6 DEF Modify
    <3>2. /\ new \in Rows
          /\ Copy(r).status = "disabled" => new.status = "disabled"
      BY <2>0, ModifiedRow
    <3>. HIDE DEF new
    <3>3. /\ Merged(r, new) \in Rows
          /\ Merged(r, new).status = IF new.status = Copy(r).status THEN user.status ELSE new.status
      BY <2>0, <3>2, MergedRow DEF Columns
    <3>4. user'.status = Merged(r, new).status
      BY <3>1, <3>3 DEF Rows
    <3>5. new.status # Copy(r).status => user.status = Copy(r).status
      <4>1. new.status # Copy(r).status => "status" \in Changed(r, new)
        BY <3>2, RowType DEF Changed, Columns
      <4>. QED
        BY <1>1, <3>1, <4>1 DEF Overwrite
    <3>. QED
      BY <1>1, <3>2, <3>3, <3>4, <3>5
  <2>. QED
    BY <1>1, <2>0, <2>1, <2>2, <2>3, <2>4, <2>5, <2>6 DEF LifeNext, lifeVars, row, Move, Pull,
       ChargeAdmin, RecordFails, Tick, Job, Select, Refresh, SelectReset, ResetUsage, LoadUser,
       Request, ResetByAdmin
<1>2. LifeInv /\ [LifeNext]_lifeVars
        => [user.status = "disabled" /\ user.status' # "disabled" /\ "status" \notin raced'
              => \E r \in Requests : \/ ActivatePlan(r)
                                     \/ \E e \in Edits : e.status # "same" /\ Modify(r, e)]_lifeVars
  BY <1>1
<1>. QED
  BY <1>2, LifeInvAlways, PTL DEF LifeSpec, DisabledUntilEnabled

=============================================================================
