------------------------- MODULE StatsTrackerProofs -------------------------
(***************************************************************************)
(* Proofs about the two trackers of the WireGuard backend, for any traffic *)
(* and any number of keys and handlers.  Of StatsTracker: type             *)
(* correctness, NoOvercount and AccountedNeverLost.  Of InterfaceCounters: *)
(* type correctness and InterfaceTrafficOnce.                              *)
(***************************************************************************)
EXTENDS StatsTracker, InterfaceCounters, TLAPS

\* By how much a counter is ahead of what an entry has seen of it.
Ahead(a, b) == IF a > b THEN a - b ELSE 0
Cur(k, d) == IF stats[k] = None THEN 0 ELSE stats[k].cur[d]
Moved(k, d) == IF kernel[k] = None THEN 0 ELSE kernel[k][d]
Accounted(k, d) == reported[k][d] + Pending(stats[k])[d]

\* Pending deltas are not negative, and the delta remembered by RemoveStats is
\* the pending one.
EntryOK(e) ==
  /\ \A d \in Dirs : e.base[d] <= e.cur[d]
  /\ e.lastDelta = Zero \/ (e.isDeleted /\ e.lastDelta = Pending(e))

\* A sync only retires keys it has taken off the device.
SyncOK ==
  /\ sync.pc = "store" => \A k \in Keys \ sync.target : kernel[k] = None
  /\ sync.pc = "stats" => \A k \in sync.due : kernel[k] = None

\* The accounted bytes and those the device has counted since the last sample
\* are bytes the key moved ...
DeviceOK(k, d) ==
  /\ Accounted(k, d) <= traffic[k][d]
  /\ Accounted(k, d) + Ahead(Moved(k, d), Cur(k, d)) <= traffic[k][d]

\* ... and once the entry is retired, so are all the device counts from then on.
RetiredOK(k, d) ==
  stats[k] # None /\ stats[k].isDeleted => Accounted(k, d) + Moved(k, d) <= traffic[k][d]

\* The same for the sample in flight and what the device counted after it.
SampleOK(k, d) ==
  job.device[k] # None =>
    /\ ~(stats[k] = None /\ k \in job.retired) =>
         Accounted(k, d) + Ahead(job.device[k][d], Cur(k, d))
           + Ahead(Moved(k, d), job.device[k][d]) <= traffic[k][d]
    /\ stats[k] # None /\ stats[k].isDeleted /\ k \notin job.retired =>
         Accounted(k, d) + job.device[k][d] + Ahead(Moved(k, d), job.device[k][d])
           <= traffic[k][d]

KeyOK(k, d) == DeviceOK(k, d) /\ RetiredOK(k, d) /\ SampleOK(k, d)

EntriesOK == \A k \in Keys : stats[k] # None => EntryOK(stats[k])

\* Between two updates no sample is in flight.
JobOK == job.pc = "idle" => \A k \in Keys : job.device[k] = None

\* The inductive invariant.
IInv ==
  /\ TypeOK
  /\ EntriesOK
  /\ SyncOK
  /\ JobOK
  /\ \A k \in Keys \ recreated, d \in Dirs : KeyOK(k, d)

-----------------------------------------------------------------------------
(* The operations on one entry.                                            *)

LEMMA PendingType ==
  ASSUME NEW e \in Entry \cup {None}, e # None => EntryOK(e)
  PROVE  Pending(e) \in Counters /\ ReportOf(e) = Pending(e)
<1>1. CASE e = None
  BY <1>1 DEF Pending, ReportOf, NonNegative, Zero, Counters
<1>2. CASE e # None
  <2>1. e \in Entry /\ \A d \in Dirs : e.base[d] <= e.cur[d]
    BY <1>2 DEF EntryOK
  <2>2. Pending(e) = [d \in Dirs |-> e.cur[d] - e.base[d]]
    BY <1>2 DEF Pending, Minus
  <2>3. \A d \in Dirs : Pending(e)[d] \in Nat
    BY <2>1, <2>2 DEF Entry, Counters
  <2>. QED
    BY <2>2, <2>3 DEF ReportOf, NonNegative, Counters
<1>. QED
  BY <1>1, <1>2

\* applySampleLocked never lowers the pending delta and raises it at most by
\* what the sample is ahead of the last one.
LEMMA SampleStep ==
  ASSUME NEW e \in Entry \cup {None}, e # None => EntryOK(e), NEW s \in Counters
  PROVE  LET r == ApplySample(e, s) IN
         /\ r \in Entry /\ EntryOK(r) /\ r.cur = s /\ ~r.isDeleted
         /\ \A d \in Dirs :
              /\ Pending(r)[d] >= Pending(e)[d]
              /\ Pending(r)[d] <= Pending(e)[d]
                                    + Ahead(s[d], IF e = None THEN 0 ELSE e.cur[d])
<1>. DEFINE old == IF e = None THEN NewEntry ELSE e
            r == ApplySample(e, s)
            rollback == \E d \in Dirs : s[d] < old.cur[d]
<1>1. /\ old \in Entry /\ EntryOK(old) /\ Pending(old) = Pending(e)
      /\ \A d \in Dirs : old.cur[d] = IF e = None THEN 0 ELSE e.cur[d]
  <2>1. CASE e = None
    <3>1. NewEntry \in Entry
      BY DEF NewEntry, Entry, Counters, Zero
    <3>2. Pending(NewEntry) = Zero
      BY <3>1, NoneAssumption DEF Pending, Minus, NewEntry, Zero
    <3>3. EntryOK(NewEntry) /\ \A d \in Dirs : NewEntry.cur[d] = 0
      BY DEF EntryOK, NewEntry, Zero
    <3>. QED
      BY <2>1, <3>1, <3>2, <3>3 DEF Pending
  <2>2. CASE e # None
    BY <2>2
  <2>. QED
    BY <2>1, <2>2
<1>2. Pending(old) \in Counters /\ ReportOf(old) = Pending(old)
  BY <1>1, PendingType
<1>3. PICK b \in [Dirs -> Int] :
        /\ r = [cur |-> s, base |-> b, lastDelta |-> Zero, isDeleted |-> FALSE]
        /\ \/ b = Minus(s, Pending(old))
           \/ b = old.base /\ ~rollback
  <2>1. CASE old.lastDelta # Zero
    <3>1. old.lastDelta = Pending(old)
      BY <1>1, <2>1 DEF EntryOK
    <3>2. Minus(s, Pending(old)) \in [Dirs -> Int]
      BY <1>2 DEF Minus, Counters
    <3>3. r = [cur |-> s, base |-> Minus(s, Pending(old)), lastDelta |-> Zero, isDeleted |-> FALSE]
      BY <2>1, <3>1 DEF ApplySample
    <3>. QED
      BY <3>2, <3>3
  <2>2. CASE old.lastDelta = Zero /\ rollback
    <3>1. Minus(s, Pending(old)) \in [Dirs -> Int]
      BY <1>2 DEF Minus, Counters
    <3>2. r = [cur |-> s, base |-> Minus(s, Pending(old)), lastDelta |-> Zero, isDeleted |-> FALSE]
      BY <1>2, <2>2 DEF ApplySample
    <3>. QED
      BY <3>1, <3>2
  <2>3. CASE old.lastDelta = Zero /\ ~rollback
    <3>1. old.base \in [Dirs -> Int]
      BY <1>1 DEF Entry
    <3>2. r = [cur |-> s, base |-> old.base, lastDelta |-> Zero, isDeleted |-> FALSE]
      BY <2>3 DEF ApplySample
    <3>. QED
      BY <2>3, <3>1, <3>2
  <2>. QED
    BY <2>1, <2>2, <2>3
<1>4. r \in Entry /\ r.cur = s /\ ~r.isDeleted /\ r.lastDelta = Zero /\ r.base = b
  BY <1>3 DEF Entry, Counters, Zero
<1>. HIDE DEF r, old
<1>5. Pending(r) = [d \in Dirs |-> s[d] - b[d]]
  BY <1>4, NoneAssumption DEF Pending, Minus
<1>6. Pending(old) = [d \in Dirs |-> old.cur[d] - old.base[d]]
  BY <1>1, NoneAssumption DEF Pending, Minus
<1>7. ASSUME NEW d \in Dirs
      PROVE  /\ b[d] <= s[d]
             /\ Pending(r)[d] >= Pending(old)[d]
             /\ Pending(r)[d] <= Pending(old)[d] + Ahead(s[d], old.cur[d])
  <2>1. /\ s[d] \in Nat /\ b[d] \in Int /\ Pending(old)[d] \in Nat /\ old.cur[d] \in Nat
        /\ old.base[d] \in Int
    BY <1>1, <1>2, <1>3 DEF Entry, Counters
  <2>2. CASE b = Minus(s, Pending(old))
    <3>1. b[d] = s[d] - Pending(old)[d]
      BY <2>2 DEF Minus
    <3>. QED
      BY <1>5, <2>1, <3>1 DEF Ahead
  <2>3. CASE b = old.base /\ ~rollback
    <3>1. s[d] >= old.cur[d] /\ Pending(old)[d] = old.cur[d] - old.base[d]
      BY <1>6, <2>1, <2>3
    <3>2. Pending(r)[d] = s[d] - old.base[d]
      BY <1>5, <2>3
    <3>. QED
      BY <2>1, <2>3, <3>1, <3>2 DEF Ahead
  <2>. QED
    BY <1>3, <2>2, <2>3
<1>8. EntryOK(r)
  BY <1>4, <1>7 DEF EntryOK
<1>. QED
  BY <1>1, <1>4, <1>7, <1>8 DEF r

LEMMA RetireStep ==
  ASSUME NEW e \in Entry, EntryOK(e)
  PROVE  LET r == Retire(e) IN
         /\ r \in Entry /\ EntryOK(r) /\ r.cur = e.cur /\ r.isDeleted
         /\ Pending(r) = Pending(e)
<1>1. Pending(e) \in Counters
  BY PendingType
<1>2. e.cur \in Counters /\ e.base \in [Dirs -> Int]
  BY DEF Entry
<1>3. /\ Retire(e) \in Entry /\ Retire(e).cur = e.cur /\ Retire(e).base = e.base
      /\ Retire(e).isDeleted /\ Retire(e).lastDelta = Pending(e)
  BY <1>1 DEF Retire, Entry
<1>4. Pending(Retire(e)) = Pending(e)
  BY <1>3, NoneAssumption DEF Pending
<1>. QED
  BY <1>3, <1>4 DEF EntryOK

LEMMA ResetStep ==
  ASSUME NEW e \in Entry \cup {None}, e # None => EntryOK(e)
  PROVE  LET r == ResetEntry(e) IN
         /\ r \in Entry \cup {None}
         /\ Pending(r) = Zero
         /\ r = None <=> e = None \/ e.isDeleted
         /\ r # None => EntryOK(r) /\ r.cur = e.cur /\ ~r.isDeleted
<1>1. CASE e = None \/ e.isDeleted
  BY <1>1 DEF ResetEntry, Pending
<1>2. CASE ~(e = None \/ e.isDeleted)
  <2>. DEFINE r == ResetEntry(e)
  <2>1. r = [e EXCEPT !.base = e.cur] /\ e \in Entry
    BY <1>2 DEF ResetEntry
  <2>2. r \in Entry /\ r.cur = e.cur /\ r.base = e.cur /\ ~r.isDeleted /\ r.lastDelta = e.lastDelta
    BY <1>2, <2>1 DEF Entry, Counters
  <2>3. e.cur \in Counters /\ e.lastDelta = Zero
    BY <1>2, <2>1 DEF Entry, EntryOK
  <2>. HIDE DEF r
  <2>4. Pending(r) = Zero
    BY <2>2, <2>3, NoneAssumption DEF Pending, Minus, Zero, Counters
  <2>5. EntryOK(r)
    BY <2>2, <2>3 DEF EntryOK, Counters
  <2>. QED
    BY <1>2, <2>2, <2>4, <2>5, NoneAssumption DEF r
<1>. QED
  BY <1>1, <1>2

-----------------------------------------------------------------------------
(* What the steps do to the accounts of one key.                           *)

LEMMA Numbers ==
  ASSUME IInv, NEW k \in Keys, NEW d \in Dirs
  PROVE  /\ reported[k][d] \in Nat /\ traffic[k][d] \in Nat
         /\ Pending(stats[k])[d] \in Nat /\ Accounted(k, d) \in Nat
         /\ Moved(k, d) \in Nat /\ Cur(k, d) \in Nat
         /\ job.device[k] # None => job.device[k][d] \in Nat
<1>1. stats[k] \in Entry \cup {None} /\ (stats[k] # None => EntryOK(stats[k]))
  BY DEF IInv, TypeOK, EntriesOK
<1>2. Pending(stats[k]) \in Counters
  BY <1>1, PendingType
<1>3. Pending(stats[k])[d] \in Nat /\ reported[k][d] \in Nat /\ traffic[k][d] \in Nat
  BY <1>2 DEF IInv, TypeOK, Counters
<1>4. Moved(k, d) \in Nat
  BY DEF IInv, TypeOK, Counters, Moved
<1>5. Cur(k, d) \in Nat
  BY <1>1 DEF Entry, Counters, Cur
<1>6. job.device[k] # None => job.device[k][d] \in Nat
  BY DEF IInv, TypeOK, Counters
<1>. QED
  BY <1>3, <1>4, <1>5, <1>6 DEF Accounted

\* The device counts no more than the key moves.
LEMMA DeviceStep ==
  ASSUME IInv, NEW k \in Keys, NEW d \in Dirs, KeyOK(k, d),
         UNCHANGED <<stats, reported, job>>,
         Moved(k, d)' \in Nat, traffic'[k][d] \in Nat, traffic[k][d] <= traffic'[k][d],
         Moved(k, d)' <= Moved(k, d) + (traffic'[k][d] - traffic[k][d])
  PROVE  KeyOK(k, d)'
<1>1. Accounted(k, d)' = Accounted(k, d) /\ Cur(k, d)' = Cur(k, d)
  BY DEF Accounted, Cur
<1>2. DeviceOK(k, d)'
  BY <1>1, Numbers DEF KeyOK, DeviceOK, Ahead
<1>3. RetiredOK(k, d)'
  BY <1>1, Numbers DEF KeyOK, RetiredOK
<1>4. SampleOK(k, d)'
  BY <1>1, Numbers DEF KeyOK, SampleOK, Ahead
<1>. QED
  BY <1>2, <1>3, <1>4 DEF KeyOK

\* An entry is kept with its last sample, or dropped once retired; what is
\* accounted stays the same.
LEMMA EntryStep ==
  ASSUME IInv, NEW k \in Keys, NEW d \in Dirs, KeyOK(k, d),
         UNCHANGED <<kernel, traffic, job>>,
         Accounted(k, d)' = Accounted(k, d),
         \/ /\ stats[k] # None /\ stats'[k] # None /\ stats'[k].cur = stats[k].cur
            /\ stats'[k].isDeleted => stats[k].isDeleted
         \/ /\ stats[k] = None \/ stats[k].isDeleted
            /\ stats'[k] = None
  PROVE  KeyOK(k, d)'
<1>1. Moved(k, d)' = Moved(k, d)
  BY DEF Moved
<1>2. CASE stats[k] # None /\ stats'[k] # None /\ stats'[k].cur = stats[k].cur
           /\ (stats'[k].isDeleted => stats[k].isDeleted)
  <2>1. Cur(k, d)' = Cur(k, d)
    BY <1>2 DEF Cur
  <2>. QED
    BY <1>1, <1>2, <2>1, Numbers DEF KeyOK, DeviceOK, RetiredOK, SampleOK
<1>3. CASE (stats[k] = None \/ stats[k].isDeleted) /\ stats'[k] = None
  <2>1. Cur(k, d)' = 0
    BY <1>3 DEF Cur
  <2>2. Accounted(k, d) + Moved(k, d) <= traffic[k][d]
    <3>1. CASE stats[k] = None
      <4>1. Cur(k, d) = 0
        BY <3>1 DEF Cur
      <4>. QED
        BY <4>1, Numbers DEF KeyOK, DeviceOK, Ahead
    <3>2. CASE stats[k] # None
      BY <1>3, <3>2 DEF KeyOK, RetiredOK
    <3>. QED
      BY <3>1, <3>2
  <2>3. DeviceOK(k, d)'
    BY <1>1, <2>1, <2>2, Numbers DEF KeyOK, DeviceOK, Ahead
  <2>4. RetiredOK(k, d)'
    BY <1>3 DEF RetiredOK
  <2>5. SampleOK(k, d)'
    <3>1. CASE stats[k] = None
      <4>1. Cur(k, d) = 0
        BY <3>1 DEF Cur
      <4>. QED
        BY <1>1, <1>3, <2>1, <3>1, <4>1, Numbers DEF KeyOK, SampleOK
    <3>2. CASE stats[k] # None
      BY <1>1, <1>3, <2>1, <3>2, Numbers DEF KeyOK, SampleOK, Ahead
    <3>. QED
      BY <3>1, <3>2
  <2>. QED
    BY <2>3, <2>4, <2>5 DEF KeyOK
<1>. QED
  BY <1>2, <1>3

-----------------------------------------------------------------------------
(* Every step preserves the inductive invariant.                           *)

LEMMA TrafficStep ==
  ASSUME IInv, NEW j \in Keys, NEW b \in Dirs, Traffic(j, b) PROVE IInv'
<1>. USE DEF tracker
<1>1. kernel[j] \in Counters /\ traffic \in [Keys -> Counters] /\ kernel \in [Keys -> Counters \cup {None}]
  BY DEF IInv, TypeOK, Traffic
<1>2. TypeOK'
  <2>1. [kernel[j] EXCEPT ![b] = @ + 1] \in Counters /\ [traffic[j] EXCEPT ![b] = @ + 1] \in Counters
    BY <1>1 DEF Counters
  <2>. QED
    BY <2>1 DEF Traffic, IInv, TypeOK
<1>3. EntriesOK' /\ SyncOK' /\ JobOK'
  BY <1>1 DEF Traffic, IInv, EntriesOK, SyncOK, JobOK
<1>4. ASSUME NEW k \in Keys \ recreated, NEW d \in Dirs PROVE KeyOK(k, d)'
  <2>1. KeyOK(k, d) /\ UNCHANGED <<stats, reported, job>>
    BY DEF IInv, Traffic
  <2>2. \/ traffic'[k][d] = traffic[k][d] /\ Moved(k, d)' = Moved(k, d)
        \/ traffic'[k][d] = traffic[k][d] + 1 /\ Moved(k, d)' = Moved(k, d) + 1
    <3>1. CASE k = j /\ d = b
      BY <1>1, <3>1, NoneAssumption DEF Traffic, Moved, Counters
    <3>2. CASE k = j /\ d # b
      BY <1>1, <3>2, NoneAssumption DEF Traffic, Moved, Counters
    <3>3. CASE k # j
      BY <1>1, <3>3 DEF Traffic, Moved
    <3>. QED
      BY <3>1, <3>2, <3>3
  <2>. QED
    BY <2>1, <2>2, DeviceStep, Numbers
<1>. QED
  BY <1>2, <1>3, <1>4 DEF Traffic, IInv

LEMMA SyncDeviceStep ==
  ASSUME IInv, NEW target \in SUBSET Keys, NEW replace \in BOOLEAN, SyncDevice(target, replace)
  PROVE  IInv'
<1>. USE DEF tracker
<1>1. TypeOK'
  BY DEF SyncDevice, IInv, TypeOK, NoSync, Counters, Zero
<1>2. EntriesOK' /\ SyncOK' /\ JobOK'
  BY DEF SyncDevice, IInv, EntriesOK, SyncOK, JobOK, NoSync
<1>3. ASSUME NEW k \in Keys \ recreated, NEW d \in Dirs PROVE KeyOK(k, d)'
  <2>1. KeyOK(k, d) /\ UNCHANGED <<stats, reported, job, traffic>>
    BY DEF IInv, SyncDevice
  <2>2. Moved(k, d)' = Moved(k, d) \/ Moved(k, d)' = 0
    BY DEF SyncDevice, Moved, Zero
  <2>. QED
    BY <2>1, <2>2, DeviceStep, Numbers
<1>. QED
  BY <1>1, <1>2, <1>3 DEF SyncDevice, IInv

LEMMA SyncStoreStep == ASSUME IInv, SyncStore PROVE IInv'
<1>. USE DEF tracker
<1>1. TypeOK'
  BY DEF SyncStore, IInv, TypeOK, NoSync
<1>2. EntriesOK' /\ SyncOK' /\ JobOK'
  BY DEF SyncStore, IInv, TypeOK, EntriesOK, SyncOK, JobOK, NoSync
<1>3. ASSUME NEW k \in Keys \ recreated, NEW d \in Dirs PROVE KeyOK(k, d)'
  BY DEF SyncStore, IInv, KeyOK, DeviceOK, RetiredOK, SampleOK, Accounted, Moved, Cur
<1>. QED
  BY <1>1, <1>2, <1>3 DEF SyncStore, IInv

LEMMA RemoveStatsStep == ASSUME IInv, NEW j \in Keys, RemoveStats(j) PROVE IInv'
<1>1. /\ stats[j] \in Entry \cup {None} /\ (stats[j] # None => EntryOK(stats[j]))
      /\ stats \in [Keys -> Entry \cup {None}] /\ kernel[j] = None
  BY DEF IInv, TypeOK, EntriesOK, SyncOK, RemoveStats
<1>2. stats[j] # None =>
        LET r == Retire(stats[j]) IN
        /\ stats' = [stats EXCEPT ![j] = r] /\ r \in Entry /\ EntryOK(r)
        /\ r.cur = stats[j].cur /\ r.isDeleted /\ Pending(r) = Pending(stats[j])
  BY <1>1, RetireStep DEF RemoveStats
<1>3. stats[j] = None => stats' = stats
  BY DEF RemoveStats
<1>4. TypeOK'
  <2>1. stats' \in [Keys -> Entry \cup {None}]
    BY <1>1, <1>2, <1>3
  <2>. QED
    BY <2>1 DEF RemoveStats, IInv, TypeOK, NoSync
<1>5. EntriesOK' /\ SyncOK' /\ JobOK'
  <2>1. EntriesOK'
    BY <1>1, <1>2, <1>3 DEF IInv, EntriesOK
  <2>2. SyncOK' /\ JobOK'
    BY DEF RemoveStats, IInv, TypeOK, SyncOK, JobOK, NoSync
  <2>. QED
    BY <2>1, <2>2
<1>6. ASSUME NEW k \in Keys \ recreated, NEW d \in Dirs PROVE KeyOK(k, d)'
  <2>1. /\ KeyOK(k, d) /\ UNCHANGED <<kernel, traffic, reported>>
        /\ job'.device = job.device
        /\ job'.retired \in {job.retired, job.retired \cup {j}}
        /\ job.pc # "idle" => job'.retired = job.retired \cup {j}
    BY DEF IInv, TypeOK, RemoveStats
  <2>2. /\ Accounted(k, d)' = Accounted(k, d) /\ Cur(k, d)' = Cur(k, d)
        /\ Moved(k, d)' = Moved(k, d) /\ (stats'[k] = None <=> stats[k] = None)
    BY <1>1, <1>2, <1>3, <2>1, NoneAssumption DEF Accounted, Cur, Moved
  <2>3. CASE k # j
    <3>1. stats'[k] = stats[k] /\ (k \in job'.retired <=> k \in job.retired)
      BY <1>1, <1>2, <1>3, <2>1, <2>3
    <3>. QED
      BY <2>1, <2>2, <3>1 DEF KeyOK, DeviceOK, RetiredOK, SampleOK
  <2>4. CASE k = j
    <3>1. Moved(k, d) = 0
      BY <1>1, <2>4 DEF Moved
    <3>2. DeviceOK(k, d)' /\ RetiredOK(k, d)'
      BY <2>1, <2>2, <3>1, Numbers DEF KeyOK, DeviceOK, RetiredOK
    <3>3. job.device[k] # None => k \in job'.retired
      BY <2>1, <2>4 DEF IInv, JobOK
    <3>4. SampleOK(k, d)'
      BY <2>1, <2>2, <3>3 DEF KeyOK, SampleOK
    <3>. QED
      BY <3>2, <3>4 DEF KeyOK
  <2>. QED
    BY <2>3, <2>4
<1>. QED
  BY <1>4, <1>5, <1>6 DEF RemoveStats, IInv

LEMMA ReadDeviceStep == ASSUME IInv, ReadDevice PROVE IInv'
<1>. USE DEF tracker
<1>1. TypeOK'
  BY DEF ReadDevice, IInv, TypeOK, NoJob
<1>2. EntriesOK' /\ SyncOK' /\ JobOK'
  BY DEF ReadDevice, IInv, EntriesOK, SyncOK, JobOK, NoJob
<1>3. ASSUME NEW k \in Keys \ recreated, NEW d \in Dirs PROVE KeyOK(k, d)'
  <2>1. /\ KeyOK(k, d) /\ UNCHANGED <<kernel, traffic, reported, stats>>
        /\ job'.device = kernel /\ job'.retired = {}
    BY DEF IInv, ReadDevice, NoJob
  <2>2. /\ Accounted(k, d)' = Accounted(k, d) /\ Cur(k, d)' = Cur(k, d)
        /\ Moved(k, d)' = Moved(k, d)
    BY <2>1 DEF Accounted, Cur, Moved
  <2>3. DeviceOK(k, d)' /\ RetiredOK(k, d)'
    BY <2>1, <2>2 DEF KeyOK, DeviceOK, RetiredOK
  <2>4. kernel[k] # None => kernel[k][d] = Moved(k, d)
    BY DEF Moved
  <2>5. SampleOK(k, d)'
    BY <2>1, <2>2, <2>4, Numbers DEF KeyOK, DeviceOK, RetiredOK, SampleOK, Ahead
  <2>. QED
    BY <2>3, <2>5 DEF KeyOK
<1>. QED
  BY <1>1, <1>2, <1>3 DEF ReadDevice, IInv

LEMMA GetEmailMapStep == ASSUME IInv, GetEmailMap PROVE IInv'
<1>. USE DEF tracker
<1>1. TypeOK' /\ EntriesOK' /\ SyncOK' /\ JobOK'
  BY DEF GetEmailMap, IInv, TypeOK, EntriesOK, SyncOK, JobOK
<1>2. job'.device = job.device /\ job'.retired = job.retired
  BY DEF GetEmailMap, IInv, TypeOK
<1>3. ASSUME NEW k \in Keys \ recreated, NEW d \in Dirs PROVE KeyOK(k, d)'
  BY <1>2 DEF GetEmailMap, IInv, KeyOK, DeviceOK, RetiredOK, SampleOK, Accounted, Moved, Cur
<1>. QED
  BY <1>1, <1>3 DEF GetEmailMap, IInv

LEMMA UpdateStatsBatchStep == ASSUME IInv, UpdateStatsBatch PROVE IInv'
<1>1. \A k \in Keys : stats[k] \in Entry \cup {None} /\ (stats[k] # None => EntryOK(stats[k]))
  BY DEF IInv, TypeOK, EntriesOK
<1>2. \A k \in Sampled : k \in Keys /\ job.device[k] \in Counters /\ job.device[k] # None
  BY DEF Sampled, Connected, IInv, TypeOK
<1>3. ASSUME NEW k \in Sampled
      PROVE  /\ stats'[k] \in Entry /\ EntryOK(stats'[k])
             /\ stats'[k].cur = job.device[k] /\ ~stats'[k].isDeleted
             /\ \A d \in Dirs :
                  /\ Pending(stats'[k])[d] >= Pending(stats[k])[d]
                  /\ Pending(stats'[k])[d] <= Pending(stats[k])[d]
                                                + Ahead(job.device[k][d], Cur(k, d))
  <2>1. stats'[k] = ApplySample(stats[k], job.device[k])
    BY <1>2 DEF UpdateStatsBatch
  <2>. QED
    BY <1>1, <1>2, <2>1, SampleStep DEF Cur
<1>4. \A k \in Keys \ Sampled : stats'[k] = stats[k]
  BY DEF UpdateStatsBatch
<1>5. TypeOK'
  <2>1. stats' \in [Keys -> Entry \cup {None}]
    BY <1>1, <1>3, <1>4 DEF UpdateStatsBatch
  <2>2. recreated' \in SUBSET Keys
    BY <1>2 DEF UpdateStatsBatch, IInv, TypeOK
  <2>. QED
    BY <2>1, <2>2 DEF UpdateStatsBatch, IInv, TypeOK, NoJob
<1>6. EntriesOK' /\ SyncOK' /\ JobOK'
  <2>1. EntriesOK'
    BY <1>1, <1>3, <1>4 DEF EntriesOK
  <2>2. SyncOK' /\ JobOK'
    BY DEF UpdateStatsBatch, IInv, SyncOK, JobOK, NoJob
  <2>. QED
    BY <2>1, <2>2
<1>7. ASSUME NEW k \in Keys \ recreated', NEW d \in Dirs PROVE KeyOK(k, d)'
  <2>1. /\ KeyOK(k, d) /\ UNCHANGED <<kernel, traffic, reported>>
        /\ job'.device[k] = None /\ Moved(k, d)' = Moved(k, d)
        /\ Accounted(k, d)' = reported[k][d] + Pending(stats'[k])[d]
    BY DEF UpdateStatsBatch, IInv, NoJob, Moved, Accounted
  <2>2. SampleOK(k, d)'
    BY <2>1 DEF SampleOK
  <2>3. CASE k \in Sampled
    <3>1. ~(stats[k] = None /\ k \in job.retired)
      BY <2>3 DEF UpdateStatsBatch
    <3>2. Accounted(k, d) + Ahead(job.device[k][d], Cur(k, d))
            + Ahead(Moved(k, d), job.device[k][d]) <= traffic[k][d]
      BY <1>2, <2>1, <2>3, <3>1 DEF KeyOK, SampleOK
    <3>3. Pending(stats'[k])[d] \in Nat
      BY <1>3, <2>3, PendingType DEF Counters
    <3>4. Accounted(k, d)' <= Accounted(k, d) + Ahead(job.device[k][d], Cur(k, d))
      BY <1>2, <1>3, <2>1, <2>3, <3>3, Numbers DEF Accounted, Ahead
    <3>5. Cur(k, d)' = job.device[k][d]
      BY <1>3, <2>3, NoneAssumption DEF Cur
    <3>6. DeviceOK(k, d)'
      BY <1>2, <2>1, <2>3, <3>2, <3>3, <3>4, <3>5, Numbers DEF DeviceOK, Ahead
    <3>7. RetiredOK(k, d)'
      BY <1>3, <2>3 DEF RetiredOK
    <3>. QED
      BY <2>2, <3>6, <3>7 DEF KeyOK
  <2>4. CASE k \notin Sampled
    <3>1. Accounted(k, d)' = Accounted(k, d) /\ Cur(k, d)' = Cur(k, d) /\ stats'[k] = stats[k]
      BY <1>4, <2>1, <2>4 DEF Accounted, Cur
    <3>. QED
      BY <2>1, <2>2, <3>1 DEF KeyOK, DeviceOK, RetiredOK
  <2>. QED
    BY <2>3, <2>4
<1>. QED
  BY <1>5, <1>6, <1>7 DEF IInv

LEMMA CleanupStep == ASSUME IInv, CleanupDeletedEntries PROVE IInv'
<1>1. \A k \in Keys : stats'[k] = stats[k]
                     \/ (stats[k] # None /\ stats[k].isDeleted
                         /\ stats[k].cur = stats[k].base /\ stats'[k] = None)
  BY DEF CleanupDeletedEntries
<1>2. TypeOK' /\ EntriesOK' /\ SyncOK' /\ JobOK'
  <2>1. stats' \in [Keys -> Entry \cup {None}]
    BY <1>1 DEF CleanupDeletedEntries, IInv, TypeOK
  <2>. QED
    BY <1>1, <2>1 DEF CleanupDeletedEntries, IInv, TypeOK, EntriesOK, SyncOK, JobOK
<1>3. ASSUME NEW k \in Keys \ recreated, NEW d \in Dirs PROVE KeyOK(k, d)'
  <2>1. KeyOK(k, d) /\ UNCHANGED <<kernel, traffic, job, reported>>
    BY DEF CleanupDeletedEntries, IInv
  <2>2. CASE stats'[k] = stats[k]
    BY <2>1, <2>2 DEF KeyOK, DeviceOK, RetiredOK, SampleOK, Accounted, Moved, Cur
  <2>3. CASE stats[k] # None /\ stats[k].isDeleted
             /\ stats[k].cur = stats[k].base /\ stats'[k] = None
    <3>1. stats[k].cur \in Counters
      BY <2>3 DEF IInv, TypeOK, Entry
    <3>2. Pending(stats[k])[d] = 0 /\ Pending(stats'[k])[d] = 0
      BY <2>3, <3>1 DEF Pending, Minus, Zero, Counters
    <3>. QED
      BY <2>1, <2>3, <3>2, EntryStep DEF Accounted
  <2>. QED
    BY <1>1, <2>2, <2>3
<1>. QED
  BY <1>2, <1>3 DEF CleanupDeletedEntries, IInv

LEMMA PlusType ==
  ASSUME NEW a \in Counters, NEW b \in Counters
  PROVE  Plus(a, b) \in Counters /\ \A d \in Dirs : Plus(a, b)[d] = a[d] + b[d]
BY DEF Plus, Counters

LEMMA ReportStep ==
  ASSUME IInv, NEW keys \in SUBSET Keys, Report(keys), pull' \in Keys \cup {None},
         UNCHANGED <<kernel, store, sync, job, traffic, recreated>>
  PROVE  IInv'
<1>1. \A k \in Keys : /\ stats[k] \in Entry \cup {None} /\ (stats[k] # None => EntryOK(stats[k]))
                      /\ reported[k] \in Counters
                      /\ Pending(stats[k]) \in Counters /\ ReportOf(stats[k]) = Pending(stats[k])
  BY PendingType DEF IInv, TypeOK, EntriesOK
<1>2. ASSUME NEW k \in keys
      PROVE  /\ stats'[k] = ResetEntry(stats[k])
             /\ reported'[k] = Plus(reported[k], Pending(stats[k]))
  BY <1>1 DEF Report
<1>3. \A k \in Keys \ keys : stats'[k] = stats[k] /\ reported'[k] = reported[k]
  BY DEF Report
<1>4. ASSUME NEW k \in keys
      PROVE  /\ stats'[k] \in Entry \cup {None} /\ Pending(stats'[k]) = Zero
             /\ stats'[k] = None <=> stats[k] = None \/ stats[k].isDeleted
             /\ stats'[k] # None => /\ EntryOK(stats'[k]) /\ stats'[k].cur = stats[k].cur
                                    /\ ~stats'[k].isDeleted
  BY <1>1, <1>2, ResetStep
<1>5. TypeOK'
  <2>1. stats' \in [Keys -> Entry \cup {None}]
    BY <1>1, <1>3, <1>4 DEF Report
  <2>2. \A k \in Keys : reported'[k] \in Counters
    BY <1>1, <1>2, <1>3, PlusType
  <2>3. reported' \in [Keys -> Counters]
    BY <2>2 DEF Report
  <2>. QED
    BY <2>1, <2>3 DEF IInv, TypeOK
<1>6. EntriesOK' /\ SyncOK' /\ JobOK'
  BY <1>1, <1>3, <1>4 DEF IInv, EntriesOK, SyncOK, JobOK
<1>7. ASSUME NEW k \in Keys \ recreated, NEW d \in Dirs PROVE KeyOK(k, d)'
  <2>1. KeyOK(k, d)
    BY DEF IInv
  <2>2. CASE k \in keys
    <3>1. Accounted(k, d)' = Accounted(k, d)
      <4>1. reported'[k][d] = reported[k][d] + Pending(stats[k])[d] /\ Pending(stats'[k])[d] = 0
        <5>1. reported'[k] = Plus(reported[k], Pending(stats[k])) /\ Pending(stats'[k]) = Zero
          BY <1>2, <1>4, <2>2
        <5>. QED
          BY <1>1, <5>1, PlusType DEF Zero
      <4>. QED
        BY <4>1, Numbers DEF Accounted
    <3>. QED
      BY <1>4, <2>1, <2>2, <3>1, EntryStep
  <2>3. CASE k \notin keys
    BY <1>3, <2>1, <2>3 DEF KeyOK, DeviceOK, RetiredOK, SampleOK, Accounted, Moved, Cur
  <2>. QED
    BY <2>2, <2>3
<1>. QED
  BY <1>5, <1>6, <1>7 DEF IInv

LEMMA IInvNext == IInv /\ [Next]_vars => IInv'
<1>. SUFFICES ASSUME IInv, [Next]_vars PROVE IInv'
  OBVIOUS
<1>1. CASE SyncPartial \/ SyncFull \/ Restart
  <2>1. store \in SUBSET Keys
    BY DEF IInv, TypeOK
  <2>. QED
    BY <1>1, <2>1, SyncDeviceStep DEF SyncPartial, SyncFull, Restart
<1>2. CASE GetUsersStats
  <2>1. pull' \in Keys \cup {None}
    BY <1>2 DEF GetUsersStats, IInv, TypeOK
  <2>. QED
    BY <1>2, <2>1, ReportStep DEF GetUsersStats
<1>3. CASE GetStats
  <2>1. {pull} \in SUBSET Keys
    BY <1>3 DEF GetStats, IInv, TypeOK
  <2>. QED
    BY <1>3, <2>1, ReportStep DEF GetStats
<1>4. ASSUME NEW k \in Keys, LookupUser(k) PROVE IInv'
  BY <1>4 DEF LookupUser, tracker, IInv, TypeOK, EntriesOK, SyncOK, JobOK,
       KeyOK, DeviceOK, RetiredOK, SampleOK, Accounted, Moved, Cur
<1>5. CASE UNCHANGED vars
  BY <1>5 DEF vars, IInv, TypeOK, EntriesOK, SyncOK, JobOK,
       KeyOK, DeviceOK, RetiredOK, SampleOK, Accounted, Moved, Cur
<1>. QED
  BY <1>1, <1>2, <1>3, <1>4, <1>5, TrafficStep, SyncStoreStep, RemoveStatsStep,
     ReadDeviceStep, GetEmailMapStep, UpdateStatsBatchStep, CleanupStep DEF Next

LEMMA IInvInit == Init => IInv
<1>. SUFFICES ASSUME Init PROVE IInv
  OBVIOUS
<1>1. TypeOK
  BY DEF Init, TypeOK, NoSync, NoJob, Zero, Counters
<1>2. EntriesOK /\ SyncOK /\ JobOK
  BY DEF Init, EntriesOK, SyncOK, JobOK, NoSync, NoJob
<1>3. ASSUME NEW k \in Keys, NEW d \in Dirs PROVE KeyOK(k, d)
  <2>1. /\ stats[k] = None /\ job.device[k] = None /\ reported[k][d] = 0 /\ traffic[k][d] = 0
        /\ Moved(k, d) = 0 /\ Cur(k, d) = 0 /\ Pending(stats[k])[d] = 0
    BY DEF Init, NoJob, Zero, Moved, Cur, Pending
  <2>. QED
    BY <2>1 DEF KeyOK, DeviceOK, RetiredOK, SampleOK, Accounted, Ahead
<1>. QED
  BY <1>1, <1>2, <1>3 DEF IInv

LEMMA IInvAlways == Spec => []IInv
<1>. QED
  BY IInvInit, IInvNext, PTL DEF Spec

(* Type correctness of the tracker and of those who move it.  Remembered   *)
(* deltas are natural numbers, for any keys and any traffic.               *)
THEOREM TypeCorrect == Spec => []TypeOK
<1>1. IInv => TypeOK
  BY DEF IInv
<1>. QED
  BY <1>1, IInvAlways, PTL

(* No byte is accounted twice, for any number of keys and any traffic,     *)
(* however the stats loop, syncs, restarts, pulls and clean-ups are        *)
(* interleaved, as long as no outdated sample creates a dropped entry anew.*)
THEOREM NeverOvercounted == Spec => []NoOvercount
<1>1. IInv => NoOvercount
  BY DEF IInv, KeyOK, DeviceOK, Accounted, NoOvercount
<1>. QED
  BY <1>1, IInvAlways, PTL

\* No step loses accounted traffic.
LEMMA AccountStep ==
  ASSUME IInv, [Next]_vars, NEW k \in Keys, NEW d \in Dirs
  PROVE  Accounted(k, d)' >= Accounted(k, d)
<1>. USE DEF tracker
<1>1. /\ stats[k] \in Entry \cup {None} /\ (stats[k] # None => EntryOK(stats[k]))
      /\ reported[k] \in Counters
      /\ Pending(stats[k]) \in Counters /\ ReportOf(stats[k]) = Pending(stats[k])
  BY PendingType DEF IInv, TypeOK, EntriesOK
<1>2. CASE UNCHANGED <<stats, reported>>
  BY <1>2, Numbers DEF Accounted
<1>3. ASSUME NEW j \in Keys, RemoveStats(j) PROVE Accounted(k, d)' >= Accounted(k, d)
  <2>1. Pending(stats'[k]) = Pending(stats[k])
    <3>1. CASE k = j /\ stats[k] # None
      <4>1. stats'[k] = Retire(stats[k])
        BY <1>3, <3>1 DEF RemoveStats, IInv, TypeOK
      <4>. QED
        BY <1>1, <3>1, <4>1, RetireStep
    <3>2. CASE ~(k = j /\ stats[k] # None)
      BY <1>3, <3>2 DEF RemoveStats, IInv, TypeOK
    <3>. QED
      BY <3>1, <3>2
  <2>. QED
    BY <1>3, <2>1, Numbers DEF RemoveStats, Accounted
<1>4. CASE UpdateStatsBatch
  <2>1. reported' = reported
    BY <1>4 DEF UpdateStatsBatch
  <2>2. Pending(stats'[k])[d] \in Nat /\ Pending(stats'[k])[d] >= Pending(stats[k])[d]
    <3>1. CASE k \in Sampled
      <4>1. stats'[k] = ApplySample(stats[k], job.device[k])
        BY <1>4, <3>1 DEF UpdateStatsBatch
      <4>2. job.device[k] \in Counters
        BY <3>1 DEF Sampled, Connected, IInv, TypeOK
      <4>3. /\ stats'[k] \in Entry /\ EntryOK(stats'[k])
            /\ Pending(stats'[k])[d] >= Pending(stats[k])[d]
        BY <1>1, <4>1, <4>2, SampleStep
      <4>4. Pending(stats'[k]) \in Counters
        BY <4>3, PendingType
      <4>. QED
        BY <4>3, <4>4 DEF Counters
    <3>2. CASE k \notin Sampled
      BY <1>4, <3>2, Numbers DEF UpdateStatsBatch
    <3>. QED
      BY <3>1, <3>2
  <2>. QED
    BY <2>1, <2>2, Numbers DEF Accounted
<1>5. CASE CleanupDeletedEntries
  <2>1. CASE stats'[k] = stats[k]
    BY <1>5, <2>1, Numbers DEF CleanupDeletedEntries, Accounted
  <2>2. CASE stats'[k] # stats[k]
    <3>1. stats[k] # None /\ stats[k].cur = stats[k].base /\ stats'[k] = None
      BY <1>5, <2>2 DEF CleanupDeletedEntries
    <3>2. stats[k].cur \in Counters
      BY <1>1, <3>1 DEF Entry
    <3>3. Pending(stats[k])[d] = 0 /\ Pending(stats'[k])[d] = 0
      BY <3>1, <3>2 DEF Pending, Minus, Zero, Counters
    <3>. QED
      BY <1>5, <3>3, Numbers DEF CleanupDeletedEntries, Accounted
  <2>. QED
    BY <2>1, <2>2
<1>6. ASSUME NEW keys, Report(keys) PROVE Accounted(k, d)' >= Accounted(k, d)
  <2>1. CASE k \in keys
    <3>1. stats'[k] = ResetEntry(stats[k]) /\ reported'[k] = Plus(reported[k], Pending(stats[k]))
      BY <1>1, <1>6, <2>1 DEF Report
    <3>2. Pending(stats'[k]) = Zero
      BY <1>1, <3>1, ResetStep
    <3>3. reported'[k][d] = reported[k][d] + Pending(stats[k])[d]
      BY <1>1, <3>1, PlusType
    <3>. QED
      BY <3>2, <3>3, Numbers DEF Accounted, Zero
  <2>2. CASE k \notin keys
    BY <1>6, <2>2, Numbers DEF Report, Accounted
  <2>. QED
    BY <2>1, <2>2
<1>. QED
  BY <1>2, <1>3, <1>4, <1>5, <1>6
  DEF Next, vars, Traffic, SyncPartial, SyncFull, Restart, SyncDevice, SyncStore,
      ReadDevice, GetEmailMap, GetUsersStats, LookupUser, GetStats

(* Accounted traffic is never lost, for any keys and any traffic: removal, *)
(* re-add, restart, rollback and clean-up keep every pending byte until a  *)
(* pull reports it.                                                        *)
THEOREM NeverLost == Spec => AccountedNeverLost
<1>1. IInv /\ [Next]_vars =>
        [\A k \in Keys, d \in Dirs :
           reported'[k][d] + Pending(stats[k])'[d] >= reported[k][d] + Pending(stats[k])[d]]_vars
  BY AccountStep DEF Accounted
<1>. QED
  BY <1>1, IInvAlways, PTL DEF Spec, AccountedNeverLost

-----------------------------------------------------------------------------
(* The interface's counters.                                               *)

\* What was billed, what the interface has counted since, and, while a request
\* that has not been overtaken is on its way, what was counted before and after
\* its sample, are bytes the interface moved.
BilledOK(d) ==
  /\ billed[d] + Ahead(counters[d], base[d]) <= moved[d]
  /\ \A h \in Handlers \ late : request[h] # NoRequest =>
       billed[d] + Ahead(request[h][d], base[d]) + Ahead(counters[d], request[h][d]) <= moved[d]

\* The inductive invariant.
InterfaceInv ==
  /\ InterfaceTypeOK
  /\ ~reordered => \A d \in Directions : BilledOK(d)

LEMMA DeltaStep ==
  ASSUME InterfaceInv, NEW h \in Handlers, NEW reset \in BOOLEAN, Delta(h, reset)
  PROVE  InterfaceInv'
<1>. DEFINE c == request[h]
            b == Rebased(c)
<1>1. c \in Sample /\ b \in Sample /\ (b = base \/ b = c) /\ \A d \in Directions : b[d] <= c[d]
  <2>1. c \in Sample /\ base \in Sample
    BY DEF InterfaceInv, InterfaceTypeOK, Delta
  <2>. QED
    BY <2>1 DEF Rebased, Sample
<1>2. /\ base' = IF reset THEN c ELSE b
      /\ billed' = IF reset THEN [d \in Directions |-> billed[d] + c[d] - b[d]] ELSE billed
      /\ request' = [request EXCEPT ![h] = NoRequest]
      /\ late' = {g \in Handlers \ {h} : request[g] # NoRequest}
      /\ reordered' = (reordered \/ h \in late)
      /\ baseSet' = TRUE /\ counters' = counters /\ moved' = moved /\ c # NoRequest
  BY DEF Delta, Leave
<1>. HIDE DEF c, b
<1>3. billed \in Sample /\ base \in Sample /\ moved \in Sample /\ counters \in Sample
      /\ request \in [Handlers -> Sample \cup {NoRequest}] /\ reordered \in BOOLEAN
  BY DEF InterfaceInv, InterfaceTypeOK
<1>4. billed' \in Sample /\ base' \in Sample
  BY <1>1, <1>2, <1>3 DEF Sample
<1>5. InterfaceTypeOK'
  BY <1>2, <1>3, <1>4 DEF InterfaceTypeOK
<1>6. ASSUME ~reordered', NEW d \in Directions PROVE BilledOK(d)'
  <2>1. ~reordered /\ h \notin late
    BY <1>2, <1>6
  <2>2. billed[d] + Ahead(c[d], base[d]) + Ahead(counters[d], c[d]) <= moved[d]
    BY <1>2, <2>1 DEF InterfaceInv, BilledOK, c
  <2>3. billed[d] + Ahead(counters[d], base[d]) <= moved[d]
    BY <2>1 DEF InterfaceInv, BilledOK
  <2>4. billed'[d] + Ahead(counters[d], base'[d]) <= moved[d]
    <3>1. /\ billed[d] \in Nat /\ base[d] \in Nat /\ counters[d] \in Nat /\ c[d] \in Nat /\ b[d] \in Nat
          /\ moved[d] \in Nat /\ b[d] <= c[d] /\ (b[d] = base[d] \/ b[d] = c[d])
      BY <1>1, <1>3 DEF Sample
    <3>2. CASE reset
      <4>1. base'[d] = c[d] /\ billed'[d] = billed[d] + c[d] - b[d]
        BY <1>2, <3>2
      <4>. QED
        BY <2>2, <3>1, <4>1 DEF Ahead
    <3>3. CASE ~reset
      <4>1. base'[d] = b[d] /\ billed'[d] = billed[d]
        BY <1>2, <3>3
      <4>. QED
        BY <2>2, <2>3, <3>1, <4>1 DEF Ahead
    <3>. QED
      BY <3>2, <3>3
  <2>5. \A g \in Handlers \ late' : request'[g] = NoRequest
    BY <1>2, <1>3
  <2>. QED
    BY <1>2, <2>4, <2>5 DEF BilledOK
<1>. QED
  BY <1>5, <1>6 DEF InterfaceInv

LEMMA InterfaceInvNext == InterfaceInv /\ [InterfaceNext]_interfaceVars => InterfaceInv'
<1>. SUFFICES ASSUME InterfaceInv, [InterfaceNext]_interfaceVars PROVE InterfaceInv'
  OBVIOUS
<1>1. billed \in Sample /\ base \in Sample /\ moved \in Sample /\ counters \in Sample
      /\ request \in [Handlers -> Sample \cup {NoRequest}]
  BY DEF InterfaceInv, InterfaceTypeOK
<1>2. ASSUME NEW e \in Directions, MoveByte(e) PROVE InterfaceInv'
  <2>1. /\ \A d \in Directions : /\ counters'[d] = IF d = e THEN counters[d] + 1 ELSE counters[d]
                                 /\ moved'[d] = IF d = e THEN moved[d] + 1 ELSE moved[d]
        /\ counters' \in Sample /\ moved' \in Sample
        /\ UNCHANGED <<base, baseSet, request, billed, late, reordered>>
    BY <1>1, <1>2 DEF MoveByte, Sample
  <2>2. InterfaceTypeOK'
    BY <2>1 DEF InterfaceInv, InterfaceTypeOK
  <2>3. ASSUME ~reordered, NEW d \in Directions PROVE BilledOK(d)'
    <3>1. /\ billed[d] \in Nat /\ base[d] \in Nat /\ counters[d] \in Nat /\ moved[d] \in Nat
          /\ \A h \in Handlers : request[h] # NoRequest => request[h][d] \in Nat
      BY <1>1 DEF Sample
    <3>2. BilledOK(d)
      BY <2>3 DEF InterfaceInv
    <3>3. billed[d] + Ahead(counters'[d], base[d]) <= moved'[d]
      BY <2>1, <3>1, <3>2 DEF BilledOK, Ahead
    <3>4. ASSUME NEW h \in Handlers \ late, request[h] # NoRequest
          PROVE  billed[d] + Ahead(request[h][d], base[d]) + Ahead(counters'[d], request[h][d])
                   <= moved'[d]
      BY <2>1, <3>1, <3>2, <3>4 DEF BilledOK, Ahead
    <3>. QED
      BY <2>1, <3>3, <3>4 DEF BilledOK
  <2>. QED
    BY <2>1, <2>2, <2>3 DEF InterfaceInv
<1>3. CASE InterfaceReset
  <2>1. /\ \A d \in Directions : counters'[d] = 0
        /\ counters' \in Sample
        /\ UNCHANGED <<base, baseSet, request, moved, billed, late, reordered>>
    BY <1>3 DEF InterfaceReset, NoBytes, Sample
  <2>2. InterfaceTypeOK'
    BY <2>1 DEF InterfaceInv, InterfaceTypeOK
  <2>3. ASSUME ~reordered, NEW d \in Directions PROVE BilledOK(d)'
    <3>1. /\ billed[d] \in Nat /\ base[d] \in Nat /\ counters[d] \in Nat /\ moved[d] \in Nat
          /\ \A h \in Handlers : request[h] # NoRequest => request[h][d] \in Nat
      BY <1>1 DEF Sample
    <3>2. BilledOK(d)
      BY <2>3 DEF InterfaceInv
    <3>. QED
      BY <2>1, <3>1, <3>2 DEF BilledOK, Ahead
  <2>. QED
    BY <2>1, <2>2, <2>3 DEF InterfaceInv
<1>4. ASSUME NEW g \in Handlers, GetInterfaceStats(g) PROVE InterfaceInv'
  <2>1. /\ \A h \in Handlers : request'[h] = IF h = g THEN counters ELSE request[h]
        /\ request' \in [Handlers -> Sample \cup {NoRequest}]
        /\ UNCHANGED <<counters, base, baseSet, moved, billed, late, reordered>>
    BY <1>1, <1>4 DEF GetInterfaceStats
  <2>2. InterfaceTypeOK'
    BY <2>1 DEF InterfaceInv, InterfaceTypeOK
  <2>3. ASSUME ~reordered, NEW d \in Directions PROVE BilledOK(d)'
    <3>1. /\ billed[d] \in Nat /\ base[d] \in Nat /\ counters[d] \in Nat /\ moved[d] \in Nat
          /\ Ahead(counters[d], counters[d]) = 0
      BY <1>1 DEF Sample, Ahead
    <3>2. BilledOK(d)
      BY <2>3 DEF InterfaceInv
    <3>3. ASSUME NEW h \in Handlers \ late, request'[h] # NoRequest
          PROVE  billed[d] + Ahead(request'[h][d], base[d]) + Ahead(counters[d], request'[h][d])
                   <= moved[d]
      <4>1. CASE h = g
        BY <2>1, <3>1, <3>2, <4>1 DEF BilledOK, Ahead
      <4>2. CASE h # g
        BY <2>1, <3>2, <3>3, <4>2 DEF BilledOK
      <4>. QED
        BY <4>1, <4>2
    <3>. QED
      BY <2>1, <3>2, <3>3 DEF BilledOK
  <2>. QED
    BY <2>1, <2>2, <2>3 DEF InterfaceInv
<1>5. CASE UNCHANGED interfaceVars
  BY <1>5 DEF interfaceVars, InterfaceInv, InterfaceTypeOK, BilledOK
<1>. QED
  BY <1>2, <1>3, <1>4, <1>5, DeltaStep DEF InterfaceNext

LEMMA InterfaceInvAlways == InterfaceSpec => []InterfaceInv
<1>1. ASSUME InterfaceInit PROVE InterfaceInv
  <2>1. InterfaceTypeOK
    <3>1. 0..1 \subseteq Nat
      OBVIOUS
    <3>2. counters \in Sample /\ moved \in Sample /\ base \in Sample /\ billed \in Sample
      BY <1>1, <3>1 DEF InterfaceInit, NoBytes, Sample
    <3>3. /\ baseSet \in BOOLEAN /\ reordered \in BOOLEAN /\ late \in SUBSET Handlers
          /\ request \in [Handlers -> Sample \cup {NoRequest}]
      BY <1>1 DEF InterfaceInit
    <3>. QED
      BY <3>2, <3>3 DEF InterfaceTypeOK
  <2>2. \A d \in Directions : /\ counters[d] \in 0..1 /\ moved[d] = counters[d]
                              /\ base[d] = 0 /\ billed[d] = 0
    BY <1>1 DEF InterfaceInit, NoBytes
  <2>3. \A h \in Handlers : request[h] = NoRequest
    BY <1>1 DEF InterfaceInit
  <2>. QED
    BY <2>1, <2>2, <2>3 DEF InterfaceInv, BilledOK, Ahead
<1>. QED
  BY <1>1, InterfaceInvNext, PTL DEF InterfaceSpec

(* Type correctness of the interface tracker: a rollback never makes a     *)
(* reported delta negative.                                                *)
THEOREM InterfaceTypeCorrect == InterfaceSpec => []InterfaceTypeOK
<1>1. InterfaceInv => InterfaceTypeOK
  BY DEF InterfaceInv
<1>. QED
  BY <1>1, InterfaceInvAlways, PTL

(* Requests with reset never report more than the interface has moved, for *)
(* any number of concurrent requests and any traffic, over resets of the   *)
(* interface, as long as no request reaches Delta with a sample that       *)
(* another one's Delta has overtaken.                                      *)
THEOREM InterfaceNeverOverbilled == InterfaceSpec => []InterfaceTrafficOnce
<1>1. ASSUME InterfaceInv PROVE InterfaceTrafficOnce
  <2>. SUFFICES ASSUME ~reordered, NEW d \in Directions PROVE billed[d] <= moved[d]
    BY DEF InterfaceTrafficOnce
  <2>1. /\ billed[d] \in Nat /\ base[d] \in Nat /\ counters[d] \in Nat /\ moved[d] \in Nat
    BY <1>1 DEF InterfaceInv, InterfaceTypeOK, Sample
  <2>. QED
    BY <1>1, <2>1 DEF InterfaceInv, BilledOK, Ahead
<1>. QED
  BY <1>1, InterfaceInvAlways, PTL

=============================================================================
