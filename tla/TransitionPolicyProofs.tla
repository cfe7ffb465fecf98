----------------------- MODULE TransitionPolicyProofs -----------------------
(***************************************************************************)
(* Proofs about the thread policy: what a transition changed, it gives back *)
(* when it ends, for any number of threads and records, with threads that   *)
(* die, are cloned, take other names or other threads' ids at any time.     *)
(*                                                                          *)
(* The parts of the policy do not touch each other: threads and records,    *)
(* the auxiliary process and the frequency limit each have an invariant.    *)
(***************************************************************************)
EXTENDS TransitionPolicy, TLAPS

-----------------------------------------------------------------------------
(* The invariant of threads and records                                      *)

Mine(r, t, th) == r.tid = t /\ r.start = th.start

Distinct(T) == \A q, r \in T : (q.tid = r.tid /\ q.start = r.start) => q = r

(* What record r holds for its live thread th.  Outside of a transition the  *)
(* clamp is the thread's own whatever the record says; during one a record   *)
(* that raised it has the own one, and a record whose thread took a name     *)
(* with another claim on the clamp is given up.                              *)
Holds(r, th, active, launcher) ==
    /\ IsTransient(r.class) <=> IsTransient(th.class)
    /\ IsTransient(r.class) \/ launcher
    /\ (/\ active /\ th.class # "plain"
        /\ ~(ClampManaged(r.class) <=> ClampManaged(th.class)))
          => "clamp" \in th.lost
    /\ "mask" \in th.lost \/ r.mask = th.ownMask
    /\ \/ "clamp" \in th.lost
       \/ IF active /\ ClampManaged(r.class) THEN r.clamp = th.ownClamp
          ELSE th.clamp = th.ownClamp

Untouched(th) == /\ "mask" \in th.lost \/ th.mask = th.ownMask
                 /\ "clamp" \in th.lost \/ th.clamp = th.ownClamp

Kept(T, t, th, active, launcher) ==
    th.start # 0 =>
       /\ \A r \in T : Mine(r, t, th) => Holds(r, th, active, launcher)
       /\ (\A r \in T : ~Mine(r, t, th)) => Untouched(th)

(* Records of births up to n.                                                *)
Book(T, n) == T \subseteq Record /\ Distinct(T) /\ \A r \in T : r.start <= n

Births(ts, n) == /\ ts \in [Tids -> Thread] /\ n \in 1..MaxStart
                 /\ \A t \in Tids : ts[t].start <= n

ThreadPart(T, ts, n, active, launcher) ==
    /\ Book(T, n) /\ Births(ts, n)
    /\ active \/ \A r \in T : ~IsTransient(r.class)
    /\ \A t \in Tids : Kept(T, t, ts[t], active, launcher)

-----------------------------------------------------------------------------
(* Operators on threads and records                                          *)

LEMMA RecordParts ==
    ASSUME NEW r \in Record
    PROVE  /\ r.tid \in Tids /\ r.start \in Nat /\ r.start # 0
           /\ r.class \in Classes \ {"plain"}
           /\ r.mask \in Masks /\ r.clamp \in Clamps
BY PolicyAssumption DEF Record

LEMMA ThreadParts ==
    ASSUME NEW th \in Thread
    PROVE  /\ th.start \in Nat /\ th.start \in 0..MaxStart /\ th.class \in Classes
           /\ th.mask \in Masks /\ th.clamp \in Clamps
           /\ th.ownMask \in OwnMasks /\ th.ownClamp \in OwnClamps
           /\ th.lost \subseteq {"mask", "clamp"}
BY PolicyAssumption DEF Thread

(* Writing to a thread leaves who it is and what is its own.                 *)
Rewritten(th, v) == /\ v \in Thread /\ v.start = th.start /\ v.class = th.class
                    /\ v.ownMask = th.ownMask /\ v.ownClamp = th.ownClamp
                    /\ th.lost \subseteq v.lost

LEMMA AppliedThread ==
    ASSUME NEW T, T \subseteq Record, NEW ts \in [Tids -> Thread], NEW t \in Tids,
           NEW validate \in BOOLEAN, NEW values,
           NEW v, v = Applied(ts, T, validate, values)[t]
    PROVE  /\ Rewritten(ts[t], v)
           /\ validate => v.lost = ts[t].lost
           /\ \/ v.mask = ts[t].mask \/ "mask" \in v.lost
              \/ \E r \in T : Mine(r, t, ts[t])
           /\ \/ v.clamp = ts[t].clamp
              \/ /\ "clamp" \in values
                 /\ \/ "clamp" \in v.lost
                    \/ \E r \in T : Mine(r, t, ts[t]) /\ ClampManaged(r.class)
<1> DEFINE here == {r \in T : r.tid = t /\ ts[t].start # 0}
           own == {r \in here : RecordAlive(r, ts)}
           stray == IF validate THEN {} ELSE here \ own
           written == values \cap Writes(own \cup stray)
           mask == IF "mask" \in written THEN TargetMask ELSE ts[t].mask
           clamp == IF "clamp" \in written THEN TargetClamp ELSE ts[t].clamp
           lost == ts[t].lost \cup (Writes(stray) \ Writes(own))
<1>1. v = [ts[t] EXCEPT !.mask = mask, !.clamp = clamp, !.lost = lost]
  BY DEF Applied
<1>2. \A r \in own : r \in T /\ Mine(r, t, ts[t])
  BY DEF RecordAlive, Mine
<1>3. ("mask" \in Writes(own) => own # {})
      /\ ("clamp" \in Writes(own) => \E r \in own : ClampManaged(r.class))
  BY DEF Writes
<1>4. written \subseteq values /\ written \subseteq Writes(own) \cup Writes(stray)
  BY DEF Writes
<1>5. Writes(stray) \subseteq {"mask", "clamp"} /\ (validate => Writes(stray) = {})
  BY DEF Writes
<1> HIDE DEF own, stray, written
<1>6. /\ mask \in Masks /\ clamp \in Clamps /\ ts[t] \in Thread
      /\ lost \in SUBSET {"mask", "clamp"} /\ ts[t].lost \subseteq lost
  BY <1>5, ThreadParts DEF Masks, Clamps
<1>7. /\ mask = ts[t].mask \/ "mask" \in lost \/ "mask" \in Writes(own)
      /\ \/ clamp = ts[t].clamp
         \/ "clamp" \in values /\ ("clamp" \in lost \/ "clamp" \in Writes(own))
      /\ validate => lost = ts[t].lost
  BY <1>4, <1>5
<1> HIDE DEF mask, clamp, lost
<1>8. Rewritten(ts[t], v) /\ v.mask = mask /\ v.clamp = clamp /\ v.lost = lost
  <2> DEFINE th == ts[t]
  <2>1. th \in Thread /\ th.lost \subseteq lost
    BY <1>6
  <2>2. v = [th EXCEPT !.mask = mask, !.clamp = clamp, !.lost = lost]
    BY <1>1
  <2> HIDE DEF th
  <2>3. Rewritten(th, v) /\ v.mask = mask /\ v.clamp = clamp /\ v.lost = lost
    BY <1>6, <2>1, <2>2 DEF Rewritten, Thread
  <2>4. QED
    BY <2>3 DEF th
<1>9. QED
  BY <1>2, <1>3, <1>7, <1>8

(* Writing masks and clamps of records keeps what the records hold, if       *)
(* clamps are written in a transition only.                                  *)
LEMMA AppliedKept ==
    ASSUME NEW T, T \subseteq Record, Distinct(T), NEW ts \in [Tids -> Thread],
           NEW t \in Tids, NEW validate \in BOOLEAN, NEW values,
           NEW active \in BOOLEAN, NEW launcher \in BOOLEAN,
           "clamp" \in values => active,
           Kept(T, t, ts[t], active, launcher)
    PROVE  Kept(T, t, Applied(ts, T, validate, values)[t], active, launcher)
<1> DEFINE th == ts[t]
           v == Applied(ts, T, validate, values)[t]
<1>1. /\ Rewritten(th, v)
      /\ v.mask = th.mask \/ "mask" \in v.lost \/ \E r \in T : Mine(r, t, th)
      /\ \/ v.clamp = th.clamp
         \/ /\ "clamp" \in values
            /\ \/ "clamp" \in v.lost
               \/ \E r \in T : Mine(r, t, th) /\ ClampManaged(r.class)
  BY AppliedThread
<1> HIDE DEF v
<1>2. SUFFICES ASSUME v.start # 0
               PROVE  /\ \A r \in T : Mine(r, t, v) => Holds(r, v, active, launcher)
                      /\ (\A r \in T : ~Mine(r, t, v)) => Untouched(v)
  BY DEF Kept, v
<1>3. th.start # 0 /\ \A r \in T : Mine(r, t, v) <=> Mine(r, t, th)
  BY <1>1, <1>2 DEF Rewritten, Mine
<1>4. ASSUME NEW r \in T, Mine(r, t, v) PROVE Holds(r, v, active, launcher)
  <2>1. Holds(r, th, active, launcher)
    BY <1>3, <1>4 DEF Kept
  <2>2. \A q \in T : Mine(q, t, th) => q = r
    BY <1>3, <1>4 DEF Mine, Distinct
  <2>3. \/ v.clamp = th.clamp \/ "clamp" \in v.lost
        \/ active /\ ClampManaged(r.class)
    BY <1>1, <2>2
  <2> HIDE DEF th
  <2>4. QED
    BY <1>1, <2>1, <2>3 DEF Holds, Rewritten
<1>5. ASSUME \A r \in T : ~Mine(r, t, v) PROVE Untouched(v)
  <2>1. Untouched(th)
    BY <1>3, <1>5 DEF Kept
  <2> HIDE DEF th
  <2>2. QED
    BY <1>1, <1>3, <1>5, <2>1 DEF Untouched, Rewritten
<1>6. QED
  BY <1>4, <1>5

LEMMA RestoredThread ==
    ASSUME NEW T, T \subseteq Record, Distinct(T), NEW ts \in [Tids -> Thread],
           NEW t \in Tids, NEW masks, NEW v, v = Restored(ts, T, masks)[t]
    PROVE  /\ Rewritten(ts[t], v) /\ v.lost = ts[t].lost
           /\ \A r \in T : Mine(r, t, ts[t]) =>
                 /\ v.mask = IF r \in masks THEN r.mask ELSE ts[t].mask
                 /\ v.clamp = IF ClampManaged(r.class) THEN r.clamp ELSE ts[t].clamp
           /\ (\A r \in T : ~Mine(r, t, ts[t])) => v = ts[t]
<1> DEFINE th == ts[t]
           mine == {r \in T : r.tid = t /\ RecordAlive(r, ts)}
<1>1. \A r \in T : r \in mine <=> Mine(r, t, th)
  BY DEF Mine, RecordAlive
<1>2. th \in Thread
  OBVIOUS
<1>3. CASE mine = {}
  <2>1. v = th
    BY <1>3 DEF Restored
  <2>2. \A r \in T : ~Mine(r, t, th)
    BY <1>1, <1>3
  <2> HIDE DEF th, mine
  <2>3. Rewritten(th, v) /\ v.lost = th.lost
    BY <1>2, <2>1 DEF Rewritten
  <2>4. QED
    BY <2>1, <2>2, <2>3 DEF th
<1>4. CASE mine # {}
  <2>1. PICK r \in mine : r = CHOOSE q \in mine : TRUE
    BY <1>4
  <2> DEFINE mask == IF r \in masks THEN r.mask ELSE th.mask
             clamp == IF ClampManaged(r.class) THEN r.clamp ELSE th.clamp
  <2>2. v = [th EXCEPT !.mask = mask, !.clamp = clamp]
    BY <1>4, <2>1 DEF Restored
  <2>3. r \in Record /\ \A q \in T : Mine(q, t, th) => q = r
    BY <1>1 DEF Mine, Distinct
  <2>4. Mine(r, t, th) /\ r \in T
    BY <1>1
  <2>5. mask \in Masks /\ clamp \in Clamps
    BY <1>2, <2>3, RecordParts, ThreadParts
  <2> HIDE DEF th, mine, mask, clamp
  <2>6. /\ Rewritten(th, v) /\ v.lost = th.lost
        /\ v.mask = mask /\ v.clamp = clamp
    BY <1>2, <2>2, <2>5 DEF Rewritten, Thread
  <2>7. QED
    BY <2>3, <2>4, <2>6 DEF th, mask, clamp
<1>5. QED
  BY <1>3, <1>4

(* collect_process changes only classes, to what the threads are now, and    *)
(* records only threads that have no record.                                 *)
Reclassified(u, r, ts, classes) ==
    /\ u.tid = r.tid /\ u.start = r.start /\ u.mask = r.mask /\ u.clamp = r.clamp
    /\ u.class = IF RecordAlive(r, ts) /\ ts[r.tid].class \in classes
                 THEN ts[r.tid].class ELSE r.class

Fresh(u, T, ts, classes) ==
    /\ u.tid \in Tids /\ ts[u.tid].start # 0 /\ u.class \in classes
    /\ u = NewRecord(u.tid, ts[u.tid])
    /\ \A r \in T : ~Mine(r, u.tid, ts[u.tid])

LEMMA RecordType ==
    ASSUME NEW r \in Record, NEW class \in Classes \ {"plain"}
    PROVE  LET u == [r EXCEPT !.class = class]
           IN  /\ u \in Record /\ u.class = class /\ u.tid = r.tid
               /\ u.start = r.start /\ u.mask = r.mask /\ u.clamp = r.clamp
BY DEF Record

LEMMA NewRecordType ==
    ASSUME NEW t \in Tids, NEW th \in Thread, th.start # 0, th.class # "plain"
    PROVE  LET u == NewRecord(t, th)
           IN  /\ u \in Record /\ u.class = th.class /\ u.tid = t
               /\ u.start = th.start /\ u.mask = th.mask /\ u.clamp = th.clamp
BY PolicyAssumption DEF Record, Thread, NewRecord

LEMMA CollectedMembers ==
    ASSUME NEW T, T \subseteq Record, NEW ts \in [Tids -> Thread],
           NEW classes, classes \subseteq Classes \ {"plain"},
           NEW U \in Collected(T, ts, classes)
    PROVE  /\ U \subseteq Record
           /\ \A u \in U : \/ \E r \in T : Reclassified(u, r, ts, classes)
                           \/ Fresh(u, T, ts, classes)
           /\ \A r \in T : \E u \in U : Reclassified(u, r, ts, classes)
<1> DEFINE named == {t \in Alive(ts) : ts[t].class \in classes}
           known == {r.tid : r \in {q \in T : RecordAlive(q, ts)}}
           new(r) == IF RecordAlive(r, ts) /\ r.tid \in named
                     THEN [r EXCEPT !.class = ts[r.tid].class] ELSE r
           kept == {new(r) : r \in T}
           fresh == named \ known
<1>1. PICK S \in SUBSET fresh : U = kept \cup {NewRecord(t, ts[t]) : t \in S}
  BY DEF Collected
<1>2. ASSUME NEW r \in T
      PROVE  new(r) \in Record /\ Reclassified(new(r), r, ts, classes)
  <2>1. r \in Record /\ r.tid \in Tids /\ r.start # 0
    BY RecordParts
  <2>2. RecordAlive(r, ts) => (r.tid \in named <=> ts[r.tid].class \in classes)
    BY <2>1 DEF RecordAlive, Alive
  <2>3. CASE RecordAlive(r, ts) /\ r.tid \in named
    <3>1. ts[r.tid].class \in Classes \ {"plain"}
      BY <2>2, <2>3
    <3>2. new(r) = [r EXCEPT !.class = ts[r.tid].class]
      BY <2>3
    <3>3. QED
      BY <2>1, <2>2, <2>3, <3>1, <3>2, RecordType DEF Reclassified
  <2>4. CASE ~(RecordAlive(r, ts) /\ r.tid \in named)
    BY <2>1, <2>2, <2>4 DEF Reclassified
  <2>5. QED
    BY <2>3, <2>4
<1>3. ASSUME NEW t \in S
      PROVE  /\ NewRecord(t, ts[t]) \in Record
             /\ Fresh(NewRecord(t, ts[t]), T, ts, classes)
  <2>1. /\ t \in Tids /\ ts[t].start # 0 /\ ts[t].class \in classes
        /\ ts[t].class # "plain" /\ t \notin known /\ ts[t] \in Thread
    BY DEF Alive
  <2>2. \A r \in T : ~Mine(r, t, ts[t])
    BY <2>1 DEF RecordAlive, Mine
  <2>3. QED
    BY <2>1, <2>2, NewRecordType DEF Fresh
<1> HIDE DEF new, fresh
<1>4. QED
  BY <1>1, <1>2, <1>3

LEMMA CollectedBook ==
    ASSUME NEW T, NEW ts, NEW n, Book(T, n), Births(ts, n),
           NEW classes, classes \subseteq Classes \ {"plain"},
           NEW U \in Collected(T, ts, classes)
    PROVE  Book(U, n)
<1>1. T \subseteq Record /\ Distinct(T) /\ ts \in [Tids -> Thread]
  BY DEF Book, Births
<1>2. /\ U \subseteq Record
      /\ \A u \in U : \/ \E r \in T : Reclassified(u, r, ts, classes)
                      \/ Fresh(u, T, ts, classes)
  BY <1>1, CollectedMembers
<1>3. ASSUME NEW u \in U PROVE u.start <= n
  <2>1. CASE \E r \in T : Reclassified(u, r, ts, classes)
    BY <2>1 DEF Reclassified, Book
  <2>2. CASE Fresh(u, T, ts, classes)
    <3>1. u.tid \in Tids /\ u.start = ts[u.tid].start
      BY <2>2 DEF Fresh, NewRecord
    <3>2. QED
      BY <3>1 DEF Births
  <2>3. QED
    BY <1>2, <2>1, <2>2
<1>4. ASSUME NEW u \in U, NEW w \in U, u.tid = w.tid, u.start = w.start
      PROVE  u = w
  <2>1. u \in Record /\ w \in Record
    BY <1>2
  <2>2. ASSUME NEW q \in Record, NEW r \in Record,
               q.tid = r.tid, q.start = r.start, q.class = r.class,
               q.mask = r.mask, q.clamp = r.clamp
        PROVE  q = r
    BY <2>2 DEF Record
  <2>3. ASSUME NEW q \in T, NEW r \in T,
               Reclassified(u, q, ts, classes), Reclassified(w, r, ts, classes)
        PROVE  u = w
    <3>1. q = r
      BY <1>1, <1>4, <2>3 DEF Reclassified, Distinct
    <3>2. QED
      BY <2>1, <2>2, <2>3, <3>1 DEF Reclassified
  <2>4. ASSUME NEW q \in U, NEW r \in U, NEW p \in T, q.tid = r.tid,
               q.start = r.start,
               Reclassified(q, p, ts, classes), Fresh(r, T, ts, classes)
        PROVE  FALSE
    <3>1. r.start = ts[r.tid].start
      BY <2>4 DEF Fresh, NewRecord
    <3>2. QED
      BY <2>4, <3>1 DEF Reclassified, Fresh, Mine
  <2>5. ASSUME Fresh(u, T, ts, classes), Fresh(w, T, ts, classes) PROVE u = w
    BY <1>4, <2>5 DEF Fresh
  <2>6. QED
    BY <1>2, <1>4, <2>3, <2>4, <2>5
<1>5. QED
  BY <1>2, <1>3, <1>4 DEF Book, Distinct

(* Collecting keeps what records hold.  The classes of the Launcher are      *)
(* looked for only when that part is enabled.                                *)
Sorted(T, t, th) ==
    \A r \in T : (Mine(r, t, th) /\ th.class \in LauncherClasses)
                    => r.class = th.class

LEMMA CollectedKept ==
    ASSUME NEW T, NEW ts, NEW n, Book(T, n), Births(ts, n), NEW t \in Tids,
           NEW active \in BOOLEAN, NEW launcher \in BOOLEAN,
           Kept(T, t, ts[t], active, launcher), NEW classes,
           (launcher /\ classes = LauncherClasses) \/ classes = SystemClasses,
           NEW U \in Collected(T, ts, classes)
    PROVE  /\ Kept(U, t, ts[t], active, launcher)
           /\ (Sorted(T, t, ts[t]) \/ classes = LauncherClasses)
                => Sorted(U, t, ts[t])
<1> DEFINE th == ts[t]
<1>1. /\ T \subseteq Record /\ Distinct(T) /\ ts \in [Tids -> Thread]
      /\ classes \subseteq Classes \ {"plain"} /\ th \in Thread
  BY DEF Book, Births, LauncherClasses, SystemClasses, Classes
<1>2. /\ U \subseteq Record
      /\ \A u \in U : \/ \E r \in T : Reclassified(u, r, ts, classes)
                      \/ Fresh(u, T, ts, classes)
      /\ \A r \in T : \E u \in U : Reclassified(u, r, ts, classes)
  BY <1>1, CollectedMembers
<1>3. ASSUME NEW u \in U, Mine(u, t, th)
      PROVE  \/ /\ Fresh(u, T, ts, classes) /\ u = NewRecord(t, th)
                /\ \A r \in T : ~Mine(r, t, th)
             \/ \E r \in T : /\ Mine(r, t, th) /\ u.mask = r.mask
                             /\ u.clamp = r.clamp
                             /\ u.class = IF th.class \in classes
                                          THEN th.class ELSE r.class
  BY <1>2, <1>3 DEF Mine, Reclassified, RecordAlive, Fresh
<1>4. ASSUME NEW u \in U, Mine(u, t, th), th.start # 0
      PROVE  Holds(u, th, active, launcher)
  <2>1. CASE /\ Fresh(u, T, ts, classes) /\ u = NewRecord(t, th)
             /\ \A r \in T : ~Mine(r, t, th)
    <3>1. Untouched(th)
      BY <1>4, <2>1 DEF Kept
    <3>2. /\ u.class = th.class /\ u.mask = th.mask /\ u.clamp = th.clamp
          /\ th.class \in classes
      BY <2>1 DEF Fresh, NewRecord
    <3> HIDE DEF th
    <3>3. QED
      BY <3>1, <3>2 DEF Holds, Untouched, IsTransient
  <2>2. CASE \E r \in T : /\ Mine(r, t, th) /\ u.mask = r.mask
                          /\ u.clamp = r.clamp
                          /\ u.class = IF th.class \in classes
                                       THEN th.class ELSE r.class
    <3>1. PICK r \in T : /\ Mine(r, t, th) /\ u.mask = r.mask
                         /\ u.clamp = r.clamp
                         /\ u.class = IF th.class \in classes
                                      THEN th.class ELSE r.class
      BY <2>2
    <3>2. Holds(r, th, active, launcher)
      BY <1>4, <3>1 DEF Kept
    <3>3. CASE th.class \in classes
      <4>1. u.class = th.class /\ th.class # "plain"
        BY <1>1, <3>1, <3>3
      <4>2. IsTransient(u.class) \/ launcher
        BY <3>3, <4>1 DEF IsTransient
      <4> HIDE DEF th
      <4>3. QED
        BY <3>1, <3>2, <4>1, <4>2 DEF Holds
    <3>4. CASE th.class \notin classes
      <4>1. u.class = r.class
        BY <3>1, <3>4
      <4> HIDE DEF th
      <4>2. QED
        BY <3>1, <3>2, <4>1 DEF Holds
    <3>5. QED
      BY <3>3, <3>4
  <2>3. QED
    BY <1>3, <1>4, <2>1, <2>2
<1>5. ASSUME \A u \in U : ~Mine(u, t, th), th.start # 0
      PROVE  Untouched(th)
  <2>1. \A r \in T : ~Mine(r, t, th)
    BY <1>2, <1>5 DEF Mine, Reclassified
  <2>2. QED
    BY <1>5, <2>1 DEF Kept
<1>6. ASSUME Sorted(T, t, th) \/ classes = LauncherClasses,
             NEW u \in U, Mine(u, t, th), th.class \in LauncherClasses
      PROVE  u.class = th.class
  <2>1. CASE u = NewRecord(t, th)
    BY <2>1 DEF NewRecord
  <2>2. ASSUME NEW r \in T, Mine(r, t, th),
               u.class = IF th.class \in classes THEN th.class ELSE r.class
        PROVE  u.class = th.class
    BY <1>6, <2>2 DEF Sorted
  <2>3. QED
    BY <1>3, <1>6, <2>1, <2>2
<1>7. QED
  BY <1>4, <1>5, <1>6 DEF Kept, Sorted

(* Without the Launcher's part only threads of the system have records, so   *)
(* that records are sorted by name with or without it.                       *)
LEMMA UnsortedKept ==
    ASSUME NEW T, NEW t, NEW th, NEW active, Kept(T, t, th, active, FALSE),
           th.start # 0
    PROVE  Sorted(T, t, th)
<1>1. ASSUME NEW r \in T, Mine(r, t, th), th.class \in LauncherClasses
      PROVE  FALSE
  <2>1. Holds(r, th, active, FALSE)
    BY <1>1 DEF Kept
  <2>2. th.class \in SystemClasses
    BY <2>1 DEF Holds, IsTransient
  <2>3. QED
    BY <1>1, <2>2 DEF LauncherClasses, SystemClasses
<1>2. QED
  BY <1>1 DEF Sorted

(* The refresh at the first begin makes records hold the own clamps.         *)
Refreshed(u, r, ts) ==
    /\ u.tid = r.tid /\ u.start = r.start /\ u.class = r.class /\ u.mask = r.mask
    /\ u.clamp = IF ~IsTransient(r.class) /\ ClampManaged(r.class) /\ RecordAlive(r, ts)
                 THEN ts[r.tid].clamp ELSE r.clamp

LEMMA RefreshedMembers ==
    ASSUME NEW T, T \subseteq Record, NEW ts \in [Tids -> Thread],
           NEW U, U = RefreshClamps(T, ts)
    PROVE  /\ U \subseteq Record
           /\ \A u \in U : \E r \in T : Refreshed(u, r, ts)
           /\ \A r \in T : \E u \in U : Refreshed(u, r, ts)
<1> DEFINE stale(r) == ~IsTransient(r.class) /\ ClampManaged(r.class) /\ RecordAlive(r, ts)
           new(r) == IF stale(r) THEN [r EXCEPT !.clamp = ts[r.tid].clamp] ELSE r
<1>1. U = {new(r) : r \in T}
  BY DEF RefreshClamps
<1>2. ASSUME NEW r \in T PROVE new(r) \in Record /\ Refreshed(new(r), r, ts)
  <2>1. r \in Record /\ ts[r.tid].clamp \in Clamps
    BY RecordParts, ThreadParts
  <2>2. ASSUME NEW q \in Record, NEW c \in Clamps
        PROVE  LET u == [q EXCEPT !.clamp = c]
               IN  /\ u \in Record /\ u.clamp = c /\ u.tid = q.tid
                   /\ u.start = q.start /\ u.mask = q.mask /\ u.class = q.class
    BY DEF Record
  <2>3. CASE stale(r)
    <3>1. new(r) = [r EXCEPT !.clamp = ts[r.tid].clamp]
      BY <2>3
    <3>2. QED
      BY <2>1, <2>2, <2>3, <3>1 DEF Refreshed
  <2>4. CASE ~stale(r)
    BY <2>1, <2>4 DEF Refreshed
  <2>5. QED
    BY <2>3, <2>4
<1> HIDE DEF new
<1>3. QED
  BY <1>1, <1>2

LEMMA RefreshedBook ==
    ASSUME NEW T, NEW n, Book(T, n), NEW ts \in [Tids -> Thread]
    PROVE  Book(RefreshClamps(T, ts), n)
<1> DEFINE U == RefreshClamps(T, ts)
<1>1. /\ U \subseteq Record /\ Distinct(T)
      /\ \A u \in U : \E r \in T : Refreshed(u, r, ts)
  BY RefreshedMembers DEF Book
<1> HIDE DEF U
<1>2. \A u \in U : u.start <= n
  BY <1>1 DEF Refreshed, Book
<1>3. ASSUME NEW u \in U, NEW w \in U, u.tid = w.tid, u.start = w.start
      PROVE  u = w
  <2>1. PICK q \in T : Refreshed(u, q, ts)
    BY <1>1
  <2>2. PICK r \in T : Refreshed(w, r, ts)
    BY <1>1
  <2>3. q = r
    <3>1. q.tid = r.tid /\ q.start = r.start
      BY <1>3, <2>1, <2>2 DEF Refreshed
    <3>2. QED
      BY <1>1, <3>1 DEF Distinct
  <2>4. u \in Record /\ w \in Record
    BY <1>1
  <2>5. QED
    BY <2>1, <2>2, <2>3, <2>4 DEF Refreshed, Record
<1>4. QED
  BY <1>1, <1>2, <1>3 DEF Book, Distinct, U

LEMMA RefreshedKept ==
    ASSUME NEW T, T \subseteq Record, NEW ts \in [Tids -> Thread], NEW t \in Tids,
           NEW launcher \in BOOLEAN, Kept(T, t, ts[t], FALSE, launcher),
           Sorted(T, t, ts[t])
    PROVE  Kept(RefreshClamps(T, ts), t, ts[t], TRUE, launcher)
<1> DEFINE th == ts[t]
           U == RefreshClamps(T, ts)
<1>1. /\ \A u \in U : \E r \in T : Refreshed(u, r, ts)
      /\ \A r \in T : \E u \in U : Refreshed(u, r, ts)
  BY RefreshedMembers
<1> HIDE DEF U
<1>2. ASSUME NEW u \in U, Mine(u, t, th), th.start # 0
      PROVE  Holds(u, th, TRUE, launcher)
  <2>1. PICK r \in T : Refreshed(u, r, ts)
    BY <1>1
  <2>2. Mine(r, t, th) /\ RecordAlive(r, ts)
    BY <1>2, <2>1 DEF Refreshed, Mine, RecordAlive
  <2>3. /\ u.class = r.class /\ u.mask = r.mask
        /\ (~IsTransient(r.class) /\ ClampManaged(r.class)) => u.clamp = th.clamp
    BY <2>1, <2>2 DEF Refreshed, Mine
  <2>4. Holds(r, th, FALSE, launcher)
    BY <1>2, <2>2 DEF Kept
  <2>5. th.class \in LauncherClasses => r.class = th.class
    BY <2>2 DEF Sorted
  <2>6. ClampManaged(r.class) => ~IsTransient(r.class)
    BY DEF ClampManaged, IsTransient, SystemClasses
  <2>7. (th.class # "plain" /\ ~(ClampManaged(r.class) <=> ClampManaged(th.class)))
          => FALSE
    <3>1. th.class \in Classes
      BY ThreadParts
    <3>2. CASE th.class \in SystemClasses
      BY <2>4, <2>6, <3>2
      DEF Holds, IsTransient, ClampManaged, SystemClasses
    <3>3. CASE th.class \in LauncherClasses
      BY <2>5, <3>3
    <3>4. QED
      BY <3>1, <3>2, <3>3 DEF Classes
  <2> HIDE DEF th
  <2>8. QED
    BY <2>3, <2>4, <2>6, <2>7 DEF Holds
<1>3. ASSUME \A u \in U : ~Mine(u, t, th), th.start # 0
      PROVE  Untouched(th)
  <2>1. \A r \in T : ~Mine(r, t, th)
    BY <1>1, <1>3 DEF Mine, Refreshed
  <2>2. QED
    BY <1>3, <2>1 DEF Kept
<1>4. QED
  BY <1>2, <1>3 DEF Kept, U

LEMMA CompactKept ==
    ASSUME NEW T, NEW n, Book(T, n), NEW ts \in [Tids -> Thread],
           \A r \in T : ~IsTransient(r.class)
    PROVE  /\ Book(Compact(T, ts), n)
           /\ \A r \in Compact(T, ts) : ~IsTransient(r.class)
           /\ \A t \in Tids : \A active, launcher \in BOOLEAN :
                 Kept(T, t, ts[t], active, launcher)
                 => Kept(Compact(T, ts), t, ts[t], active, launcher)
<1>1. Compact(T, ts) \subseteq T
  BY DEF Compact
<1>2. \A t \in Tids : \A r \in T : Mine(r, t, ts[t]) => r \in Compact(T, ts)
  BY DEF Compact, Mine, RecordAlive
<1>3. \A r \in Compact(T, ts) : ~IsTransient(r.class)
  BY DEF Compact
<1>4. Book(Compact(T, ts), n)
  BY <1>1 DEF Book, Distinct
<1>5. QED
  BY <1>1, <1>2, <1>3, <1>4 DEF Kept

-----------------------------------------------------------------------------
(* Threads and records across the functions of the policy                    *)

LEMMA RewrittenBirths ==
    ASSUME NEW ts, NEW n, Births(ts, n), NEW ts2, ts2 = [t \in Tids |-> ts2[t]],
           \A t \in Tids : Rewritten(ts[t], ts2[t])
    PROVE  Births(ts2, n)
BY DEF Births, Rewritten

LEMMA AppliedPart ==
    ASSUME NEW T, NEW ts, NEW n, NEW active \in BOOLEAN, NEW launcher \in BOOLEAN,
           ThreadPart(T, ts, n, active, launcher), NEW validate \in BOOLEAN,
           NEW values, "clamp" \in values => active
    PROVE  ThreadPart(T, Applied(ts, T, validate, values), n, active, launcher)
<1> DEFINE ts2 == Applied(ts, T, validate, values)
<1>1. T \subseteq Record /\ Distinct(T) /\ ts \in [Tids -> Thread]
  BY DEF ThreadPart, Book, Births
<1>2. ts2 = [t \in Tids |-> ts2[t]]
  BY DEF Applied
<1>3. \A t \in Tids : Rewritten(ts[t], ts2[t])
  BY <1>1, AppliedThread
<1>4. \A t \in Tids : Kept(T, t, ts2[t], active, launcher)
  BY <1>1, AppliedKept DEF ThreadPart
<1> HIDE DEF ts2
<1>5. Births(ts2, n)
  BY <1>2, <1>3, RewrittenBirths DEF ThreadPart
<1>6. QED
  BY <1>4, <1>5 DEF ThreadPart, ts2

LEMMA CompletedPart ==
    ASSUME NEW T, NEW ts, NEW n, NEW launcher \in BOOLEAN,
           ThreadPart(T, ts, n, TRUE, launcher)
    PROVE  LET ts2 == Restored(ts, T, MasksOnComplete(T))
               C == Compact(T, ts)
           IN  ThreadPart(C, ts2, n, FALSE, launcher)
<1> DEFINE ts2 == Restored(ts, T, MasksOnComplete(T))
           C == Compact(T, ts)
<1>1. T \subseteq Record /\ Distinct(T) /\ ts \in [Tids -> Thread]
  BY DEF ThreadPart, Book, Births
<1>2. ts2 = [t \in Tids |-> ts2[t]]
  BY DEF Restored
<1>3. ASSUME NEW t \in Tids
      PROVE  /\ Rewritten(ts[t], ts2[t]) /\ ts2[t].lost = ts[t].lost
             /\ \A r \in T : Mine(r, t, ts[t]) =>
                   /\ IsTransient(r.class) => ts2[t].mask = r.mask
                   /\ ts2[t].clamp = IF ClampManaged(r.class) THEN r.clamp
                                     ELSE ts[t].clamp
             /\ (\A r \in T : ~Mine(r, t, ts[t])) => ts2[t] = ts[t]
  <2>1. \A r \in T : IsTransient(r.class) => r \in MasksOnComplete(T)
    BY DEF MasksOnComplete
  <2>2. QED
    BY <1>1, <2>1, RestoredThread
<1>4. Births(ts2, n)
  BY <1>2, <1>3, RewrittenBirths DEF ThreadPart
<1>5. /\ C \subseteq T /\ \A r \in C : ~IsTransient(r.class)
      /\ \A r \in T : (~IsTransient(r.class) /\ RecordAlive(r, ts)) => r \in C
  BY DEF Compact
<1>6. Book(C, n)
  BY <1>5 DEF ThreadPart, Book, Distinct
<1> HIDE DEF ts2, C
<1>7. ASSUME NEW t \in Tids, ts2[t].start # 0
      PROVE  /\ \A r \in C : Mine(r, t, ts2[t]) =>
                   Holds(r, ts2[t], FALSE, launcher)
             /\ (\A r \in C : ~Mine(r, t, ts2[t])) => Untouched(ts2[t])
  <2>1. PICK th : th = ts[t]
    OBVIOUS
  <2>2. PICK v : v = ts2[t]
    OBVIOUS
  <2>3. /\ Rewritten(th, v) /\ v.lost = th.lost /\ th.start # 0
        /\ \A r \in T : Mine(r, t, th) =>
              /\ IsTransient(r.class) => v.mask = r.mask
              /\ v.clamp = IF ClampManaged(r.class) THEN r.clamp ELSE th.clamp
        /\ (\A r \in T : ~Mine(r, t, th)) => v = th
    BY <1>3, <1>7, <2>1, <2>2 DEF Rewritten
  <2>4. /\ \A r \in T : Mine(r, t, th) => Holds(r, th, TRUE, launcher)
        /\ (\A r \in T : ~Mine(r, t, th)) => Untouched(th)
    BY <2>1, <2>3 DEF ThreadPart, Kept
  <2>5. \A r \in T : Mine(r, t, v) <=> Mine(r, t, th)
    BY <2>3 DEF Mine, Rewritten
  <2>6. \A r \in T : (Mine(r, t, th) /\ ~IsTransient(r.class)) => r \in C
    BY <1>5, <2>1 DEF Mine, RecordAlive
  <2>7. ASSUME NEW r \in T, Mine(r, t, th)
        PROVE  /\ "clamp" \in v.lost \/ v.clamp = v.ownClamp
               /\ "mask" \in v.lost \/ r.mask = v.ownMask
               /\ (IsTransient(r.class) <=> IsTransient(v.class))
               /\ IsTransient(r.class) \/ launcher
               /\ IsTransient(r.class) => v.mask = r.mask
    BY <2>3, <2>4, <2>7 DEF Holds, Rewritten
  <2>8. ASSUME NEW r \in C, Mine(r, t, v)
        PROVE  Holds(r, v, FALSE, launcher)
    BY <1>5, <2>5, <2>7, <2>8 DEF Holds
  <2>9. ASSUME \A r \in C : ~Mine(r, t, v)
        PROVE  Untouched(v)
    <3>1. CASE \E r \in T : Mine(r, t, th)
      BY <2>5, <2>6, <2>7, <2>9, <3>1 DEF Untouched
    <3>2. CASE \A r \in T : ~Mine(r, t, th)
      BY <2>3, <2>4, <3>2
    <3>3. QED
      BY <3>1, <3>2
  <2>10. QED
    BY <1>5, <2>2, <2>5, <2>7, <2>8, <2>9
<1>8. ThreadPart(C, ts2, n, FALSE, launcher)
  BY <1>4, <1>5, <1>6, <1>7 DEF ThreadPart, Kept
<1>9. QED
  BY <1>8 DEF ts2, C

(* Destroying restores every mask; a clamp it changes is given up.           *)
LEMMA DestroyedPart ==
    ASSUME NEW T, NEW ts, NEW n, NEW launcher \in BOOLEAN,
           ThreadPart(T, ts, n, FALSE, launcher)
    PROVE  ThreadPart({}, Overwritten(ts, T), n, FALSE, launcher)
<1>1. T \subseteq Record /\ Distinct(T) /\ ts \in [Tids -> Thread]
  BY DEF ThreadPart, Book, Births
<1>2. PICK ts2 : ts2 = Overwritten(ts, T)
  OBVIOUS
<1>3. ASSUME NEW t \in Tids
      PROVE  /\ Rewritten(ts[t], ts2[t])
             /\ ts2[t].start # 0 => Untouched(ts2[t])
  <2>1. PICK v : v = Restored(ts, T, T)[t]
    OBVIOUS
  <2>2. PICK th : th = ts[t]
    OBVIOUS
  <2>3. PICK w : w = ts2[t]
    OBVIOUS
  <2>4. /\ Rewritten(th, v) /\ v.lost = th.lost
        /\ \A r \in T : Mine(r, t, th) =>
              /\ v.mask = r.mask
              /\ v.clamp = IF ClampManaged(r.class) THEN r.clamp ELSE th.clamp
        /\ (\A r \in T : ~Mine(r, t, th)) => v = th
    BY <1>1, <2>1, <2>2, RestoredThread
  <2>5. PICK lost : lost = v.lost \cup IF v.clamp # th.clamp THEN {"clamp"} ELSE {}
    OBVIOUS
  <2>6. w = [v EXCEPT !.lost = lost]
    BY <1>2, <2>1, <2>2, <2>3, <2>5 DEF Overwritten
  <2>7. v \in Thread
    BY <2>4 DEF Rewritten
  <2>8. /\ v.lost \subseteq lost /\ lost \subseteq {"mask", "clamp"}
        /\ "clamp" \in lost \/ v.clamp = th.clamp
    BY <2>5, <2>7, ThreadParts
  <2>9. /\ Rewritten(v, w) /\ w.mask = v.mask /\ w.clamp = v.clamp
        /\ w.lost = lost
    BY <2>6, <2>7, <2>8 DEF Rewritten, Thread
  <2>10. Kept(T, t, th, FALSE, launcher)
    BY <2>2 DEF ThreadPart
  <2>11. Rewritten(th, w)
    BY <2>4, <2>9 DEF Rewritten
  <2>12. ASSUME w.start # 0 PROVE Untouched(w)
    <3>1. th.start # 0
      BY <2>11, <2>12 DEF Rewritten
    <3>2. CASE \A r \in T : ~Mine(r, t, th)
      <4>1. Untouched(th) /\ v = th
        BY <2>4, <2>10, <3>1, <3>2 DEF Kept
      <4>2. QED
        BY <2>9, <4>1 DEF Untouched, Rewritten
    <3>3. ASSUME NEW r \in T, Mine(r, t, th) PROVE Untouched(w)
      <4>1. Holds(r, th, FALSE, launcher)
        BY <2>10, <3>1, <3>3 DEF Kept
      <4>2. v.mask = r.mask
        BY <2>4, <3>3
      <4>3. "clamp" \in w.lost \/ w.clamp = th.clamp
        BY <2>8, <2>9
      <4>4. QED
        BY <2>9, <2>11, <4>1, <4>2, <4>3 DEF Holds, Untouched, Rewritten
    <3>4. QED
      BY <3>2, <3>3
  <2>13. QED
    BY <2>2, <2>3, <2>11, <2>12
<1>4. ts2 = [t \in Tids |-> ts2[t]]
  BY <1>2 DEF Overwritten
<1>5. Births(ts2, n)
  BY <1>3, <1>4, RewrittenBirths DEF ThreadPart
<1>6. Book({}, n)
  BY DEF Book, Distinct
<1>7. QED
  BY <1>2, <1>3, <1>5, <1>6 DEF ThreadPart, Kept

LEMMA CollectedPart ==
    ASSUME NEW T, NEW ts, NEW n, NEW active \in BOOLEAN, NEW launcher \in BOOLEAN,
           ThreadPart(T, ts, n, active, launcher),
           NEW classes,
           (launcher /\ classes = LauncherClasses)
           \/ (active /\ classes = SystemClasses),
           NEW U \in Collected(T, ts, classes)
    PROVE  ThreadPart(U, ts, n, active, launcher)
<1>1. /\ Book(T, n) /\ Births(ts, n) /\ T \subseteq Record
      /\ ts \in [Tids -> Thread] /\ classes \subseteq Classes \ {"plain"}
  BY DEF ThreadPart, Book, Births, LauncherClasses, SystemClasses, Classes
<1>2. Book(U, n)
  BY <1>1, CollectedBook
<1>3. \A t \in Tids : Kept(U, t, ts[t], active, launcher)
  BY <1>1, CollectedKept DEF ThreadPart
<1>4. active \/ \A r \in U : ~IsTransient(r.class)
  <2>1. SUFFICES ASSUME ~active, NEW u \in U PROVE ~IsTransient(u.class)
    OBVIOUS
  <2>2. /\ \A c \in classes : ~IsTransient(c)
        /\ \A r \in T : ~IsTransient(r.class)
    BY <2>1 DEF ThreadPart, LauncherClasses, IsTransient, SystemClasses
  <2>3. \/ \E r \in T : Reclassified(u, r, ts, classes)
        \/ Fresh(u, T, ts, classes)
    BY <1>1, CollectedMembers
  <2>4. QED
    BY <2>2, <2>3 DEF Reclassified, Fresh
<1>5. QED
  BY <1>1, <1>2, <1>3, <1>4 DEF ThreadPart

(* The first begin: dead records leave, threads are looked for, the records  *)
(* take over the clamps of now.                                              *)
LEMMA FirstBeginPart ==
    ASSUME NEW T, NEW ts, NEW n, NEW launcher \in BOOLEAN, NEW system \in BOOLEAN,
           ThreadPart(T, ts, n, FALSE, launcher),
           NEW V \in IF launcher THEN Collected(Compact(T, ts), ts, LauncherClasses)
                     ELSE {Compact(T, ts)},
           NEW U \in IF system THEN Collected(V, ts, SystemClasses) ELSE {V}
    PROVE  ThreadPart(RefreshClamps(U, ts), ts, n, TRUE, launcher)
<1> DEFINE C == Compact(T, ts)
           R == RefreshClamps(U, ts)
<1>1. Births(ts, n) /\ ts \in [Tids -> Thread] /\ Book(T, n)
  BY DEF ThreadPart, Births
<1>2. ThreadPart(C, ts, n, FALSE, launcher)
  BY <1>1, CompactKept DEF ThreadPart
<1> HIDE DEF C
<1>3. ThreadPart(V, ts, n, FALSE, launcher)
  <2>1. CASE launcher
    <3>1. V \in Collected(C, ts, LauncherClasses)
      BY <2>1 DEF C
    <3>2. QED
      BY <1>2, <2>1, <3>1, CollectedPart
  <2>2. CASE ~launcher
    BY <1>2, <2>2 DEF C
  <2>3. QED
    BY <2>1, <2>2
<1>4. ASSUME NEW t \in Tids, ts[t].start # 0 PROVE Sorted(V, t, ts[t])
  <2>1. CASE launcher
    <3>1. V \in Collected(C, ts, LauncherClasses) /\ Book(C, n)
      BY <1>2, <2>1 DEF C, ThreadPart
    <3>2. Kept(C, t, ts[t], FALSE, launcher)
      BY <1>2 DEF ThreadPart
    <3>3. QED
      BY <1>1, <2>1, <3>1, <3>2, CollectedKept
  <2>2. CASE ~launcher
    <3>1. Kept(V, t, ts[t], FALSE, FALSE)
      BY <1>3, <2>2 DEF ThreadPart
    <3>2. QED
      BY <1>4, <3>1, UnsortedKept
  <2>3. QED
    BY <2>1, <2>2
<1>5. /\ Book(U, n)
      /\ \A t \in Tids : /\ Kept(U, t, ts[t], FALSE, launcher)
                         /\ ts[t].start # 0 => Sorted(U, t, ts[t])
  <2>1. CASE system
    <3>1. U \in Collected(V, ts, SystemClasses) /\ Book(V, n)
      BY <1>3, <2>1 DEF ThreadPart
    <3>2. SystemClasses \subseteq Classes \ {"plain"}
      BY DEF SystemClasses, LauncherClasses, Classes
    <3>3. Book(U, n)
      BY <1>1, <3>1, <3>2, CollectedBook
    <3>4. \A t \in Tids : Kept(V, t, ts[t], FALSE, launcher)
      BY <1>3 DEF ThreadPart
    <3>5. \A t \in Tids : /\ Kept(U, t, ts[t], FALSE, launcher)
                          /\ Sorted(V, t, ts[t]) => Sorted(U, t, ts[t])
      BY <1>1, <3>1, <3>4, CollectedKept
    <3>6. QED
      BY <1>4, <3>3, <3>5
  <2>2. CASE ~system
    BY <1>3, <1>4, <2>2 DEF ThreadPart
  <2>3. QED
    BY <2>1, <2>2
<1>6. Book(R, n)
  BY <1>1, <1>5, RefreshedBook
<1>7. \A t \in Tids : Kept(R, t, ts[t], TRUE, launcher)
  <2>1. U \subseteq Record
    BY <1>5 DEF Book
  <2>2. TAKE t \in Tids
  <2>3. CASE ts[t].start = 0
    BY <2>3 DEF Kept
  <2>4. CASE ts[t].start # 0
    <3>1. Kept(U, t, ts[t], FALSE, launcher) /\ Sorted(U, t, ts[t])
      BY <1>5, <2>4
    <3>2. QED
      BY <1>1, <2>1, <3>1, RefreshedKept
  <2>5. QED
    BY <2>3, <2>4
<1>8. QED
  BY <1>1, <1>6, <1>7 DEF ThreadPart

(* A begin during a transition looks again for threads.                      *)
LEMMA LaterBeginPart ==
    ASSUME NEW T, NEW ts, NEW n, NEW launcher \in BOOLEAN, NEW system \in BOOLEAN,
           ThreadPart(T, ts, n, TRUE, launcher),
           NEW V \in IF launcher THEN Collected(T, ts, LauncherClasses) ELSE {T},
           NEW U \in IF system THEN Collected(V, ts, SystemClasses) ELSE {V}
    PROVE  ThreadPart(U, ts, n, TRUE, launcher)
<1>1. ThreadPart(V, ts, n, TRUE, launcher)
  BY CollectedPart
<1>2. QED
  BY <1>1, CollectedPart

-----------------------------------------------------------------------------
(* The auxiliary process                                                     *)

(* A saved value is of a process born before; the process it is of has there *)
(* what the framework chose, any other process is where it was put.          *)
AuxPart(saved, a, n, active) ==
    /\ saved \subseteq Saved /\ \A s, u \in saved : s = u
    /\ \A s \in saved : s.start <= n
    /\ a \in Auxiliary /\ a.start <= n
    /\ active \/ saved = {}
    /\ \A k \in Controllers :
          \/ k \in a.lost
          \/ IF \E s \in saved : s.start = a.start
             THEN \A s \in saved : s.group[k] = a.own[k]
             ELSE a.group[k] = a.own[k]

LEMMA AuxParts ==
    ASSUME NEW a \in Auxiliary
    PROVE  /\ a.start \in 1..MaxStart /\ a.start \in Nat
           /\ a.group \in InGroups /\ a.own \in InGroups
           /\ a.lost \subseteq Controllers
BY PolicyAssumption DEF Auxiliary

LEMMA SavedParts ==
    ASSUME NEW s \in Saved
    PROVE  s.start \in 1..MaxStart /\ s.start \in Nat /\ s.group \in InGroups
BY PolicyAssumption DEF Saved

LEMMA MovedAwayParts ==
    ASSUME aux \in Auxiliary, NEW S, S \subseteq Controllers
    PROVE  /\ MovedAway(S) \in Auxiliary /\ MovedAway(S).start = aux.start
           /\ MovedAway(S).own = aux.own
           /\ aux.lost \subseteq MovedAway(S).lost
           /\ \A k \in Controllers :
                 MovedAway(S).group[k] = IF k \in S THEN "background"
                                         ELSE aux.group[k]
           /\ S # Controllers =>
                 \A k \in S : k \in MovedAway(S).lost \/ aux.own[k] = "background"
<1> DEFINE g == [k \in Controllers |-> IF k \in S THEN "background" ELSE aux.group[k]]
           lost == aux.lost \cup IF S = Controllers THEN {}
                                 ELSE {k \in S : aux.own[k] # "background"}
<1>1. MovedAway(S) = [aux EXCEPT !.group = g, !.lost = lost]
  BY DEF MovedAway
<1>2. aux.lost \subseteq Controllers /\ aux.group \in InGroups
  BY AuxParts
<1>3. g \in InGroups /\ lost \in SUBSET Controllers
  BY <1>2 DEF InGroups, AllGroups
<1>4. /\ \A k \in Controllers : g[k] = IF k \in S THEN "background" ELSE aux.group[k]
      /\ aux.lost \subseteq lost
      /\ S # Controllers => \A k \in S : k \in lost \/ aux.own[k] = "background"
  OBVIOUS
<1> HIDE DEF g, lost
<1>5. PICK b : b = MovedAway(S)
  OBVIOUS
<1>6. /\ b \in Auxiliary /\ b.start = aux.start /\ b.own = aux.own
      /\ b.group = g /\ b.lost = lost
  BY <1>1, <1>3, <1>5 DEF Auxiliary
<1>7. QED
  BY <1>4, <1>5, <1>6

LEMMA MovedAuxPart ==
    ASSUME NEW n, AuxPart({}, aux, n, FALSE), NEW o \in AuxiliaryOutcomes
    PROVE  AuxPart(o.saved, o.aux, n, TRUE)
<1>1. /\ aux \in Auxiliary /\ aux.start <= n
      /\ \A k \in Controllers : k \in aux.lost \/ aux.group[k] = aux.own[k]
  BY DEF AuxPart
<1>2. CASE o = [aux |-> MovedAway(Controllers),
                saved |-> {[start |-> aux.start, group |-> aux.group]}]
  <2>1. PICK s : s = [start |-> aux.start, group |-> aux.group]
    OBVIOUS
  <2>2. PICK b : b = MovedAway(Controllers)
    OBVIOUS
  <2>3. s \in Saved /\ s.start = aux.start /\ s.group = aux.group
    BY <1>1, <2>1, AuxParts DEF Saved
  <2>4. /\ b \in Auxiliary /\ b.start = aux.start /\ b.own = aux.own
        /\ aux.lost \subseteq b.lost
    BY <1>1, <2>2, MovedAwayParts
  <2>5. o.saved = {s} /\ o.aux = b
    BY <1>2, <2>1, <2>2
  <2>6. QED
    BY <1>1, <2>3, <2>4, <2>5 DEF AuxPart
<1>3. CASE o = [aux |-> MovedAway({"cpuset"}), saved |-> {}]
  <2>1. PICK b : b = MovedAway({"cpuset"})
    OBVIOUS
  <2>2. /\ b \in Auxiliary /\ b.start = aux.start /\ b.own = aux.own
        /\ aux.lost \subseteq b.lost
        /\ \A k \in Controllers :
              b.group[k] = IF k \in {"cpuset"} THEN "background" ELSE aux.group[k]
        /\ \A k \in {"cpuset"} : k \in b.lost \/ aux.own[k] = "background"
    BY <1>1, <2>1, MovedAwayParts DEF Controllers
  <2>3. o.saved = {} /\ o.aux = b
    BY <1>3, <2>1
  <2>4. \A k \in Controllers : k \in b.lost \/ b.group[k] = b.own[k]
    BY <1>1, <2>2
  <2>5. QED
    BY <1>1, <2>2, <2>3, <2>4 DEF AuxPart
<1>4. CASE o = [aux |-> aux, saved |-> {}]
  BY <1>1, <1>4 DEF AuxPart
<1>5. QED
  BY <1>2, <1>3, <1>4 DEF AuxiliaryOutcomes

LEMMA MovedBackParts ==
    ASSUME aux \in Auxiliary, NEW s \in Saved, NEW F, F \subseteq Controllers
    PROVE  /\ MovedBack(s, F) \in Auxiliary /\ MovedBack(s, F).start = aux.start
           /\ MovedBack(s, F).own = aux.own
           /\ aux.lost \subseteq MovedBack(s, F).lost
           /\ \A k \in Controllers :
                 IF k \in F
                 THEN k \in MovedBack(s, F).lost \/ MovedBack(s, F).group[k] = aux.own[k]
                 ELSE MovedBack(s, F).group[k] = s.group[k]
<1> DEFINE g == [k \in Controllers |-> IF k \in F THEN aux.group[k] ELSE s.group[k]]
           lost == aux.lost \cup {k \in F : aux.group[k] # aux.own[k]}
<1>1. MovedBack(s, F) = [aux EXCEPT !.group = g, !.lost = lost]
  BY DEF MovedBack
<1>2. aux.lost \subseteq Controllers /\ aux.group \in InGroups /\ s.group \in InGroups
  BY AuxParts, SavedParts
<1>3. g \in InGroups /\ lost \in SUBSET Controllers
  BY <1>2 DEF InGroups
<1>4. /\ \A k \in Controllers : g[k] = IF k \in F THEN aux.group[k] ELSE s.group[k]
      /\ aux.lost \subseteq lost
      /\ \A k \in F : k \in lost \/ aux.group[k] = aux.own[k]
  OBVIOUS
<1> HIDE DEF g, lost
<1>5. PICK b : b = MovedBack(s, F)
  OBVIOUS
<1>6. /\ b \in Auxiliary /\ b.start = aux.start /\ b.own = aux.own
      /\ b.group = g /\ b.lost = lost
  BY <1>1, <1>3, <1>5 DEF Auxiliary
<1>7. QED
  BY <1>4, <1>5, <1>6

LEMMA RestoredAuxPart ==
    ASSUME NEW n, NEW active, AuxPart(policy.aux, aux, n, active),
           NEW b \in RestoredAuxiliary
    PROVE  AuxPart({}, b, n, FALSE)
<1> DEFINE saved == {s \in policy.aux : s.start = aux.start}
<1>1. /\ aux \in Auxiliary /\ aux.start <= n /\ policy.aux \subseteq Saved
      /\ \A k \in Controllers :
            \/ k \in aux.lost
            \/ IF \E s \in policy.aux : s.start = aux.start
               THEN \A s \in policy.aux : s.group[k] = aux.own[k]
               ELSE aux.group[k] = aux.own[k]
  BY DEF AuxPart
<1>2. CASE saved = {}
  <2>1. b = aux
    BY <1>2 DEF RestoredAuxiliary
  <2>2. QED
    BY <1>1, <1>2, <2>1 DEF AuxPart
<1>3. CASE saved # {}
  <2>1. PICK s \in saved : s = CHOOSE u \in saved : TRUE
    BY <1>3
  <2>2. PICK F \in SUBSET (Faults \cap Controllers) : b = MovedBack(s, F)
    BY <1>3, <2>1 DEF RestoredAuxiliary
  <2>3. s \in policy.aux /\ s \in Saved /\ s.start = aux.start
    BY <1>1
  <2>4. /\ b \in Auxiliary /\ b.start = aux.start /\ b.own = aux.own
        /\ aux.lost \subseteq b.lost
        /\ \A k \in Controllers : IF k \in F
                                  THEN k \in b.lost \/ b.group[k] = aux.own[k]
                                  ELSE b.group[k] = s.group[k]
    BY <1>1, <2>2, <2>3, MovedBackParts
  <2>5. \A k \in Controllers : k \in b.lost \/ b.group[k] = b.own[k]
    BY <1>1, <2>3, <2>4
  <2>6. QED
    BY <1>1, <2>4, <2>5 DEF AuxPart
<1>4. QED
  BY <1>2, <1>3

-----------------------------------------------------------------------------
(* The frequency limit                                                       *)

(* As long as the limit has the value the policy wrote, the saved one is the *)
(* one others chose last; with any other value the limit is theirs.  Between *)
(* two system calls it is what the function saw, or lost.                    *)
LimitPart(saved, pending, l, active) ==
    /\ saved \subseteq Lowered /\ \A f, g \in saved : f = g
    /\ l \in Limit
    /\ active \/ pending = "giveBack" \/ saved = {}
    /\ pending = "none" \/ saved # {}
    /\ \/ l.lost
       \/ /\ pending = "none"
          /\ IF \E f \in saved : f.applied = l.value
             THEN \A f \in saved : f.original = l.own
             ELSE l.value = l.own
       \/ /\ pending = "lower" /\ l.value = l.own
          /\ \A f \in saved : f.original = l.own
       \/ /\ pending \in {"readBack", "giveBack"}
          /\ \A f \in saved : f.applied = l.value /\ f.original = l.own

LEMMA ScaledType ==
    ASSUME NEW v \in Nat
    PROVE  Scaled(v) \in Nat
<1>1. v * Percent \in Nat
  BY PolicyAssumption
<1>2. QED
  BY <1>1 DEF Scaled

LEMMA ChosenLimit ==
    ASSUME NEW v \in Limits, NEW p, NEW l, NEW active,
           LimitPart(p.limits, p.pending, l, active)
    PROVE  LimitPart(p.limits, p.pending, Chosen(v, p), active)
<1> DEFINE lost == p.pending # "none" \/ \E f \in p.limits : f.applied = v
<1>1. v \in Nat /\ lost \in BOOLEAN
  BY PolicyAssumption
<1>2. PICK c : c = Chosen(v, p)
  OBVIOUS
<1>3. c = [value |-> v, own |-> v, lost |-> lost]
  BY <1>2 DEF Chosen
<1>4. lost \/ (p.pending = "none" /\ \A f \in p.limits : f.applied # v)
  OBVIOUS
<1> HIDE DEF lost
<1>5. c \in Limit /\ c.value = v /\ c.own = v /\ c.lost = lost
  BY <1>1, <1>3 DEF Limit
<1>6. QED
  BY <1>2, <1>4, <1>5 DEF LimitPart

LEMMA LimitReadPart ==
    ASSUME LimitPart({}, "none", limit, FALSE)
    PROVE  LET pending == IF LimitRead = {} THEN "none" ELSE "lower"
           IN  LimitPart(LimitRead, pending, limit, TRUE)
<1> DEFINE target == Scaled(limit.value)
<1>1. /\ limit \in Limit
      /\ limit.lost \/ limit.value = limit.own
      /\ limit.value \in Nat /\ target \in Nat
  BY ScaledType DEF LimitPart, Limit
<1>2. CASE LimitRead = {}
  BY <1>1, <1>2 DEF LimitPart
<1>3. CASE LimitRead # {}
  <2>1. LimitRead = {[original |-> limit.value, applied |-> target]}
    BY <1>3 DEF LimitRead
  <2>2. PICK R : R = LimitRead
    OBVIOUS
  <2>3. /\ R \subseteq Lowered /\ \A f, g \in R : f = g
        /\ R # {}
        /\ \A f \in R : f.original = limit.value
    BY <1>1, <2>1, <2>2 DEF Lowered
  <2>4. LimitPart(R, "lower", limit, TRUE)
    BY <1>1, <2>3 DEF LimitPart
  <2>5. QED
    BY <1>3, <2>2, <2>4
<1>4. QED
  BY <1>2, <1>3

(* A written limit has the value written and is others' choice as before.    *)
LEMMA WrittenLimit ==
    ASSUME limit \in Limit, NEW v \in Nat
    PROVE  LET l == [limit EXCEPT !.value = v]
           IN  l \in Limit /\ l.value = v /\ l.own = limit.own /\ l.lost = limit.lost
BY DEF Limit

LEMMA UnwrittenLimit ==
    ASSUME limit \in Limit
    PROVE  LimitPart({}, "none", Unwritten, FALSE) /\ LimitPart({}, "none", Unwritten, TRUE)
<1>1. PICK l : l = Unwritten
  OBVIOUS
<1> DEFINE lost == limit.value # limit.own
<1>2. l = [limit EXCEPT !.lost = lost] /\ lost \in BOOLEAN
  BY <1>1 DEF Unwritten
<1>3. lost \/ limit.value = limit.own
  OBVIOUS
<1> HIDE DEF lost
<1>4. /\ l \in Limit /\ l.value = limit.value /\ l.own = limit.own
      /\ l.lost = lost
  BY <1>2 DEF Limit
<1>5. QED
  BY <1>1, <1>3, <1>4 DEF LimitPart

-----------------------------------------------------------------------------
(* The invariant                                                             *)

Consistent(p, ts, a, l, n) ==
    /\ p \in Policy
    /\ ThreadPart(p.tasks, ts, n, p.status = "active", "launcher" \in p.enabled)
    /\ AuxPart(p.aux, a, n, p.status = "active")
    /\ LimitPart(p.limits, p.pending, l, p.status = "active")
    /\ p.status = "off" => p.tasks = {}

IInv == Consistent(policy, thread, aux, limit, clock)

LEMMA NoThreadType ==
    NoThread \in Thread /\ NoThread.start = 0
<1>1. PICK m \in OwnMasks : m = CHOOSE q \in OwnMasks : TRUE
  BY PolicyAssumption
<1>2. PICK v \in OwnClamps : v = CHOOSE q \in OwnClamps : TRUE
  BY PolicyAssumption
<1>3. NoThread = [NewThread("plain", m, v) EXCEPT !.start = 0]
  BY <1>1, <1>2 DEF NoThread
<1>4. 0 \in 0..MaxStart
  BY PolicyAssumption
<1>5. QED
  BY <1>3, <1>4 DEF NewThread, Thread, Masks, Clamps, Classes

LEMMA InitGood ==
    ASSUME Init
    PROVE  IInv
<1>1. PICK enabled \in Configurations : policy = PolicyOff(enabled)
  BY DEF Init
<1>2. /\ policy \in Policy /\ policy.status = "off" /\ policy.tasks = {}
      /\ policy.aux = {} /\ policy.limits = {} /\ policy.pending = "none"
      /\ policy.enabled = enabled
  BY <1>1, PolicyAssumption DEF PolicyOff, Policy
<1>3. clock = 1 /\ 1 \in 1..MaxStart
  BY PolicyAssumption DEF Init
<1>4. NoThread \in Thread /\ NoThread.start = 0
  BY NoThreadType
<1>5. ThreadPart({}, thread, clock, FALSE, "launcher" \in policy.enabled)
  <2>1. thread \in [Tids -> Thread] /\ \A t \in Tids : thread[t].start = 0
    BY <1>4 DEF Init
  <2>2. QED
    BY <1>3, <2>1 DEF ThreadPart, Book, Births, Distinct, Kept
<1>6. AuxPart({}, aux, clock, FALSE)
  <2>1. PICK in : in = [k \in Controllers |-> CHOOSE g \in Groups : TRUE]
    OBVIOUS
  <2>2. in \in InGroups
    BY <2>1, PolicyAssumption DEF InGroups, AllGroups
  <2>3. aux = [start |-> 1, group |-> in, own |-> in, lost |-> {}]
    BY <2>1 DEF Init
  <2>4. /\ aux \in Auxiliary /\ aux.start = 1 /\ aux.group = in /\ aux.own = in
    BY <1>3, <2>2, <2>3 DEF Auxiliary
  <2>5. QED
    BY <1>3, <2>4 DEF AuxPart
<1>7. LimitPart(policy.limits, policy.pending, limit, FALSE)
  <2>1. PICK v \in Limits : v = CHOOSE f \in Limits : TRUE
    BY PolicyAssumption
  <2>2. limit = Chosen(v, policy)
    BY <2>1 DEF Init
  <2>3. limit = [value |-> v, own |-> v, lost |-> FALSE]
    BY <1>2, <2>2 DEF Chosen
  <2>4. v \in Nat
    BY PolicyAssumption
  <2>5. limit \in Limit /\ limit.value = limit.own
    BY <2>3, <2>4 DEF Limit
  <2>6. QED
    BY <1>2, <2>5 DEF LimitPart
<1>8. QED
  BY <1>2, <1>5, <1>6, <1>7 DEF IInv, Consistent

LEMMA InitializeGood ==
    ASSUME IInv, Initialize
    PROVE  IInv'
<1>1. PICK tasks \in CollectedIf("launcher", {}, LauncherClasses) :
          /\ policy' = [policy EXCEPT !.status = "idle", !.tasks = tasks]
          /\ thread' = Applied(thread, tasks, TRUE, {"mask"})
  BY DEF Initialize
<1> DEFINE launcher == "launcher" \in policy.enabled
<1>2. launcher \in BOOLEAN /\ launcher = ("launcher" \in policy.enabled)
  OBVIOUS
<1> HIDE DEF launcher
<1>3. /\ policy \in Policy /\ policy.status = "off" /\ policy.tasks = {}
      /\ ThreadPart({}, thread, clock, FALSE, launcher)
      /\ AuxPart(policy.aux, aux, clock, FALSE)
      /\ LimitPart(policy.limits, policy.pending, limit, FALSE)
      /\ UNCHANGED <<aux, limit, clock>>
  BY <1>2 DEF IInv, Consistent, Initialize
<1>4. ThreadPart(tasks, thread, clock, FALSE, launcher)
  <2>1. CASE launcher
    <3>1. tasks \in Collected({}, thread, LauncherClasses)
      BY <1>1, <1>2, <2>1 DEF CollectedIf, Enabled
    <3>2. QED
      BY <1>3, <2>1, <3>1, CollectedPart
  <2>2. CASE ~launcher
    BY <1>1, <1>2, <1>3, <2>2 DEF CollectedIf, Enabled
  <2>3. QED
    BY <2>1, <2>2
<1>5. ThreadPart(tasks, thread', clock, FALSE, launcher)
  BY <1>1, <1>2, <1>4, AppliedPart
<1>6. tasks \subseteq Record
  BY <1>4 DEF ThreadPart, Book
<1>7. /\ policy' \in Policy /\ policy'.status = "idle" /\ policy'.tasks = tasks
      /\ policy'.aux = policy.aux /\ policy'.limits = policy.limits
      /\ policy'.pending = policy.pending /\ policy'.enabled = policy.enabled
  BY <1>1, <1>3, <1>6 DEF Policy
<1>8. QED
  BY <1>2, <1>3, <1>5, <1>7 DEF IInv, Consistent

LEMMA BeginGood ==
    ASSUME IInv, Begin
    PROVE  IInv'
<1> DEFINE Vs == CollectedIf("launcher",
                     IF FirstBegin THEN Compact(policy.tasks, thread) ELSE policy.tasks,
                     LauncherClasses)
           Us(V) == CollectedIf("systemui", V, SystemClasses)
           As == IF FirstBegin /\ Enabled("auxiliary") THEN AuxiliaryOutcomes
                 ELSE {[aux |-> aux, saved |-> policy.aux]}
           Tasks(U) == IF FirstBegin THEN RefreshClamps(U, thread) ELSE U
           Read == IF FirstBegin /\ Enabled("frequency") THEN LimitRead ELSE {}
           Limits2 == IF FirstBegin THEN Read ELSE policy.limits
           Pending2 == IF Read = {} THEN "none" ELSE "lower"
           Step(U, a) ==
              /\ policy' = [policy EXCEPT !.status = "active", !.tasks = Tasks(U),
                     !.aux = a.saved, !.limits = Limits2, !.pending = Pending2]
              /\ thread' = Applied(thread, Tasks(U), TRUE, {"mask", "clamp"})
              /\ aux' = a.aux
<1>a. \E V \in Vs : \E U \in Us(V) : \E a \in As : Step(U, a)
  BY DEF Begin
<1> HIDE DEF Step
<1>b. PICK V \in Vs : \E U \in Us(V) : \E a \in As : Step(U, a)
  BY <1>a
<1>c. PICK U \in Us(V) : \E a \in As : Step(U, a)
  BY <1>b
<1>1. PICK a \in As : Step(U, a)
  BY <1>c
<1> DEFINE tasks == Tasks(U)
<1> DEFINE launcher == Enabled("launcher")
           system == Enabled("systemui")
           active == Active
<1>2. launcher \in BOOLEAN /\ launcher = Enabled("launcher")
  BY DEF Enabled
<1>3. system \in BOOLEAN /\ system = Enabled("systemui")
  BY DEF Enabled
<1>4. active \in BOOLEAN /\ active = Active
  BY DEF Active
<1> HIDE DEF launcher, system, active
<1>5. /\ policy \in Policy /\ ThreadPart(policy.tasks, thread, clock, active, launcher)
      /\ AuxPart(policy.aux, aux, clock, active)
      /\ LimitPart(policy.limits, "none", limit, active)
      /\ UNCHANGED <<limit, clock>>
  BY <1>2, <1>4 DEF IInv, Consistent, Begin, Active, Enabled, Returned
<1>6. /\ V \in IF launcher
               THEN Collected(IF ~active THEN Compact(policy.tasks, thread)
                              ELSE policy.tasks, thread, LauncherClasses)
               ELSE {IF ~active THEN Compact(policy.tasks, thread) ELSE policy.tasks}
      /\ U \in IF system THEN Collected(V, thread, SystemClasses) ELSE {V}
  BY <1>1, <1>2, <1>3, <1>4 DEF CollectedIf, FirstBegin
<1>7. ThreadPart(tasks, thread, clock, TRUE, launcher)
  <2>1. CASE active
    <3>1. tasks = U
      BY <1>4, <2>1 DEF FirstBegin
    <3>2. /\ V \in IF launcher THEN Collected(policy.tasks, thread, LauncherClasses)
                   ELSE {policy.tasks}
          /\ ThreadPart(policy.tasks, thread, clock, TRUE, launcher)
      BY <1>5, <1>6, <2>1
    <3>3. QED
      BY <1>2, <1>3, <1>6, <3>1, <3>2, LaterBeginPart
  <2>2. CASE ~active
    <3>1. tasks = RefreshClamps(U, thread)
      BY <1>4, <2>2 DEF FirstBegin
    <3>2. /\ V \in IF launcher
                   THEN Collected(Compact(policy.tasks, thread), thread, LauncherClasses)
                   ELSE {Compact(policy.tasks, thread)}
          /\ U \in IF system THEN Collected(V, thread, SystemClasses) ELSE {V}
          /\ active = FALSE
      BY <1>4, <1>6, <2>2
    <3>3. ThreadPart(policy.tasks, thread, clock, FALSE, launcher)
      BY <1>5, <3>2
    <3>4. ThreadPart(RefreshClamps(U, thread), thread, clock, TRUE, launcher)
      <4>1. PICK T : T = policy.tasks
        OBVIOUS
      <4>2. /\ V \in IF launcher
                    THEN Collected(Compact(T, thread), thread, LauncherClasses)
                    ELSE {Compact(T, thread)}
            /\ ThreadPart(T, thread, clock, FALSE, launcher)
        BY <3>2, <3>3, <4>1
      <4>3. U \in IF system THEN Collected(V, thread, SystemClasses) ELSE {V}
        BY <3>2
      <4>4. QED
        BY <1>2, <1>3, <4>2, <4>3, FirstBeginPart
    <3>5. QED
      BY <3>1, <3>4
  <2>3. QED
    BY <2>1, <2>2
<1>8. /\ policy' = [policy EXCEPT !.status = "active", !.tasks = tasks,
             !.aux = a.saved, !.limits = Limits2, !.pending = Pending2]
      /\ thread' = Applied(thread, tasks, TRUE, {"mask", "clamp"})
      /\ aux' = a.aux
  BY <1>1 DEF Step
<1> HIDE DEF tasks, Tasks
<1>9. ThreadPart(tasks, thread', clock, TRUE, launcher)
  BY <1>2, <1>7, <1>8, AppliedPart
<1>10. AuxPart(a.saved, aux', clock, TRUE)
  <2>1. CASE FirstBegin /\ Enabled("auxiliary")
    <3>1. AuxPart({}, aux, clock, FALSE)
      BY <1>4, <1>5, <2>1 DEF FirstBegin, AuxPart
    <3>2. QED
      BY <1>1, <1>8, <2>1, <3>1, MovedAuxPart
  <2>2. CASE ~(FirstBegin /\ Enabled("auxiliary"))
    <3>1. a.saved = policy.aux /\ aux' = aux
      BY <1>1, <1>8, <2>2
    <3>2. QED
      BY <1>5, <3>1 DEF AuxPart
  <2>3. QED
    BY <2>1, <2>2
<1>11. LimitPart(Limits2, Pending2, limit, TRUE)
  <2>1. CASE FirstBegin /\ Enabled("frequency")
    <3>1. LimitPart({}, "none", limit, FALSE)
      BY <1>4, <1>5, <2>1 DEF FirstBegin, LimitPart
    <3>2. QED
      BY <2>1, <3>1, LimitReadPart
  <2>2. CASE FirstBegin /\ ~Enabled("frequency")
    <3>1. Limits2 = {} /\ Pending2 = "none"
      BY <2>2
    <3>2. policy.limits = {}
      BY <1>4, <1>5, <2>2 DEF FirstBegin, LimitPart
    <3>3. QED
      BY <1>5, <3>1, <3>2 DEF LimitPart
  <2>3. CASE ~FirstBegin
    <3>1. Limits2 = policy.limits /\ Pending2 = "none"
      BY <2>3
    <3>2. QED
      BY <1>5, <3>1 DEF LimitPart
  <2>4. QED
    BY <2>1, <2>2, <2>3
<1>12. /\ tasks \subseteq Record /\ a.saved \subseteq Saved /\ Limits2 \subseteq Lowered
       /\ Pending2 \in {"none", "lower"}
  BY <1>9, <1>10, <1>11 DEF ThreadPart, Book, AuxPart, LimitPart
<1>13. PICK A : A = a.saved
  OBVIOUS
<1> HIDE DEF Limits2, Pending2
<1>14. /\ policy' \in Policy /\ policy'.status = "active" /\ policy'.tasks = tasks
       /\ policy'.aux = A /\ policy'.limits = Limits2 /\ policy'.pending = Pending2
       /\ policy'.enabled = policy.enabled
  BY <1>5, <1>8, <1>12, <1>13 DEF Policy
<1>15. QED
  BY <1>2, <1>5, <1>9, <1>10, <1>11, <1>13, <1>14 DEF IInv, Consistent, Enabled

(* The steps of begin on the limit.                                          *)
LEMMA LowerLimitGood ==
    ASSUME IInv, LowerLimit
    PROVE  IInv'
<1> DEFINE active == policy.status = "active"
<1>1. active \in BOOLEAN /\ active = (policy.status = "active")
  OBVIOUS
<1> HIDE DEF active
<1>2. /\ policy \in Policy /\ LimitPart(policy.limits, "lower", limit, active)
      /\ limit \in Limit /\ UNCHANGED <<thread, aux, clock>>
  BY <1>1 DEF IInv, Consistent, LimitPart, LowerLimit
<1>3. ASSUME NEW f \in policy.limits, limit' = [limit EXCEPT !.value = f.applied],
             policy' = [policy EXCEPT !.pending = "readBack"]
      PROVE  IInv'
  <2>1. f.applied \in Nat
    BY <1>2 DEF LimitPart, Lowered
  <2>2. PICK l : l = limit'
    OBVIOUS
  <2>3. /\ l \in Limit /\ l.value = f.applied /\ l.own = limit.own
        /\ l.lost = limit.lost
    BY <1>2, <1>3, <2>1, <2>2, WrittenLimit
  <2>4. LimitPart(policy.limits, "readBack", l, active)
    BY <1>2, <2>3 DEF LimitPart
  <2>5. /\ policy' \in Policy /\ policy'.pending = "readBack"
        /\ policy'.status = policy.status /\ policy'.enabled = policy.enabled
        /\ policy'.tasks = policy.tasks /\ policy'.aux = policy.aux
        /\ policy'.limits = policy.limits
    BY <1>2, <1>3 DEF Policy
  <2>6. QED
    BY <1>1, <1>2, <2>2, <2>4, <2>5 DEF IInv, Consistent
<1>4. ASSUME limit' = Unwritten,
             policy' = [policy EXCEPT !.pending = "none", !.limits = {}]
      PROVE  IInv'
  <2>1. LimitPart({}, "none", limit', active)
    BY <1>1, <1>2, <1>4, UnwrittenLimit
  <2>2. /\ policy' \in Policy /\ policy'.pending = "none"
        /\ policy'.status = policy.status /\ policy'.enabled = policy.enabled
        /\ policy'.tasks = policy.tasks /\ policy'.aux = policy.aux
        /\ policy'.limits = {}
    BY <1>2, <1>4 DEF Policy
  <2>3. QED
    BY <1>1, <1>2, <2>1, <2>2 DEF IInv, Consistent
<1>5. QED
  BY <1>3, <1>4 DEF LowerLimit

LEMMA ReadBackGood ==
    ASSUME IInv, ReadBack
    PROVE  IInv'
<1> DEFINE active == policy.status = "active"
<1>1. active \in BOOLEAN /\ active = (policy.status = "active")
  OBVIOUS
<1> HIDE DEF active
<1> DEFINE R == {[f EXCEPT !.applied = limit.value] : f \in policy.limits}
<1>2. /\ policy \in Policy /\ LimitPart(policy.limits, "readBack", limit, active)
      /\ limit \in Limit /\ UNCHANGED <<thread, aux, limit, clock>>
      /\ policy' = [policy EXCEPT !.pending = "none", !.limits = R]
  BY <1>1 DEF IInv, Consistent, LimitPart, ReadBack
<1>3. PICK f \in policy.limits : policy.limits = {f}
  BY <1>2 DEF LimitPart
<1>4. PICK g : g = [f EXCEPT !.applied = limit.value]
  OBVIOUS
<1>5. R = {g}
  BY <1>3, <1>4
<1>6. g \in Lowered /\ g.applied = limit.value /\ g.original = f.original
  BY <1>2, <1>3, <1>4 DEF LimitPart, Lowered, Limit
<1>7. limit.lost \/ f.original = limit.own
  BY <1>2, <1>3 DEF LimitPart
<1> HIDE DEF R
<1>8. LimitPart(R, "none", limit, active)
  BY <1>2, <1>5, <1>6, <1>7 DEF LimitPart
<1>9. /\ policy' \in Policy /\ policy'.pending = "none"
      /\ policy'.status = policy.status /\ policy'.enabled = policy.enabled
      /\ policy'.tasks = policy.tasks /\ policy'.aux = policy.aux
      /\ policy'.limits = R
  BY <1>2, <1>5, <1>6 DEF Policy
<1>10. QED
  BY <1>1, <1>2, <1>8, <1>9 DEF IInv, Consistent

LEMMA ReassertGood ==
    ASSUME IInv, Reassert
    PROVE  IInv'
<1> DEFINE launcher == "launcher" \in policy.enabled
<1>1. launcher \in BOOLEAN /\ launcher = ("launcher" \in policy.enabled)
  OBVIOUS
<1> HIDE DEF launcher
<1>2. ThreadPart(policy.tasks, thread, clock, TRUE, launcher)
  BY <1>1 DEF IInv, Consistent, Reassert, Active
<1>3. ThreadPart(policy.tasks, thread', clock, TRUE, launcher)
  BY <1>1, <1>2, AppliedPart DEF Reassert
<1>4. QED
  BY <1>1, <1>3 DEF IInv, Consistent, Reassert, Active

(* What complete does before it writes the limit, also as part of destroy.   *)
LEMMA CompletingGood ==
    ASSUME IInv, NEW status \in {"idle", "ending"}, Completing(status)
    PROVE  IInv'
<1> DEFINE launcher == "launcher" \in policy.enabled
<1>1. launcher \in BOOLEAN /\ launcher = ("launcher" \in policy.enabled)
  OBVIOUS
<1> HIDE DEF launcher
<1>2. /\ policy \in Policy /\ ThreadPart(policy.tasks, thread, clock, TRUE, launcher)
      /\ AuxPart(policy.aux, aux, clock, TRUE)
      /\ LimitPart(policy.limits, "none", limit, TRUE)
  BY <1>1 DEF IInv, Consistent, Completing, Active, Returned
<1> DEFINE C == Compact(policy.tasks, thread)
           S == StillApplied
           pending == IF S = {} THEN "none" ELSE "giveBack"
<1>3. ThreadPart(C, thread', clock, FALSE, launcher)
  BY <1>1, <1>2, CompletedPart DEF Completing, Completed
<1>4. AuxPart({}, aux', clock, FALSE)
  BY <1>2, RestoredAuxPart DEF Completing
<1>5. LimitPart(S, pending, limit, FALSE)
  BY <1>2 DEF LimitPart, StillApplied
<1>6. policy' = [policy EXCEPT !.status = status, !.aux = {}, !.tasks = C,
                               !.limits = S, !.pending = pending]
  BY DEF Completing
<1>7. C \subseteq Record /\ S \subseteq Lowered /\ pending \in {"none", "giveBack"}
  BY <1>3, <1>5 DEF ThreadPart, Book, LimitPart
<1> HIDE DEF C, S, pending
<1>8. /\ policy' \in Policy /\ policy'.status = status /\ policy'.tasks = C
      /\ policy'.aux = {} /\ policy'.limits = S /\ policy'.pending = pending
      /\ policy'.enabled = policy.enabled
  BY <1>2, <1>6, <1>7 DEF Policy
<1>9. UNCHANGED <<limit, clock>>
  BY DEF Completing
<1>10. QED
  BY <1>1, <1>3, <1>4, <1>5, <1>8, <1>9 DEF IInv, Consistent

LEMMA GiveBackGood ==
    ASSUME IInv, GiveBack
    PROVE  IInv'
<1> DEFINE active == policy.status = "active"
<1>1. active \in BOOLEAN /\ active = (policy.status = "active")
  OBVIOUS
<1> HIDE DEF active
<1>2. /\ policy \in Policy /\ LimitPart(policy.limits, "giveBack", limit, active)
      /\ limit \in Limit /\ UNCHANGED <<thread, aux, clock>>
      /\ policy' = [policy EXCEPT !.pending = "none", !.limits = {}]
  BY <1>1 DEF IInv, Consistent, LimitPart, GiveBack
<1>3. LimitPart({}, "none", limit', active)
  <2>1. ASSUME NEW f \in policy.limits, limit' = [limit EXCEPT !.value = f.original]
        PROVE  LimitPart({}, "none", limit', active)
    <3>1. f.original \in Nat
      BY <1>2 DEF LimitPart, Lowered
    <3>2. PICK l : l = limit'
      OBVIOUS
    <3>3. /\ l \in Limit /\ l.value = f.original /\ l.own = limit.own
          /\ l.lost = limit.lost
      BY <1>2, <2>1, <3>1, <3>2, WrittenLimit
    <3>4. QED
      BY <1>2, <3>2, <3>3 DEF LimitPart
  <2>2. CASE limit' = Unwritten
    BY <1>1, <1>2, <2>2, UnwrittenLimit
  <2>3. QED
    BY <2>1, <2>2 DEF GiveBack
<1>4. /\ policy' \in Policy /\ policy'.pending = "none"
      /\ policy'.status = policy.status /\ policy'.enabled = policy.enabled
      /\ policy'.tasks = policy.tasks /\ policy'.aux = policy.aux
      /\ policy'.limits = {}
  BY <1>2 DEF Policy
<1>5. QED
  BY <1>1, <1>2, <1>3, <1>4 DEF IInv, Consistent

LEMMA OffType ==
    ASSUME policy \in Policy, policy' = PolicyOff(policy.enabled)
    PROVE  /\ policy' \in Policy /\ policy'.status = "off" /\ policy'.tasks = {}
           /\ policy'.aux = {} /\ policy'.limits = {} /\ policy'.pending = "none"
           /\ policy'.enabled = policy.enabled
BY DEF Policy, PolicyOff

LEMMA DestroyGood ==
    ASSUME IInv, Destroy
    PROVE  IInv'
<1> DEFINE launcher == "launcher" \in policy.enabled
<1>1. launcher \in BOOLEAN /\ launcher = ("launcher" \in policy.enabled)
  OBVIOUS
<1> HIDE DEF launcher
<1>2. /\ policy' \in Policy /\ policy'.status = "off" /\ policy'.tasks = {}
      /\ policy'.aux = {} /\ policy'.limits = {} /\ policy'.pending = "none"
      /\ policy'.enabled = policy.enabled /\ UNCHANGED <<aux, limit, clock>>
  BY OffType DEF IInv, Consistent, Destroy
<1>3. /\ ThreadPart(policy.tasks, thread, clock, FALSE, launcher)
      /\ AuxPart(policy.aux, aux, clock, FALSE)
      /\ LimitPart(policy.limits, "none", limit, FALSE)
  BY <1>1 DEF IInv, Consistent, Destroy, Returned
<1>4. ThreadPart({}, thread', clock, FALSE, launcher)
  BY <1>1, <1>3, DestroyedPart DEF Destroy
<1>5. AuxPart({}, aux, clock, FALSE) /\ LimitPart({}, "none", limit, FALSE)
  BY <1>3 DEF AuxPart, LimitPart
<1>6. QED
  BY <1>1, <1>2, <1>4, <1>5 DEF IInv, Consistent

LEMMA DifferingParts ==
    ASSUME NEW th
    PROVE  /\ Differing(th) \subseteq {"mask", "clamp"}
           /\ "mask" \in Differing(th) \/ th.mask = th.ownMask
           /\ "clamp" \in Differing(th) \/ th.clamp = th.ownClamp
BY DEF Differing

LEMMA CrashGood ==
    ASSUME IInv, Crash
    PROVE  IInv'
<1> DEFINE launcher == "launcher" \in policy.enabled
<1>1. launcher \in BOOLEAN /\ launcher = ("launcher" \in policy.enabled)
  OBVIOUS
<1> HIDE DEF launcher
<1>2. /\ policy' \in Policy /\ policy'.status = "off" /\ policy'.tasks = {}
      /\ policy'.aux = {} /\ policy'.limits = {} /\ policy'.pending = "none"
      /\ policy'.enabled = policy.enabled /\ clock' = clock
  BY OffType DEF IInv, Consistent, Crash
<1>3. /\ Births(thread, clock) /\ thread \in [Tids -> Thread]
      /\ aux \in Auxiliary /\ aux.start <= clock /\ limit \in Limit
  BY DEF IInv, Consistent, ThreadPart, Births, AuxPart, LimitPart
<1>4. ASSUME NEW t \in Tids
      PROVE  Rewritten(thread[t], thread'[t]) /\ Untouched(thread'[t])
  <2>1. PICK th \in Thread : th = thread[t]
    BY <1>3
  <2>2. PICK w : w = thread'[t]
    OBVIOUS
  <2>3. PICK lost : lost = th.lost \cup Differing(th)
    OBVIOUS
  <2>4. w = [th EXCEPT !.lost = lost]
    BY <2>1, <2>2, <2>3 DEF Crash
  <2>5. /\ th.lost \subseteq lost /\ lost \subseteq {"mask", "clamp"}
        /\ "mask" \in lost \/ th.mask = th.ownMask
        /\ "clamp" \in lost \/ th.clamp = th.ownClamp
    BY <2>3, ThreadParts, DifferingParts
  <2>6. Rewritten(th, w) /\ Untouched(w)
    BY <2>4, <2>5 DEF Rewritten, Untouched, Thread
  <2>7. QED
    BY <2>1, <2>2, <2>6
<1>5. Births(thread', clock)
  <2>1. thread' = [t \in Tids |-> thread'[t]]
    BY DEF Crash
  <2>2. QED
    BY <1>3, <1>4, <2>1, RewrittenBirths
<1>6. ThreadPart({}, thread', clock, FALSE, launcher)
  BY <1>4, <1>5 DEF ThreadPart, Book, Distinct, Kept
<1>7. AuxPart({}, aux', clock, FALSE)
  <2>1. PICK lost : lost = aux.lost \cup {k \in Controllers : aux.group[k] # aux.own[k]}
    OBVIOUS
  <2>2. PICK a : a = aux'
    OBVIOUS
  <2>3. a = [aux EXCEPT !.lost = lost]
    BY <2>1, <2>2 DEF Crash
  <2>4. lost \in SUBSET Controllers
    BY <1>3, <2>1, AuxParts
  <2>5. /\ a \in Auxiliary /\ a.start = aux.start /\ a.own = aux.own
        /\ a.group = aux.group /\ a.lost = lost
    BY <1>3, <2>3, <2>4 DEF Auxiliary
  <2>6. \A k \in Controllers : k \in a.lost \/ a.group[k] = a.own[k]
    BY <2>1, <2>5
  <2>7. QED
    BY <1>3, <2>2, <2>5, <2>6 DEF AuxPart
<1>8. LimitPart({}, "none", limit', FALSE)
  <2> DEFINE lost == limit.lost \/ limit.value # limit.own
  <2>1. PICK l : l = limit'
    OBVIOUS
  <2>2. l = [limit EXCEPT !.lost = lost] /\ lost \in BOOLEAN
    BY <1>3, <2>1 DEF Crash, Limit
  <2>3. lost \/ limit.value = limit.own
    OBVIOUS
  <2> HIDE DEF lost
  <2>4. /\ l \in Limit /\ l.value = limit.value /\ l.own = limit.own
        /\ l.lost = lost
    BY <1>3, <2>2 DEF Limit
  <2>5. QED
    BY <2>1, <2>3, <2>4 DEF LimitPart
<1>9. QED
  BY <1>1, <1>2, <1>6, <1>7, <1>8 DEF IInv, Consistent

-----------------------------------------------------------------------------
(* What everybody else does keeps the invariant                              *)

(* A step that changes one thread.                                           *)
KeepsRecords(t, th, v) ==
    \A active, launcher \in BOOLEAN :
        (Kept(policy.tasks, t, th, active, launcher) /\ active = Active)
            => Kept(policy.tasks, t, v, active, launcher)

LEMMA ThreadGood ==
    ASSUME IInv, NEW t \in Tids, NEW v \in Thread,
           thread' = [thread EXCEPT ![t] = v],
           UNCHANGED <<policy, aux, limit>>,
           clock' \in 1..MaxStart, clock <= clock', v.start <= clock',
           KeepsRecords(t, thread[t], v)
    PROVE  IInv'
<1> DEFINE launcher == "launcher" \in policy.enabled
           active == policy.status = "active"
<1>1. /\ launcher \in BOOLEAN /\ launcher = ("launcher" \in policy.enabled)
      /\ active \in BOOLEAN /\ active = (policy.status = "active")
  OBVIOUS
<1> HIDE DEF launcher, active
<1>2. PICK n : n = clock'
  OBVIOUS
<1>3. /\ ThreadPart(policy.tasks, thread, clock, active, launcher)
      /\ AuxPart(policy.aux, aux, clock, active)
  BY <1>1 DEF IInv, Consistent
<1>4. clock \in Nat /\ n \in Nat
  BY <1>2, <1>3, PolicyAssumption DEF ThreadPart, Births
<1>5. Kept(policy.tasks, t, v, active, launcher)
  BY <1>1, <1>3 DEF ThreadPart, KeepsRecords, Active
<1>6. ThreadPart(policy.tasks, thread', n, active, launcher)
  <2> DEFINE T == policy.tasks
  <2>1. n \in 1..MaxStart /\ clock <= n /\ v.start <= n
    BY <1>2
  <2>2. /\ thread \in [Tids -> Thread] /\ clock \in 1..MaxStart
        /\ \A u \in Tids : thread[u].start <= clock /\ thread[u].start \in Nat
        /\ T \subseteq Record /\ Distinct(T) /\ \A r \in T : r.start <= clock
        /\ active \/ \A r \in T : ~IsTransient(r.class)
        /\ \A u \in Tids : Kept(T, u, thread[u], active, launcher)
    BY <1>3, ThreadParts DEF ThreadPart, Book, Births
  <2>3. /\ thread' \in [Tids -> Thread] /\ thread'[t] = v
        /\ \A u \in Tids \ {t} : thread'[u] = thread[u]
    BY <2>2
  <2>4. \A u \in Tids : thread'[u].start <= n
    BY <1>4, <2>1, <2>2, <2>3
  <2>5. \A r \in T : r.start <= n
    BY <1>4, <2>1, <2>2, RecordParts
  <2>6. \A u \in Tids : Kept(T, u, thread'[u], active, launcher)
    BY <1>5, <2>2, <2>3
  <2>7. QED
    BY <2>1, <2>2, <2>3, <2>4, <2>5, <2>6 DEF ThreadPart, Book, Births
<1>7. AuxPart(policy.aux, aux, n, active)
  BY <1>2, <1>3, <1>4, AuxParts, SavedParts DEF AuxPart
<1>8. QED
  BY <1>1, <1>2, <1>6, <1>7 DEF IInv, Consistent

LEMMA OwnRecords ==
    ASSUME NEW t \in Tids
    PROVE  \A r : r \in Own(t) <=> r \in policy.tasks /\ Mine(r, t, thread[t])
BY DEF Own, Mine, RecordAlive

LEMMA SetMaskGood ==
    ASSUME IInv, NEW t \in Tids, NEW m \in OwnMasks, SetMask(t, m)
    PROVE  IInv'
<1>1. PICK th : th = thread[t]
  OBVIOUS
<1>2. PICK lost : lost = IF Own(t) # {} THEN th.lost \cup {"mask"}
                         ELSE th.lost \ {"mask"}
  OBVIOUS
<1>3. PICK v : v = [th EXCEPT !.mask = m, !.ownMask = m, !.lost = lost]
  OBVIOUS
<1>4. /\ thread \in [Tids -> Thread] /\ clock \in 1..MaxStart /\ th \in Thread
      /\ th.start <= clock
  BY <1>1 DEF IInv, Consistent, ThreadPart, Births
<1>5. thread' = [thread EXCEPT ![t] = v]
  BY <1>1, <1>2, <1>3, <1>4 DEF SetMask
<1>6. lost \in SUBSET {"mask", "clamp"} /\ m \in Masks
  BY <1>2, <1>4, ThreadParts DEF Masks
<1>7. /\ v \in Thread /\ v.start = th.start /\ v.class = th.class
      /\ v.mask = m /\ v.ownMask = m /\ v.clamp = th.clamp
      /\ v.ownClamp = th.ownClamp /\ v.lost = lost
  BY <1>3, <1>4, <1>6 DEF Thread
<1>8. ASSUME NEW active \in BOOLEAN, NEW launcher \in BOOLEAN,
             Kept(policy.tasks, t, th, active, launcher)
      PROVE  Kept(policy.tasks, t, v, active, launcher)
  <2>1. \A r : Mine(r, t, v) <=> Mine(r, t, th)
    BY <1>7 DEF Mine
  <2>2. ASSUME NEW r \in policy.tasks, Mine(r, t, th), v.start # 0
        PROVE  Holds(r, v, active, launcher)
    <3>1. Holds(r, th, active, launcher)
      BY <1>7, <1>8, <2>2 DEF Kept
    <3>2. lost = th.lost \cup {"mask"}
      BY <1>1, <1>2, <2>2, OwnRecords
    <3>3. QED
      BY <1>7, <3>1, <3>2 DEF Holds
  <2>3. ASSUME \A r \in policy.tasks : ~Mine(r, t, th), v.start # 0
        PROVE  Untouched(v)
    <3>1. Untouched(th)
      BY <1>7, <1>8, <2>3 DEF Kept
    <3>2. lost = th.lost \ {"mask"}
      BY <1>1, <1>2, <2>3, OwnRecords
    <3>3. QED
      BY <1>7, <3>1, <3>2 DEF Untouched
  <2>4. QED
    BY <2>1, <2>2, <2>3 DEF Kept
<1>9. UNCHANGED <<policy, aux, limit, clock>>
  BY DEF SetMask, Others
<1>10. clock' \in 1..MaxStart /\ clock <= clock' /\ v.start <= clock'
  BY <1>4, <1>7, <1>9, PolicyAssumption
<1>11. KeepsRecords(t, thread[t], v)
  BY <1>1, <1>8 DEF KeepsRecords
<1>12. QED
  BY <1>5, <1>7, <1>9, <1>10, <1>11, ThreadGood

LEMMA SetClampGood ==
    ASSUME IInv, NEW t \in Tids, NEW c \in OwnClamps, SetClamp(t, c)
    PROVE  IInv'
<1>1. PICK th : th = thread[t]
  OBVIOUS
<1>2. PICK lost : lost = IF Active /\ Own(t) # {} THEN th.lost \cup {"clamp"}
                         ELSE th.lost \ {"clamp"}
  OBVIOUS
<1>3. PICK v : v = [th EXCEPT !.clamp = c, !.ownClamp = c, !.lost = lost]
  OBVIOUS
<1>4. /\ thread \in [Tids -> Thread] /\ clock \in 1..MaxStart /\ th \in Thread
      /\ th.start <= clock
  BY <1>1 DEF IInv, Consistent, ThreadPart, Births
<1>5. thread' = [thread EXCEPT ![t] = v]
  BY <1>1, <1>2, <1>3, <1>4 DEF SetClamp
<1>6. lost \in SUBSET {"mask", "clamp"} /\ c \in Clamps
  BY <1>2, <1>4, ThreadParts DEF Clamps
<1>7. /\ v \in Thread /\ v.start = th.start /\ v.class = th.class
      /\ v.mask = th.mask /\ v.ownMask = th.ownMask /\ v.clamp = c
      /\ v.ownClamp = c /\ v.lost = lost
  BY <1>3, <1>4, <1>6 DEF Thread
<1>8. ASSUME NEW active \in BOOLEAN, NEW launcher \in BOOLEAN,
             Kept(policy.tasks, t, th, active, launcher), active = Active
      PROVE  Kept(policy.tasks, t, v, active, launcher)
  <2>1. \A r : Mine(r, t, v) <=> Mine(r, t, th)
    BY <1>7 DEF Mine
  <2>2. ASSUME NEW r \in policy.tasks, Mine(r, t, th), v.start # 0
        PROVE  Holds(r, v, active, launcher)
    <3>1. Holds(r, th, active, launcher)
      BY <1>7, <1>8, <2>2 DEF Kept
    <3>2. /\ "clamp" \in lost \/ ~active
          /\ "mask" \in lost <=> "mask" \in th.lost
      BY <1>1, <1>2, <1>8, <2>2, OwnRecords
    <3>3. QED
      BY <1>7, <3>1, <3>2 DEF Holds
  <2>3. ASSUME \A r \in policy.tasks : ~Mine(r, t, th), v.start # 0
        PROVE  Untouched(v)
    <3>1. Untouched(th)
      BY <1>7, <1>8, <2>3 DEF Kept
    <3>2. "mask" \in lost <=> "mask" \in th.lost
      BY <1>2
    <3>3. QED
      BY <1>7, <3>1, <3>2 DEF Untouched
  <2>4. QED
    BY <2>1, <2>2, <2>3 DEF Kept
<1>9. UNCHANGED <<policy, aux, limit, clock>>
  BY DEF SetClamp, Others
<1>10. clock' \in 1..MaxStart /\ clock <= clock' /\ v.start <= clock'
  BY <1>4, <1>7, <1>9, PolicyAssumption
<1>11. KeepsRecords(t, thread[t], v)
  BY <1>1, <1>8 DEF KeepsRecords
<1>12. QED
  BY <1>5, <1>7, <1>9, <1>10, <1>11, ThreadGood

LEMMA RenameGood ==
    ASSUME IInv, NEW t \in Tids, NEW class \in Names, Rename(t, class)
    PROVE  IInv'
<1>1. PICK th : th = thread[t]
  OBVIOUS
<1> DEFINE changed == \E r \in Own(t) : class # "plain"
                          /\ ClampManaged(class) # ClampManaged(r.class)
<1>2. PICK lost : lost = IF changed THEN th.lost \cup {"clamp"} ELSE th.lost
  OBVIOUS
<1>3. PICK v : v = [th EXCEPT !.class = class, !.lost = lost]
  OBVIOUS
<1>4. /\ thread \in [Tids -> Thread] /\ clock \in 1..MaxStart /\ th \in Thread
      /\ th.start <= clock
  BY <1>1 DEF IInv, Consistent, ThreadPart, Births
<1>5. /\ thread' = [thread EXCEPT ![t] = v]
      /\ ~IsTransient(th.class) /\ ~IsTransient(class)
  BY <1>1, <1>2, <1>3, <1>4 DEF Rename, IsTransient
<1>6. /\ lost \in SUBSET {"mask", "clamp"} /\ class \in Classes
      /\ th.lost \subseteq lost
      /\ "mask" \in lost => "mask" \in th.lost
  BY <1>2, <1>4, ThreadParts DEF Names, Classes
<1>7. /\ v \in Thread /\ v.start = th.start /\ v.class = class
      /\ v.mask = th.mask /\ v.ownMask = th.ownMask /\ v.clamp = th.clamp
      /\ v.ownClamp = th.ownClamp /\ v.lost = lost
  BY <1>3, <1>4, <1>6 DEF Thread
<1>8. ASSUME NEW active \in BOOLEAN, NEW launcher \in BOOLEAN,
             Kept(policy.tasks, t, th, active, launcher)
      PROVE  Kept(policy.tasks, t, v, active, launcher)
  <2>1. \A r : Mine(r, t, v) <=> Mine(r, t, th)
    BY <1>7 DEF Mine
  <2>2. ASSUME NEW r \in policy.tasks, Mine(r, t, th), v.start # 0
        PROVE  Holds(r, v, active, launcher)
    <3>1. Holds(r, th, active, launcher)
      BY <1>7, <1>8, <2>2 DEF Kept
    <3>2. (class # "plain" /\ ~(ClampManaged(r.class) <=> ClampManaged(class)))
            => "clamp" \in lost
      <4>1. r \in Own(t)
        BY <1>1, <2>2, OwnRecords
      <4>2. ClampManaged(r.class) \in BOOLEAN /\ ClampManaged(class) \in BOOLEAN
        BY DEF ClampManaged
      <4>3. QED
        BY <1>2, <4>1, <4>2
    <3> HIDE DEF changed
    <3>3. QED
      BY <1>5, <1>6, <1>7, <3>1, <3>2 DEF Holds
  <2>3. ASSUME \A r \in policy.tasks : ~Mine(r, t, th), v.start # 0
        PROVE  Untouched(v)
    <3>1. Untouched(th)
      BY <1>7, <1>8, <2>3 DEF Kept
    <3>2. QED
      BY <1>6, <1>7, <3>1 DEF Untouched
  <2>4. QED
    BY <2>1, <2>2, <2>3 DEF Kept
<1>9. UNCHANGED <<policy, aux, limit, clock>>
  BY DEF Rename, Others
<1>10. clock' \in 1..MaxStart /\ clock <= clock' /\ v.start <= clock'
  BY <1>4, <1>7, <1>9, PolicyAssumption
<1>11. KeepsRecords(t, thread[t], v)
  BY <1>1, <1>8 DEF KeepsRecords
<1>12. QED
  BY <1>5, <1>7, <1>9, <1>10, <1>11, ThreadGood

(* A thread that is born has no record: its start time is new.               *)
LEMMA BirthGood ==
    ASSUME IInv, NEW t \in Tids, NEW th \in Thread, Untouched(th), Birth(t, th)
    PROVE  IInv'
<1>1. PICK v : v = [th EXCEPT !.start = clock + 1]
  OBVIOUS
<1>2. /\ thread \in [Tids -> Thread] /\ clock \in 1..MaxStart /\ clock < MaxStart
      /\ \A r \in policy.tasks : r.start <= clock /\ r.start \in Nat
  BY RecordParts DEF IInv, Consistent, ThreadPart, Births, Book, Birth
<1>3. MaxStart \in Nat /\ clock \in Nat /\ clock + 1 \in 1..MaxStart
  BY <1>2, PolicyAssumption
<1>4. /\ thread' = [thread EXCEPT ![t] = v] /\ clock' = clock + 1
      /\ UNCHANGED <<policy, aux, limit>>
  BY <1>1 DEF Birth
<1>5. /\ v \in Thread /\ v.start = clock + 1 /\ Untouched(v)
  BY <1>1, <1>3 DEF Thread, Untouched
<1>6. \A r \in policy.tasks : ~Mine(r, t, v)
  BY <1>2, <1>3, <1>5 DEF Mine
<1>7. \A active, launcher \in BOOLEAN : Kept(policy.tasks, t, v, active, launcher)
  BY <1>5, <1>6 DEF Kept
<1>8. clock' \in 1..MaxStart /\ clock <= clock' /\ v.start <= clock'
  BY <1>3, <1>4, <1>5
<1>9. QED
  BY <1>4, <1>5, <1>7, <1>8, ThreadGood DEF KeepsRecords

LEMMA SpawnGood ==
    ASSUME IInv, NEW t \in Tids, NEW class \in Names, NEW m \in OwnMasks,
           NEW c \in OwnClamps, Spawn(t, class, m, c)
    PROVE  IInv'
<1>1. PICK th : th = NewThread(class, m, c)
  OBVIOUS
<1>2. class \in Classes /\ m \in Masks /\ c \in Clamps /\ 1 \in 0..MaxStart
  BY PolicyAssumption DEF Names, Classes, Masks, Clamps
<1>3. th \in Thread /\ Untouched(th)
  BY <1>1, <1>2 DEF NewThread, Thread, Untouched
<1>4. QED
  BY <1>1, <1>3, BirthGood DEF Spawn

LEMMA CloneGood ==
    ASSUME IInv, NEW parent \in Tids, NEW t \in Tids, NEW class \in Classes,
           Clone(parent, t, class)
    PROVE  IInv'
<1>1. PICK p : p = thread[parent]
  OBVIOUS
<1>2. p \in Thread
  BY <1>1 DEF IInv, Consistent, ThreadPart, Births
<1>3. PICK lost : lost = Differing(p)
  OBVIOUS
<1>4. PICK th : th = [p EXCEPT !.class = class, !.lost = lost]
  OBVIOUS
<1>5. /\ lost \subseteq {"mask", "clamp"}
      /\ "mask" \in lost \/ p.mask = p.ownMask
      /\ "clamp" \in lost \/ p.clamp = p.ownClamp
  BY <1>3, DifferingParts
<1>6. th \in Thread /\ Untouched(th)
  BY <1>2, <1>4, <1>5 DEF Thread, Untouched
<1>7. Birth(t, th)
  BY <1>1, <1>3, <1>4 DEF Clone
<1>8. QED
  BY <1>6, <1>7, BirthGood

LEMMA ExitGood ==
    ASSUME IInv, NEW t \in Tids, Exit(t)
    PROVE  IInv'
<1>1. NoThread \in Thread /\ NoThread.start = 0
  BY NoThreadType
<1>2. /\ thread' = [thread EXCEPT ![t] = NoThread]
      /\ UNCHANGED <<policy, aux, limit, clock>>
  BY DEF Exit, Others
<1>3. clock \in 1..MaxStart
  BY DEF IInv, Consistent, ThreadPart, Births
<1>4. \A active, launcher \in BOOLEAN :
          Kept(policy.tasks, t, NoThread, active, launcher)
  BY <1>1 DEF Kept
<1>5. clock' \in 1..MaxStart /\ clock <= clock' /\ NoThread.start <= clock'
  BY <1>1, <1>2, <1>3, PolicyAssumption
<1>6. QED
  BY <1>1, <1>2, <1>4, <1>5, ThreadGood DEF KeepsRecords

LEMMA AuxiliaryRestartsGood ==
    ASSUME IInv, NEW g \in Groups, AuxiliaryRestarts(g)
    PROVE  IInv'
<1> DEFINE launcher == "launcher" \in policy.enabled
           active == policy.status = "active"
           n == clock + 1
<1>1. /\ launcher \in BOOLEAN /\ launcher = ("launcher" \in policy.enabled)
      /\ active \in BOOLEAN /\ active = (policy.status = "active")
  OBVIOUS
<1> HIDE DEF launcher, active
<1>2. /\ ThreadPart(policy.tasks, thread, clock, active, launcher)
      /\ AuxPart(policy.aux, aux, clock, active)
      /\ UNCHANGED <<policy, thread, limit>> /\ clock' = n /\ clock < MaxStart
  BY <1>1 DEF IInv, Consistent, AuxiliaryRestarts
<1>3. clock \in Nat /\ MaxStart \in Nat /\ n \in 1..MaxStart
  BY <1>2, PolicyAssumption DEF ThreadPart, Births
<1>4. ThreadPart(policy.tasks, thread, n, active, launcher)
  <2>1. /\ \A t \in Tids : thread[t].start \in Nat /\ thread[t].start <= clock
        /\ \A r \in policy.tasks : r.start \in Nat /\ r.start <= clock
    BY <1>2, RecordParts, ThreadParts DEF ThreadPart, Births, Book
  <2>2. /\ \A t \in Tids : thread[t].start <= n
        /\ \A r \in policy.tasks : r.start <= n
    BY <1>3, <2>1
  <2>3. QED
    BY <1>2, <1>3, <2>2 DEF ThreadPart, Births, Book
<1>5. AuxPart(policy.aux, aux', n, active)
  <2>1. PICK in : in = [k \in Controllers |-> g]
    OBVIOUS
  <2>2. aux' = [start |-> n, group |-> in, own |-> in, lost |-> {}]
    BY <2>1 DEF AuxiliaryRestarts
  <2>3. in \in InGroups
    BY <2>1 DEF InGroups, AllGroups
  <2>4. PICK a : a = aux'
    OBVIOUS
  <2>5. a \in Auxiliary /\ a.start = n /\ a.group = in /\ a.own = in
    BY <1>3, <2>2, <2>3, <2>4 DEF Auxiliary
  <2>6. /\ policy.aux \subseteq Saved /\ \A s, u \in policy.aux : s = u
        /\ \A s \in policy.aux : s.start <= clock
        /\ active \/ policy.aux = {}
    BY <1>2 DEF AuxPart
  <2>7. \A s \in policy.aux : s.start \in Nat
    BY <2>6, SavedParts
  <2> HIDE DEF n
  <2>8. n = clock + 1
    BY DEF n
  <2>9. \A s \in policy.aux : s.start <= n /\ s.start # n
    BY <1>3, <2>6, <2>7, <2>8
  <2>10. n <= n
    BY <1>3, <2>8
  <2>11. QED
    BY <2>4, <2>5, <2>6, <2>9, <2>10 DEF AuxPart
<1>6. QED
  BY <1>1, <1>2, <1>4, <1>5 DEF IInv, Consistent

LEMMA FrameworkMovesGood ==
    ASSUME IInv, NEW k \in Controllers, NEW g \in Groups, FrameworkMoves(k, g)
    PROVE  IInv'
<1> DEFINE active == policy.status = "active"
<1>1. active \in BOOLEAN /\ active = (policy.status = "active")
  OBVIOUS
<1> HIDE DEF active
<1>2. AuxPart(policy.aux, aux, clock, active) /\ aux \in Auxiliary
  BY <1>1 DEF IInv, Consistent, AuxPart
<1>3. PICK in : in = [aux.group EXCEPT ![k] = g]
  OBVIOUS
<1>4. PICK own : own = [aux.own EXCEPT ![k] = g]
  OBVIOUS
<1>5. PICK lost : lost = IF policy.aux # {} THEN aux.lost \cup {k} ELSE aux.lost \ {k}
  OBVIOUS
<1>6. PICK a : a = aux'
  OBVIOUS
<1>7. a = [aux EXCEPT !.group = in, !.own = own, !.lost = lost]
  BY <1>2, <1>3, <1>4, <1>5, <1>6 DEF FrameworkMoves
<1>8. /\ aux.group \in InGroups /\ aux.own \in InGroups /\ aux.lost \subseteq Controllers
      /\ g \in AllGroups
  BY <1>2, AuxParts DEF AllGroups
<1>9. /\ in \in InGroups /\ own \in InGroups /\ lost \in SUBSET Controllers
      /\ in[k] = g /\ own[k] = g
      /\ \A c \in Controllers \ {k} : in[c] = aux.group[c] /\ own[c] = aux.own[c]
  BY <1>3, <1>4, <1>5, <1>8 DEF InGroups
<1>10. /\ a \in Auxiliary /\ a.start = aux.start /\ a.group = in
       /\ a.own = own /\ a.lost = lost
  BY <1>2, <1>7, <1>9 DEF Auxiliary
<1>11. ASSUME NEW c \in Controllers
       PROVE  \/ c \in a.lost
              \/ IF \E s \in policy.aux : s.start = a.start
                 THEN \A s \in policy.aux : s.group[c] = a.own[c]
                 ELSE a.group[c] = a.own[c]
  <2>1. CASE c = k
    BY <1>5, <1>9, <1>10, <2>1
  <2>2. CASE c # k
    <3>1. in[c] = aux.group[c] /\ own[c] = aux.own[c] /\ (c \in lost <=> c \in aux.lost)
      BY <1>5, <1>9, <2>2
    <3>2. QED
      BY <1>2, <1>10, <3>1 DEF AuxPart
  <2>3. QED
    BY <2>1, <2>2
<1>12. AuxPart(policy.aux, aux', clock, active)
  BY <1>2, <1>6, <1>10, <1>11 DEF AuxPart
<1>13. UNCHANGED <<policy, thread, limit, clock>>
  BY DEF FrameworkMoves
<1>14. QED
  BY <1>1, <1>12, <1>13 DEF IInv, Consistent

LEMMA ThermalSetsGood ==
    ASSUME IInv, NEW v \in Limits, ThermalSets(v)
    PROVE  IInv'
<1> DEFINE active == policy.status = "active"
<1>1. active \in BOOLEAN /\ active = (policy.status = "active")
  OBVIOUS
<1> HIDE DEF active
<1>2. LimitPart(policy.limits, policy.pending, limit, active)
  BY <1>1 DEF IInv, Consistent
<1>3. LimitPart(policy.limits, policy.pending, limit', active)
  BY <1>2, ChosenLimit DEF ThermalSets
<1>4. UNCHANGED <<policy, thread, aux, clock>>
  BY DEF ThermalSets
<1>5. QED
  BY <1>1, <1>3, <1>4 DEF IInv, Consistent

LEMMA SystemGood ==
    ASSUME IInv, System
    PROVE  IInv'
<1>1. ASSUME NEW t \in Tids, NEW m \in OwnMasks, SetMask(t, m) PROVE IInv'
  BY <1>1, SetMaskGood
<1>2. ASSUME NEW t \in Tids, NEW v \in OwnClamps, SetClamp(t, v) PROVE IInv'
  BY <1>2, SetClampGood
<1>3. ASSUME NEW t \in Tids, NEW class \in Names, Rename(t, class) PROVE IInv'
  BY <1>3, RenameGood
<1>4. ASSUME NEW t \in Tids, NEW class \in Names, NEW m \in OwnMasks,
             NEW v \in OwnClamps, Spawn(t, class, m, v)
      PROVE  IInv'
  BY <1>4, SpawnGood
<1>5. ASSUME NEW t \in Tids, NEW parent \in Tids, NEW class \in Classes,
             Clone(parent, t, class)
      PROVE  IInv'
  BY <1>5, CloneGood
<1>6. ASSUME NEW t \in Tids, Exit(t) PROVE IInv'
  BY <1>6, ExitGood
<1>7. ASSUME NEW g \in Groups, AuxiliaryRestarts(g) PROVE IInv'
  BY <1>7, AuxiliaryRestartsGood
<1>8. ASSUME NEW k \in Controllers, NEW g \in Groups, FrameworkMoves(k, g) PROVE IInv'
  BY <1>8, FrameworkMovesGood
<1>9. ASSUME NEW v \in Limits, ThermalSets(v) PROVE IInv'
  BY <1>9, ThermalSetsGood
<1>10. QED
  BY <1>1, <1>2, <1>3, <1>4, <1>5, <1>6, <1>7, <1>8, <1>9 DEF System

LEMMA StepGood ==
    ASSUME IInv, [Next]_vars
    PROVE  IInv'
<1>1. CASE Initialize
  BY <1>1, InitializeGood
<1>2. CASE Begin
  BY <1>2, BeginGood
<1>3. CASE LowerLimit
  BY <1>3, LowerLimitGood
<1>4. CASE ReadBack
  BY <1>4, ReadBackGood
<1>5. CASE Reassert
  BY <1>5, ReassertGood
<1>6. CASE Complete \/ CompleteFirst
  BY <1>6, CompletingGood DEF Complete, CompleteFirst
<1>7. CASE GiveBack
  BY <1>7, GiveBackGood
<1>8. CASE Destroy
  BY <1>8, DestroyGood
<1>9. CASE Crash
  BY <1>9, CrashGood
<1>10. CASE System
  BY <1>10, SystemGood
<1>11. CASE UNCHANGED vars
  BY <1>11 DEF IInv, Consistent, vars
<1>12. QED
  BY <1>1, <1>2, <1>3, <1>4, <1>5, <1>6, <1>7, <1>8, <1>9, <1>10, <1>11 DEF Next

LEMMA Invariance == Spec => []IInv
<1>1. Init => IInv
  BY InitGood
<1>2. IInv /\ [Next]_vars => IInv'
  BY StepGood
<1>3. QED
  BY <1>1, <1>2, PTL DEF Spec

-----------------------------------------------------------------------------
(* The theorems                                                              *)

(* The tables of the policy and everything it writes to stay well formed:    *)
(* every function of transition_policy.c leaves records of births so far,    *)
(* and at most what was there or what the policy writes in threads, groups   *)
(* and the limit.                                                            *)
THEOREM TypeCorrect == Spec => []TypeOK
<1>1. IInv => TypeOK
  BY DEF IInv, Consistent, ThreadPart, Births, AuxPart, LimitPart, TypeOK
<1>2. QED
  BY <1>1, Invariance, PTL

LEMMA KeptOwn ==
    ASSUME IInv, NEW t \in Alive(thread)
    PROVE  LET th == thread[t] IN
           /\ \A r \in Own(t) : Holds(r, th, Active, Enabled("launcher"))
           /\ Own(t) = {} => Untouched(th)
           /\ \A r \in Own(t) : Active \/ ~IsTransient(r.class)
BY OwnRecords DEF IInv, Consistent, ThreadPart, Kept, Alive, Active, Enabled

(* restore_record and compact_tasks forget no mask: a live thread that does  *)
(* not run with the mask its application chose has a record that will give   *)
(* this mask back.  Between transitions only a Launcher thread has one, for  *)
(* destroy to restore; once the policy is off, there is none.                *)
THEOREM MasksComeBack == Spec => []NoMaskForgotten
<1>1. ASSUME IInv PROVE NoMaskForgotten
  <2>1. SUFFICES ASSUME NEW t \in Alive(thread),
                        thread[t].mask # thread[t].ownMask,
                        "mask" \notin thread[t].lost
                 PROVE  \E r \in Own(t) :
                           /\ r.mask = thread[t].ownMask
                           /\ \/ Active
                              \/ policy.status # "off" /\ ~IsTransient(r.class)
    BY DEF NoMaskForgotten
  <2>2. Own(t) # {}
    BY <1>1, <2>1, KeptOwn DEF Untouched
  <2>3. policy.status # "off"
    BY <1>1, <2>2 DEF IInv, Consistent, Own
  <2>4. QED
    BY <1>1, <2>1, <2>2, <2>3, KeptOwn DEF Holds
<1>2. QED
  BY <1>1, Invariance, PTL

(* A raised clamp is there only during a transition and has a record of the  *)
(* clamp its application chose last: the refresh in transition_policy_begin, *)
(* the restore in transition_policy_complete and the identity check before   *)
(* both leave no raised clamp behind, whatever threads do in between.        *)
THEOREM ClampsComeBack == Spec => []NoClampForgotten
<1>1. ASSUME IInv PROVE NoClampForgotten
  <2>1. SUFFICES ASSUME NEW t \in Alive(thread),
                        thread[t].clamp # thread[t].ownClamp,
                        "clamp" \notin thread[t].lost
                 PROVE  Active /\ \E r \in Own(t) : /\ ClampManaged(r.class)
                                                    /\ r.clamp = thread[t].ownClamp
    BY DEF NoClampForgotten
  <2>2. Own(t) # {}
    BY <1>1, <2>1, KeptOwn DEF Untouched
  <2>3. QED
    BY <1>1, <2>1, <2>2, KeptOwn DEF Holds
<1>2. QED
  BY <1>1, Invariance, PTL

(* Between transitions the frequency limit is the one others chose last:     *)
(* transition_policy_complete compares the limit with the value read back    *)
(* after its own write and neither leaves it lowered nor undoes a choice     *)
(* made during the transition, wherever this choice falls but between two    *)
(* system calls of one function on the limit.                                *)
THEOREM LimitComesBack == Spec => []LimitIsReturned
<1>1. IInv => LimitIsReturned
  BY DEF IInv, Consistent, LimitPart, LimitIsReturned, Active, Returned
<1>2. QED
  BY <1>1, Invariance, PTL

(* Between transitions an auxiliary process is in the groups the framework   *)
(* chose, also when another process took its place during the transition:    *)
(* transition_policy_complete looks at the identity before it moves it back. *)
(* A group that a failed move left it in is excepted.                        *)
THEOREM AuxiliaryComesBack == Spec => []AuxiliaryIsReturned
<1>1. IInv => AuxiliaryIsReturned
  BY DEF IInv, Consistent, AuxPart, AuxiliaryIsReturned, Active
<1>2. QED
  BY <1>1, Invariance, PTL
=============================================================================
