-------------------------- MODULE SourceGuardProofs --------------------------
(***************************************************************************)
(* Proofs about the source guard.  A handler is an operator from a world to *)
(* a world; what each one keeps is a lemma about worlds, and the theorems   *)
(* combine the lemmas.                                                      *)
(***************************************************************************)
EXTENDS SourceGuard, TLAPS, WellFoundedInduction

(* v is a world that differs from w in the threads, records, minor_window_app *)
(* and perf rings at most.                                                   *)
Keeps(w, v) ==
    /\ v \in Worlds
    /\ v.k.timer = w.k.timer /\ v.k.timerApp = w.k.timerApp
    /\ v.g.running = w.g.running /\ v.g.armed = w.g.armed
    /\ v.g.active = w.g.active /\ v.g.pid = w.g.pid /\ v.g.app = w.g.app
    /\ v.g.accepted = w.g.accepted /\ v.g.completion = w.g.completion

LEMMA KeepsSelf == ASSUME NEW w \in Worlds PROVE Keeps(w, w)
BY DEF Keeps

LEMMA KeepsTrans ==
    ASSUME NEW u, NEW v, NEW w, Keeps(u, v), Keeps(v, w) PROVE Keeps(u, w)
BY DEF Keeps

LEMMA WorldParts ==
    ASSUME NEW w \in Worlds
    PROVE  /\ w.g \in Guard /\ w.k \in Kernel /\ w.bad \subseteq Faults
           /\ w.k.task \in [Tids -> Task]
           /\ w.g.records \in [Tids -> Record]
           /\ w.k.minor \in Apps \cup {NoApp}
           /\ w.g.minor \in Apps \cup {NoApp}
           /\ w.g.app \in Apps \cup {NoApp}
           /\ w.g.pid \in Tids \cup {0}
           /\ w.g.accepted \in Ids \cup {0}
           /\ w.g.completion \in Ids \cup {0}
           /\ w.g.active \in BOOLEAN /\ w.g.armed \in BOOLEAN
BY DEF Worlds, Guard, Kernel

LEMMA SetTask ==
    ASSUME NEW w \in Worlds, NEW task \in [Tids -> Task]
    PROVE  Keeps(w, [w EXCEPT !.k.task = task])
<1>1. [w.k EXCEPT !.task = task] \in Kernel
  BY DEF Worlds, Kernel
<1>2. QED
  BY <1>1 DEF Keeps, Worlds, Kernel

LEMMA SetRecords ==
    ASSUME NEW w \in Worlds, NEW records \in [Tids -> Record]
    PROVE  Keeps(w, [w EXCEPT !.g.records = records])
<1>1. [w.g EXCEPT !.records = records] \in Guard
  BY DEF Worlds, Guard
<1>2. QED
  BY <1>1 DEF Keeps, Worlds, Guard

LEMMA SetMinor ==
    ASSUME NEW w \in Worlds, NEW a \in Apps \cup {NoApp}
    PROVE  Keeps(w, [w EXCEPT !.k.minor = a])
<1>1. [w.k EXCEPT !.minor = a] \in Kernel
  BY DEF Worlds, Kernel
<1>2. QED
  BY <1>1 DEF Keeps, Worlds, Kernel

-----------------------------------------------------------------------------
(* Threads and records                                                       *)

LEMMA GroupsAreGroups ==
    {"top", "background", "source"} = Groups /\ SystemGroups \subseteq Groups
BY GuardAssumption DEF Groups

LEMMA AttachType ==
    ASSUME NEW task \in [Tids -> Task], NEW who, NEW controllers, NEW g \in Groups
    PROVE  Attach(task, who, controllers, g) \in [Tids -> Task]
<1> SUFFICES ASSUME NEW t \in Tids
             PROVE  Attach(task, who, controllers, g)[t] \in Task
  BY DEF Attach
<1> DEFINE group == [c \in Controllers |->
                       IF c \in controllers THEN g ELSE task[t].group[c]]
           affinity == IF "cpuset" \in controllers /\ task[t].group["cpuset"] # g
                       THEN GroupMask(g) ELSE task[t].affinity
           lost == IF g = "source" THEN task[t].lost \ {"place"} ELSE task[t].lost
<1>1. task[t] \in Task
  OBVIOUS
<1>2. group \in [Controllers -> Groups]
  BY <1>1 DEF Task
<1>3. affinity \in Masks
  BY <1>1 DEF Task, GroupMask, Masks
<1>4. lost \in SUBSET {"nice", "place"}
  BY <1>1 DEF Task
<1>5. \/ Attach(task, who, controllers, g)[t] = task[t]
      \/ Attach(task, who, controllers, g)[t]
           = [task[t] EXCEPT !.group = group, !.affinity = affinity, !.lost = lost]
  BY DEF Attach
<1> HIDE DEF group, affinity, lost
<1>6. QED
  BY <1>1, <1>2, <1>3, <1>4, <1>5 DEF Task

LEMMA NiceType ==
    ASSUME NEW thread \in Task, NEW n \in Int
    PROVE  [thread EXCEPT !.nice = n] \in Task
BY DEF Task

LEMMA AppliedType == ASSUME NEW n \in Int PROVE Applied(n) \in Int
BY KernelAssumption DEF Applied

LEMMA RegisteredType ==
    ASSUME NEW w \in Worlds, NEW t \in Tids
    PROVE  Registered(w, t) \in Record
<1>1. w.g.records[t] \in Record /\ w.k.task[t] \in Task
  BY WorldParts
<1>2. QED
  BY <1>1 DEF Registered, FirstMask, Record, Task

LEMMA RefreshKeeps == ASSUME NEW w \in Worlds PROVE Keeps(w, Refresh(w))
<1> DEFINE records == [t \in Tids |->
              IF t \in ThreadGroup(w.k.task, w.g.pid) THEN Registered(w, t)
              ELSE w.g.records[t]]
<1>1. records \in [Tids -> Record]
  BY RegisteredType, WorldParts
<1>2. Refresh(w) = [w EXCEPT !.g.records = records]
  BY DEF Refresh
<1> HIDE DEF records
<1>3. QED
  BY <1>1, <1>2, SetRecords

LEMMA CaptureKeeps == ASSUME NEW w \in Worlds PROVE Keeps(w, CaptureBaseline(w))
<1> DEFINE record(t) == [w.g.records[t] EXCEPT !.nice = w.k.task[t].nice,
                                               !.affinity = w.k.task[t].affinity]
           records == [t \in Tids |->
              IF w.g.records[t].start # 0 /\ w.k.task[t].start # 0
              THEN record(t) ELSE w.g.records[t]]
<1>1. ASSUME NEW t \in Tids PROVE record(t) \in Record
  <2>1. w.g.records[t] \in Record /\ w.k.task[t] \in Task
    BY WorldParts
  <2>2. QED
    BY <2>1 DEF Record, Task
<1>2. records \in [Tids -> Record]
  <2> HIDE DEF record
  <2> QED BY <1>1, WorldParts
<1>3. CaptureBaseline(w) = [w EXCEPT !.g.records = records]
  BY DEF CaptureBaseline
<1> HIDE DEF records
<1>4. QED
  BY <1>2, <1>3, SetRecords

-----------------------------------------------------------------------------
(* Kernel writes                                                             *)

LEMMA MoveKeeps ==
    ASSUME NEW w \in Worlds, NEW who, NEW g \in Groups
    PROVE  Keeps(w, Move(w, who, g))
BY WorldParts, AttachType, SetTask DEF Move

LEMMA MoveSourceKeeps ==
    ASSUME NEW w \in Worlds, NEW g \in Groups
    PROVE  Keeps(w, MoveSource(w, g))
BY MoveKeeps DEF MoveSource

LEMMA ApplyNiceKeeps ==
    ASSUME NEW w \in Worlds, NEW who PROVE Keeps(w, ApplyNice(w, who))
<1> DEFINE thread(t) == [w.k.task[t] EXCEPT !.nice = Applied(w.g.records[t].nice)]
           task == [t \in Tids |-> IF t \in who /\ Owned(w, t)
                                   THEN thread(t) ELSE w.k.task[t]]
<1>1. ASSUME NEW t \in Tids PROVE thread(t) \in Task
  <2>1. w.k.task[t] \in Task /\ w.g.records[t].nice \in Int
    BY WorldParts DEF Record
  <2>2. QED
    BY <2>1, AppliedType, NiceType
<1>2. task \in [Tids -> Task]
  <2> HIDE DEF thread
  <2> QED BY <1>1, WorldParts
<1>3. ApplyNice(w, who) = [w EXCEPT !.k.task = task]
  BY DEF ApplyNice
<1> HIDE DEF task
<1>4. QED
  BY <1>2, <1>3, SetTask

LEMMA RestoreNiceKeeps ==
    ASSUME NEW w \in Worlds, NEW force \in BOOLEAN
    PROVE  Keeps(w, RestoreNice(w, force))
<1> DEFINE original(t) == w.g.records[t].nice
           thread(t) == [w.k.task[t] EXCEPT !.nice = original(t)]
           task == [t \in Tids |->
             IF /\ Owned(w, t) /\ Applied(original(t)) # original(t)
                /\ force \/ w.k.task[t].nice = Applied(original(t))
             THEN thread(t) ELSE w.k.task[t]]
<1>1. ASSUME NEW t \in Tids PROVE thread(t) \in Task
  <2>1. w.k.task[t] \in Task /\ original(t) \in Int
    BY WorldParts DEF Record
  <2>2. QED
    BY <2>1, NiceType
<1>2. task \in [Tids -> Task]
  <2> HIDE DEF thread
  <2> QED BY <1>1, WorldParts
<1>3. RestoreNice(w, force) = [w EXCEPT !.k.task = task]
  BY DEF RestoreNice
<1> HIDE DEF task
<1>4. QED
  BY <1>2, <1>3, SetTask

LEMMA RestoreAffinityKeeps ==
    ASSUME NEW w \in Worlds PROVE Keeps(w, RestoreAffinity(w))
<1> DEFINE mask(t) == w.g.records[t].affinity
           thread(t) == [w.k.task[t] EXCEPT !.affinity = mask(t)]
           task == [t \in Tids |-> IF Owned(w, t) /\ mask(t) # "none"
                                   THEN thread(t) ELSE w.k.task[t]]
<1>1. ASSUME NEW t \in Tids, mask(t) # "none" PROVE thread(t) \in Task
  <2>1. w.k.task[t] \in Task /\ mask(t) \in Masks
    BY <1>1, WorldParts DEF Record
  <2>2. QED
    BY <2>1 DEF Task
<1>2. task \in [Tids -> Task]
  <2> HIDE DEF thread
  <2> QED BY <1>1, WorldParts
<1>3. RestoreAffinity(w) = [w EXCEPT !.k.task = task]
  BY DEF RestoreAffinity
<1> HIDE DEF task
<1>4. QED
  BY <1>2, <1>3, SetTask

LEMMA MinorKeeps ==
    ASSUME NEW w \in Worlds
    PROVE  /\ \A preserve \in BOOLEAN : Keeps(w, RestoreMinor(w, preserve))
           /\ \A a : Keeps(w, ClearMinor(w, a))
BY WorldParts, SetMinor DEF RestoreMinor, ClearMinor

LEMMA SetTraceKeeps ==
    ASSUME NEW w \in Worlds, NEW on \in BOOLEAN PROVE Keeps(w, SetTrace(w, on))
<1>1. [w EXCEPT !.k.perf = FALSE] \in Worlds /\ Keeps(w, [w EXCEPT !.k.perf = FALSE])
  BY DEF Keeps, Worlds, Kernel
<1>2. Keeps(w, [w EXCEPT !.g.trace = on, !.k.perf = on])
  <2>1. PICK g : g = [w.g EXCEPT !.trace = on]
    OBVIOUS
  <2>2. PICK k : k = [w.k EXCEPT !.perf = on]
    OBVIOUS
  <2>3. /\ g \in Guard /\ g.running = w.g.running /\ g.armed = w.g.armed
        /\ g.active = w.g.active /\ g.pid = w.g.pid /\ g.app = w.g.app
        /\ g.accepted = w.g.accepted /\ g.completion = w.g.completion
    BY <2>1 DEF Worlds, Guard
  <2>4. k \in Kernel /\ k.timer = w.k.timer /\ k.timerApp = w.k.timerApp
    BY <2>2 DEF Worlds, Kernel
  <2>5. PICK v : v = [w EXCEPT !.g = g, !.k = k]
    OBVIOUS
  <2>6. v \in Worlds /\ v.g = g /\ v.k = k
    BY <2>3, <2>4, <2>5 DEF Worlds
  <2>7. v = [w EXCEPT !.g.trace = on, !.k.perf = on]
    BY <2>1, <2>2, <2>5
  <2>8. QED
    BY <2>3, <2>4, <2>6, <2>7 DEF Keeps
<1>3. QED
  BY <1>1, <1>2, KeepsSelf DEF SetTrace

-----------------------------------------------------------------------------
(* Ways out of suppression                                                   *)

Inactive(w) == [w EXCEPT !.g.active = FALSE]
Forgotten(w) == [w EXCEPT !.g = Idle(@)]

LEMMA InactiveType ==
    ASSUME NEW w \in Worlds
    PROVE  /\ Inactive(w) \in Worlds /\ ~Inactive(w).g.active
           /\ Inactive(w).k = w.k
           /\ \A f \in {"running", "armed", "pid", "app", "accepted", "completion"} :
                 Inactive(w).g[f] = w.g[f]
BY DEF Inactive, Worlds, Guard

LEMMA IdleType ==
    ASSUME NEW g \in Guard
    PROVE  /\ Idle(g) \in Guard /\ ~Idle(g).armed /\ ~Idle(g).active
           /\ Idle(g).app = NoApp /\ Idle(g).running = g.running
           /\ Idle(g).accepted = g.accepted /\ Idle(g).completion = g.completion
<1>1. NoRecord \in Record
  BY KernelAssumption DEF NoRecord, Record
<1>2. [t \in Tids |-> NoRecord] \in [Tids -> Record]
  BY <1>1
<1>3. 0 \in 0..MaxStart
  BY KernelAssumption
<1> DEFINE none == [t \in Tids |-> NoRecord]
<1> HIDE DEF none
<1>4. Idle(g) = [g EXCEPT !.armed = FALSE, !.active = FALSE, !.pid = 0, !.start = 0,
                          !.app = NoApp, !.minor = NoApp, !.records = none]
  BY DEF Idle, none
<1>5. none \in [Tids -> Record]
  BY <1>2 DEF none
<1>6. QED
  BY <1>3, <1>4, <1>5 DEF Guard

LEMMA ForgottenType ==
    ASSUME NEW w \in Worlds
    PROVE  /\ Forgotten(w) \in Worlds /\ Forgotten(w).k = w.k
           /\ ~Forgotten(w).g.armed /\ ~Forgotten(w).g.active
           /\ Forgotten(w).g.app = NoApp
           /\ Forgotten(w).g.running = w.g.running
           /\ Forgotten(w).g.accepted = w.g.accepted
           /\ Forgotten(w).g.completion = w.g.completion
<1>1. w.g \in Guard
  BY WorldParts
<1>2. QED
  BY <1>1, IdleType DEF Forgotten, Worlds

LEMMA DeactivateKeeps ==
    ASSUME NEW w \in Worlds PROVE Keeps(Inactive(w), Deactivate(w))
BY InactiveType, SetTraceKeeps DEF Deactivate, Inactive

LEMMA CancelTimerType ==
    ASSUME NEW w \in Worlds
    PROVE  /\ CancelTimer(w) \in Worlds
           /\ CancelTimer(w).k.timer = "off"
           /\ \A f \in {"running", "armed", "active", "pid", "app", "accepted"} :
                 CancelTimer(w).g[f] = w.g[f]
<1> DEFINE g == [w.g EXCEPT !.completion = 0]
           k == [w.k EXCEPT !.timer = "off", !.timerApp = NoApp]
<1>1. /\ g \in Guard
      /\ \A f \in {"running", "armed", "active", "pid", "app", "accepted"} :
            g[f] = w.g[f]
  BY DEF Worlds, Guard
<1>2. k \in Kernel /\ k.timer = "off"
  BY DEF Worlds, Kernel
<1>3. CancelTimer(w) = [w EXCEPT !.g = g, !.k = k]
  BY DEF CancelTimer, Worlds, Guard, Kernel
<1> HIDE DEF g, k
<1>4. QED
  BY <1>1, <1>2, <1>3 DEF Worlds

LEMMA ToTopKeeps ==
    ASSUME NEW w \in Worlds, NEW preserve \in BOOLEAN
    PROVE  Keeps(w, ToTop(w, preserve))
<1> DEFINE w1 == MoveSource(w, "top")
           w2 == RestoreAffinity(w1)
           w3 == RestoreNice(w2, TRUE)
<1>1. Keeps(w, w1)
  BY MoveSourceKeeps, GroupsAreGroups
<1>2. Keeps(w1, w2)
  BY <1>1, RestoreAffinityKeeps DEF Keeps
<1>3. Keeps(w2, w3)
  BY <1>2, RestoreNiceKeeps DEF Keeps
<1>4. Keeps(w3, RestoreMinor(w3, preserve))
  BY <1>3, MinorKeeps DEF Keeps
<1>5. ToTop(w, preserve) = RestoreMinor(w3, preserve)
  BY DEF ToTop
<1> HIDE DEF w1, w2, w3
<1>6. QED
  BY <1>1, <1>2, <1>3, <1>4, <1>5, KeepsTrans

LEMMA ToBackgroundKeeps ==
    ASSUME NEW w \in Worlds, NEW preserve \in BOOLEAN
    PROVE  Keeps(w, ToBackground(w, preserve))
<1> DEFINE w1 == MoveSource(w, "background")
           w2 == RestoreNice(w1, FALSE)
<1>1. Keeps(w, w1)
  BY MoveSourceKeeps, GroupsAreGroups
<1>2. Keeps(w1, w2)
  BY <1>1, RestoreNiceKeeps DEF Keeps
<1>3. Keeps(w2, RestoreMinor(w2, preserve))
  BY <1>2, MinorKeeps DEF Keeps
<1>4. ToBackground(w, preserve) = RestoreMinor(w2, preserve)
  BY DEF ToBackground
<1> HIDE DEF w1, w2
<1>5. QED
  BY <1>1, <1>2, <1>3, <1>4, KeepsTrans

LEMMA AbandonKeeps ==
    ASSUME NEW w \in Worlds PROVE Keeps(Inactive(w), Abandon(w))
<1> DEFINE quiet == Deactivate(w)
           w1 == RestoreNice(quiet, FALSE)
           w2 == RestoreMinor(w1, FALSE)
<1>1. Keeps(Inactive(w), quiet)
  BY DeactivateKeeps
<1>2. Keeps(quiet, w1)
  BY <1>1, RestoreNiceKeeps DEF Keeps
<1>3. Keeps(w1, w2)
  BY <1>2, MinorKeeps DEF Keeps
<1>4. Keeps(w2, MoveSource(w2, "background"))
  BY <1>3, MoveSourceKeeps, GroupsAreGroups DEF Keeps
<1>5. Abandon(w) = IF ~SourceMatches(quiet) THEN quiet
                   ELSE MoveSource(w2, "background")
  BY DEF Abandon
<1> HIDE DEF quiet, w1, w2
<1>6. Keeps(Inactive(w), MoveSource(w2, "background"))
  BY <1>1, <1>2, <1>3, <1>4, KeepsTrans
<1>7. QED
  BY <1>1, <1>5, <1>6

-----------------------------------------------------------------------------
(* The ways into suppression                                                 *)

(* The timer, the transition and the daemon's being alive are as before.     *)
SameTiming(w, v) ==
    /\ v \in Worlds
    /\ v.k.timer = w.k.timer /\ v.k.timerApp = w.k.timerApp
    /\ v.g.running = w.g.running /\ v.g.accepted = w.g.accepted
    /\ v.g.completion = w.g.completion

(* Arming ends with the source armed and inactive, or leaves its identity.   *)
LEMMA ArmType ==
    ASSUME NEW w \in Worlds, NEW p \in Tids, NEW a \in Apps
    PROVE  /\ SameTiming(w, Arm(w, p, a))
           /\ \/ Keeps(w, Arm(w, p, a))
              \/ /\ Arm(w, p, a).g.armed /\ ~Arm(w, p, a).g.active
                 /\ Arm(w, p, a).g.app = a
<1> DEFINE free == IF w.g.active /\ ~SameSource(w, p, a) THEN Abandon(w) ELSE w
           ready == [Idle(free.g) EXCEPT !.armed = TRUE, !.pid = p, !.app = a,
                        !.start = free.k.task[p].start, !.minor = free.k.minor]
           fresh == [free EXCEPT !.g = ready]
<1>1. SameTiming(w, free)
  <2>1. CASE w.g.active /\ ~SameSource(w, p, a)
    <3>1. free = Abandon(w)
      BY <2>1
    <3>2. Keeps(Inactive(w), free)
      BY <3>1, AbandonKeeps
    <3>3. QED
      BY <3>2, InactiveType DEF Keeps, SameTiming
  <2>2. CASE ~(w.g.active /\ ~SameSource(w, p, a))
    BY <2>2 DEF SameTiming
  <2>3. QED
    BY <2>1, <2>2
<1>2. /\ ready \in Guard /\ ready.armed /\ ~ready.active /\ ready.app = a
      /\ ready.running = free.g.running /\ ready.accepted = free.g.accepted
      /\ ready.completion = free.g.completion
  <2> HIDE DEF free
  <2> DEFINE start == free.k.task[p].start
             minor == free.k.minor
  <2>1. free.k.task[p] \in Task /\ minor \in Apps \cup {NoApp} /\ free.g \in Guard
    BY <1>1, WorldParts DEF SameTiming
  <2>2. start \in 0..MaxStart
    BY <2>1 DEF Task
  <2>3. ready = [Idle(free.g) EXCEPT !.armed = TRUE, !.pid = p, !.app = a,
                                     !.start = start, !.minor = minor]
    OBVIOUS
  <2> HIDE DEF start, minor, ready
  <2>4. QED
    BY <2>1, <2>2, <2>3, IdleType DEF Guard
<1>3. SameTiming(w, fresh) /\ fresh.g = ready
  <2> HIDE DEF free, ready
  <2> QED BY <1>1, <1>2 DEF SameTiming, Worlds
<1>4. Keeps(fresh, Refresh(fresh))
  <2> HIDE DEF fresh
  <2> QED BY <1>3, RefreshKeeps DEF SameTiming
<1>5. /\ SameTiming(w, Refresh(fresh)) /\ Refresh(fresh).g.armed
      /\ ~Refresh(fresh).g.active /\ Refresh(fresh).g.app = a
  <2> HIDE DEF fresh, ready
  <2> QED BY <1>2, <1>3, <1>4 DEF SameTiming, Keeps
<1>6. Arm(w, p, a) \in {w, Refresh(free), Refresh(fresh)}
      /\ (Arm(w, p, a) = Refresh(free) =>
              \/ free = w \/ Arm(w, p, a) \in {w, Refresh(fresh)})
  <2>1. fresh = [free EXCEPT !.g = [Idle(@) EXCEPT
                     !.armed = TRUE, !.pid = p, !.app = a,
                     !.start = free.k.task[p].start, !.minor = free.k.minor]]
    OBVIOUS
  <2>2. CASE ~Is(w, p, a)
    BY <2>2 DEF Arm
  <2>3. CASE Is(w, p, a) /\ w.g.armed /\ SameSource(w, p, a)
    BY <2>3 DEF Arm
  <2>4. CASE Is(w, p, a) /\ ~(w.g.armed /\ SameSource(w, p, a))
    BY <2>1, <2>4 DEF Arm
  <2>5. QED
    BY <2>2, <2>3, <2>4
<1> HIDE DEF free, fresh, ready
<1>7. Keeps(w, w) /\ Keeps(w, Refresh(w)) /\ SameTiming(w, w)
      /\ SameTiming(w, Refresh(w))
  BY KeepsSelf, RefreshKeeps DEF Keeps, SameTiming
<1>8. QED
  BY <1>5, <1>6, <1>7

(* Suppression starts only for an armed source and never changes which.      *)
LEMMA SuppressType ==
    ASSUME NEW w \in Worlds, NEW p, NEW a
    PROVE  /\ SameTiming(w, Suppress(w, p, a))
           /\ Suppress(w, p, a).g.armed = w.g.armed
           /\ Suppress(w, p, a).g.app = w.g.app
           /\ Suppress(w, p, a).g.active => w.g.active \/ w.g.armed
<1> DEFINE based == IF w.g.active THEN w ELSE CaptureBaseline(w)
           on == [based EXCEPT !.g.active = TRUE]
           watched == SetTrace(on, TRUE)
           cleared == ClearMinor(watched, a)
           moved == MoveSource(cleared, "source")
           Same(v) == /\ SameTiming(w, v)
                      /\ v.g.armed = w.g.armed /\ v.g.app = w.g.app
<1>1. Keeps(w, based)
  BY KeepsSelf, CaptureKeeps
<1>2. Same(on)
  <2> HIDE DEF based
  <2> QED BY <1>1 DEF Keeps, SameTiming, Worlds, Guard
<1>3. Keeps(on, watched) /\ Same(watched)
  <2> HIDE DEF on
  <2>1. Keeps(on, watched)
    BY <1>2, SetTraceKeeps DEF SameTiming
  <2>2. QED
    BY <1>2, <2>1 DEF Keeps, SameTiming
<1>4. Same(moved)
  <2> HIDE DEF watched
  <2>1. Keeps(watched, cleared)
    BY <1>3, MinorKeeps DEF SameTiming
  <2>2. Keeps(cleared, moved)
    BY <2>1, MoveSourceKeeps, GroupsAreGroups DEF Keeps
  <2> HIDE DEF moved, cleared
  <2>3. QED
    BY <1>3, <2>1, <2>2 DEF Keeps, SameTiming
<1>5. Same(Inactive(watched)) /\ Same(Deactivate(moved)) /\ Same(ApplyNice(moved, Tids))
  <2> HIDE DEF watched, moved
  <2>1. Same(Inactive(watched)) /\ Same(Inactive(moved))
    BY <1>3, <1>4, InactiveType DEF SameTiming
  <2>2. Keeps(Inactive(moved), Deactivate(moved))
    BY <1>4, DeactivateKeeps DEF SameTiming
  <2>3. Keeps(moved, ApplyNice(moved, Tids))
    BY <1>4, ApplyNiceKeeps DEF SameTiming
  <2>4. QED
    BY <1>4, <2>1, <2>2, <2>3 DEF Keeps, SameTiming
<1>6. Same(w)
  BY DEF SameTiming
<1>7. Suppress(w, p, a) =
        IF ~SourceMatches(w) THEN w
        ELSE IF ~watched.g.trace THEN Inactive(watched)
        ELSE IF w.bad \cap Controllers # {} THEN Deactivate(moved)
        ELSE ApplyNice(moved, Tids)
  BY DEF Suppress, Inactive
<1>8. ~SourceMatches(w) \/ w.g.armed
  BY DEF SourceMatches
<1> HIDE DEF watched, moved
<1>9. QED
  BY <1>5, <1>6, <1>7, <1>8

LEMMA ActivateType ==
    ASSUME NEW w \in Worlds, NEW p \in Tids, NEW a \in Apps
    PROVE  /\ SameTiming(w, Activate(w, p, a))
           /\ w.g.app = a => Activate(w, p, a).g.app = a
           /\ (w.g.active => w.g.armed)
                 => (Activate(w, p, a).g.active => Activate(w, p, a).g.armed)
<1> DEFINE armed == Arm(w, p, a)
           seen == IF w.g.active THEN Refresh(w) ELSE w
<1>1. CASE ~(~w.g.armed \/ w.g.pid # p \/ w.g.app # a)
  <2>1. Activate(w, p, a) = Suppress(seen, p, a)
    BY <1>1 DEF Activate
  <2>2. Keeps(w, seen)
    BY KeepsSelf, RefreshKeeps
  <2> HIDE DEF seen
  <2>3. QED
    BY <1>1, <2>1, <2>2, SuppressType DEF Keeps, SameTiming
<1>2. CASE /\ ~w.g.armed \/ w.g.pid # p \/ w.g.app # a
           /\ Is(w, p, a)
  <2>1. Activate(w, p, a) = Suppress(armed, p, a)
    BY <1>2 DEF Activate
  <2>2. /\ SameTiming(w, armed)
        /\ Keeps(w, armed) \/ (armed.g.armed /\ ~armed.g.active /\ armed.g.app = a)
    BY ArmType
  <2> HIDE DEF armed
  <2>3. QED
    BY <2>1, <2>2, SuppressType DEF Keeps, SameTiming
<1>3. CASE /\ ~w.g.armed \/ w.g.pid # p \/ w.g.app # a
           /\ ~Is(w, p, a)
  BY <1>3 DEF Activate, SameTiming
<1>4. QED
  BY <1>1, <1>2, <1>3

-----------------------------------------------------------------------------
(* The handlers                                                              *)

(* No timer and an inactive guard, or one that is armed.                     *)
Quieted(w) == /\ w \in Worlds /\ w.k.timer = "off"
              /\ w.g.active => w.g.armed

(* The timer and the transition agree with the source: the invariant, in a   *)
(* world.                                                                    *)
Agrees(w) ==
    /\ w.g.active => w.g.armed
    /\ w.k.timer # "off" => w.g.completion # 0 /\ w.g.running
    /\ (w.k.timer # "off" /\ w.g.armed /\ w.g.completion = w.g.accepted)
          => w.k.timerApp = w.g.app
    /\ (w.g.active /\ w.k.timer # "off") => w.g.completion = w.g.accepted

Good(w) == w \in Worlds /\ Agrees(w)

LEMMA QuietedIsGood == ASSUME NEW w, Quieted(w) PROVE Good(w)
BY DEF Quieted, Good, Agrees

LEMMA KeepsGood == ASSUME NEW w, NEW v, Good(w), Keeps(w, v) PROVE Good(v)
BY DEF Good, Agrees, Keeps

LEMMA ArmGood ==
    ASSUME NEW w, Good(w), NEW p \in Tids, NEW a \in Apps,
           w.g.accepted = 0 \/ w.k.timer = "off" \/ (w.g.armed /\ w.g.app = a)
    PROVE  Good(Arm(w, p, a))
<1> DEFINE v == Arm(w, p, a)
<1>1. /\ SameTiming(w, v)
      /\ Keeps(w, v) \/ (v.g.armed /\ ~v.g.active /\ v.g.app = a)
  BY ArmType DEF Good
<1> HIDE DEF v
<1>2. CASE Keeps(w, v)
  BY <1>2, KeepsGood DEF v
<1>3. CASE v.g.armed /\ ~v.g.active /\ v.g.app = a
  BY <1>1, <1>3 DEF Good, Agrees, SameTiming, v
<1>4. QED
  BY <1>1, <1>2, <1>3

LEMMA ReleaseType ==
    ASSUME NEW w, Good(w), NEW p, NEW top \in BOOLEAN
    PROVE  /\ Good(Release(w, p, top))
           /\ Release(w, p, top).g.running = w.g.running
           /\ Release(w, p, top).g.accepted = w.g.accepted
           /\ \/ Release(w, p, top) = w /\ (~w.g.armed \/ w.g.pid # p)
              \/ /\ w.g.armed /\ w.g.pid = p
                 /\ ~Release(w, p, top).g.armed /\ ~Release(w, p, top).g.active
                 /\ Release(w, p, top).g.app = NoApp
                 /\ Release(w, p, top).k.timer = "off"
<1> DEFINE cancelled == CancelTimer(w)
           quiet == Deactivate(cancelled)
           restored == IF ~SourceMatches(quiet) THEN quiet
                       ELSE IF top THEN ToTop(quiet, TRUE)
                       ELSE ToBackground(quiet, FALSE)
<1>1. cancelled \in Worlds /\ cancelled.k.timer = "off"
      /\ cancelled.g.running = w.g.running /\ cancelled.g.accepted = w.g.accepted
  BY CancelTimerType DEF Good
<1>2. quiet \in Worlds /\ quiet.k.timer = "off"
      /\ quiet.g.running = w.g.running /\ quiet.g.accepted = w.g.accepted
  <2> HIDE DEF cancelled
  <2> QED BY <1>1, InactiveType, DeactivateKeeps DEF Keeps
<1>3. Keeps(quiet, restored)
  <2> HIDE DEF quiet
  <2> QED BY <1>2, KeepsSelf, ToTopKeeps, ToBackgroundKeeps
<1>4. Quieted(Forgotten(restored)) /\ ~Forgotten(restored).g.armed
      /\ ~Forgotten(restored).g.active /\ Forgotten(restored).g.app = NoApp
      /\ Forgotten(restored).g.running = w.g.running
      /\ Forgotten(restored).g.accepted = w.g.accepted
  <2> HIDE DEF quiet, restored
  <2> QED BY <1>2, <1>3, ForgottenType DEF Keeps, Quieted
<1>5. Release(w, p, top) = IF ~w.g.armed \/ w.g.pid # p THEN w
                           ELSE Forgotten(restored)
  BY DEF Release, Forgotten
<1> HIDE DEF restored
<1>6. QED
  BY <1>4, <1>5, QuietedIsGood DEF Quieted

LEMMA DisableGood == ASSUME NEW w, Good(w) PROVE Good(Disable(w))
<1> DEFINE v == Release(w, w.g.pid, TRUE)
<1>1. Good(v) /\ v.g.running = w.g.running /\ ~v.g.armed
  BY ReleaseType
<1>2. Disable(w) = [v EXCEPT !.g.accepted = 0]
  BY DEF Disable, ReleaseCurrent
<1> HIDE DEF v
<1>3. [v EXCEPT !.g.accepted = 0] \in Worlds
  BY <1>1 DEF Good, Worlds, Guard
<1>4. QED
  BY <1>1, <1>2, <1>3 DEF Good, Agrees, Worlds, Guard

LEMMA CompleteSourceGood ==
    ASSUME NEW w \in Worlds, NEW id, w.k.timer = "off", w.g.active => w.g.armed
    PROVE  Good(CompleteSource(w, id))
<1> DEFINE cancelled == CancelTimer(w)
           quiet == Deactivate(cancelled)
<1>1. cancelled \in Worlds /\ cancelled.k.timer = "off"
  BY CancelTimerType
<1>2. quiet \in Worlds /\ quiet.k.timer = "off" /\ ~quiet.g.active
  <2> HIDE DEF cancelled
  <2> QED BY <1>1, InactiveType, DeactivateKeeps DEF Keeps
<1>3. Keeps(quiet, ToTop(quiet, TRUE))
  <2> HIDE DEF quiet
  <2> QED BY <1>2, ToTopKeeps
<1>4. CompleteSource(w, id) \in {w, quiet, ToTop(quiet, TRUE)}
  BY DEF CompleteSource
<1> HIDE DEF quiet
<1>5. Quieted(w) /\ Quieted(quiet) /\ Quieted(ToTop(quiet, TRUE))
  BY <1>2, <1>3 DEF Quieted, Keeps
<1>6. QED
  BY <1>4, <1>5, QuietedIsGood

(* A transition that is accepted has no timer yet.                           *)
LEMMA AcceptedType ==
    ASSUME NEW w, Good(w), NEW id \in Ids
    PROVE  /\ Accept(w, id) \in Worlds
           /\ Quieted(Accept(w, id))
           /\ Accept(w, id).g.pid = w.g.pid
           /\ Accept(w, id).g.app = w.g.app
           /\ Accept(w, id).g.armed = w.g.armed
<1> DEFINE v == [w EXCEPT !.g.accepted = id]
<1>1. v \in Worlds /\ v.g.armed = w.g.armed /\ v.g.active = w.g.active
      /\ v.g.pid = w.g.pid /\ v.g.app = w.g.app
  BY DEF Good, Worlds, Guard
<1> HIDE DEF v
<1>2. QED
  BY <1>1, CancelTimerType DEF Good, Agrees, Quieted, Accept, v

LEMMA BeginTransitionGood ==
    ASSUME NEW w, Good(w), NEW id \in Ids PROVE Good(BeginTransition(w, id))
<1> DEFINE begun == Accept(w, id)
           v == Activate(begun, w.g.pid, w.g.app)
           seen == IF begun.g.active THEN Refresh(begun) ELSE begun
<1>1. begun \in Worlds /\ Quieted(begun) /\ begun.g.pid = w.g.pid
      /\ begun.g.app = w.g.app /\ begun.g.armed = w.g.armed
  BY AcceptedType
<1>2. CASE ~w.g.armed
  BY <1>2 DEF BeginTransition
<1>3. CASE w.g.armed
  <2>1. v = Suppress(seen, w.g.pid, w.g.app)
    <3> HIDE DEF begun
    <3> QED BY <1>1, <1>3 DEF Activate
  <2>2. Keeps(begun, seen)
    <3> HIDE DEF begun
    <3> QED BY <1>1, KeepsSelf, RefreshKeeps
  <2>3. Quieted(v)
    <3> HIDE DEF begun, seen, v
    <3> QED BY <1>1, <1>3, <2>1, <2>2, SuppressType DEF Quieted, Keeps, SameTiming
  <2>4. BeginTransition(w, id) \in {w, begun, v}
    BY DEF BeginTransition
  <2> HIDE DEF begun, v
  <2>5. QED
    BY <1>1, <2>3, <2>4, QuietedIsGood
<1>4. QED
  BY <1>2, <1>3

(* Among process ids there is a lowest one.                                  *)
LEMMA LowestType ==
    ASSUME NEW S, S \subseteq Tids, S # {} PROVE Lowest(S) \in S
<1>1. S \subseteq Nat
  BY KernelAssumption
<1>2. IsWellFoundedOn(OpToRel(<, Nat), Nat)
  BY NatLessThanWellFounded
<1>3. PICK t \in S : \A u \in S : ~(<<u, t>> \in OpToRel(<, Nat))
  BY <1>1, <1>2, WFMin
<1>4. ASSUME NEW u \in S PROVE t <= u
  <2>1. u \in Nat /\ t \in Nat
    BY <1>1
  <2>2. <<u, t>> \in Nat \X Nat /\ ~(<<u, t>> \in OpToRel(<, Nat))
    BY <1>3, <2>1
  <2>3. ~(u < t)
    BY <2>1, <2>2 DEF OpToRel
  <2>4. QED
    BY <2>1, <2>3
<1>5. QED
  BY <1>4 DEF Lowest

LEMMA AdoptPackageGood ==
    ASSUME NEW w, Good(w), NEW id \in Ids, NEW a \in Apps, NEW activate \in BOOLEAN
    PROVE  Good(AdoptPackage(w, id, a, activate))
<1> DEFINE p == Lowest(Processes(w, a))
           free == IF ~activate /\ w.g.active THEN Release(w, w.g.pid, FALSE) ELSE w
           begun == Accept(free, id)
           armed == IF begun.g.armed /\ begun.g.pid = p /\ begun.g.app = a
                    THEN begun ELSE Arm(begun, p, a)
<1>1. CASE Stale(w, id) \/ Processes(w, a) = {}
  BY <1>1 DEF AdoptPackage
<1>2. CASE ~(Stale(w, id) \/ Processes(w, a) = {})
  <2>1. p \in Tids
    <3>1. Processes(w, a) \subseteq Tids
      BY DEF Processes, Alive
    <3>2. QED
      BY <1>2, <3>1, LowestType
  <2>2. Good(free)
    BY ReleaseType
  <2>3. begun \in Worlds /\ Quieted(begun)
    <3> HIDE DEF free
    <3> QED BY <2>2, AcceptedType
  <2>4. armed \in Worlds /\ Quieted(armed)
    <3> HIDE DEF begun, p
    <3>1. Arm(begun, p, a) \in Worlds /\ Quieted(Arm(begun, p, a))
      BY <2>1, <2>3, ArmType DEF Quieted, SameTiming, Keeps
    <3>2. QED
      BY <2>3, <3>1
  <2>5. Quieted(Activate(armed, p, a))
    <3> HIDE DEF armed, p
    <3> QED BY <2>1, <2>4, ActivateType DEF Quieted, SameTiming
  <2>6. AdoptPackage(w, id, a, activate)
          = IF activate THEN Activate(armed, p, a) ELSE armed
    BY <1>2 DEF AdoptPackage
  <2> HIDE DEF armed, p
  <2>7. QED
    BY <2>4, <2>5, <2>6, QuietedIsGood
<1>3. QED
  BY <1>1, <1>2

LEMMA ReplaceCurrentGood ==
    ASSUME NEW w, Good(w), NEW p \in Tids, NEW a \in Apps
    PROVE  Good(ReplaceCurrent(w, p, a))
<1> DEFINE v == Arm(w, p, a)
           u == Activate(v, p, a)
<1>1. CASE \/ ~w.g.armed \/ w.g.app # a
           \/ (SourceMatches(w) /\ w.g.pid # p)
           \/ ~Is(w, p, a)
  BY <1>1 DEF ReplaceCurrent
<1>2. CASE ~(\/ ~w.g.armed \/ w.g.app # a
             \/ (SourceMatches(w) /\ w.g.pid # p)
             \/ ~Is(w, p, a))
  <2>1. Good(v)
    BY <1>2, ArmGood
  <2>2. SameTiming(w, v) /\ v.g.app = a
    BY <1>2, ArmType DEF Good, Keeps
  <2>3. SameTiming(v, u) /\ u.g.app = a /\ (u.g.active => u.g.armed)
    <3> HIDE DEF v
    <3> QED BY <2>1, <2>2, ActivateType DEF Good, Agrees
  <2>4. w.g.active => Good(u)
    <3> HIDE DEF u, v
    <3> QED BY <1>2, <2>2, <2>3 DEF Good, Agrees, SameTiming
  <2>5. ReplaceCurrent(w, p, a) = IF w.g.active THEN u ELSE v
    BY <1>2 DEF ReplaceCurrent
  <2> HIDE DEF u, v
  <2>6. QED
    BY <2>1, <2>4, <2>5
<1>3. QED
  BY <1>1, <1>2

LEMMA ScheduleCompletionGood ==
    ASSUME NEW w, Good(w), w.g.running, NEW id \in Ids
    PROVE  Good(ScheduleCompletion(w, id))
<1> DEFINE g == [w.g EXCEPT !.completion = id]
           k == [w.k EXCEPT !.timer = "running", !.timerApp = w.g.app]
<1>1. CASE ~w.g.active \/ id # w.g.accepted
  BY <1>1 DEF ScheduleCompletion
<1>2. CASE w.g.active /\ id = w.g.accepted
  <2>1. g \in Guard /\ g.completion = id /\ g.active = w.g.active
        /\ g.armed = w.g.armed /\ g.running = w.g.running
        /\ g.app = w.g.app /\ g.accepted = w.g.accepted
    BY DEF Good, Worlds, Guard
  <2>2. k \in Kernel /\ k.timerApp = w.g.app
    BY WorldParts DEF Good, Worlds, Kernel
  <2>3. ScheduleCompletion(w, id) = [w EXCEPT !.g = g, !.k = k]
    BY <1>2 DEF ScheduleCompletion, Good, Worlds, Guard, Kernel
  <2>4. id # 0
    BY GuardAssumption
  <2> HIDE DEF g, k
  <2>5. QED
    BY <1>2, <2>1, <2>2, <2>3, <2>4 DEF Good, Agrees, Worlds
<1>3. QED
  BY <1>1, <1>2

(* The event of a thread ends suppression, or is answered for that thread.   *)
LEMMA ReassertType ==
    ASSUME NEW w \in Worlds, NEW t \in Tids
    PROVE  \/ Keeps(w, Reassert(w, t))
           \/ w.g.active /\ Reassert(w, t) = Forgotten(Deactivate(w))
<1> DEFINE known == w.g.records[t].start # 0
           records == [w.g.records EXCEPT ![t] = Registered(w, t)]
           seen == IF known THEN w
                   ELSE [w EXCEPT !.g.records[t] = Registered(w, t)]
           moved == MoveBack(seen, t)
           quiet == Deactivate(w)
<1>1. Keeps(w, seen)
  <2>1. records \in [Tids -> Record]
    BY WorldParts, RegisteredType
  <2>2. seen \in {w, [w EXCEPT !.g.records = records]}
    OBVIOUS
  <2> HIDE DEF records, seen
  <2>3. QED
    BY <2>1, <2>2, KeepsSelf, SetRecords
<1>2. Keeps(seen, moved)
  <2> HIDE DEF seen
  <2> QED BY <1>1, MoveKeeps, MoveSourceKeeps, GroupsAreGroups DEF Keeps, MoveBack
<1>3. Keeps(moved, ApplyNice(moved, {t}))
  <2> HIDE DEF moved
  <2> QED BY <1>2, ApplyNiceKeeps DEF Keeps
<1>4. Keeps(w, ApplyNice(moved, {t})) /\ Keeps(w, w)
  <2> HIDE DEF moved, seen
  <2> QED BY <1>1, <1>2, <1>3, KeepsTrans, KeepsSelf
<1>5. CASE ~w.g.active \/ ~(t = w.g.pid \/ known \/ Belongs(w, t))
  BY <1>4, <1>5 DEF Reassert
<1>6. CASE /\ w.g.active /\ (t = w.g.pid \/ known \/ Belongs(w, t))
           /\ (t = w.g.pid \/ known) /\ ~SourceMatches(w)
  BY <1>6 DEF Reassert, Forgotten
<1>7. CASE /\ w.g.active /\ (t = w.g.pid \/ known \/ Belongs(w, t))
           /\ ~((t = w.g.pid \/ known) /\ ~SourceMatches(w))
  BY <1>4, <1>7 DEF Reassert
<1>8. QED
  BY <1>5, <1>6, <1>7

LEMMA ReassertGood ==
    ASSUME NEW w, Good(w), NEW t \in Tids PROVE Good(Reassert(w, t))
<1>1. w \in Worlds
  BY DEF Good
<1>2. Good(Forgotten(Deactivate(w)))
  <2>1. Keeps(Inactive(w), Deactivate(w))
    BY <1>1, DeactivateKeeps
  <2>2. QED
    BY <1>1, <2>1, InactiveType, ForgottenType DEF Good, Agrees, Keeps
<1>3. QED
  BY <1>1, <1>2, ReassertType, KeepsGood

-----------------------------------------------------------------------------
(* The invariant                                                             *)

(* TimerMatchesSource is not inductive: a switch of source may keep a timer  *)
(* only because no timer can be the accepted transition's then.  Agrees says *)
(* when: a suppressed source is armed, a timer has a transition, and while a *)
(* source is suppressed that transition is the accepted one.                 *)
IInv == TypeOK /\ Agrees(World({}))

LEMMA WorldGood ==
    ASSUME IInv, NEW bad \in SUBSET Faults PROVE Good(World(bad))
BY DEF IInv, TypeOK, World, Worlds, Good, Agrees

LEMMA BecomesGood ==
    ASSUME NEW w, Good(w), Becomes(w) PROVE IInv'
BY DEF IInv, TypeOK, World, Worlds, Good, Agrees, Becomes

LEMMA EndedGood ==
    ASSUME NEW w \in Worlds PROVE Good(Ended(w))
<1> DEFINE g == [NewGuard EXCEPT !.running = FALSE]
           k == [w.k EXCEPT !.timer = "off", !.timerApp = NoApp,
                            !.perf = FALSE, !.ring = {}]
<1>1. /\ NewGuard \in Guard /\ ~NewGuard.armed /\ ~NewGuard.active
      /\ NewGuard.completion = 0
  <2>1. NoRecord \in Record
    BY KernelAssumption DEF NoRecord, Record
  <2>2. [t \in Tids |-> NoRecord] \in [Tids -> Record] /\ 0 \in 0..MaxStart
    BY <2>1, KernelAssumption
  <2>3. QED
    BY <2>2 DEF NewGuard, Guard
<1>2. g \in Guard /\ ~g.armed /\ ~g.active
  BY <1>1 DEF Guard
<1>3. k \in Kernel /\ k.timer = "off"
  BY DEF Worlds, Kernel
<1>4. Ended(w) = [w EXCEPT !.g = g, !.k = k]
  BY DEF Ended, Worlds, Kernel
<1> HIDE DEF g, k
<1>5. QED
  BY <1>2, <1>3, <1>4 DEF Good, Agrees, Worlds

(* The kernel's own steps keep the timer.                                    *)
LEMMA KernelStep ==
    ASSUME IInv, NEW k \in Kernel,
           k.timer = kernel.timer, k.timerApp = kernel.timerApp,
           kernel' = k, UNCHANGED guard
    PROVE  IInv'
BY DEF IInv, TypeOK, Agrees, World

LEMMA KernelTask ==
    ASSUME NEW k \in Kernel, NEW task \in [Tids -> Task]
    PROVE  /\ [k EXCEPT !.task = task] \in Kernel
           /\ [k EXCEPT !.task = task].timer = k.timer
           /\ [k EXCEPT !.task = task].timerApp = k.timerApp
BY DEF Kernel

LEMMA AnnouncedType ==
    ASSUME NEW k \in Kernel, NEW t \in Tids, NEW who
    PROVE  /\ Announced(k, t, who) \in Kernel
           /\ Announced(k, t, who).timer = k.timer
           /\ Announced(k, t, who).timerApp = k.timerApp
<1> DEFINE thread(u) == [k.task[u] EXCEPT !.lost = @ \cup {"place"}]
           task == [u \in Tids |-> IF u \in who THEN thread(u) ELSE k.task[u]]
<1>1. ASSUME NEW u \in Tids PROVE k.task[u] \in Task /\ thread(u) \in Task
  <2>1. k.task[u] \in Task
    BY DEF Kernel
  <2>2. QED
    BY <2>1 DEF Task
<1>2. task \in [Tids -> Task]
  <2> HIDE DEF thread
  <2> QED BY <1>1
<1>3. /\ [k EXCEPT !.ring = k.ring \cup {t}] \in Kernel
      /\ [k EXCEPT !.ring = k.ring \cup {t}].timer = k.timer
      /\ [k EXCEPT !.ring = k.ring \cup {t}].timerApp = k.timerApp
  BY DEF Kernel
<1>4. Announced(k, t, who)
        \in {k, [k EXCEPT !.ring = k.ring \cup {t}], [k EXCEPT !.task = task]}
  BY DEF Announced
<1> HIDE DEF task
<1>5. QED
  BY <1>2, <1>3, <1>4, KernelTask

LEMMA BornType ==
    ASSUME TypeOK, NEW t \in Tids, NEW thread \in Task, kernel.clock < MaxStart
    PROVE  /\ Born(t, thread) \in Kernel
           /\ Born(t, thread).timer = kernel.timer
           /\ Born(t, thread).timerApp = kernel.timerApp
<1> DEFINE task == [kernel.task EXCEPT ![t] = thread]
           clock == kernel.clock + 1
           used == kernel.used \cup {t}
<1>1. task \in [Tids -> Task] /\ used \in SUBSET Tids
  BY DEF TypeOK, Kernel
<1>2. clock \in 0..MaxStart
  BY KernelAssumption DEF TypeOK, Kernel
<1>3. Born(t, thread) = [kernel EXCEPT !.task = task, !.clock = clock, !.used = used]
  BY DEF Born, TypeOK, Kernel
<1> HIDE DEF task, clock, used
<1>4. QED
  BY <1>1, <1>2, <1>3 DEF TypeOK, Kernel

LEMMA NewProcessType ==
    ASSUME NEW t \in Tids, NEW a \in Apps, NEW n \in Int, NEW g \in Groups,
           NEW start \in 0..MaxStart
    PROVE  NoTask \in Task /\ NewProcess(t, a, n, g, start) \in Task
<1>1. \A h \in Groups : In(h) \in [Controllers -> Groups]
  BY DEF In
<1>2. "background" \in Groups /\ 0 \in 0..MaxStart
  BY KernelAssumption DEF Groups
<1>3. NoTask \in Task
  BY <1>1, <1>2 DEF NoTask, Task, Masks
<1> DEFINE group == In(g)
<1>4. group \in [Controllers -> Groups]
  BY <1>1
<1>5. NewProcess(t, a, n, g, start)
        = [NoTask EXCEPT !.start = start, !.leader = t, !.app = a,
                         !.nice = n, !.own = n, !.group = group]
  BY DEF NewProcess
<1> HIDE DEF group
<1>6. QED
  BY <1>3, <1>4, <1>5 DEF Task

LEMMA BirthTypes ==
    ASSUME TypeOK, NEW t \in Tids, kernel.clock < MaxStart
    PROVE  /\ \A a \in Apps, n \in AppNices, g \in SystemGroups :
                 NewProcess(t, a, n, g, kernel.clock + 1) \in Task
           /\ \A parent \in Tids :
                 Clone(kernel.task[parent], kernel.clock + 1, kernel.perf) \in Task
<1>1. kernel.clock + 1 \in 0..MaxStart
  BY KernelAssumption DEF TypeOK, Kernel
<1>2. ASSUME NEW a \in Apps, NEW n \in AppNices, NEW g \in SystemGroups
      PROVE  NewProcess(t, a, n, g, kernel.clock + 1) \in Task
  BY <1>1, GroupsAreGroups, KernelAssumption, NewProcessType
<1>3. ASSUME NEW parent \in Tids
      PROVE  Clone(kernel.task[parent], kernel.clock + 1, kernel.perf) \in Task
  <2> DEFINE thread == kernel.task[parent]
             lost == thread.lost
                       \cup (IF thread.nice > thread.own THEN {"nice"} ELSE {})
                       \cup (IF kernel.perf /\ thread.group # In("source")
                             THEN {"place"} ELSE {})
  <2>1. thread \in Task
    BY DEF TypeOK, Kernel
  <2>2. lost \in SUBSET {"nice", "place"}
    <3> HIDE DEF thread
    <3> QED BY <2>1 DEF Task
  <2>3. Clone(thread, kernel.clock + 1, kernel.perf)
          = [thread EXCEPT !.start = kernel.clock + 1, !.lost = lost]
    BY DEF Clone
  <2>4. [thread EXCEPT !.start = kernel.clock + 1, !.lost = lost] \in Task
    <3> HIDE DEF thread, lost
    <3> QED BY <1>1, <2>1, <2>2 DEF Task
  <2>5. QED
    BY <2>3, <2>4
<1>4. QED
  BY <1>2, <1>3

LEMMA InitIInv == Init => IInv
<1> SUFFICES ASSUME Init PROVE IInv
  OBVIOUS
<1> DEFINE alive(t) == t \in DOMAIN Initial /\ MaxStart > 0
           task == [t \in Tids |-> IF alive(t)
                      THEN NewProcess(t, Initial[t], 0, "top", 1) ELSE NoTask]
<1>1. MaxStart \in Nat /\ 0 \in 0..MaxStart
  BY KernelAssumption
<1>2. NewGuard \in Guard /\ ~NewGuard.armed /\ ~NewGuard.active
  <2>1. NoRecord \in Record
    BY <1>1 DEF NoRecord, Record
  <2>2. [t \in Tids |-> NoRecord] \in [Tids -> Record]
    BY <2>1
  <2>3. QED
    BY <1>1, <2>2 DEF NewGuard, Guard
<1>3. NoTask \in Task
  <2>1. In("background") \in [Controllers -> Groups]
    BY DEF In, Groups
  <2>2. QED
    BY <1>1, <2>1 DEF NoTask, Task, Masks
<1>4. ASSUME NEW t \in Tids, alive(t)
      PROVE  NewProcess(t, Initial[t], 0, "top", 1) \in Task
  <2>1. 1 \in 0..MaxStart /\ Initial[t] \in Apps /\ "top" \in Groups /\ 0 \in Int
    BY <1>1, <1>4, GuardAssumption DEF Groups
  <2>2. QED
    BY <2>1, NewProcessType
<1>5. task \in [Tids -> Task]
  <2> HIDE DEF alive
  <2> QED BY <1>3, <1>4
<1>6. kernel = [task |-> task, minor |-> NoApp, timer |-> "off",
                timerApp |-> NoApp, perf |-> FALSE, ring |-> {},
                clock |-> IF MaxStart > 0 THEN 1 ELSE 0, used |-> DOMAIN Initial]
  BY DEF Init
<1> HIDE DEF task
<1>7. kernel \in Kernel
  BY <1>1, <1>5, <1>6, GuardAssumption DEF Kernel
<1>8. guard = NewGuard
  BY DEF Init
<1>9. QED
  BY <1>2, <1>6, <1>7, <1>8 DEF IInv, TypeOK, Agrees, World

(* Commands: each ends in a good world.                                      *)
LEMMA CommandIInv == IInv /\ Command => IInv'
<1> SUFFICES ASSUME IInv, Command PROVE IInv'
  OBVIOUS
<1>0. ASSUME NEW bad \in SUBSET Faults
      PROVE  Good(World(bad)) /\ World(bad).g = guard /\ World(bad).k = kernel
  BY WorldGood DEF World
<1>1. ASSUME NEW p \in Tids, NEW a \in Apps, ArmCommand(p, a) PROVE IInv'
  <2>1. PICK bad \in SUBSET Faults : Becomes(Arm(World(bad), p, a))
    BY <1>1 DEF ArmCommand
  <2>2. Good(World(bad)) /\ World(bad).g.accepted = 0
    BY <1>0, <1>1 DEF ArmCommand
  <2>3. Good(Arm(World(bad), p, a))
    BY <2>2, ArmGood
  <2>4. QED
    BY <2>1, <2>3, BecomesGood
<1>2. ASSUME NEW id \in Ids, EnterCommand(id) PROVE IInv'
  BY <1>0, <1>2, BeginTransitionGood, BecomesGood DEF EnterCommand
<1>3. ASSUME NEW id \in Ids, NEW a \in Apps, HandoffCommand(id, a) PROVE IInv'
  BY <1>0, <1>3, AdoptPackageGood, BecomesGood DEF HandoffCommand
<1>4. ASSUME NEW id \in Ids, NEW a \in Apps, AdoptCommand(id, a) PROVE IInv'
  BY <1>0, <1>4, AdoptPackageGood, BecomesGood DEF AdoptCommand
<1>5. ASSUME NEW id \in Ids, CompleteCommand(id) PROVE IInv'
  <2>1. {} \in SUBSET Faults
    OBVIOUS
  <2>2. Good(ScheduleCompletion(World({}), id))
    BY <1>0, <1>5, <2>1, ScheduleCompletionGood DEF CompleteCommand, Sent
  <2>3. QED
    BY <1>5, <2>2, BecomesGood DEF CompleteCommand
<1>6. ASSUME NEW p \in Tids, NEW a \in Apps, ReplaceCommand(p, a) PROVE IInv'
  BY <1>0, <1>6, ReplaceCurrentGood, BecomesGood DEF ReplaceCommand
<1>7. ASSUME NEW p \in Tids, NEW top \in BOOLEAN, ReleaseCommand(p, top)
      PROVE  IInv'
  BY <1>0, <1>7, ReleaseType, BecomesGood DEF ReleaseCommand
<1>8. CASE ResetCommand
  BY <1>0, <1>8, DisableGood, BecomesGood DEF ResetCommand
<1>9. CASE StopCommand
  <2>1. PICK bad \in SUBSET Faults : Becomes(Ended(ReleaseCurrent(World(bad))))
    BY <1>9 DEF StopCommand
  <2>2. ReleaseCurrent(World(bad)) \in Worlds
    BY <1>0, ReleaseType DEF ReleaseCurrent, Good
  <2>3. QED
    BY <2>1, <2>2, EndedGood, BecomesGood
<1>10. QED
  BY <1>1, <1>2, <1>3, <1>4, <1>5, <1>6, <1>7, <1>8, <1>9 DEF Command

(* The kernel's steps: none but the expiry touches the timer.                *)
LEMMA SystemIInv == IInv /\ System => IInv'
<1> SUFFICES ASSUME IInv, System PROVE IInv'
  OBVIOUS
<1>0. TypeOK /\ kernel \in Kernel /\ kernel.task \in [Tids -> Task]
  BY DEF IInv, TypeOK, Kernel
<1>1. CASE TimerExpires
  <2>1. kernel.timer = "running" /\ kernel' \in Kernel
        /\ kernel'.timer = "expired" /\ kernel'.timerApp = kernel.timerApp
    BY <1>0, <1>1 DEF TimerExpires, Kernel
  <2>2. QED
    BY <1>1, <2>1 DEF TimerExpires, IInv, TypeOK, Agrees, World
<1>2. ASSUME NEW t \in Tids, NEW cs \in SUBSET Controllers, NEW g \in SystemGroups,
             SystemMoves(t, cs, g)
      PROVE  IInv'
  <2>1. PICK who : kernel' = Announced([kernel EXCEPT
                      !.task = Attach(kernel.task, who, cs, g)], t, who)
    BY <1>2 DEF SystemMoves
  <2> DEFINE moved == [kernel EXCEPT !.task = Attach(kernel.task, who, cs, g)]
  <2>2. /\ moved \in Kernel
        /\ moved.timer = kernel.timer /\ moved.timerApp = kernel.timerApp
    BY <1>0, AttachType, GroupsAreGroups, KernelTask
  <2> HIDE DEF moved
  <2>3. /\ Announced(moved, t, who) \in Kernel
        /\ Announced(moved, t, who).timer = kernel.timer
        /\ Announced(moved, t, who).timerApp = kernel.timerApp
    BY <2>2, AnnouncedType
  <2>4. QED
    BY <1>2, <2>1, <2>3, KernelStep DEF SystemMoves, moved
<1>3. ASSUME NEW t \in Tids, NEW n \in AppNices, SystemSetsNice(t, n) PROVE IInv'
  <2> DEFINE thread == [kernel.task[t] EXCEPT !.nice = n, !.own = n]
             task == [kernel.task EXCEPT ![t] = thread]
  <2>1. kernel.task[t] \in Task /\ n \in Int
    BY <1>0, KernelAssumption
  <2>2. thread \in Task
    BY <2>1 DEF Task
  <2>3. task \in [Tids -> Task]
    <3> HIDE DEF thread
    <3> QED BY <1>0, <2>2
  <2>4. kernel' = [kernel EXCEPT !.task = task] /\ UNCHANGED guard
    BY <1>0, <1>3, <2>1 DEF SystemSetsNice, Kernel, Task
  <2> HIDE DEF task
  <2>5. QED
    BY <1>0, <2>3, <2>4, KernelTask, KernelStep
<1>4. ASSUME NEW a \in MinorUsers, SystemSetsMinor(a) PROVE IInv'
  <2>1. /\ kernel' \in Kernel /\ kernel'.timer = kernel.timer
        /\ kernel'.timerApp = kernel.timerApp /\ UNCHANGED guard
    BY <1>0, <1>4, GuardAssumption DEF SystemSetsMinor, Kernel
  <2>2. QED
    BY <2>1, KernelStep
<1>5. ASSUME NEW t \in Tids, PinThread(t) PROVE IInv'
  <2> DEFINE thread == [kernel.task[t] EXCEPT !.affinity = "pinned"]
             task == [kernel.task EXCEPT ![t] = thread]
  <2>1. thread \in Task
    <3>1. kernel.task[t] \in Task
      BY <1>0
    <3>2. QED
      BY <3>1 DEF Task, Masks
  <2>2. task \in [Tids -> Task]
    <3> HIDE DEF thread
    <3> QED BY <1>0, <2>1
  <2>3. kernel' = [kernel EXCEPT !.task = task] /\ UNCHANGED guard
    BY <1>0, <1>5 DEF PinThread, Kernel
  <2> HIDE DEF task
  <2>4. QED
    BY <1>0, <2>2, <2>3, KernelTask, KernelStep
<1>6. ASSUME NEW t \in Tids, NEW a \in Apps, NEW n \in AppNices,
             NEW g \in SystemGroups, SpawnProcess(t, a, n, g)
      PROVE  IInv'
  <2> DEFINE thread == NewProcess(t, a, n, g, kernel.clock + 1)
  <2>1. kernel.clock < MaxStart
        /\ kernel' = Announced(Born(t, thread), t, {t}) /\ UNCHANGED guard
    BY <1>6 DEF SpawnProcess, Free
  <2>2. thread \in Task
    BY <1>0, <2>1, BirthTypes
  <2> HIDE DEF thread
  <2>3. QED
    BY <1>0, <2>1, <2>2, BornType, AnnouncedType, KernelStep
<1>7. ASSUME NEW parent \in Tids, NEW t \in Tids, CloneThread(parent, t)
      PROVE  IInv'
  <2> DEFINE thread == Clone(kernel.task[parent], kernel.clock + 1, kernel.perf)
  <2>1. kernel.clock < MaxStart /\ kernel' = Born(t, thread) /\ UNCHANGED guard
    BY <1>7 DEF CloneThread, Free
  <2>2. thread \in Task
    BY <1>0, <2>1, BirthTypes
  <2> HIDE DEF thread
  <2>3. QED
    BY <1>0, <2>1, <2>2, BornType, KernelStep
<1>8. ASSUME NEW t \in Tids, ThreadExits(t) PROVE IInv'
  <2> DEFINE dead == IF kernel.task[t].leader = t
                     THEN ThreadGroup(kernel.task, t) ELSE {t}
             task == [u \in Tids |-> IF u \in dead THEN NoTask ELSE kernel.task[u]]
  <2>1. NoTask \in Task
    <3>1. In("background") \in [Controllers -> Groups] /\ 0 \in 0..MaxStart
      BY KernelAssumption DEF In, Groups
    <3>2. QED
      BY <3>1 DEF NoTask, Task, Masks
  <2>2. task \in [Tids -> Task]
    <3> HIDE DEF dead
    <3> QED BY <1>0, <2>1
  <2>3. kernel' = [kernel EXCEPT !.task = task] /\ UNCHANGED guard
    BY <1>8 DEF ThreadExits
  <2> HIDE DEF task
  <2>4. QED
    BY <1>0, <2>2, <2>3, KernelTask, KernelStep
<1>9. QED
  BY <1>1, <1>2, <1>3, <1>4, <1>5, <1>6, <1>7, <1>8 DEF System

LEMMA NextIInv == IInv /\ [Next]_vars => IInv'
<1> SUFFICES ASSUME IInv, [Next]_vars PROVE IInv'
  OBVIOUS
<1>1. CASE Command
  BY <1>1, CommandIInv
<1>2. CASE HandleTimer
  <2>1. PICK bad \in SUBSET Faults :
          LET read == [World(bad) EXCEPT !.k.timer = "off", !.k.timerApp = NoApp]
          IN  Becomes(IF guard.completion # guard.accepted THEN read
                      ELSE CompleteSource([read EXCEPT !.g.completion = 0],
                                          guard.completion))
    BY <1>2 DEF HandleTimer
  <2> DEFINE read == [World(bad) EXCEPT !.k.timer = "off", !.k.timerApp = NoApp]
             done == [read EXCEPT !.g.completion = 0]
  <2>2. World(bad) \in Worlds /\ (World(bad).g.active => World(bad).g.armed)
    BY WorldGood DEF Good, Agrees
  <2>3. Quieted(read)
    <3> DEFINE k == [World(bad).k EXCEPT !.timer = "off", !.timerApp = NoApp]
    <3>1. k \in Kernel /\ k.timer = "off"
      BY <2>2 DEF Worlds, Kernel
    <3>2. read = [World(bad) EXCEPT !.k = k]
      BY <2>2 DEF Worlds, Kernel
    <3> HIDE DEF k, read
    <3>3. QED
      BY <2>2, <3>1, <3>2 DEF Quieted, Worlds
  <2>4. Quieted(done)
    <3> HIDE DEF read
    <3> QED BY <2>3 DEF Quieted, Worlds, Guard
  <2>5. Good(read) /\ Good(CompleteSource(done, guard.completion))
    <3> HIDE DEF read, done
    <3> QED BY <2>3, <2>4, QuietedIsGood, CompleteSourceGood DEF Quieted
  <2>6. Becomes(read) \/ Becomes(CompleteSource(done, guard.completion))
    BY <2>1
  <2> HIDE DEF read, done
  <2>7. QED
    BY <2>5, <2>6, BecomesGood
<1>3. ASSUME NEW t \in Tids, HandleEvent(t) PROVE IInv'
  <2>1. PICK bad \in SUBSET Faults :
          Becomes(Reassert([World(bad) EXCEPT !.k.ring = @ \ {t}], t))
    BY <1>3 DEF HandleEvent
  <2> DEFINE w == [World(bad) EXCEPT !.k.ring = @ \ {t}]
  <2>2. Good(World(bad))
    BY WorldGood
  <2>3. Good(w)
    BY <2>2 DEF Good, Agrees, Worlds, Kernel
  <2> HIDE DEF w
  <2>4. Good(Reassert(w, t))
    BY <2>3, ReassertGood
  <2>5. QED
    BY <2>1, <2>4, BecomesGood DEF w
<1>4. CASE StartGuard
  <2>1. NewGuard \in Guard /\ ~NewGuard.armed /\ ~NewGuard.active
    <3>1. NoRecord \in Record
      BY KernelAssumption DEF NoRecord, Record
    <3>2. [t \in Tids |-> NoRecord] \in [Tids -> Record] /\ 0 \in 0..MaxStart
      BY <3>1, KernelAssumption
    <3>3. QED
      BY <3>2 DEF NewGuard, Guard
  <2>2. ASSUME NEW task \in [Tids -> Task]
        PROVE  DrainGroups(task) \in [Tids -> Task]
    BY AttachType, GroupsAreGroups DEF DrainGroups
  <2>3. kernel \in Kernel /\ kernel.task \in [Tids -> Task]
    BY DEF IInv, TypeOK, Kernel
  <2>4. kernel' \in Kernel /\ kernel'.timer = kernel.timer
    BY <1>4, <2>2, <2>3, KernelTask DEF StartGuard
  <2>5. kernel.timer = "off"
    BY <1>4 DEF StartGuard, IInv, Agrees, World
  <2>6. QED
    BY <1>4, <2>1, <2>4, <2>5 DEF StartGuard, IInv, TypeOK, Agrees, World
<1>5. CASE Crash
  <2> DEFINE orphan(r) == IF r.nice > r.own
                          THEN [r EXCEPT !.lost = @ \cup {"nice"}] ELSE r
             task == [t \in Tids |-> orphan(kernel.task[t])]
             left == [World({}) EXCEPT !.k.task = task]
  <2>1. Good(World({})) /\ World({}).k = kernel
    BY WorldGood DEF World
  <2>2. task \in [Tids -> Task]
    <3>1. ASSUME NEW r \in Task PROVE orphan(r) \in Task
      BY DEF Task
    <3>2. kernel.task \in [Tids -> Task]
      BY DEF IInv, TypeOK, Kernel
    <3> HIDE DEF orphan
    <3>3. QED
      BY <3>1, <3>2
  <2>3. left \in Worlds
    <3> HIDE DEF task
    <3> QED BY <2>1, <2>2, SetTask DEF Good, Keeps
  <2>4. Becomes(Ended(left))
    BY <1>5, <2>1 DEF Crash
  <2> HIDE DEF left
  <2>5. QED
    BY <2>3, <2>4, EndedGood, BecomesGood
<1>6. CASE System
  BY <1>6, SystemIInv
<1>7. CASE UNCHANGED vars
  BY <1>7 DEF vars, IInv, TypeOK, Agrees, World
<1>8. QED
  BY <1>1, <1>2, <1>3, <1>4, <1>5, <1>6, <1>7 DEF Next

LEMMA Invariance == Spec => []IInv
BY InitIInv, NextIInv, PTL DEF Spec

(* Every handler of the poll loop, under any failing kernel interface, and   *)
(* every step of the kernel leaves the state well formed.                    *)
THEOREM TypeCorrect == Spec => []TypeOK
BY Invariance, PTL DEF IInv

(* However many threads, applications and transitions there are, a timer     *)
(* that can still complete the accepted transition was set for the source    *)
(* the guard is armed for (schedule_completion against arm_source,           *)
(* adopt_package, replace_current and handle_command's resets).              *)
THEOREM TimerIsTheSources == Spec => []TimerMatchesSource
<1>1. IInv => TimerMatchesSource
  BY DEF IInv, Agrees, World, TimerMatchesSource
<1>2. QED
  BY <1>1, Invariance, PTL

(* A timer pending while a source is suppressed is the accepted              *)
(* transition's: none of an older one survives (begin_transition,            *)
(* adopt_package).                                                           *)
THEOREM TimerIsTheTransitions == Spec => []TimerMatchesTransition
<1>1. IInv => TimerMatchesTransition
  BY DEF IInv, Agrees, World, TimerMatchesTransition
<1>2. QED
  BY <1>1, Invariance, PTL
=============================================================================
