---------------------- MODULE SourceGuardProtocolProofs ----------------------
(***************************************************************************)
(* The source guard implements GuardProtocol.  What a handler does to the   *)
(* part of a world its senders know of is a lemma; the theorem maps every   *)
(* step of the guard, the kernel and the applications to a step of the      *)
(* protocol or to none.                                                     *)
(***************************************************************************)
EXTENDS SourceGuardProofs

(* The threads keep their identities.                                        *)
SameThreads(w, v) ==
    /\ v \in Worlds
    /\ \A t \in Tids : /\ v.k.task[t].start = w.k.task[t].start
                       /\ v.k.task[t].app = w.k.task[t].app
                       /\ v.k.task[t].leader = w.k.task[t].leader

LEMMA SameThreadsTrans ==
    ASSUME NEW u, NEW v, NEW w, SameThreads(u, v), SameThreads(v, w)
    PROVE  SameThreads(u, w)
BY DEF SameThreads

LEMMA KernelKept ==
    ASSUME NEW w \in Worlds, NEW v \in Worlds, v.k.task = w.k.task
    PROVE  SameThreads(w, v)
BY DEF SameThreads

-----------------------------------------------------------------------------
(* Identities                                                                *)

(* Changing groups, masks or nice values of threads.                         *)
LEMMA SetTaskThreads ==
    ASSUME NEW w \in Worlds, NEW task \in [Tids -> Task],
           \A t \in Tids : /\ task[t].start = w.k.task[t].start
                           /\ task[t].app = w.k.task[t].app
                           /\ task[t].leader = w.k.task[t].leader
    PROVE  SameThreads(w, [w EXCEPT !.k.task = task])
<1>1. [w EXCEPT !.k.task = task] \in Worlds
  BY SetTask DEF Keeps
<1>2. [w EXCEPT !.k.task = task].k.task = task
  BY DEF Worlds, Kernel
<1>3. QED
  BY <1>1, <1>2 DEF SameThreads

LEMMA MoveThreads ==
    ASSUME NEW w \in Worlds, NEW who, NEW g \in Groups
    PROVE  SameThreads(w, Move(w, who, g))
<1> DEFINE task == Attach(w.k.task, who, Controllers \ w.bad, g)
<1>1. w.k.task \in [Tids -> Task] /\ task \in [Tids -> Task]
  BY WorldParts, AttachType
<1>2. ASSUME NEW t \in Tids
      PROVE  /\ task[t].start = w.k.task[t].start
             /\ task[t].app = w.k.task[t].app
             /\ task[t].leader = w.k.task[t].leader
  <2>1. w.k.task[t] \in Task
    BY <1>1
  <2>2. QED
    BY <2>1 DEF Attach, Task
<1>3. Move(w, who, g) = [w EXCEPT !.k.task = task]
  BY DEF Move
<1> HIDE DEF task
<1>4. QED
  BY <1>1, <1>2, <1>3, SetTaskThreads

LEMMA RestoreNiceThreads ==
    ASSUME NEW w \in Worlds, NEW force \in BOOLEAN
    PROVE  SameThreads(w, RestoreNice(w, force))
<1> DEFINE v == RestoreNice(w, force)
<1>1. v \in Worlds
  BY RestoreNiceKeeps DEF Keeps
<1>2. ASSUME NEW t \in Tids
      PROVE  /\ v.k.task[t].start = w.k.task[t].start
             /\ v.k.task[t].app = w.k.task[t].app
             /\ v.k.task[t].leader = w.k.task[t].leader
  <2>1. w.k.task[t] \in Task
    BY WorldParts
  <2>2. v.k.task[t] \in {w.k.task[t],
                         [w.k.task[t] EXCEPT !.nice = w.g.records[t].nice]}
    BY DEF RestoreNice, Worlds, Kernel
  <2>3. QED
    BY <2>1, <2>2 DEF Task
<1>3. QED
  BY <1>1, <1>2 DEF SameThreads

LEMMA RestoreAffinityThreads ==
    ASSUME NEW w \in Worlds PROVE SameThreads(w, RestoreAffinity(w))
<1> DEFINE v == RestoreAffinity(w)
<1>1. v \in Worlds
  BY RestoreAffinityKeeps DEF Keeps
<1>2. ASSUME NEW t \in Tids
      PROVE  /\ v.k.task[t].start = w.k.task[t].start
             /\ v.k.task[t].app = w.k.task[t].app
             /\ v.k.task[t].leader = w.k.task[t].leader
  <2>1. w.k.task[t] \in Task
    BY WorldParts
  <2>2. v.k.task[t] \in {w.k.task[t],
                         [w.k.task[t] EXCEPT !.affinity = w.g.records[t].affinity]}
    BY DEF RestoreAffinity, Worlds, Kernel
  <2>3. QED
    BY <2>1, <2>2 DEF Task
<1>3. QED
  BY <1>1, <1>2 DEF SameThreads

LEMMA MinorThreads ==
    ASSUME NEW w \in Worlds, NEW preserve \in BOOLEAN
    PROVE  SameThreads(w, RestoreMinor(w, preserve))
<1>1. RestoreMinor(w, preserve) \in Worlds
  BY MinorKeeps DEF Keeps
<1>2. RestoreMinor(w, preserve).k.task = w.k.task
  BY DEF RestoreMinor, Worlds, Kernel
<1>3. QED
  BY <1>1, <1>2, KernelKept

LEMMA DeactivateThreads ==
    ASSUME NEW w \in Worlds PROVE SameThreads(w, Deactivate(w))
<1>1. Deactivate(w) \in Worlds
  BY DeactivateKeeps DEF Keeps
<1>2. Deactivate(w).k.task = w.k.task
  BY DEF Deactivate, SetTrace, Worlds, Kernel
<1>3. QED
  BY <1>1, <1>2, KernelKept

LEMMA CancelTimerThreads ==
    ASSUME NEW w \in Worlds PROVE SameThreads(w, CancelTimer(w))
<1>1. CancelTimer(w) \in Worlds
  BY CancelTimerType
<1>2. CancelTimer(w).k.task = w.k.task
  BY DEF CancelTimer, Worlds, Kernel
<1>3. QED
  BY <1>1, <1>2, KernelKept

LEMMA ToTopThreads ==
    ASSUME NEW w \in Worlds, NEW preserve \in BOOLEAN
    PROVE  SameThreads(w, ToTop(w, preserve))
<1> DEFINE w1 == MoveSource(w, "top")
           w2 == RestoreAffinity(w1)
           w3 == RestoreNice(w2, TRUE)
<1>1. SameThreads(w, w1)
  BY MoveThreads, GroupsAreGroups DEF MoveSource
<1>2. SameThreads(w1, w2)
  BY <1>1, RestoreAffinityThreads DEF SameThreads
<1>3. SameThreads(w2, w3)
  BY <1>2, RestoreNiceThreads DEF SameThreads
<1>4. SameThreads(w3, RestoreMinor(w3, preserve))
  BY <1>3, MinorThreads DEF SameThreads
<1>5. ToTop(w, preserve) = RestoreMinor(w3, preserve)
  BY DEF ToTop
<1> HIDE DEF w1, w2, w3
<1>6. QED
  BY <1>1, <1>2, <1>3, <1>4, <1>5, SameThreadsTrans

LEMMA ToBackgroundThreads ==
    ASSUME NEW w \in Worlds, NEW preserve \in BOOLEAN
    PROVE  SameThreads(w, ToBackground(w, preserve))
<1> DEFINE w1 == MoveSource(w, "background")
           w2 == RestoreNice(w1, FALSE)
<1>1. SameThreads(w, w1)
  BY MoveThreads, GroupsAreGroups DEF MoveSource
<1>2. SameThreads(w1, w2)
  BY <1>1, RestoreNiceThreads DEF SameThreads
<1>3. SameThreads(w2, RestoreMinor(w2, preserve))
  BY <1>2, MinorThreads DEF SameThreads
<1>4. ToBackground(w, preserve) = RestoreMinor(w2, preserve)
  BY DEF ToBackground
<1> HIDE DEF w1, w2
<1>5. QED
  BY <1>1, <1>2, <1>3, <1>4, SameThreadsTrans

LEMMA ReleaseThreads ==
    ASSUME NEW w \in Worlds, NEW p, NEW top \in BOOLEAN
    PROVE  SameThreads(w, Release(w, p, top))
<1> DEFINE cancelled == CancelTimer(w)
           quiet == Deactivate(cancelled)
           restored == IF ~SourceMatches(quiet) THEN quiet
                       ELSE IF top THEN ToTop(quiet, TRUE)
                       ELSE ToBackground(quiet, FALSE)
<1>1. SameThreads(w, cancelled)
  BY CancelTimerThreads
<1>2. SameThreads(cancelled, quiet)
  <2> HIDE DEF cancelled
  <2> QED BY <1>1, DeactivateThreads DEF SameThreads
<1>3. SameThreads(quiet, restored)
  <2>1. quiet \in Worlds
    BY <1>2 DEF SameThreads
  <2> HIDE DEF quiet
  <2>2. /\ SameThreads(quiet, quiet)
        /\ SameThreads(quiet, ToTop(quiet, TRUE))
        /\ SameThreads(quiet, ToBackground(quiet, FALSE))
    BY <2>1, KernelKept, ToTopThreads, ToBackgroundThreads
  <2>3. QED
    BY <2>2
<1>4. SameThreads(restored, Forgotten(restored))
  <2> HIDE DEF restored
  <2> QED BY <1>3, ForgottenType, KernelKept DEF SameThreads
<1>5. Release(w, p, top) = IF ~w.g.armed \/ w.g.pid # p THEN w
                           ELSE Forgotten(restored)
  BY DEF Release, Forgotten
<1> HIDE DEF cancelled, quiet, restored
<1>6. SameThreads(w, w)
  BY KernelKept
<1>7. QED
  BY <1>1, <1>2, <1>3, <1>4, <1>5, <1>6, SameThreadsTrans

-----------------------------------------------------------------------------
(* What the senders know                                                     *)

(* The protocol tells an armed guard by its application, and remembers       *)
(* nothing of a guard that is down.                                          *)
Clear(w) ==
    /\ Good(w)
    /\ w.g.armed <=> w.g.app # NoApp
    /\ ~w.g.running => ~w.g.armed /\ w.g.accepted = 0 /\ w.k.timer = "off"

(* Arming for a running process: the present source again, or another one    *)
(* that is not suppressed.                                                   *)
LEMMA ArmView ==
    ASSUME NEW w \in Worlds, NEW p \in Tids, NEW a \in Apps, Is(w, p, a)
    PROVE  /\ SameTiming(w, Arm(w, p, a))
           /\ Arm(w, p, a).g.armed
           /\ Arm(w, p, a).g.pid = p /\ Arm(w, p, a).g.app = a
           /\ Arm(w, p, a).g.active => w.g.active
<1>1. CASE w.g.armed /\ SameSource(w, p, a)
  <2>1. Arm(w, p, a) = Refresh(w)
    BY <1>1 DEF Arm
  <2>2. Keeps(w, Refresh(w))
    BY RefreshKeeps
  <2>3. QED
    BY <1>1, <2>1, <2>2 DEF Keeps, SameTiming, SameSource
<1>2. CASE ~(w.g.armed /\ SameSource(w, p, a))
  <2> DEFINE free == IF w.g.active /\ ~SameSource(w, p, a) THEN Abandon(w) ELSE w
             ready == [Idle(free.g) EXCEPT !.armed = TRUE, !.pid = p, !.app = a,
                          !.start = free.k.task[p].start, !.minor = free.k.minor]
             fresh == [free EXCEPT !.g = ready]
  <2>1. free \in Worlds
    <3>1. Abandon(w) \in Worlds
      BY AbandonKeeps DEF Keeps
    <3>2. QED
      BY <3>1
  <2>2. Arm(w, p, a) = Refresh(fresh)
    BY <1>2 DEF Arm
  <2>3. ready \in Guard /\ ready.armed /\ ~ready.active
        /\ ready.pid = p /\ ready.app = a
    <3> HIDE DEF free
    <3> DEFINE start == free.k.task[p].start
               minor == free.k.minor
    <3>1. free.k.task[p] \in Task /\ minor \in Apps \cup {NoApp} /\ free.g \in Guard
      BY <2>1, WorldParts
    <3>2. start \in 0..MaxStart
      BY <3>1 DEF Task
    <3>3. ready = [Idle(free.g) EXCEPT !.armed = TRUE, !.pid = p, !.app = a,
                                       !.start = start, !.minor = minor]
      OBVIOUS
    <3> HIDE DEF start, minor, ready
    <3>4. QED
      BY <3>1, <3>2, <3>3, IdleType DEF Guard
  <2>4. fresh \in Worlds /\ fresh.g = ready
    <3> HIDE DEF free, ready
    <3> QED BY <2>1, <2>3 DEF Worlds
  <2>5. Keeps(fresh, Refresh(fresh))
    <3> HIDE DEF fresh
    <3> QED BY <2>4, RefreshKeeps
  <2> HIDE DEF fresh, ready
  <2>6. /\ Arm(w, p, a).g.armed /\ ~Arm(w, p, a).g.active
        /\ Arm(w, p, a).g.pid = p /\ Arm(w, p, a).g.app = a
    BY <2>2, <2>3, <2>4, <2>5 DEF Keeps
  <2>7. QED
    BY <2>6, ArmType
<1>3. QED
  BY <1>1, <1>2

(* Activating a source that is armed toggles nothing but its suppression.    *)
LEMMA ActivateView ==
    ASSUME NEW w \in Worlds, w.g.armed, NEW p \in Tids, NEW a \in Apps, w.g.app = a,
           Is(w, p, a) \/ w.g.pid = p
    PROVE  /\ SameTiming(w, Activate(w, p, a))
           /\ Activate(w, p, a).g.armed /\ Activate(w, p, a).g.app = a
<1> DEFINE armed == Arm(w, p, a)
           seen == IF w.g.active THEN Refresh(w) ELSE w
<1>1. CASE w.g.pid = p
  <2>1. Activate(w, p, a) = Suppress(seen, p, a)
    BY <1>1 DEF Activate
  <2>2. Keeps(w, seen)
    BY KeepsSelf, RefreshKeeps
  <2> HIDE DEF seen
  <2>3. seen \in Worlds /\ seen.g.armed
    BY <2>2 DEF Keeps
  <2>4. Suppress(seen, p, a).g.armed
    BY <2>3, SuppressType
  <2>5. QED
    BY <2>1, <2>4, ActivateType
<1>2. CASE w.g.pid # p
  <2>1. Is(w, p, a)
    BY <1>2
  <2>2. Activate(w, p, a) = Suppress(armed, p, a)
    BY <1>2, <2>1 DEF Activate
  <2>3. armed \in Worlds /\ armed.g.armed
    BY <2>1, ArmView DEF SameTiming
  <2> HIDE DEF armed
  <2>4. QED
    BY <2>2, <2>3, SuppressType, ActivateType
<1>3. QED
  BY <1>1, <1>2

(* A world that follows transition id and has no completion under way.       *)
Follows(w, v, id) ==
    /\ Clear(v) /\ v.g.running = w.g.running
    /\ v.g.accepted = id /\ w.g.accepted <= id /\ v.k.timer = "off"

LEMMA NoAppIsNone == NoApp \notin Apps
BY KernelAssumption

LEMMA AcceptView ==
    ASSUME NEW w, Good(w), NEW id \in Ids
    PROVE  /\ Quieted(Accept(w, id)) /\ SameThreads(w, Accept(w, id))
           /\ Accept(w, id).g.accepted = id
           /\ \A f \in {"running", "armed", "active", "pid", "app"} :
                 Accept(w, id).g[f] = w.g[f]
<1> DEFINE v == [w EXCEPT !.g.accepted = id]
<1>1. /\ v \in Worlds /\ v.g.accepted = id /\ v.k = w.k
      /\ \A f \in {"running", "armed", "active", "pid", "app"} : v.g[f] = w.g[f]
  BY DEF Good, Worlds, Guard
<1>2. Accept(w, id) = CancelTimer(v)
  BY DEF Accept
<1> HIDE DEF v
<1>3. SameThreads(w, v) /\ SameThreads(v, CancelTimer(v))
  BY <1>1, KernelKept, CancelTimerThreads DEF Good
<1>4. /\ CancelTimer(v).g.accepted = id
      /\ \A f \in {"running", "armed", "active", "pid", "app"} :
            CancelTimer(v).g[f] = w.g[f]
  BY <1>1, CancelTimerType
<1>5. QED
  BY <1>2, <1>3, <1>4, AcceptedType, SameThreadsTrans

LEMMA IdsAreNumbers == Ids \subseteq Nat /\ 0 \notin Ids
BY GuardAssumption

LEMMA StaleType ==
    ASSUME NEW w \in Worlds, NEW id \in Ids, ~Stale(w, id)
    PROVE  w.g.accepted <= id
<1>1. w.g.accepted \in Ids \cup {0} /\ Ids \cup {0} \subseteq Nat
  BY WorldParts, IdsAreNumbers
<1>2. w.g.accepted \in Nat /\ id \in Nat
  BY <1>1
<1>3. QED
  BY <1>2 DEF Stale

LEMMA BeginTransitionView ==
    ASSUME NEW w, Clear(w), w.g.running, NEW id \in Ids
    PROVE  \/ BeginTransition(w, id) = w
           \/ /\ w.g.armed /\ Follows(w, BeginTransition(w, id), id)
              /\ BeginTransition(w, id).g.app = w.g.app
              /\ w.g.active => BeginTransition(w, id).g.active
<1> DEFINE begun == Accept(w, id)
           v == BeginTransition(w, id)
<1>1. CASE ~w.g.armed \/ Stale(w, id)
  BY <1>1 DEF BeginTransition
<1>2. CASE w.g.armed /\ ~Stale(w, id)
  <2>1. /\ begun \in Worlds /\ begun.k.timer = "off" /\ begun.g.armed
        /\ begun.g.running /\ begun.g.accepted = id /\ begun.g.pid = w.g.pid
        /\ begun.g.app = w.g.app /\ begun.g.active = w.g.active
    BY <1>2, AcceptView DEF Clear, Quieted
  <2>2. w.g.accepted <= id
    BY <1>2, StaleType DEF Clear, Good
  <2>3. Good(v)
    BY BeginTransitionGood DEF Clear
  <2>4. w.g.app \in Apps
    BY <1>2, WorldParts DEF Clear, Good
  <2>5. CASE w.g.active
    <3>1. v = begun
      BY <1>2, <2>5 DEF BeginTransition
    <3> HIDE DEF begun, v
    <3>2. QED
      BY <1>2, <2>1, <2>2, <2>3, <2>5, <3>1 DEF Follows, Clear, v
  <2>6. CASE ~w.g.active
    <3>1. v = Activate(begun, w.g.pid, w.g.app)
      BY <1>2, <2>6 DEF BeginTransition
    <3>2. v = Suppress(begun, w.g.pid, w.g.app)
      <4> HIDE DEF begun, v
      <4> QED BY <2>1, <2>6, <3>1 DEF Activate
    <3>3. SameTiming(begun, v) /\ v.g.armed /\ v.g.app = w.g.app
      <4> HIDE DEF begun, v
      <4> QED BY <2>1, <3>2, SuppressType
    <3> HIDE DEF begun, v
    <3>4. QED
      BY <1>2, <2>1, <2>2, <2>3, <2>4, <2>6, <3>3, NoAppIsNone
         DEF Follows, Clear, SameTiming, v
  <2>7. QED
    BY <2>5, <2>6
<1>3. QED
  BY <1>1, <1>2

LEMMA AdoptPackageView ==
    ASSUME NEW w, Clear(w), w.g.running, NEW id \in Ids, NEW a \in Apps,
           NEW activate \in BOOLEAN
    PROVE  \/ AdoptPackage(w, id, a, activate) = w
           \/ /\ Follows(w, AdoptPackage(w, id, a, activate), id)
              /\ AdoptPackage(w, id, a, activate).g.app = a
              /\ activate \/ ~AdoptPackage(w, id, a, activate).g.active
<1> DEFINE p == Lowest(Processes(w, a))
           free == IF ~activate /\ w.g.active THEN Release(w, w.g.pid, FALSE) ELSE w
           begun == Accept(free, id)
           same == begun.g.armed /\ begun.g.pid = p /\ begun.g.app = a
           armed == IF same THEN begun ELSE Arm(begun, p, a)
           v == AdoptPackage(w, id, a, activate)
<1>1. CASE Stale(w, id) \/ Processes(w, a) = {}
  BY <1>1 DEF AdoptPackage
<1>2. CASE ~Stale(w, id) /\ Processes(w, a) # {}
  <2>0. Good(w) /\ w \in Worlds
    BY DEF Clear, Good
  <2>1. p \in Tids /\ Is(w, p, a)
    <3>1. Processes(w, a) \subseteq Tids
      BY DEF Processes, Alive
    <3>2. p \in Processes(w, a)
      BY <1>2, <3>1, LowestType
    <3>3. QED
      BY <3>1, <3>2 DEF Processes
  <2>2. w.g.accepted <= id
    BY <1>2, <2>0, StaleType
  <2>3. /\ Good(free) /\ SameThreads(w, free) /\ free.g.running
        /\ activate \/ ~free.g.active
    <3>1. /\ Good(Release(w, w.g.pid, FALSE))
          /\ SameThreads(w, Release(w, w.g.pid, FALSE))
          /\ Release(w, w.g.pid, FALSE).g.running
          /\ ~w.g.active \/ ~Release(w, w.g.pid, FALSE).g.active
      BY <2>0, ReleaseType, ReleaseThreads DEF Good, Agrees
    <3>2. SameThreads(w, w)
      BY <2>0, KernelKept
    <3>3. QED
      BY <2>0, <3>1, <3>2
  <2>4. /\ begun \in Worlds /\ Is(begun, p, a) /\ begun.k.timer = "off"
        /\ begun.g.running /\ begun.g.accepted = id
        /\ activate \/ ~begun.g.active
    <3> HIDE DEF free, p
    <3>1. Quieted(begun) /\ SameThreads(free, begun) /\ begun.g.accepted = id
          /\ begun.g.running = free.g.running /\ begun.g.active = free.g.active
      BY <2>3, AcceptView
    <3> HIDE DEF begun
    <3>2. QED
      BY <2>1, <2>3, <3>1 DEF Quieted, SameThreads, Is
  <2>5. /\ armed \in Worlds /\ armed.g.armed /\ armed.g.app = a
        /\ armed.k.timer = "off" /\ armed.g.running /\ armed.g.accepted = id
        /\ activate \/ ~armed.g.active
        /\ armed.g.pid = p \/ Is(armed, p, a)
    <3> HIDE DEF begun, p
    <3>1. CASE same
      BY <2>4, <3>1
    <3>2. CASE ~same
      <4>1. /\ SameTiming(begun, Arm(begun, p, a)) /\ Arm(begun, p, a).g.armed
            /\ Arm(begun, p, a).g.pid = p /\ Arm(begun, p, a).g.app = a
            /\ Arm(begun, p, a).g.active => begun.g.active
        BY <2>1, <2>4, ArmView
      <4>2. QED
        BY <2>4, <3>2, <4>1 DEF SameTiming
    <3>3. QED
      BY <3>1, <3>2
  <2>6. v = IF activate THEN Activate(armed, p, a) ELSE armed
    BY <1>2 DEF AdoptPackage
  <2> HIDE DEF armed, p, v
  <2>7. /\ v.g.armed /\ v.g.app = a /\ v.k.timer = "off" /\ v.g.running
        /\ v.g.accepted = id
        /\ activate \/ ~v.g.active
    <3>1. CASE activate
      BY <2>1, <2>5, <2>6, <3>1, ActivateView DEF SameTiming
    <3>2. CASE ~activate
      BY <2>5, <2>6, <3>2
    <3>3. QED
      BY <3>1, <3>2
  <2>8. Good(v)
    BY <2>0, AdoptPackageGood DEF v
  <2>9. QED
    BY <2>2, <2>7, <2>8, NoAppIsNone DEF Follows, Clear, v
<1>3. QED
  BY <1>1, <1>2

(* A world in which the transition and its completion are as they were.      *)
Stays(w, v) == Clear(v) /\ SameTiming(w, v)

LEMMA ArmStays ==
    ASSUME NEW w, Clear(w), w.g.running, w.g.accepted = 0, ~w.g.active,
           NEW p \in Tids, NEW a \in Apps
    PROVE  \/ Arm(w, p, a) = w
           \/ /\ Stays(w, Arm(w, p, a))
              /\ Arm(w, p, a).g.app = a /\ ~Arm(w, p, a).g.active
<1>1. CASE ~Is(w, p, a)
  BY <1>1 DEF Arm
<1>2. CASE Is(w, p, a)
  <2>1. Good(Arm(w, p, a))
    BY ArmGood DEF Clear
  <2>2. /\ SameTiming(w, Arm(w, p, a))
        /\ Arm(w, p, a).g.armed /\ Arm(w, p, a).g.app = a
        /\ ~Arm(w, p, a).g.active
    BY <1>2, ArmView DEF Clear, Good
  <2>3. QED
    BY <2>1, <2>2, NoAppIsNone DEF Stays, Clear, SameTiming
<1>3. QED
  BY <1>1, <1>2

LEMMA ReplaceStays ==
    ASSUME NEW w, Clear(w), w.g.running, NEW p \in Tids, NEW a \in Apps
    PROVE  \/ ReplaceCurrent(w, p, a) = w
           \/ /\ Stays(w, ReplaceCurrent(w, p, a))
              /\ ReplaceCurrent(w, p, a).g.app = w.g.app
              /\ ReplaceCurrent(w, p, a).g.active => w.g.active
<1> DEFINE v == Arm(w, p, a)
           u == Activate(v, p, a)
<1>1. CASE \/ ~w.g.armed \/ w.g.app # a
           \/ (SourceMatches(w) /\ w.g.pid # p)
           \/ ~Is(w, p, a)
  BY <1>1 DEF ReplaceCurrent
<1>2. CASE ~(\/ ~w.g.armed \/ w.g.app # a
             \/ (SourceMatches(w) /\ w.g.pid # p)
             \/ ~Is(w, p, a))
  <2>1. /\ SameTiming(w, v) /\ v.g.armed /\ v.g.pid = p /\ v.g.app = a
        /\ v.g.active => w.g.active
    BY <1>2, ArmView DEF Clear, Good
  <2>2. SameTiming(v, u) /\ u.g.armed /\ u.g.app = a
    <3> HIDE DEF v
    <3> QED BY <2>1, ActivateView DEF SameTiming
  <2>3. ReplaceCurrent(w, p, a) = IF w.g.active THEN u ELSE v
    BY <1>2 DEF ReplaceCurrent
  <2>4. Good(ReplaceCurrent(w, p, a))
    BY ReplaceCurrentGood DEF Clear
  <2> HIDE DEF u, v
  <2>5. /\ SameTiming(w, ReplaceCurrent(w, p, a))
        /\ ReplaceCurrent(w, p, a).g.armed /\ ReplaceCurrent(w, p, a).g.app = a
        /\ ReplaceCurrent(w, p, a).g.active => w.g.active
    BY <2>1, <2>2, <2>3 DEF SameTiming
  <2>6. QED
    BY <1>2, <2>4, <2>5, NoAppIsNone DEF Stays, Clear, SameTiming
<1>3. QED
  BY <1>1, <1>2

LEMMA ReleaseView ==
    ASSUME NEW w, Clear(w), w.g.running, NEW p, NEW top \in BOOLEAN
    PROVE  \/ Release(w, p, top) = w /\ (~w.g.armed \/ w.g.pid # p)
           \/ /\ w.g.app # NoApp /\ Clear(Release(w, p, top))
              /\ Release(w, p, top).g.running
              /\ Release(w, p, top).g.app = NoApp
              /\ ~Release(w, p, top).g.active
              /\ Release(w, p, top).g.accepted = w.g.accepted
              /\ Release(w, p, top).k.timer = "off"
BY ReleaseType DEF Clear

LEMMA DisableView ==
    ASSUME NEW w, Clear(w), w.g.running
    PROVE  /\ Clear(Disable(w)) /\ Disable(w).g.running
           /\ Disable(w).g.accepted = 0 /\ Disable(w).g.app = NoApp
           /\ ~Disable(w).g.active
           /\ \/ /\ w.g.app = NoApp /\ ~w.g.active /\ Disable(w).k = w.k
                 /\ Disable(w).g.completion = w.g.completion
              \/ w.g.app # NoApp /\ Disable(w).k.timer = "off"
<1> DEFINE v == Release(w, w.g.pid, TRUE)
<1>1. \/ v = w /\ ~w.g.armed
      \/ /\ w.g.app # NoApp /\ Clear(v) /\ v.g.running /\ v.g.app = NoApp
         /\ ~v.g.active /\ v.k.timer = "off"
  BY ReleaseView
<1>2. Disable(w) = [v EXCEPT !.g.accepted = 0]
  BY DEF Disable, ReleaseCurrent
<1>3. Good(Disable(w))
  BY DisableGood DEF Clear
<1>4. Clear(v)
  BY <1>1
<1> HIDE DEF v
<1>5. /\ Disable(w).k = v.k /\ Disable(w).g.accepted = 0
      /\ \A f \in {"running", "armed", "active", "app", "completion"} :
            Disable(w).g[f] = v.g[f]
  BY <1>2, <1>4 DEF Clear, Good, Worlds, Guard
<1>6. w.g.running \in BOOLEAN /\ Disable(w).g.running \in BOOLEAN
      /\ v.g.running \in BOOLEAN
  BY <1>3, <1>4 DEF Clear, Good, Worlds, Guard
<1>7. ~w.g.armed => ~w.g.active /\ w.g.app = NoApp
  BY DEF Clear, Good, Agrees
<1>8. QED
  BY <1>1, <1>3, <1>4, <1>5, <1>6, <1>7 DEF Clear

LEMMA ScheduleView ==
    ASSUME NEW w, Clear(w), w.g.running, NEW id \in Ids
    PROVE  \/ ScheduleCompletion(w, id) = w
           \/ /\ w.g.active /\ id = w.g.accepted
              /\ Clear(ScheduleCompletion(w, id))
              /\ ScheduleCompletion(w, id).g = [w.g EXCEPT !.completion = id]
              /\ ScheduleCompletion(w, id).k.timer # "off"
<1>1. CASE ~w.g.active \/ id # w.g.accepted
  BY <1>1 DEF ScheduleCompletion
<1>2. CASE w.g.active /\ id = w.g.accepted
  <2>1. /\ ScheduleCompletion(w, id).g = [w.g EXCEPT !.completion = id]
        /\ ScheduleCompletion(w, id).k.timer = "running"
    BY <1>2 DEF ScheduleCompletion, Clear, Good, Worlds, Guard, Kernel
  <2>2. Good(ScheduleCompletion(w, id))
    BY ScheduleCompletionGood DEF Clear
  <2>3. QED
    BY <1>2, <2>1, <2>2 DEF Clear, Good, Worlds, Guard
<1>3. QED
  BY <1>1, <1>2

(* The completion of the transition that is followed: suppression has ended. *)
LEMMA CompleteSourceView ==
    ASSUME NEW w, Clear(w), w.g.running, w.k.timer = "off"
    PROVE  /\ Clear(CompleteSource(w, w.g.accepted))
           /\ ~CompleteSource(w, w.g.accepted).g.active
           /\ CompleteSource(w, w.g.accepted).k.timer = "off"
           /\ \A f \in {"running", "app", "accepted"} :
                 CompleteSource(w, w.g.accepted).g[f] = w.g[f]
<1> DEFINE cancelled == CancelTimer(w)
           quiet == Deactivate(cancelled)
           v == CompleteSource(w, w.g.accepted)
<1>1. /\ cancelled \in Worlds /\ cancelled.k.timer = "off"
      /\ \A f \in {"running", "armed", "app", "accepted"} : cancelled.g[f] = w.g[f]
  BY CancelTimerType DEF Clear, Good
<1>2. /\ quiet \in Worlds /\ quiet.k.timer = "off" /\ ~quiet.g.active
      /\ \A f \in {"running", "armed", "app", "accepted"} : quiet.g[f] = w.g[f]
  <2> HIDE DEF cancelled
  <2> QED BY <1>1, InactiveType, DeactivateKeeps DEF Keeps
<1>3. Keeps(quiet, ToTop(quiet, TRUE)) /\ Keeps(quiet, quiet)
  <2> HIDE DEF quiet
  <2> QED BY <1>2, ToTopKeeps, KeepsSelf
<1>4. (v = w /\ ~w.g.armed) \/ v \in {quiet, ToTop(quiet, TRUE)}
  BY DEF CompleteSource
<1>5. Good(v)
  BY CompleteSourceGood DEF Clear, Good, Agrees
<1> HIDE DEF quiet, v
<1>6. /\ ~v.g.active /\ v.k.timer = "off"
      /\ \A f \in {"running", "armed", "app", "accepted"} : v.g[f] = w.g[f]
  BY <1>2, <1>3, <1>4 DEF Keeps, Clear, Good, Agrees
<1>7. QED
  BY <1>5, <1>6 DEF Clear, v

LEMMA ReassertView ==
    ASSUME NEW w, Clear(w), w.g.running, NEW t \in Tids
    PROVE  /\ Stays(w, Reassert(w, t))
           /\ \/ /\ Reassert(w, t).g.app = w.g.app
                 /\ Reassert(w, t).g.active = w.g.active
              \/ /\ w.g.active /\ Reassert(w, t).g.app = NoApp
                 /\ ~Reassert(w, t).g.active
<1> DEFINE v == Reassert(w, t)
<1>1. w \in Worlds /\ Good(v)
  BY ReassertGood DEF Clear, Good
<1>2. CASE Keeps(w, v)
  BY <1>1, <1>2 DEF Keeps, Stays, Clear, SameTiming
<1>3. CASE w.g.active /\ v = Forgotten(Deactivate(w))
  <2> DEFINE quiet == Deactivate(w)
  <2>1. SameTiming(w, quiet)
    <3>1. Keeps(Inactive(w), quiet)
      BY <1>1, DeactivateKeeps
    <3> HIDE DEF quiet
    <3>2. QED
      BY <1>1, <3>1, InactiveType DEF Keeps, SameTiming
  <2> HIDE DEF v, quiet
  <2>2. /\ SameTiming(w, v) /\ v.g.app = NoApp /\ ~v.g.active /\ ~v.g.armed
    BY <1>3, <2>1, ForgottenType DEF SameTiming, quiet
  <2>3. QED
    BY <1>1, <1>3, <2>2 DEF Stays, Clear, SameTiming, v
<1>4. QED
  BY <1>1, <1>2, <1>3, ReassertType

-----------------------------------------------------------------------------
(* Refinement                                                                *)

(* The protocol's state, as Protocol has it.                                 *)
view == [up |-> guard.running, app |-> guard.app, active |-> guard.active,
         accepted |-> guard.accepted,
         pending |-> IF kernel.timer = "off" THEN 0 ELSE guard.completion]

View(w) == [up |-> w.g.running, app |-> w.g.app, active |-> w.g.active,
            accepted |-> w.g.accepted,
            pending |-> IF w.k.timer = "off" THEN 0 ELSE w.g.completion]

States == [up: BOOLEAN, app: Apps \cup {NoApp}, active: BOOLEAN,
           accepted: Ids \cup {0}, pending: Ids \cup {0}]

LEMMA ViewParts ==
    ASSUME NEW w \in Worlds
    PROVE  /\ View(w) \in States
           /\ View(w).up = w.g.running /\ View(w).app = w.g.app
           /\ View(w).active = w.g.active /\ View(w).accepted = w.g.accepted
           /\ View(w).pending = IF w.k.timer = "off" THEN 0 ELSE w.g.completion
<1>1. /\ w.g.running \in BOOLEAN /\ w.g.active \in BOOLEAN
      /\ w.g.app \in Apps \cup {NoApp}
      /\ w.g.accepted \in Ids \cup {0} /\ w.g.completion \in Ids \cup {0}
  BY DEF Worlds, Guard
<1>2. QED
  BY <1>1 DEF View, States

(* States that differ in what an action of the protocol changes.             *)
LEMMA ExceptApp ==
    ASSUME NEW s \in States, NEW t \in States, NEW app,
           t.up = s.up, t.active = s.active, t.accepted = s.accepted,
           t.pending = s.pending, t.app = app
    PROVE  t = [s EXCEPT !.app = app]
BY DEF States

LEMMA ExceptActive ==
    ASSUME NEW s \in States, NEW t \in States, NEW active,
           t.up = s.up, t.app = s.app, t.accepted = s.accepted,
           t.pending = s.pending, t.active = active
    PROVE  t = [s EXCEPT !.active = active]
BY DEF States

LEMMA ExceptPending ==
    ASSUME NEW s \in States, NEW t \in States, NEW pending,
           t.up = s.up, t.app = s.app, t.active = s.active,
           t.accepted = s.accepted, t.pending = pending
    PROVE  t = [s EXCEPT !.pending = pending]
BY DEF States

LEMMA ExceptAccepted ==
    ASSUME NEW s \in States, NEW t \in States, NEW accepted,
           t.up = s.up, t.app = s.app, t.active = s.active,
           t.pending = s.pending, t.accepted = accepted
    PROVE  t = [s EXCEPT !.accepted = accepted]
BY DEF States

LEMMA ViewEqual ==
    ASSUME NEW s \in States, NEW t \in States, t.up = s.up, t.app = s.app,
           t.active = s.active, t.accepted = s.accepted, t.pending = s.pending
    PROVE  t = s
BY DEF States

LEMMA AsRecord ==
    ASSUME NEW s \in States
    PROVE  s = [up |-> s.up, app |-> s.app, active |-> s.active,
                accepted |-> s.accepted, pending |-> s.pending]
BY DEF States

(* IInv does not say which application the guard is armed for: Clear adds    *)
(* that it has one exactly while it is armed, and that a guard that is down  *)
(* has nothing.                                                              *)
CInv == Clear(World({}))

LEMMA WorldClear ==
    ASSUME CInv, NEW bad \in SUBSET Faults
    PROVE  /\ Clear(World(bad)) /\ World(bad).g = guard /\ World(bad).k = kernel
           /\ view \in States
           /\ view.up = guard.running /\ view.app = guard.app
           /\ view.active = guard.active /\ view.accepted = guard.accepted
           /\ view.pending = IF kernel.timer = "off" THEN 0 ELSE guard.completion
<1>1. Clear(World(bad)) /\ World(bad).g = guard /\ World(bad).k = kernel
  BY DEF CInv, Clear, World, Worlds, Good, Agrees
<1>2. view = View(World(bad))
  BY <1>1 DEF View, view
<1>3. World(bad) \in Worlds
  BY <1>1 DEF Clear, Good
<1>4. QED
  BY <1>1, <1>2, <1>3, ViewParts

LEMMA BecomesClear ==
    ASSUME NEW w, Clear(w), Becomes(w)
    PROVE  /\ CInv' /\ view' \in States
           /\ view'.up = w.g.running /\ view'.app = w.g.app
           /\ view'.active = w.g.active /\ view'.accepted = w.g.accepted
           /\ view'.pending = IF w.k.timer = "off" THEN 0 ELSE w.g.completion
<1>1. CInv' /\ view' = View(w)
  BY DEF CInv, Clear, World, Worlds, Good, Agrees, Becomes, View, view
<1>2. w \in Worlds
  BY DEF Clear, Good
<1>3. QED
  BY <1>1, <1>2, ViewParts

LEMMA Unchanged ==
    ASSUME CInv, NEW bad \in SUBSET Faults, Becomes(World(bad))
    PROVE  CInv' /\ UNCHANGED view
<1>1. guard' = guard /\ kernel' = kernel
  BY DEF Becomes, World
<1>2. QED
  BY <1>1 DEF CInv, Clear, World, Good, Agrees, view

LEMMA FollowMaps ==
    ASSUME CInv, NEW bad \in SUBSET Faults, NEW v, NEW id \in Ids, guard.running,
           Follows(World(bad), v, id), Becomes(v)
    PROVE  /\ CInv' /\ view \in States /\ view' \in States
           /\ view.up /\ view'.up = view.up /\ id >= view.accepted
           /\ view'.accepted = id /\ view'.pending = 0
           /\ view'.app = v.g.app /\ view'.active = v.g.active
<1>1. /\ World(bad).g = guard /\ view \in States
      /\ view.up = guard.running /\ view.accepted = guard.accepted
  BY WorldClear
<1>2. id >= guard.accepted
  <2>1. guard.accepted \in Nat /\ id \in Nat
    <3>1. World(bad) \in Worlds /\ World(bad).g = guard
      BY WorldClear DEF Clear, Good
    <3>2. guard.accepted \in Ids \cup {0}
      BY <3>1, WorldParts
    <3>3. Ids \cup {0} \subseteq Nat
      BY IdsAreNumbers
    <3>4. QED
      BY <3>2, <3>3
  <2>2. QED
    BY <1>1, <2>1 DEF Follows
<1>3. /\ CInv' /\ view' \in States
      /\ view'.up = v.g.running /\ view'.app = v.g.app
      /\ view'.active = v.g.active /\ view'.accepted = v.g.accepted
      /\ view'.pending = 0
  BY BecomesClear DEF Follows
<1>4. QED
  BY <1>1, <1>2, <1>3 DEF Follows

LEMMA FreshParts ==
    /\ Protocol!Fresh \in States
    /\ Protocol!Fresh.up = TRUE /\ Protocol!Fresh.app = NoApp
    /\ Protocol!Fresh.active = FALSE /\ Protocol!Fresh.accepted = 0
    /\ Protocol!Fresh.pending = 0
<1>1. Protocol!Down \in States
  BY DEF Protocol!Down, States
<1>2. /\ Protocol!Down.app = NoApp /\ Protocol!Down.active = FALSE
      /\ Protocol!Down.accepted = 0 /\ Protocol!Down.pending = 0
  BY DEF Protocol!Down
<1>3. QED
  BY <1>1, <1>2 DEF Protocol!Fresh, States

LEMMA EndedMaps ==
    ASSUME NEW w \in Worlds, guard.running, Becomes(Ended(w))
    PROVE  CInv' /\ Protocol!Ends
<1>1. /\ Good(Ended(w)) /\ Ended(w).g = [NewGuard EXCEPT !.running = FALSE]
      /\ Ended(w).k.timer = "off"
  BY EndedGood DEF Ended, Worlds, Kernel
<1>2. Clear(Ended(w))
  BY <1>1 DEF Clear, NewGuard
<1>3. CInv'
  BY <1>2, BecomesClear
<1>4. QED
  BY <1>1, <1>3 DEF Protocol!Ends, Protocol!Down, NewGuard, Becomes

LEMMA ArmMaps ==
    ASSUME CInv, NEW p \in Tids, NEW a \in Apps, ArmCommand(p, a)
    PROVE  CInv' /\ (Protocol!Arm(a) \/ UNCHANGED view)
<1>1. PICK bad \in SUBSET Faults : Becomes(Arm(World(bad), p, a))
  BY DEF ArmCommand
<1> DEFINE w == World(bad)
           v == Arm(w, p, a)
<1>2. /\ Clear(w) /\ w.g = guard /\ w.k = kernel /\ view \in States
      /\ view.up = guard.running /\ view.accepted = guard.accepted
      /\ view.active = guard.active
      /\ view.pending = IF kernel.timer = "off" THEN 0 ELSE guard.completion
  BY WorldClear
<1>3. guard.running /\ guard.accepted = 0 /\ ~guard.active
  BY DEF ArmCommand, Sent
<1> HIDE DEF w
<1>4. v = w \/ (Stays(w, v) /\ v.g.app = a /\ ~v.g.active)
  BY <1>2, <1>3, ArmStays
<1>5. CASE v = w
  BY <1>1, <1>5, Unchanged DEF w
<1>6. CASE Stays(w, v) /\ v.g.app = a /\ ~v.g.active
  <2>1. /\ CInv' /\ view' \in States
        /\ view'.up = v.g.running /\ view'.app = v.g.app
        /\ view'.active = v.g.active /\ view'.accepted = v.g.accepted
        /\ view'.pending = IF v.k.timer = "off" THEN 0 ELSE v.g.completion
    BY <1>1, <1>6, BecomesClear DEF Stays, w
  <2> HIDE DEF v
  <2>2. view'.active = view.active
    BY <1>2, <1>3, <1>6, <2>1 DEF States
  <2>3. view' = [view EXCEPT !.app = a]
    <3>1. /\ view'.up = view.up /\ view'.app = a
          /\ view'.accepted = view.accepted /\ view'.pending = view.pending
      BY <1>2, <1>6, <2>1 DEF Stays, SameTiming
    <3>2. QED
      BY <1>2, <2>1, <2>2, <3>1, ExceptApp
  <2>4. QED
    BY <1>3, <2>1, <2>3 DEF Protocol!Arm, view
<1>7. QED
  BY <1>4, <1>5, <1>6

LEMMA EnterMaps ==
    ASSUME CInv, NEW id \in Ids, EnterCommand(id)
    PROVE  CInv' /\ (Protocol!Enter(id) \/ UNCHANGED view)
<1>1. PICK bad \in SUBSET Faults : Becomes(BeginTransition(World(bad), id))
  BY DEF EnterCommand
<1> DEFINE w == World(bad)
           v == BeginTransition(w, id)
<1>2. Clear(w) /\ w.g = guard /\ guard.running /\ view.app = guard.app
      /\ view.active = guard.active
  BY WorldClear DEF EnterCommand, Sent
<1>3. \/ v = w
      \/ /\ guard.armed /\ Follows(w, v, id) /\ v.g.app = guard.app
         /\ guard.active => v.g.active
  BY <1>2, BeginTransitionView
<1> HIDE DEF v
<1>4. CASE v = w
  BY <1>1, <1>4, Unchanged DEF v
<1>5. CASE /\ guard.armed /\ Follows(w, v, id) /\ v.g.app = guard.app
           /\ guard.active => v.g.active
  <2>1. /\ CInv' /\ view \in States /\ view' \in States
        /\ view.up /\ view'.up = view.up /\ id >= view.accepted
        /\ view'.accepted = id /\ view'.pending = 0
        /\ view'.app = v.g.app /\ view'.active = v.g.active
    BY <1>1, <1>2, <1>5, FollowMaps DEF v
  <2>2. view.app # NoApp /\ view'.app = view.app
    BY <1>2, <1>5, <2>1 DEF Clear
  <2>3. view'.active \in {TRUE, view.active}
    BY <1>2, <1>5, <2>1 DEF States
  <2>4. view' = [[view EXCEPT !.accepted = id, !.pending = 0]
                    EXCEPT !.active = view'.active]
    <3>1. PICK s \in States : s = view
      BY <2>1
    <3>2. PICK t \in States : t = view'
      BY <2>1
    <3>3. t = [[s EXCEPT !.accepted = id, !.pending = 0] EXCEPT !.active = t.active]
      BY <2>1, <2>2, <3>1, <3>2 DEF States
    <3>4. QED
      BY <3>1, <3>2, <3>3
  <2>5. QED
    BY <2>1, <2>2, <2>3, <2>4 DEF Protocol!Enter, Protocol!Follow, view
<1>6. QED
  BY <1>3, <1>4, <1>5

LEMMA HandoffMaps ==
    ASSUME CInv, NEW id \in Ids, NEW a \in Apps, HandoffCommand(id, a)
    PROVE  CInv' /\ (Protocol!Handoff(id, a) \/ UNCHANGED view)
<1>1. PICK bad \in SUBSET Faults : Becomes(AdoptPackage(World(bad), id, a, TRUE))
  BY DEF HandoffCommand
<1> DEFINE w == World(bad)
           v == AdoptPackage(w, id, a, TRUE)
<1>2. Clear(w) /\ w.g = guard /\ guard.running
  BY WorldClear DEF HandoffCommand, Sent
<1>3. v = w \/ (Follows(w, v, id) /\ v.g.app = a)
  BY <1>2, AdoptPackageView
<1> HIDE DEF v
<1>4. CASE v = w
  BY <1>1, <1>4, Unchanged DEF v
<1>5. CASE Follows(w, v, id) /\ v.g.app = a
  <2>1. /\ CInv' /\ view \in States /\ view' \in States
        /\ view.up /\ view'.up = view.up /\ id >= view.accepted
        /\ view'.accepted = id /\ view'.pending = 0 /\ view'.app = a
    BY <1>1, <1>2, <1>5, FollowMaps DEF v
  <2>2. view' = [[view EXCEPT !.accepted = id, !.pending = 0]
                    EXCEPT !.app = a, !.active = view'.active]
    <3>1. PICK s \in States : s = view
      BY <2>1
    <3>2. PICK t \in States : t = view'
      BY <2>1
    <3>3. t = [[s EXCEPT !.accepted = id, !.pending = 0]
               EXCEPT !.app = a, !.active = t.active]
      BY <2>1, <3>1, <3>2 DEF States
    <3>4. QED
      BY <3>1, <3>2, <3>3
  <2>3. view'.active \in BOOLEAN
    BY <2>1 DEF States
  <2>4. QED
    BY <2>1, <2>2, <2>3 DEF Protocol!Handoff, Protocol!Follow, view
<1>6. QED
  BY <1>3, <1>4, <1>5

LEMMA AdoptMaps ==
    ASSUME CInv, NEW id \in Ids, NEW a \in Apps, AdoptCommand(id, a)
    PROVE  CInv' /\ (Protocol!Adopt(id, a) \/ UNCHANGED view)
<1>1. PICK bad \in SUBSET Faults : Becomes(AdoptPackage(World(bad), id, a, FALSE))
  BY DEF AdoptCommand
<1> DEFINE w == World(bad)
           v == AdoptPackage(w, id, a, FALSE)
<1>2. Clear(w) /\ w.g = guard /\ guard.running
  BY WorldClear DEF AdoptCommand, Sent
<1>3. v = w \/ (Follows(w, v, id) /\ v.g.app = a /\ ~v.g.active)
  BY <1>2, AdoptPackageView
<1> HIDE DEF v
<1>4. CASE v = w
  BY <1>1, <1>4, Unchanged DEF v
<1>5. CASE Follows(w, v, id) /\ v.g.app = a /\ ~v.g.active
  <2>1. /\ CInv' /\ view \in States /\ view' \in States
        /\ view.up /\ view'.up = view.up /\ id >= view.accepted
        /\ view'.accepted = id /\ view'.pending = 0 /\ view'.app = a
        /\ view'.active = v.g.active
    BY <1>1, <1>2, <1>5, FollowMaps DEF v
  <2>2. view'.active = FALSE
    BY <1>5, <2>1 DEF States
  <2>3. view' = [[view EXCEPT !.accepted = id, !.pending = 0]
                    EXCEPT !.app = a, !.active = FALSE]
    <3>1. PICK s \in States : s = view
      BY <2>1
    <3>2. PICK t \in States : t = view'
      BY <2>1
    <3>3. t = [[s EXCEPT !.accepted = id, !.pending = 0]
               EXCEPT !.app = a, !.active = FALSE]
      BY <2>1, <2>2, <3>1, <3>2 DEF States
    <3>4. QED
      BY <3>1, <3>2, <3>3
  <2>4. QED
    BY <2>1, <2>3 DEF Protocol!Adopt, Protocol!Follow, view
<1>6. QED
  BY <1>3, <1>4, <1>5

LEMMA CompleteMaps ==
    ASSUME CInv, NEW id \in Ids, CompleteCommand(id)
    PROVE  CInv' /\ (Protocol!Complete(id) \/ UNCHANGED view)
<1> DEFINE w == World({})
           v == ScheduleCompletion(w, id)
<1>1. Becomes(v) /\ guard.running
  BY DEF CompleteCommand, Sent
<1>2. /\ Clear(w) /\ w.g = guard /\ view \in States
      /\ view.up = guard.running /\ view.accepted = guard.accepted
      /\ view.active = guard.active /\ view.app = guard.app
  BY WorldClear
<1>3. \/ v = w
      \/ /\ guard.active /\ id = guard.accepted /\ Clear(v)
         /\ v.g = [guard EXCEPT !.completion = id] /\ v.k.timer # "off"
  BY <1>1, <1>2, ScheduleView
<1> HIDE DEF v
<1>4. CASE v = w
  BY <1>1, <1>4, Unchanged
<1>5. CASE /\ guard.active /\ id = guard.accepted /\ Clear(v)
           /\ v.g = [guard EXCEPT !.completion = id] /\ v.k.timer # "off"
  <2>1. /\ CInv' /\ view' \in States
        /\ view'.up = v.g.running /\ view'.app = v.g.app
        /\ view'.active = v.g.active /\ view'.accepted = v.g.accepted
        /\ view'.pending = v.g.completion
    BY <1>1, <1>5, BecomesClear
  <2>2. guard \in Guard
    BY <1>2 DEF Clear, Good, Worlds
  <2>3. /\ v.g.running = guard.running /\ v.g.app = guard.app
        /\ v.g.active = guard.active /\ v.g.accepted = guard.accepted
        /\ v.g.completion = id
    <3>1. v.g = [guard EXCEPT !.completion = id]
      BY <1>5
    <3>2. QED
      BY <2>2, <3>1 DEF Guard
  <2>4. view' = [view EXCEPT !.pending = id]
    <3>1. /\ view'.up = view.up /\ view'.app = view.app
          /\ view'.active = view.active /\ view'.accepted = view.accepted
          /\ view'.pending = id
      BY <1>2, <2>1, <2>3
    <3>2. QED
      BY <1>2, <2>1, <3>1, ExceptPending
  <2>5. QED
    BY <1>1, <1>5, <2>1, <2>4 DEF Protocol!Complete, view
<1>6. QED
  BY <1>3, <1>4, <1>5

LEMMA ReplaceMaps ==
    ASSUME CInv, NEW p \in Tids, NEW a \in Apps, ReplaceCommand(p, a)
    PROVE  CInv' /\ (Protocol!Replace \/ UNCHANGED view)
<1>1. PICK bad \in SUBSET Faults : Becomes(ReplaceCurrent(World(bad), p, a))
  BY DEF ReplaceCommand
<1> DEFINE w == World(bad)
           v == ReplaceCurrent(w, p, a)
<1>2. /\ Clear(w) /\ w.g = guard /\ w.k = kernel /\ guard.running
      /\ view \in States /\ view.up = guard.running /\ view.app = guard.app
      /\ view.active = guard.active /\ view.accepted = guard.accepted
      /\ view.pending = IF kernel.timer = "off" THEN 0 ELSE guard.completion
  BY WorldClear DEF ReplaceCommand, Sent
<1> HIDE DEF w
<1>3. \/ v = w
      \/ Stays(w, v) /\ v.g.app = guard.app /\ (v.g.active => guard.active)
  BY <1>2, ReplaceStays
<1>4. CASE v = w
  BY <1>1, <1>4, Unchanged DEF w
<1>5. CASE Stays(w, v) /\ v.g.app = guard.app /\ (v.g.active => guard.active)
  <2>1. /\ CInv' /\ view' \in States
        /\ view'.up = v.g.running /\ view'.app = v.g.app
        /\ view'.active = v.g.active /\ view'.accepted = v.g.accepted
        /\ view'.pending = IF v.k.timer = "off" THEN 0 ELSE v.g.completion
    BY <1>1, <1>5, BecomesClear DEF Stays, w
  <2> HIDE DEF v
  <2>2. view' = [view EXCEPT !.active = view'.active]
    <3>1. /\ view'.up = view.up /\ view'.app = view.app
          /\ view'.accepted = view.accepted /\ view'.pending = view.pending
      BY <1>2, <1>5, <2>1 DEF Stays, SameTiming
    <3>2. QED
      BY <1>2, <2>1, <3>1, ExceptActive
  <2>3. \/ view'.active = view.active
        \/ view.active = TRUE /\ view'.active = FALSE
    BY <1>2, <1>5, <2>1 DEF States
  <2>4. CASE view'.active = view.active
    <3>1. view' = view
      BY <1>2, <2>2, <2>4 DEF States
    <3>2. QED
      BY <2>1, <3>1
  <2>5. CASE view.active = TRUE /\ view'.active = FALSE
    <3>1. view' = [view EXCEPT !.active = FALSE] /\ guard.active
      BY <1>2, <2>2, <2>5
    <3>2. QED
      BY <1>2, <2>1, <3>1 DEF Protocol!Replace, view
  <2>6. QED
    BY <2>3, <2>4, <2>5
<1>6. QED
  BY <1>3, <1>4, <1>5

LEMMA ReleaseMaps ==
    ASSUME CInv, NEW p \in Tids, NEW top \in BOOLEAN, ReleaseCommand(p, top)
    PROVE  CInv' /\ (Protocol!Release \/ UNCHANGED view)
<1>1. PICK bad \in SUBSET Faults : Becomes(Release(World(bad), p, top))
  BY DEF ReleaseCommand
<1> DEFINE w == World(bad)
           v == Release(w, p, top)
<1>2. Clear(w) /\ w.g = guard /\ guard.running
  BY WorldClear DEF ReleaseCommand, Sent
<1>3. \/ v = w
      \/ /\ guard.app # NoApp /\ Clear(v) /\ v.g.running /\ v.g.app = NoApp
         /\ ~v.g.active /\ v.g.accepted = guard.accepted /\ v.k.timer = "off"
  BY <1>2, ReleaseView
<1> HIDE DEF v
<1>4. CASE v = w
  BY <1>1, <1>4, Unchanged DEF v
<1>5. CASE /\ guard.app # NoApp /\ Clear(v) /\ v.g.running /\ v.g.app = NoApp
           /\ ~v.g.active /\ v.g.accepted = guard.accepted /\ v.k.timer = "off"
  <2>1. /\ CInv' /\ view' \in States
        /\ view'.up = v.g.running /\ view'.app = v.g.app
        /\ view'.active = v.g.active /\ view'.accepted = v.g.accepted
        /\ view'.pending = 0
    BY <1>1, <1>5, BecomesClear DEF v
  <2>2. view'.up = TRUE /\ view'.active = FALSE
    BY <1>5, <2>1 DEF States
  <2>3. view' = [Protocol!Fresh EXCEPT !.accepted = guard.accepted]
    <3>1. /\ view'.up = Protocol!Fresh.up /\ view'.app = Protocol!Fresh.app
          /\ view'.active = Protocol!Fresh.active
          /\ view'.pending = Protocol!Fresh.pending
          /\ view'.accepted = guard.accepted
      BY <1>5, <2>1, <2>2, FreshParts
    <3>2. QED
      BY <2>1, <3>1, FreshParts, ExceptAccepted
  <2>4. QED
    BY <1>2, <1>5, <2>1, <2>3 DEF Protocol!Release, view
<1>6. QED
  BY <1>3, <1>4, <1>5

LEMMA ResetMaps ==
    ASSUME CInv, ResetCommand PROVE CInv' /\ Protocol!Reset
<1>1. PICK bad \in SUBSET Faults : Becomes(Disable(World(bad)))
  BY DEF ResetCommand
<1> DEFINE w == World(bad)
           v == Disable(w)
<1>2. /\ Clear(w) /\ w.g = guard /\ w.k = kernel /\ guard.running
      /\ view \in States /\ view.up = guard.running /\ view.app = guard.app
      /\ view.active = guard.active
      /\ view.pending = IF kernel.timer = "off" THEN 0 ELSE guard.completion
  BY WorldClear DEF ResetCommand, Sent
<1> HIDE DEF w
<1>3. /\ Clear(v) /\ v.g.running /\ v.g.accepted = 0 /\ v.g.app = NoApp
      /\ ~v.g.active
      /\ \/ /\ guard.app = NoApp /\ ~guard.active /\ v.k = kernel
            /\ v.g.completion = guard.completion
         \/ guard.app # NoApp /\ v.k.timer = "off"
  BY <1>2, DisableView
<1>4. /\ CInv' /\ view' \in States
      /\ view'.up = v.g.running /\ view'.app = v.g.app
      /\ view'.active = v.g.active /\ view'.accepted = v.g.accepted
      /\ view'.pending = IF v.k.timer = "off" THEN 0 ELSE v.g.completion
  BY <1>1, <1>3, BecomesClear DEF w
<1> HIDE DEF v
<1>5. view'.up = TRUE /\ view'.active = FALSE
  BY <1>3, <1>4 DEF States
<1>6. CASE guard.app = NoApp
  <2>1. view.up = TRUE /\ view.active = FALSE
    BY <1>2, <1>3, <1>6 DEF States
  <2>2. view' = [view EXCEPT !.accepted = 0]
    <3>1. /\ view'.up = view.up /\ view'.app = view.app
          /\ view'.active = view.active /\ view'.pending = view.pending
          /\ view'.accepted = 0
      BY <1>2, <1>3, <1>4, <1>5, <1>6, <2>1
    <3>2. QED
      BY <1>2, <1>4, <3>1, ExceptAccepted
  <2>3. QED
    BY <1>2, <1>4, <1>6, <2>2 DEF Protocol!Reset, view
<1>7. CASE guard.app # NoApp
  <2>1. view' = [up |-> TRUE, app |-> NoApp, active |-> FALSE,
                 accepted |-> 0, pending |-> 0]
    BY <1>3, <1>4, <1>5, <1>7, AsRecord
  <2>2. QED
    BY <1>2, <1>4, <1>7, <2>1
       DEF Protocol!Reset, Protocol!Fresh, Protocol!Down, view
<1>8. QED
  BY <1>6, <1>7

LEMMA StopMaps ==
    ASSUME CInv, StopCommand PROVE CInv' /\ Protocol!Ends
<1>1. PICK bad \in SUBSET Faults : Becomes(Ended(ReleaseCurrent(World(bad))))
  BY DEF StopCommand
<1>2. ReleaseCurrent(World(bad)) \in Worlds /\ guard.running
  BY WorldClear, ReleaseType DEF ReleaseCurrent, Clear, Good, StopCommand, Sent
<1>3. QED
  BY <1>1, <1>2, EndedMaps

LEMMA CommandMaps ==
    ASSUME CInv, Command
    PROVE  CInv' /\ (Protocol!Next \/ UNCHANGED view)
BY ArmMaps, EnterMaps, HandoffMaps, AdoptMaps, CompleteMaps, ReplaceMaps,
   ReleaseMaps, ResetMaps, StopMaps DEF Command, Protocol!Next

LEMMA TimerMaps ==
    ASSUME CInv, HandleTimer PROVE CInv' /\ Protocol!Completes
<1>1. PICK bad \in SUBSET Faults :
        LET read == [World(bad) EXCEPT !.k.timer = "off", !.k.timerApp = NoApp]
        IN  Becomes(IF guard.completion # guard.accepted THEN read
                    ELSE CompleteSource([read EXCEPT !.g.completion = 0],
                                        guard.completion))
  BY DEF HandleTimer
<1> DEFINE read == [World(bad) EXCEPT !.k.timer = "off", !.k.timerApp = NoApp]
           done == [read EXCEPT !.g.completion = 0]
           v == IF guard.completion # guard.accepted THEN read
                ELSE CompleteSource(done, guard.completion)
<1>2. /\ Clear(World(bad)) /\ World(bad).g = guard /\ World(bad).k = kernel
      /\ view \in States /\ view.up = guard.running /\ view.app = guard.app
      /\ view.active = guard.active /\ view.accepted = guard.accepted
      /\ view.pending = IF kernel.timer = "off" THEN 0 ELSE guard.completion
  BY WorldClear
<1>3. guard.running /\ kernel.timer # "off" /\ guard.completion # 0
  BY <1>2 DEF HandleTimer, Clear, Good, Agrees
<1>4. Clear(read) /\ read.k.timer = "off" /\ read.g = guard
  <2> DEFINE k == [kernel EXCEPT !.timer = "off", !.timerApp = NoApp]
  <2>1. k \in Kernel /\ k.timer = "off"
    BY <1>2 DEF Clear, Good, Worlds, Kernel
  <2>2. read = [World(bad) EXCEPT !.k = k]
    BY <1>2 DEF Clear, Good, Worlds, Kernel
  <2> HIDE DEF k, read
  <2>3. read \in Worlds /\ read.g = guard /\ read.k = k
    BY <1>2, <2>1, <2>2 DEF Clear, Good, Worlds
  <2>4. QED
    BY <1>2, <2>1, <2>3 DEF Clear, Good, Agrees
<1> HIDE DEF read
<1>5. /\ Clear(done) /\ done.k.timer = "off"
      /\ \A f \in {"running", "app", "accepted"} : done.g[f] = guard[f]
  BY <1>4 DEF Clear, Good, Agrees, Worlds, Guard
<1> HIDE DEF done
<1>6. /\ Clear(v) /\ v.k.timer = "off"
      /\ \A f \in {"running", "app", "accepted"} : v.g[f] = guard[f]
      /\ v.g.active = IF guard.completion = guard.accepted THEN FALSE
                      ELSE guard.active
  <2>1. CASE guard.completion # guard.accepted
    BY <1>4, <2>1
  <2>2. CASE guard.completion = guard.accepted
    <3> DEFINE u == CompleteSource(done, done.g.accepted)
    <3>1. /\ Clear(u) /\ ~u.g.active /\ u.k.timer = "off"
          /\ \A f \in {"running", "app", "accepted"} : u.g[f] = done.g[f]
      BY <1>3, <1>5, CompleteSourceView
    <3>2. v = u
      BY <1>5, <2>2
    <3> HIDE DEF u, v
    <3>3. v.g.active = FALSE
      BY <3>1, <3>2 DEF Clear, Good, Worlds, Guard
    <3>4. QED
      BY <1>5, <2>2, <3>1, <3>2, <3>3
  <2>3. QED
    BY <2>1, <2>2
<1>7. Becomes(v)
  BY <1>1 DEF read, done
<1> HIDE DEF v
<1>8. /\ CInv' /\ view' \in States
      /\ view'.up = v.g.running /\ view'.app = v.g.app
      /\ view'.active = v.g.active /\ view'.accepted = v.g.accepted
      /\ view'.pending = 0
  BY <1>6, <1>7, BecomesClear
<1>9. view' = [view EXCEPT !.pending = 0,
                           !.active = IF view.pending = view.accepted
                                      THEN FALSE ELSE view.active]
  <2> DEFINE active == IF view.pending = view.accepted THEN FALSE ELSE view.active
  <2>1. /\ view'.up = view.up /\ view'.app = view.app
        /\ view'.accepted = view.accepted /\ view'.pending = 0
    BY <1>2, <1>6, <1>8
  <2>2. view'.active = active
    BY <1>2, <1>3, <1>6, <1>8 DEF States
  <2> HIDE DEF active
  <2>3. view' = [view EXCEPT !.pending = 0, !.active = active]
    <3>1. PICK s \in States : s = view
      BY <1>2, <1>8
    <3>2. PICK t \in States : t = view'
      BY <1>2, <1>8
    <3>3. t = [s EXCEPT !.pending = 0, !.active = active]
      BY <2>1, <2>2, <3>1, <3>2 DEF States
    <3>4. QED
      BY <3>1, <3>2, <3>3
  <2>4. QED
    BY <2>3 DEF active
<1>10. QED
  BY <1>2, <1>3, <1>8, <1>9 DEF Protocol!Completes, view

LEMMA EventMaps ==
    ASSUME CInv, NEW t \in Tids, HandleEvent(t)
    PROVE  CInv' /\ (Protocol!SourceLost \/ UNCHANGED view)
<1>1. PICK bad \in SUBSET Faults :
        Becomes(Reassert([World(bad) EXCEPT !.k.ring = @ \ {t}], t))
  BY DEF HandleEvent
<1> DEFINE w == [World(bad) EXCEPT !.k.ring = @ \ {t}]
           v == Reassert(w, t)
<1>2. /\ Clear(World(bad)) /\ World(bad).g = guard /\ World(bad).k = kernel
      /\ guard.running
      /\ view \in States /\ view.up = guard.running /\ view.app = guard.app
      /\ view.active = guard.active /\ view.accepted = guard.accepted
      /\ view.pending = IF kernel.timer = "off" THEN 0 ELSE guard.completion
  BY WorldClear DEF HandleEvent
<1>3. Clear(w) /\ w.g = guard /\ w.k.timer = kernel.timer
  <2> DEFINE k == [kernel EXCEPT !.ring = @ \ {t}]
  <2>1. k \in Kernel /\ k.timer = kernel.timer /\ k.timerApp = kernel.timerApp
    BY <1>2 DEF Clear, Good, Worlds, Kernel
  <2>2. w = [World(bad) EXCEPT !.k = k]
    BY <1>2 DEF Clear, Good, Worlds, Kernel
  <2> HIDE DEF k, w
  <2>3. w \in Worlds /\ w.g = guard /\ w.k = k
    BY <1>2, <2>1, <2>2 DEF Clear, Good, Worlds
  <2>4. QED
    BY <1>2, <2>1, <2>3 DEF Clear, Good, Agrees
<1> HIDE DEF w
<1>4. /\ Stays(w, v)
      /\ \/ v.g.app = guard.app /\ v.g.active = guard.active
         \/ guard.active /\ v.g.app = NoApp /\ ~v.g.active
  BY <1>2, <1>3, ReassertView
<1>5. /\ CInv' /\ view' \in States
      /\ view'.up = v.g.running /\ view'.app = v.g.app
      /\ view'.active = v.g.active /\ view'.accepted = v.g.accepted
      /\ view'.pending = IF v.k.timer = "off" THEN 0 ELSE v.g.completion
  BY <1>1, <1>4, BecomesClear DEF Stays, w
<1> HIDE DEF v
<1>6. /\ view'.up = view.up /\ view'.accepted = view.accepted
      /\ view'.pending = view.pending
  BY <1>2, <1>3, <1>4, <1>5 DEF Stays, SameTiming
<1>7. CASE v.g.app = guard.app /\ v.g.active = guard.active
  <2>1. view' = view
    BY <1>2, <1>5, <1>6, <1>7, ViewEqual
  <2>2. QED
    BY <1>5, <2>1
<1>8. CASE guard.active /\ v.g.app = NoApp /\ ~v.g.active
  <2>1. view'.active = FALSE
    BY <1>5, <1>8 DEF States
  <2>2. view' = [view EXCEPT !.app = NoApp, !.active = FALSE]
    <3>1. PICK s \in States : s = view
      BY <1>2
    <3>2. PICK u \in States : u = view'
      BY <1>5
    <3>3. u = [s EXCEPT !.app = NoApp, !.active = FALSE]
      BY <1>5, <1>6, <1>8, <2>1, <3>1, <3>2 DEF States
    <3>4. QED
      BY <3>1, <3>2, <3>3
  <2>3. QED
    BY <1>2, <1>5, <1>8, <2>2 DEF Protocol!SourceLost, view
<1>9. QED
  BY <1>4, <1>7, <1>8

LEMMA StartMaps ==
    ASSUME CInv, StartGuard PROVE CInv' /\ Protocol!Starts
<1>1. IInv' /\ guard' = NewGuard /\ kernel'.timer = kernel.timer /\ ~guard.running
  <2>1. IInv
    BY DEF CInv, Clear, Good, IInv, World, Worlds, TypeOK
  <2>2. IInv'
    BY <2>1, NextIInv DEF Next
  <2>3. kernel \in Kernel
    BY <2>1 DEF IInv, TypeOK
  <2>4. QED
    BY <2>2, <2>3 DEF StartGuard, Kernel
<1>2. kernel.timer = "off"
  BY <1>1 DEF CInv, Clear, World
<1>3. CInv'
  BY <1>1 DEF CInv, Clear, Good, IInv, TypeOK, World, Worlds, Agrees, NewGuard
<1>4. view' = Protocol!Fresh
  <2>1. /\ guard'.running = TRUE /\ guard'.app = NoApp /\ guard'.active = FALSE
        /\ guard'.accepted = 0 /\ kernel'.timer = "off"
    BY <1>1, <1>2 DEF NewGuard
  <2>2. /\ view' \in States /\ view'.up = TRUE /\ view'.app = NoApp
        /\ view'.active = FALSE /\ view'.accepted = 0 /\ view'.pending = 0
    BY <2>1 DEF view, States
  <2>3. QED
    BY <2>2, FreshParts, ViewEqual
<1>5. QED
  BY <1>1, <1>3, <1>4 DEF Protocol!Starts, view

LEMMA CrashMaps ==
    ASSUME CInv, Crash PROVE CInv' /\ Protocol!Ends
<1> DEFINE orphan(r) == IF r.nice > r.own
                        THEN [r EXCEPT !.lost = @ \cup {"nice"}] ELSE r
           task == [t \in Tids |-> orphan(kernel.task[t])]
           left == [World({}) EXCEPT !.k.task = task]
<1>1. World({}) \in Worlds /\ World({}).k = kernel /\ guard.running
  BY WorldClear DEF Clear, Good, Crash
<1>2. task \in [Tids -> Task]
  <2>1. ASSUME NEW r \in Task PROVE orphan(r) \in Task
    BY DEF Task
  <2>2. kernel.task \in [Tids -> Task]
    BY <1>1, WorldParts
  <2> HIDE DEF orphan
  <2>3. QED
    BY <2>1, <2>2
<1>3. left \in Worlds
  <2> HIDE DEF task
  <2> QED BY <1>1, <1>2, SetTask DEF Keeps
<1>4. Becomes(Ended(left))
  BY <1>1 DEF Crash
<1> HIDE DEF left
<1>5. QED
  BY <1>1, <1>3, <1>4, EndedMaps

LEMMA TimerOff ==
    ASSUME UNCHANGED guard, (kernel'.timer = "off") <=> (kernel.timer = "off")
    PROVE  UNCHANGED view
<1>1. CASE kernel.timer = "off"
  BY <1>1 DEF view
<1>2. CASE kernel.timer # "off"
  BY <1>2 DEF view
<1>3. QED
  BY <1>1, <1>2

(* The kernel and the applications: at most the timer expires.               *)
LEMMA SystemMaps ==
    ASSUME CInv, System PROVE CInv' /\ UNCHANGED view
<1>1. IInv /\ IInv'
  <2>1. IInv
    BY DEF CInv, Clear, Good, IInv, World, Worlds, TypeOK
  <2>2. QED
    BY <2>1, NextIInv DEF Next
<1>2. UNCHANGED guard
  BY DEF System, TimerExpires, SystemMoves, SystemSetsNice, SystemSetsMinor,
         PinThread, SpawnProcess, CloneThread, ThreadExits
<1>3. (kernel'.timer = "off") <=> (kernel.timer = "off")
  <2>1. kernel \in Kernel /\ kernel.task \in [Tids -> Task]
    BY <1>1 DEF IInv, TypeOK, Kernel
  <2>2. CASE TimerExpires
    BY <2>1, <2>2 DEF TimerExpires, Kernel
  <2>3. ASSUME NEW t, NEW cs, NEW g, SystemMoves(t, cs, g)
        PROVE  kernel'.timer = kernel.timer
    BY <2>1, <2>3 DEF SystemMoves, Announced, Kernel
  <2>4. ASSUME NEW t, NEW n, SystemSetsNice(t, n) PROVE kernel'.timer = kernel.timer
    BY <2>1, <2>4 DEF SystemSetsNice, Kernel
  <2>5. ASSUME NEW a, SystemSetsMinor(a) PROVE kernel'.timer = kernel.timer
    BY <2>1, <2>5 DEF SystemSetsMinor, Kernel
  <2>6. ASSUME NEW t, PinThread(t) PROVE kernel'.timer = kernel.timer
    BY <2>1, <2>6 DEF PinThread, Kernel
  <2>7. ASSUME NEW t, NEW a, NEW n, NEW g, SpawnProcess(t, a, n, g)
        PROVE  kernel'.timer = kernel.timer
    BY <2>1, <2>7 DEF SpawnProcess, Born, Announced, Kernel
  <2>8. ASSUME NEW parent, NEW t, CloneThread(parent, t)
        PROVE  kernel'.timer = kernel.timer
    BY <2>1, <2>8 DEF CloneThread, Born, Kernel
  <2>9. ASSUME NEW t, ThreadExits(t) PROVE kernel'.timer = kernel.timer
    BY <2>1, <2>9 DEF ThreadExits, Kernel
  <2>10. QED
    BY <2>2, <2>3, <2>4, <2>5, <2>6, <2>7, <2>8, <2>9 DEF System
<1>4. QED
  <2>1. CInv'
    BY <1>1, <1>2, <1>3 DEF CInv, Clear, Good, IInv, TypeOK, World, Worlds, Agrees
  <2>2. UNCHANGED view
    BY <1>2, <1>3, TimerOff
  <2>3. QED
    BY <2>1, <2>2

LEMMA InitMaps == Init => CInv /\ Protocol!Init
<1> SUFFICES ASSUME Init PROVE CInv /\ Protocol!Init
  OBVIOUS
<1>1. IInv /\ guard = NewGuard /\ kernel.timer = "off"
  BY InitIInv DEF Init
<1>2. CInv
  BY <1>1 DEF CInv, Clear, Good, IInv, TypeOK, World, Worlds, Agrees, NewGuard
<1>3. /\ view \in States /\ view.up = TRUE /\ view.app = NoApp
      /\ view.active = FALSE /\ view.accepted = 0 /\ view.pending = 0
  BY <1>1, <1>2, WorldClear DEF NewGuard
<1>4. view = Protocol!Fresh
  BY <1>3, FreshParts, ViewEqual
<1>5. QED
  BY <1>2, <1>4 DEF Protocol!Init, view

LEMMA StepMaps == CInv /\ [Next]_vars => CInv' /\ [Protocol!Next]_view
<1> SUFFICES ASSUME CInv, [Next]_vars PROVE CInv' /\ [Protocol!Next]_view
  OBVIOUS
<1>1. CASE Command
  BY <1>1, CommandMaps
<1>2. CASE HandleTimer
  BY <1>2, TimerMaps DEF Protocol!Next
<1>3. ASSUME NEW t \in Tids, HandleEvent(t) PROVE CInv' /\ [Protocol!Next]_view
  BY <1>3, EventMaps DEF Protocol!Next
<1>4. CASE StartGuard
  BY <1>4, StartMaps DEF Protocol!Next
<1>5. CASE Crash
  BY <1>5, CrashMaps DEF Protocol!Next
<1>6. CASE System
  BY <1>6, SystemMaps
<1>7. CASE UNCHANGED vars
  BY <1>7 DEF vars, CInv, Clear, Good, World, Agrees, view
<1>8. QED
  BY <1>1, <1>2, <1>3, <1>4, <1>5, <1>6, <1>7 DEF Next

LEMMA ClearInvariance == Spec => []CInv
<1>1. Init => CInv
  BY InitMaps
<1>2. CInv /\ [Next]_vars => CInv'
  BY StepMaps
<1>3. QED
  BY <1>1, <1>2, PTL DEF Spec

(* Whatever fails, dies, is cloned or reused while it runs, every handler of *)
(* the daemon is one step of what GuardProtocol promises the senders, or     *)
(* none (handle_command, drain_ring, release_current_source_top).            *)
THEOREM GuardImplementsProtocol == Spec => ImplementsProtocol
<1>1. Init => Protocol!Init
  BY InitMaps
<1>2. CInv /\ [Next]_vars => [Protocol!Next]_view
  BY StepMaps
<1>3. QED
  BY <1>1, <1>2, ClearInvariance, PTL
     DEF Spec, ImplementsProtocol, Protocol!Spec, view

(* A command of an older transition never takes the guard back, however many *)
(* transitions there are: no step lowers the accepted id but those that end  *)
(* with nothing armed (begin_transition, adopt_package; reset and exit).     *)
THEOREM IdsNeverGoBack == Spec => TransitionIdsNeverGoBack
<1> DEFINE Kept == \/ guard'.accepted >= guard.accepted
                   \/ guard'.accepted = 0 /\ ~guard'.armed
<1>1. CInv /\ [Next]_vars => [Kept]_vars
  <2> SUFFICES ASSUME CInv, [Next]_vars PROVE Kept
    OBVIOUS
  <2>1. CInv' /\ [Protocol!Next]_view
    BY StepMaps
  <2>2. guard.accepted \in Nat
    <3>1. World({}) \in Worlds /\ World({}).g = guard
      BY DEF CInv, Clear, Good, World
    <3>2. guard.accepted \in Ids \cup {0} /\ Ids \cup {0} \subseteq Nat
      BY <3>1, WorldParts, IdsAreNumbers
    <3>3. QED
      BY <3>2
  <2>3. guard'.app = NoApp => ~guard'.armed
    BY <2>1 DEF CInv, Clear, World
  <2>4. ASSUME NEW id \in Ids, Protocol!Enter(id) \/ Protocol!Complete(id)
        PROVE  Kept
    <3>1. CASE Protocol!Enter(id)
      BY <3>1 DEF Protocol!Enter, Protocol!Follow
    <3>2. CASE Protocol!Complete(id)
      <4>1. guard'.accepted = guard.accepted
        BY <3>2 DEF Protocol!Complete
      <4>2. QED
        BY <2>2, <4>1
    <3>3. QED
      BY <2>4, <3>1, <3>2
  <2>5. ASSUME NEW id \in Ids, NEW a \in Apps,
               Protocol!Handoff(id, a) \/ Protocol!Adopt(id, a)
        PROVE  Kept
    BY <2>5 DEF Protocol!Handoff, Protocol!Adopt, Protocol!Follow
  <2>6. ASSUME NEW a \in Apps, Protocol!Arm(a) PROVE Kept
    BY <2>2, <2>6 DEF Protocol!Arm
  <2>7. CASE Protocol!Completes \/ Protocol!Replace \/ Protocol!SourceLost
    <3>1. guard'.accepted = guard.accepted
      <4>1. CASE Protocol!Completes
        BY <4>1 DEF Protocol!Completes
      <4>2. CASE Protocol!Replace
        BY <4>2 DEF Protocol!Replace
      <4>3. CASE Protocol!SourceLost
        BY <4>3 DEF Protocol!SourceLost
      <4>4. QED
        BY <2>7, <4>1, <4>2, <4>3
    <3>2. QED
      BY <2>2, <3>1
  <2>8. CASE Protocol!Release
    BY <2>2, <2>8, FreshParts DEF Protocol!Release, States
  <2>9. CASE Protocol!Reset \/ Protocol!Ends \/ Protocol!Starts
    BY <2>3, <2>9
       DEF Protocol!Reset, Protocol!Ends, Protocol!Starts, Protocol!Fresh,
           Protocol!Down
  <2>10. CASE UNCHANGED view
    BY <2>2, <2>10 DEF view
  <2>11. QED
    BY <2>1, <2>4, <2>5, <2>6, <2>7, <2>8, <2>9, <2>10 DEF Protocol!Next
<1>2. QED
  BY <1>1, ClearInvariance, PTL DEF Spec, TransitionIdsNeverGoBack
=============================================================================
