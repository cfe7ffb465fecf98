----------------------------- MODULE SourceGuard -----------------------------
(***************************************************************************)
(* The source-guard daemon (native/source_guard.c): one poll loop that owns *)
(* the execution state of the source application.  It takes commands from   *)
(* a datagram socket, the expiry of its completion timer and the            *)
(* cgroup_attach_task events of the perf rings.                             *)
(*                                                                          *)
(* A handler is an operator from a world (guard, kernel and the kernel      *)
(* interfaces that fail while it runs) to the world it leaves; an action    *)
(* applies one handler.  The threads of the applications run between the    *)
(* actions.                                                                 *)
(***************************************************************************)
EXTENDS TaskKernel

CONSTANTS
    Ids,          \* transition ids senders use
    Commands,     \* names of the commands senders use
    Faults,       \* kernel interfaces that may fail: "cpuset", "cpuctl", "trace"
    RingSize,     \* attach events the perf rings hold
    Initial,      \* processes running at the start: [subset of Tids -> Apps]
    SystemGroups, \* groups the framework moves threads to
    MinorUsers,   \* applications Xiaomi writes to minor_window_app
    TidReuse,     \* may the id of a dead thread be given to another
    CanPin,       \* may applications set the affinity of their threads
    CanCrash      \* may the guard be killed with SIGKILL

ASSUME GuardAssumption ==
    /\ Ids \subseteq Nat \ {0}
    /\ Faults \subseteq {"cpuset", "cpuctl", "trace"}
    /\ RingSize \in Nat
    /\ DOMAIN Initial \subseteq Tids
    /\ \A t \in DOMAIN Initial : Initial[t] \in Apps
    /\ SystemGroups \subseteq {"top", "background"}
    /\ MinorUsers \subseteq Apps
    /\ TidReuse \in BOOLEAN /\ CanPin \in BOOLEAN /\ CanCrash \in BOOLEAN

VARIABLES guard,   \* the daemon's memory
          kernel   \* threads, minor_window_app, the timerfd and the perf rings

vars == <<guard, kernel>>

-----------------------------------------------------------------------------
(* State                                                                     *)

Record == [start: 0..MaxStart, nice: Int, affinity: Masks \cup {"none"}]
NoRecord == [start |-> 0, nice |-> 0, affinity |-> "none"]

Guard == [running: BOOLEAN, armed: BOOLEAN, active: BOOLEAN,
          pid: Tids \cup {0}, start: 0..MaxStart, app: Apps \cup {NoApp},
          minor: Apps \cup {NoApp}, records: [Tids -> Record],
          accepted: Ids \cup {0}, completion: Ids \cup {0}, trace: BOOLEAN]

(* timerApp is the application the running timer was set for: the guard's    *)
(* code keeps no such field.                                                 *)
Kernel == [task: [Tids -> Task], minor: Apps \cup {NoApp},
           timer: {"off", "running", "expired"}, timerApp: Apps \cup {NoApp},
           perf: BOOLEAN, ring: SUBSET Tids, clock: 0..MaxStart,
           used: SUBSET Tids]

Worlds == [g: Guard, k: Kernel, bad: SUBSET Faults]

(* Fault: no process written as -1, as kill and waitpid would have it.        *)
IdleMinusOne(g) == [g EXCEPT !.armed = FALSE, !.active = FALSE, !.pid = -1]

Idle(g) == [g EXCEPT !.armed = FALSE, !.active = FALSE, !.pid = 0, !.start = 0,
                     !.app = NoApp, !.minor = NoApp,
                     !.records = [t \in Tids |-> NoRecord]]

NewGuard == [running |-> TRUE, armed |-> FALSE, active |-> FALSE, pid |-> 0,
             start |-> 0, app |-> NoApp, minor |-> NoApp,
             records |-> [t \in Tids |-> NoRecord],
             accepted |-> 0, completion |-> 0, trace |-> FALSE]

-----------------------------------------------------------------------------
(* Identity and thread records                                               *)

Is(w, p, a) == w.k.task[p].start # 0 /\ w.k.task[p].app = a

SourceMatches(w) ==
    w.g.armed /\ w.k.task[w.g.pid].start = w.g.start
              /\ w.k.task[w.g.pid].app = w.g.app

(* The recorded thread still is the one the record was made for.             *)
Owned(w, t) == /\ w.g.records[t].start # 0
               /\ w.k.task[t].start = w.g.records[t].start
               /\ w.k.task[t].app = w.g.app

Applied(n) == IF n < TargetNice THEN TargetNice ELSE n

(* Fault: the present mask is recorded whenever a thread is first seen.       *)
MaskAlways(w, thread) == thread.affinity

FirstMask(w, thread) == IF w.g.active THEN "none" ELSE thread.affinity

Registered(w, t) ==
    LET r == w.g.records[t]
        thread == w.k.task[t]
    IN  IF ~Is(w, t, w.g.app) \/ thread.start = r.start THEN r
        ELSE [start |-> thread.start, nice |-> thread.nice,
              affinity |-> FirstMask(w, thread)]

Refresh(w) ==
    [w EXCEPT !.g.records = [t \in Tids |->
        IF t \in ThreadGroup(w.k.task, w.g.pid) THEN Registered(w, t) ELSE @[t]]]

CaptureBaseline(w) ==
    [w EXCEPT !.g.records = [t \in Tids |->
        IF @[t].start # 0 /\ w.k.task[t].start # 0
        THEN [@[t] EXCEPT !.nice = w.k.task[t].nice,
                          !.affinity = w.k.task[t].affinity]
        ELSE @[t]]]

-----------------------------------------------------------------------------
(* What the guard writes to the kernel                                       *)

Move(w, who, g) ==
    [w EXCEPT !.k.task = Attach(@, who, Controllers \ w.bad, g)]

MoveSource(w, g) == Move(w, ThreadGroup(w.k.task, w.g.pid), g)

ApplyNice(w, who) ==
    [w EXCEPT !.k.task = [t \in Tids |->
        IF t \in who /\ Owned(w, t)
        THEN [@[t] EXCEPT !.nice = Applied(w.g.records[t].nice)] ELSE @[t]]]

RestoreNice(w, force) ==
    [w EXCEPT !.k.task = [t \in Tids |->
        LET original == w.g.records[t].nice
        IN  IF /\ Owned(w, t) /\ Applied(original) # original
               /\ force \/ @[t].nice = Applied(original)
            THEN [@[t] EXCEPT !.nice = original] ELSE @[t]]]

RestoreAffinity(w) ==
    [w EXCEPT !.k.task = [t \in Tids |->
        IF Owned(w, t) /\ w.g.records[t].affinity # "none"
        THEN [@[t] EXCEPT !.affinity = w.g.records[t].affinity] ELSE @[t]]]

RestoreMinor(w, preserve) ==
    IF preserve THEN [w EXCEPT !.k.minor = w.g.minor]
    ELSE [w EXCEPT !.k.minor = IF @ = w.g.app THEN NoApp ELSE @]

ClearMinor(w, a) == [w EXCEPT !.k.minor = IF @ = a THEN NoApp ELSE @]

(* A ring that cannot be switched leaves the cached flag as it was; what the *)
(* other rings were switched to is then not what the flag says.              *)
SetTrace(w, on) ==
    IF w.g.trace = on THEN w
    ELSE IF "trace" \in w.bad THEN [w EXCEPT !.k.perf = FALSE]
    ELSE [w EXCEPT !.g.trace = on, !.k.perf = on]

(* Fault: the stored id is cleared and the timerfd runs on.                   *)
ForgetTimer(w) == [w EXCEPT !.g.completion = 0]

CancelTimer(w) == [w EXCEPT !.g.completion = 0,
                            !.k.timer = "off", !.k.timerApp = NoApp]

Deactivate(w) == SetTrace([w EXCEPT !.g.active = FALSE], FALSE)

(* Fault: masks are restored before the attach that overwrites them.          *)
ToTopEarly(w, preserve) ==
    RestoreMinor(RestoreNice(MoveSource(RestoreAffinity(w), "top"), TRUE), preserve)

(* restore_minor, restore_nice and the group moves of the two ways out.      *)
ToTop(w, preserve) ==
    RestoreMinor(RestoreNice(RestoreAffinity(MoveSource(w, "top")), TRUE), preserve)

(* Faults: a source let go stays in its groups, or keeps its nice values.     *)
LeaveInGroups(w, preserve) == RestoreMinor(RestoreNice(w, FALSE), preserve)
LeaveRaised(w, preserve) == RestoreMinor(MoveSource(w, "background"), preserve)

ToBackground(w, preserve) ==
    RestoreMinor(RestoreNice(MoveSource(w, "background"), FALSE), preserve)

-----------------------------------------------------------------------------
(* Handlers                                                                  *)

(* An active guard that is armed for another process lets the old one go.    *)
Abandon(w) ==
    LET quiet == Deactivate(w)
    IN  IF ~SourceMatches(quiet) THEN quiet
        ELSE MoveSource(RestoreMinor(RestoreNice(quiet, FALSE), FALSE), "background")

SameSource(w, p, a) == /\ w.g.pid = p /\ w.g.app = a
                       /\ w.g.start = w.k.task[p].start

Arm(w, p, a) ==
    LET free == IF w.g.active /\ ~SameSource(w, p, a) THEN Abandon(w) ELSE w
        fresh == [free EXCEPT !.g = [Idle(@) EXCEPT
                     !.armed = TRUE, !.pid = p, !.app = a,
                     !.start = free.k.task[p].start, !.minor = free.k.minor]]
    IN  CASE ~Is(w, p, a) -> w
          [] Is(w, p, a) /\ w.g.armed /\ SameSource(w, p, a) -> Refresh(free)
          [] OTHER -> Refresh(fresh)

Suppress(w, p, a) ==
    LET based == IF w.g.active THEN w ELSE CaptureBaseline(w)
        watched == SetTrace([based EXCEPT !.g.active = TRUE], TRUE)
        moved == MoveSource(ClearMinor(watched, a), "source")
    IN  IF ~SourceMatches(w) THEN w
        ELSE IF ~watched.g.trace THEN [watched EXCEPT !.g.active = FALSE]
        ELSE IF w.bad \cap Controllers # {} THEN Deactivate(moved)
        ELSE ApplyNice(moved, Tids)

Activate(w, p, a) ==
    IF ~w.g.armed \/ w.g.pid # p \/ w.g.app # a
    THEN IF Is(w, p, a) THEN Suppress(Arm(w, p, a), p, a) ELSE w
    ELSE Suppress(IF w.g.active THEN Refresh(w) ELSE w, p, a)

Release(w, p, top) ==
    LET quiet == Deactivate(CancelTimer(w))
        restored == IF ~SourceMatches(quiet) THEN quiet
                    ELSE IF top THEN ToTop(quiet, TRUE)
                    ELSE ToBackground(quiet, FALSE)
    IN  IF ~w.g.armed \/ w.g.pid # p THEN w
        ELSE [restored EXCEPT !.g = Idle(@)]

(* Fault: a completion that finds the source dead does nothing.               *)
CompleteLiving(w, id) ==
    IF id # w.g.accepted \/ ~w.g.armed \/ ~SourceMatches(w) THEN w
    ELSE ToTop(Deactivate(CancelTimer(w)), TRUE)

CompleteSource(w, id) ==
    LET quiet == Deactivate(CancelTimer(w))
    IN  IF id # w.g.accepted \/ ~w.g.armed THEN w
        ELSE IF SourceMatches(quiet) THEN ToTop(quiet, TRUE) ELSE quiet

(* Faults: a transition is accepted whatever its id, or beside an old timer.  *)
NeverStale(w, id) == FALSE
AcceptOnly(w, id) == [w EXCEPT !.g.accepted = id]

Stale(w, id) == id < w.g.accepted
Accept(w, id) == CancelTimer([w EXCEPT !.g.accepted = id])

BeginTransition(w, id) ==
    LET begun == Accept(w, id)
    IN  IF ~w.g.armed \/ Stale(w, id) THEN w
        ELSE IF w.g.active THEN begun
        ELSE Activate(begun, w.g.pid, w.g.app)

(* find_package_process: the lowest process id that runs the package.        *)
Processes(w, a) == {t \in Alive(w.k.task) : w.k.task[t].leader = t /\ Is(w, t, a)}
Lowest(S) == CHOOSE t \in S : \A u \in S : t <= u

AdoptPackage(w, id, a, activate) ==
    LET p == Lowest(Processes(w, a))
        free == IF ~activate /\ w.g.active THEN Release(w, w.g.pid, FALSE) ELSE w
        begun == Accept(free, id)
        same == begun.g.armed /\ begun.g.pid = p /\ begun.g.app = a
        armed == IF same THEN begun ELSE Arm(begun, p, a)
    IN  IF Stale(w, id) \/ Processes(w, a) = {} THEN w
        ELSE IF activate THEN Activate(armed, p, a) ELSE armed

ReplaceCurrent(w, p, a) ==
    IF \/ ~w.g.armed \/ w.g.app # a
       \/ (SourceMatches(w) /\ w.g.pid # p)
       \/ ~Is(w, p, a)
    THEN w
    ELSE IF w.g.active THEN Activate(Arm(w, p, a), p, a) ELSE Arm(w, p, a)

ScheduleCompletion(w, id) ==
    IF ~w.g.active \/ id # w.g.accepted THEN w
    ELSE [w EXCEPT !.g.completion = id, !.k.timer = "running",
                   !.k.timerApp = w.g.app]

ReleaseCurrent(w) == Release(w, w.g.pid, TRUE)

Disable(w) == [ReleaseCurrent(w) EXCEPT !.g.accepted = 0]

(* The event of thread t, from drain_ring: a thread the table has a record   *)
(* of, under whatever start time, is taken for the source's.                 *)
Belongs(w, t) == SourceMatches(w) /\ t \in ThreadGroup(w.k.task, w.g.pid)

(* Faults: the event moves one thread although it may stand for the process,  *)
(* or moves it in one hierarchy.                                             *)
MoveOne(w, t) == Move(w, {t}, "source")
MoveCpuset(w, t) == [w EXCEPT !.k.task = Attach(@, {t}, {"cpuset"}, "source")]

MoveBack(w, t) == IF t = w.g.pid THEN MoveSource(w, "source")
                  ELSE Move(w, {t}, "source")

Reassert(w, t) ==
    LET known == w.g.records[t].start # 0
        seen == IF known THEN w
                ELSE [w EXCEPT !.g.records[t] = Registered(w, t)]
    IN  CASE ~w.g.active \/ ~(t = w.g.pid \/ known \/ Belongs(w, t)) -> w
          [] w.g.active /\ (t = w.g.pid \/ known) /\ ~SourceMatches(w) ->
                LET quiet == Deactivate(w) IN [quiet EXCEPT !.g = Idle(@)]
          [] OTHER -> ApplyNice(MoveBack(seen, t), {t})

-----------------------------------------------------------------------------
(* The poll loop: one action per command, the timer, one event               *)

World(bad) == [g |-> guard, k |-> kernel, bad |-> bad]
Becomes(w) == guard' = w.g /\ kernel' = w.k
Sent(name) == name \in Commands /\ guard.running

(* Senders find process ids with pidof: never the id of another thread.      *)
IsPid(p) == kernel.task[p].leader \in {0, p}

(* The shell arms a source right after reset-top, before a coordinator runs. *)
ArmCommand(p, a) ==
    /\ Sent("arm") /\ guard.accepted = 0 /\ IsPid(p)
    /\ ~guard.active
    /\ \E bad \in SUBSET Faults : Becomes(Arm(World(bad), p, a))

EnterCommand(id) ==
    /\ Sent("enter")
    /\ \E bad \in SUBSET Faults : Becomes(BeginTransition(World(bad), id))

HandoffCommand(id, a) ==
    /\ Sent("handoff")
    /\ \E bad \in SUBSET Faults : Becomes(AdoptPackage(World(bad), id, a, TRUE))

AdoptCommand(id, a) ==
    /\ Sent("adopt")
    /\ \E bad \in SUBSET Faults : Becomes(AdoptPackage(World(bad), id, a, FALSE))

CompleteCommand(id) ==
    /\ Sent("complete")
    /\ Becomes(ScheduleCompletion(World({}), id))

ReplaceCommand(p, a) ==
    /\ Sent("replace-current") /\ IsPid(p)
    /\ \E bad \in SUBSET Faults : Becomes(ReplaceCurrent(World(bad), p, a))

ReleaseCommand(p, top) ==
    /\ Sent(IF top THEN "restore-top" ELSE "release-background")
    /\ \E bad \in SUBSET Faults : Becomes(Release(World(bad), p, top))

(* disable and reset-top run the same code.                                  *)
ResetCommand ==
    /\ Sent("reset-top")
    /\ \E bad \in SUBSET Faults : Becomes(Disable(World(bad)))

(* The process is gone: its timer and rings are closed.                      *)
Ended(w) == [w EXCEPT !.g = [NewGuard EXCEPT !.running = FALSE],
                      !.k.timer = "off", !.k.timerApp = NoApp,
                      !.k.perf = FALSE, !.k.ring = {}]

(* The stop command and SIGTERM release the source and leave the loop.       *)
StopCommand ==
    /\ Sent("stop")
    /\ \E bad \in SUBSET Faults : Becomes(Ended(ReleaseCurrent(World(bad))))

HandleTimer ==
    /\ guard.running /\ kernel.timer = "expired"
    /\ \E bad \in SUBSET Faults :
         LET read == [World(bad) EXCEPT !.k.timer = "off", !.k.timerApp = NoApp]
         IN  Becomes(IF guard.completion # guard.accepted THEN read
                     ELSE CompleteSource([read EXCEPT !.g.completion = 0],
                                         guard.completion))

HandleEvent(t) ==
    /\ guard.running /\ t \in kernel.ring
    /\ \E bad \in SUBSET Faults :
         Becomes(Reassert([World(bad) EXCEPT !.k.ring = @ \ {t}], t))

(* service.sh starts the daemon after it emptied the source groups.          *)
DrainGroups(task) ==
    LET in(c) == {t \in Alive(task) : task[t].group[c] = "source"}
        drain(ts, c) == Attach(ts, UNION {ThreadGroup(ts, t) : t \in in(c)},
                               {c}, "background")
    IN  drain(drain(task, "cpuset"), "cpuctl")

StartGuard ==
    /\ ~guard.running
    /\ guard' = NewGuard
    /\ kernel' = [kernel EXCEPT !.task = DrainGroups(@)]

(* SIGKILL: what the guard had raised stays raised and nobody knows.         *)
Crash ==
    /\ CanCrash /\ guard.running
    /\ LET orphan(r) == IF r.nice > r.own
                        THEN [r EXCEPT !.lost = @ \cup {"nice"}] ELSE r
           left == [World({}) EXCEPT
                        !.k.task = [t \in Tids |-> orphan(@[t])]]
       IN  Becomes(Ended(left))

-----------------------------------------------------------------------------
(* The kernel and the applications                                           *)

TimerExpires ==
    /\ kernel.timer = "running"
    /\ kernel' = [kernel EXCEPT !.timer = "expired"]
    /\ UNCHANGED guard

(* An attach event is dropped when the ring is full.                         *)
Announced(k, t, who) ==
    IF ~k.perf THEN k
    ELSE IF t \in k.ring \/ Cardinality(k.ring) < RingSize
    THEN [k EXCEPT !.ring = @ \cup {t}]
    ELSE [k EXCEPT !.task = [u \in Tids |->
            IF u \in who THEN [k.task[u] EXCEPT !.lost = @ \cup {"place"}]
            ELSE k.task[u]]]

(* The framework moves one thread, or with its main thread the whole process.*)
SystemMoves(t, controllers, g) ==
    /\ t \in Alive(kernel.task)
    /\ \E who \in IF kernel.task[t].leader = t
                  THEN {{t}, ThreadGroup(kernel.task, t)} ELSE {{t}} :
          kernel' = Announced([kernel EXCEPT
                        !.task = Attach(@, who, controllers, g)], t, who)
    /\ UNCHANGED guard

SystemSetsNice(t, n) ==
    /\ t \in Alive(kernel.task)
    /\ kernel' = [kernel EXCEPT !.task[t].nice = n, !.task[t].own = n]
    /\ UNCHANGED guard

SystemSetsMinor(a) ==
    /\ kernel' = [kernel EXCEPT !.minor = a]
    /\ UNCHANGED guard

PinThread(t) ==
    /\ CanPin /\ t \in Alive(kernel.task)
    /\ kernel.task[t].group["cpuset"] # "source"
    /\ kernel' = [kernel EXCEPT !.task[t].affinity = "pinned"]
    /\ UNCHANGED guard

Free(t) == /\ t \in Tids \ Alive(kernel.task)
           /\ TidReuse \/ t \notin kernel.used
           /\ kernel.clock < MaxStart

Born(t, thread) == [kernel EXCEPT !.task[t] = thread, !.clock = @ + 1,
                                  !.used = @ \cup {t}]

SpawnProcess(t, a, n, g) ==
    /\ Free(t)
    /\ kernel' = Announced(Born(t, NewProcess(t, a, n, g, kernel.clock + 1)), t, {t})
    /\ UNCHANGED guard

CloneThread(parent, t) ==
    /\ Free(t) /\ parent \in Alive(kernel.task)
    /\ kernel' = Born(t, Clone(kernel.task[parent], kernel.clock + 1, kernel.perf))
    /\ UNCHANGED guard

(* A main thread takes its process with it.                                  *)
ThreadExits(t) ==
    /\ t \in Alive(kernel.task)
    /\ LET dead == IF kernel.task[t].leader = t
                   THEN ThreadGroup(kernel.task, t) ELSE {t}
       IN  kernel' = [kernel EXCEPT !.task = [u \in Tids |->
                          IF u \in dead THEN NoTask ELSE @[u]]]
    /\ UNCHANGED guard

-----------------------------------------------------------------------------
Init ==
    /\ guard = NewGuard
    /\ kernel = [task |-> [t \in Tids |->
                     IF t \in DOMAIN Initial /\ MaxStart > 0
                     THEN NewProcess(t, Initial[t], 0, "top", 1) ELSE NoTask],
                 minor |-> NoApp, timer |-> "off", timerApp |-> NoApp,
                 perf |-> FALSE, ring |-> {}, clock |-> IF MaxStart > 0 THEN 1 ELSE 0,
                 used |-> DOMAIN Initial]

Command ==
    \/ \E p \in Tids, a \in Apps : ArmCommand(p, a)
    \/ \E id \in Ids : EnterCommand(id)
    \/ \E id \in Ids, a \in Apps : HandoffCommand(id, a)
    \/ \E id \in Ids, a \in Apps : AdoptCommand(id, a)
    \/ \E id \in Ids : CompleteCommand(id)
    \/ \E p \in Tids, a \in Apps : ReplaceCommand(p, a)
    \/ \E p \in Tids, top \in BOOLEAN : ReleaseCommand(p, top)
    \/ ResetCommand
    \/ StopCommand

System ==
    \/ TimerExpires
    \/ \E t \in Tids, cs \in SUBSET Controllers \ {{}}, g \in SystemGroups :
          SystemMoves(t, cs, g)
    \/ \E t \in Tids, n \in AppNices : SystemSetsNice(t, n)
    \/ \E a \in MinorUsers : SystemSetsMinor(a)
    \/ \E t \in Tids : PinThread(t)
    \/ \E t \in Tids, a \in Apps, n \in AppNices, g \in SystemGroups :
          SpawnProcess(t, a, n, g)
    \/ \E parent, t \in Tids : CloneThread(parent, t)
    \/ \E t \in Tids : ThreadExits(t)

Next ==
    \/ Command
    \/ HandleTimer
    \/ \E t \in Tids : HandleEvent(t)
    \/ StartGuard
    \/ Crash
    \/ System

Spec == Init /\ [][Next]_vars

(* The loop polls the timer and the rings in every round, and starting the   *)
(* daemon is not promised.                                                   *)
FairSpec == /\ Spec
            /\ WF_vars(TimerExpires)
            /\ WF_vars(HandleTimer)
            /\ \A t \in Tids : WF_vars(HandleEvent(t))

-----------------------------------------------------------------------------
(* Properties                                                                *)

(* Every handler leaves the daemon's memory and the kernel state well formed.*)
TypeOK == guard \in Guard /\ kernel \in Kernel

SourceThreads == IF SourceMatches(World({}))
                 THEN ThreadGroup(kernel.task, guard.pid) ELSE {}

(* While the guard suppresses a source, each of its threads is in the source *)
(* groups or an attach event that will bring it back waits in a ring, except *)
(* a thread cloned by a displaced one or whose event the ring dropped        *)
(* (activate_source, reassert_source: the trace is on before the move).      *)
PlacementWatched ==
    guard.active => \A t \in SourceThreads :
        \/ kernel.task[t].group = In("source")
        \/ {t, guard.pid} \cap kernel.ring # {}
        \/ "place" \in kernel.task[t].lost

(* A thread is in a source group only while the guard suppresses the process *)
(* it belongs to: no path out of suppression, switch of source, exit or      *)
(* restart of the daemon leaves one behind, and no other process gets in.    *)
OnlySourceInSourceGroups ==
    guard.running => \A t \in Alive(kernel.task) :
        (\E c \in Controllers : kernel.task[t].group[c] = "source")
            => guard.active /\ t \in SourceThreads

LeftSlow(t) == /\ kernel.task[t].own < TargetNice
               /\ kernel.task[t].nice >= TargetNice

(* When nothing is suppressed, no thread is still at the nice value of       *)
(* suppression unless it inherited that value when it was cloned or the      *)
(* guard was killed (restore_nice on every way out of active).               *)
NoNiceLeft ==
    ~guard.active => \A t \in Alive(kernel.task) :
        LeftSlow(t) => "nice" \in kernel.task[t].lost

(* A thread's record never takes the mask of the source group for the mask   *)
(* to restore: activate_source captures only at the inactive to active       *)
(* boundary and register_task captures no mask while active.                 *)
BaselineNotSuppressed ==
    \A t \in Tids : guard.records[t].affinity # "little"

(* Suppression that ends in top-app gives each thread whose mask was         *)
(* recorded that mask back, after the attach that overwrites it.             *)
AffinityHandedBack ==
    [][ (guard.active /\ ~guard'.active) =>
          \A t \in SourceThreads :
            (/\ Owned(World({}), t) /\ guard.records[t].affinity # "none"
             /\ kernel'.task[t].start = kernel.task[t].start
             /\ kernel.task[t].group["cpuset"] = "source"
             /\ kernel'.task[t].group["cpuset"] = "top")
            => kernel'.task[t].affinity = guard.records[t].affinity ]_vars

(* The timer that can still complete the accepted transition was set for the *)
(* application the guard is armed for: a timer of an earlier source or       *)
(* transition cannot put the present source back to top-app.                 *)
TimerMatchesSource ==
    (/\ kernel.timer # "off" /\ guard.armed
     /\ guard.completion = guard.accepted) => kernel.timerApp = guard.app

(* While the guard suppresses a source, a pending timer is the one of the    *)
(* accepted transition (begin_transition and adopt_package cancel others).   *)
TimerMatchesTransition ==
    (guard.active /\ kernel.timer # "off") => guard.completion = guard.accepted

(* A command of an older transition never takes the guard back: the accepted *)
(* id only grows, until the shell resets it or the daemon ends.              *)
TransitionIdsNeverGoBack ==
    [][ guard'.accepted >= guard.accepted
        \/ (guard'.accepted = 0 /\ ~guard'.armed) ]_vars

(* A completion that was scheduled happens or is cancelled by a newer        *)
(* command: its expiry ends suppression whatever became of the source in the *)
(* meantime, and it does expire, unless senders set the timer again for ever *)
(* (schedule_completion restarts it each time).                              *)
CompletionHappens ==
    /\ [][(guard.active /\ HandleTimer) => ~guard'.active]_vars
    /\ \/ []<><<\E id \in Ids : CompleteCommand(id)>>_vars
       \/ (guard.active /\ kernel.timer # "off")
              ~> (~guard.active \/ kernel.timer = "off")

(* A displaced thread of the source is brought back, unless suppression ends *)
(* or the thread does.                                                       *)
DisplacedComesBack ==
    \A t \in Tids : (guard.active /\ t \in SourceThreads /\ t \in kernel.ring)
        ~> (~guard.active \/ t \notin SourceThreads
            \/ kernel.task[t].group = In("source"))

(* The daemon keeps what GuardProtocol promises its senders: every handler,  *)
(* with whatever fails or dies while it runs, is one step of the protocol or *)
(* none.                                                                     *)
Protocol == INSTANCE GuardProtocol WITH
    g <- [up |-> guard.running, app |-> guard.app, active |-> guard.active,
          accepted |-> guard.accepted,
          pending |-> IF kernel.timer = "off" THEN 0 ELSE guard.completion]

ImplementsProtocol == Protocol!Spec

=============================================================================
