----------------------------- MODULE TaskKernel -----------------------------
(***************************************************************************)
(* The part of Linux and of the Android framework that source_guard.c works *)
(* on: threads with a start time, a nice value, an affinity mask and a      *)
(* group in the cpuset and cpuctl hierarchies, and what those do when a     *)
(* thread is attached, cloned or killed.  Nothing of this is under src/; it *)
(* is modelled from how proc_control.c and source_guard.c use it.           *)
(***************************************************************************)
EXTENDS Integers, FiniteSets

CONSTANTS
    Tids,         \* thread ids; the id of a process is the id of its main thread
    Apps, NoApp,  \* applications (a package name and its uid), and none
    AppNices,     \* nice values applications and the framework give threads
    TargetNice,   \* nice value of a suppressed thread
    MaxStart      \* bound: births of threads, and so the largest start time

ASSUME KernelAssumption ==
    /\ Tids \subseteq Nat \ {0}
    /\ NoApp \notin Apps
    /\ AppNices \subseteq Int
    /\ TargetNice \in Int
    /\ MaxStart \in Nat

Controllers == {"cpuset", "cpuctl"}
Groups == {"top", "background", "source"}
Masks == {"full", "pinned", "little"}

(* own is the nice value the application or the framework last chose, which  *)
(* no code can read.  lost tells what the guard cannot know of a thread:     *)
(* "nice", its raised nice value was inherited or outlived a crashed guard;  *)
(* "place", no event announces that it is outside the source groups.         *)
Task == [start: 0..MaxStart, leader: Tids \cup {0}, app: Apps \cup {NoApp},
         nice: Int, own: Int, affinity: Masks, group: [Controllers -> Groups],
         lost: SUBSET {"nice", "place"}]

In(g) == [c \in Controllers |-> g]

NoTask == [start |-> 0, leader |-> 0, app |-> NoApp, nice |-> 0, own |-> 0,
           affinity |-> "full", group |-> In("background"), lost |-> {}]

Alive(task) == {t \in Tids : task[t].start # 0}

(* The threads a write to cgroup.procs moves and /proc/PID/task lists.       *)
ThreadGroup(task, t) == {u \in Alive(task) : task[u].leader = task[t].leader}

(* Attaching a thread to another cpuset replaces its mask by the group's.    *)
GroupMask(g) == IF g = "source" THEN "little" ELSE "full"

Attach(task, who, controllers, g) ==
    [t \in Tids |->
        IF t \notin who \cap Alive(task) THEN task[t] ELSE
        [task[t] EXCEPT
            !.group = [c \in Controllers |-> IF c \in controllers THEN g ELSE @[c]],
            !.affinity = IF "cpuset" \in controllers /\ task[t].group["cpuset"] # g
                         THEN GroupMask(g) ELSE @,
            !.lost = IF g = "source" THEN @ \ {"place"} ELSE @]]

NewProcess(t, a, n, g, start) ==
    [NoTask EXCEPT !.start = start, !.leader = t, !.app = a,
                   !.nice = n, !.own = n, !.group = In(g)]

(* A clone copies nice, mask and groups of the thread that makes it, also    *)
(* when the guard raised that nice value or has yet to move that thread.     *)
Clone(parent, start, watched) ==
    [parent EXCEPT !.start = start,
        !.lost = @ \cup (IF parent.nice > parent.own THEN {"nice"} ELSE {})
                   \cup (IF watched /\ parent.group # In("source")
                         THEN {"place"} ELSE {})]
=============================================================================
