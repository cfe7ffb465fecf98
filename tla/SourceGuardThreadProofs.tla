----------------------- MODULE SourceGuardThreadProofs -----------------------
(***************************************************************************)
(* Proofs about the threads of the source: where the guard puts them and    *)
(* what it gives back to them.  Each function of source_guard.c is read     *)
(* through what it does to one thread and its record; the invariant is      *)
(* about worlds, and holds at every call inside a handler.                  *)
(***************************************************************************)
EXTENDS SourceGuardProofs

-----------------------------------------------------------------------------
(* The invariant                                                             *)

(* The kernel's own order: a thread is born before now, and belongs to a     *)
(* main thread that lives.                                                   *)
Led(task, t) == LET l == task[t].leader
                IN  /\ l \in Alive(task) /\ task[l].leader = l
                    /\ task[l].app = task[t].app

Kin(k) == \A t \in Tids :
    /\ k.task[t].start <= k.clock
    /\ k.task[t].start # 0 => t \in k.used /\ Led(k.task, t)

(* What the guard's memory says of the threads: an armed source was a        *)
(* process, and a thread that is the one of a record is that process's.      *)
Book(w) ==
    /\ w.g.active => w.g.armed /\ w.g.trace
    /\ w.g.armed => /\ w.g.running /\ w.g.pid \in Tids
                    /\ w.g.start # 0 /\ w.g.start <= w.k.clock
                    /\ SourceMatches(w) => w.k.task[w.g.pid].leader = w.g.pid
    /\ \A t \in Tids :
         /\ w.g.records[t].start <= w.k.clock
         /\ w.g.records[t].start # 0 => w.g.armed /\ t \in w.k.used
         /\ Owned(w, t) => w.k.task[t].leader = w.g.pid

Fit(w) == w \in Worlds /\ Kin(w.k) /\ Book(w)

(* The source groups hold threads of the source alone, and none while it is  *)
(* not suppressed.                                                           *)
InSource(thread) == \E c \in Controllers : thread.group[c] = "source"

Empty(w) == \A t \in Alive(w.k.task) : ~InSource(w.k.task[t])

Confined(w) == \A t \in Alive(w.k.task) : InSource(w.k.task[t])
                   => SourceMatches(w) /\ w.k.task[t].leader = w.g.pid

(* A record is of the thread that has its id now or of none, and only a      *)
(* thread in the source cpuset has the small mask, which no record has.      *)
Marked(w) == \A t \in Tids :
    /\ w.g.records[t].start # 0 /\ w.k.task[t].start # 0 => Owned(w, t)
    /\ w.k.task[t].affinity = "little"
         => w.k.task[t].start # 0 /\ w.k.task[t].group["cpuset"] = "source"
    /\ w.g.records[t].affinity # "little"

SourceKept(w) == Marked(w) /\ (w.g.running => Confined(w) /\ (w.g.active \/ Empty(w)))

(* A raised nice value is known to be so, or it is one the records restore.  *)
Raised(thread) == thread.nice >= TargetNice /\ "nice" \notin thread.lost

NiceKnown(w, t) ==
    /\ w.k.task[t].own < TargetNice
    /\ Owned(w, t) /\ w.g.records[t].nice >= TargetNice
          => "nice" \in w.k.task[t].lost

Restorable(w, t) == /\ SourceMatches(w) /\ Owned(w, t)
                    /\ w.g.records[t].nice < TargetNice
                    /\ w.k.task[t].nice = TargetNice

NiceHeld(w) == \A t \in Alive(w.k.task) :
                   NiceKnown(w, t) /\ (Raised(w.k.task[t]) => Restorable(w, t))

NiceDown(w) == \A t \in Alive(w.k.task) : NiceKnown(w, t) /\ ~Raised(w.k.task[t])

NiceKept(w) == NiceHeld(w) /\ (w.g.active \/ NiceDown(w))

(* A thread of the suppressed source that is not in its groups is announced  *)
(* in the ring.                                                              *)
Watched(w, ring, t) ==
    \/ w.k.task[t].group = In("source")
    \/ {t, w.g.pid} \cap ring # {}
    \/ "place" \in w.k.task[t].lost

Placed(w, ring) ==
    /\ w.k.perf = w.g.trace
    /\ w.g.active /\ SourceMatches(w) =>
         \A t \in Alive(w.k.task) :
            w.k.task[t].leader = w.g.pid => Watched(w, ring, t)

(* Attaching a thread does not fail.  The nice values applications use are   *)
(* below the one of suppression, so that apply_nice raises every thread.     *)
Reliable == Faults \cap Controllers = {}
LowNices == 0 < TargetNice /\ \A n \in AppNices : n < TargetNice

Sound(w, ring) ==
    /\ Fit(w)
    /\ Reliable /\ ~TidReuse => SourceKept(w)
    /\ Reliable /\ LowNices => NiceKept(w)
    /\ Faults = {} => Placed(w, ring)

Sane(w) == Sound(w, w.k.ring)

-----------------------------------------------------------------------------
(* What an operator does to one thread                                       *)

Same(r, s) == /\ s.start = r.start /\ s.leader = r.leader
              /\ s.app = r.app /\ s.own = r.own

SameNice(r, s) == s.nice = r.nice /\ ("nice" \in s.lost <=> "nice" \in r.lost)

SamePlace(r, s) == /\ s.group = r.group /\ s.affinity = r.affinity
                   /\ ("place" \in s.lost <=> "place" \in r.lost)

(* v has the threads and the identity and records of w.                      *)
Steady(w, v) ==
    /\ v \in Worlds /\ v.bad = w.bad
    /\ v.k.clock = w.k.clock /\ v.k.used = w.k.used /\ v.k.ring = w.k.ring
    /\ v.g.running = w.g.running /\ v.g.armed = w.g.armed
    /\ v.g.pid = w.g.pid /\ v.g.start = w.g.start /\ v.g.app = w.g.app
    /\ v.g.records = w.g.records
    /\ \A t \in Tids : Same(w.k.task[t], v.k.task[t])

NicesStay(w, v) == \A t \in Tids : SameNice(w.k.task[t], v.k.task[t])
PlacesStay(w, v) == \A t \in Tids : SamePlace(w.k.task[t], v.k.task[t])

(* v suppresses as w does and traces as w does.                              *)
SameMode(w, v) == /\ v.g.active = w.g.active /\ v.g.trace = w.g.trace
                  /\ v.k.perf = w.k.perf /\ v.k.ring = w.k.ring

(* The threads and the events alone.                                         *)
SameThreads(w, v) ==
    /\ v.g.running = w.g.running /\ v.k.ring = w.k.ring
    /\ \A t \in Tids : Same(w.k.task[t], v.k.task[t])

LEMMA SteadyMeans ==
    ASSUME NEW w \in Worlds, NEW v, Steady(w, v)
    PROVE  /\ Alive(v.k.task) = Alive(w.k.task)
           /\ w.g.pid \in Tids => (SourceMatches(v) <=> SourceMatches(w))
           /\ \A t \in Tids : Owned(v, t) <=> Owned(w, t)
           /\ \A t \in Tids : ThreadGroup(v.k.task, t) = ThreadGroup(w.k.task, t)
BY DEF Steady, Same, Alive, SourceMatches, Owned, ThreadGroup

LEMMA SteadyFit ==
    ASSUME NEW w, Fit(w), NEW v, Steady(w, v),
           v.g.active => w.g.armed /\ v.g.trace
    PROVE  Fit(v)
<1>1. Alive(v.k.task) = Alive(w.k.task)
  BY SteadyMeans DEF Fit
<1>2. \A t \in Tids : Led(w.k.task, t) => Led(v.k.task, t)
  BY <1>1 DEF Led, Steady, Same, Alive
<1>3. Kin(v.k)
  BY <1>2 DEF Kin, Fit, Steady, Same
<1>4. w.g.armed => (SourceMatches(v) <=> SourceMatches(w))
  BY SteadyMeans DEF Fit, Book
<1>5. \A t \in Tids : Owned(v, t) <=> Owned(w, t)
  BY SteadyMeans DEF Fit
<1>6. Book(v)
  BY <1>4, <1>5 DEF Book, Fit, Steady, Same
<1>7. QED
  BY <1>3, <1>6 DEF Fit, Steady

-----------------------------------------------------------------------------
(* The operators                                                             *)

(* A change of the table of threads alone.                                   *)
LEMMA TaskSteady ==
    ASSUME NEW w \in Worlds, NEW task \in [Tids -> Task],
           \A t \in Tids : Same(w.k.task[t], task[t])
    PROVE  LET v == [w EXCEPT !.k.task = task]
           IN  /\ Steady(w, v) /\ SameMode(w, v) /\ v.g = w.g /\ v.k.task = task
               /\ v.k.minor = w.k.minor
<1>1. PICK v : v = [w EXCEPT !.k.task = task]
  OBVIOUS
<1>2. v \in Worlds /\ v.k.task = task /\ v.g = w.g /\ v.bad = w.bad
      /\ v.k.clock = w.k.clock /\ v.k.used = w.k.used
      /\ v.k.perf = w.k.perf /\ v.k.ring = w.k.ring /\ v.k.minor = w.k.minor
  BY <1>1, SetTask DEF Keeps, Worlds, Kernel
<1>3. Steady(w, v) /\ SameMode(w, v)
  BY <1>2 DEF Steady, SameMode
<1>4. QED
  BY <1>1, <1>2, <1>3

LEMMA AttachEffect ==
    ASSUME NEW task \in [Tids -> Task], NEW who, NEW cs, NEW g \in Groups,
           NEW t \in Tids
    PROVE  LET r == task[t]
               s == Attach(task, who, cs, g)[t]
           IN  /\ Same(r, s) /\ SameNice(r, s)
               /\ t \notin who \cap Alive(task) => s = r
               /\ t \in who \cap Alive(task) =>
                    /\ \A c \in Controllers :
                          s.group[c] = IF c \in cs THEN g ELSE r.group[c]
                    /\ s.group \in [Controllers -> Groups]
                    /\ s.affinity = IF "cpuset" \in cs /\ r.group["cpuset"] # g
                                    THEN GroupMask(g) ELSE r.affinity
                    /\ "place" \in s.lost <=> "place" \in r.lost /\ g # "source"
<1> DEFINE r == task[t]
           group == [c \in Controllers |-> IF c \in cs THEN g ELSE r.group[c]]
           affinity == IF "cpuset" \in cs /\ r.group["cpuset"] # g
                       THEN GroupMask(g) ELSE r.affinity
           lost == IF g = "source" THEN r.lost \ {"place"} ELSE r.lost
<1>1. r \in Task
  OBVIOUS
<1>2. CASE t \notin who \cap Alive(task)
  BY <1>2 DEF Attach, Same, SameNice
<1>3. CASE t \in who \cap Alive(task)
  <2>1. Attach(task, who, cs, g)[t]
          = [r EXCEPT !.group = group, !.affinity = affinity, !.lost = lost]
    BY <1>3 DEF Attach
  <2>2. /\ group \in [Controllers -> Groups]
        /\ \A c \in Controllers : group[c] = IF c \in cs THEN g ELSE r.group[c]
    BY <1>1 DEF Task
  <2>3. /\ "place" \in lost <=> "place" \in r.lost /\ g # "source"
        /\ "nice" \in lost <=> "nice" \in r.lost
    OBVIOUS
  <2>4. affinity = IF "cpuset" \in cs /\ r.group["cpuset"] # g
                   THEN GroupMask(g) ELSE r.affinity
    OBVIOUS
  <2> HIDE DEF r, group, affinity, lost
  <2>5. PICK s : s = [r EXCEPT !.group = group, !.affinity = affinity, !.lost = lost]
    OBVIOUS
  <2>6. /\ s.start = r.start /\ s.leader = r.leader /\ s.app = r.app
        /\ s.own = r.own /\ s.nice = r.nice
        /\ s.group = group /\ s.affinity = affinity /\ s.lost = lost
    BY <1>1, <2>5 DEF Task
  <2>7. Same(r, s) /\ SameNice(r, s)
    BY <2>3, <2>6 DEF Same, SameNice
  <2>8. QED
    BY <1>3, <2>1, <2>2, <2>3, <2>4, <2>5, <2>6, <2>7 DEF r
<1>4. QED
  BY <1>2, <1>3

LEMMA AttachedGroup ==
    ASSUME NEW task \in [Tids -> Task], NEW who, NEW cs, NEW g \in Groups,
           NEW t \in who \cap Alive(task)
    PROVE  /\ \A c \in Controllers :
                Attach(task, who, cs, g)[t].group[c]
                  = IF c \in cs THEN g ELSE task[t].group[c]
           /\ Attach(task, who, cs, g)[t].group \in [Controllers -> Groups]
<1>1. t \in Tids
  BY DEF Alive
<1>2. QED
  BY <1>1, AttachEffect

(* A move reaches the hierarchies that do not fail.                          *)
LEMMA MoveEffect ==
    ASSUME NEW w \in Worlds, NEW who, NEW g \in Groups
    PROVE  LET v == Move(w, who, g)
           IN  /\ Steady(w, v) /\ SameMode(w, v) /\ NicesStay(w, v)
               /\ v.k.minor = w.k.minor
               /\ v.k.task = Attach(w.k.task, who, Controllers \ w.bad, g)
<1> DEFINE task == Attach(w.k.task, who, Controllers \ w.bad, g)
<1>1. task \in [Tids -> Task]
  BY WorldParts, AttachType
<1>2. \A t \in Tids : Same(w.k.task[t], task[t]) /\ SameNice(w.k.task[t], task[t])
  BY WorldParts, AttachEffect
<1>3. Move(w, who, g) = [w EXCEPT !.k.task = task]
  BY DEF Move
<1>4. task = Attach(w.k.task, who, Controllers \ w.bad, g)
  OBVIOUS
<1> HIDE DEF task
<1>5. LET v == [w EXCEPT !.k.task = task]
      IN  /\ Steady(w, v) /\ SameMode(w, v) /\ v.g = w.g /\ v.k.task = task
          /\ v.k.minor = w.k.minor
  BY <1>1, <1>2, TaskSteady
<1>6. QED
  BY <1>2, <1>3, <1>4, <1>5 DEF NicesStay

LEMMA MoveSourceEffect ==
    ASSUME NEW w \in Worlds, NEW g \in Groups
    PROVE  LET v == MoveSource(w, g)
           IN  /\ Steady(w, v) /\ SameMode(w, v) /\ NicesStay(w, v)
               /\ v.k.minor = w.k.minor
               /\ v.k.task = Attach(w.k.task, ThreadGroup(w.k.task, w.g.pid),
                                    Controllers \ w.bad, g)
BY MoveEffect DEF MoveSource

(* Changing the nice value of some threads.                                  *)
LEMMA NiceEffect ==
    ASSUME NEW thread \in Task, NEW n \in Int
    PROVE  LET s == [thread EXCEPT !.nice = n]
           IN  /\ s \in Task /\ Same(thread, s) /\ SamePlace(thread, s)
               /\ s.nice = n /\ s.lost = thread.lost
BY DEF Task, Same, SamePlace

LEMMA ApplyNiceEffect ==
    ASSUME NEW w \in Worlds, NEW who
    PROVE  LET v == ApplyNice(w, who)
           IN  /\ Steady(w, v) /\ SameMode(w, v) /\ PlacesStay(w, v) /\ v.g = w.g
               /\ v.k.minor = w.k.minor
               /\ \A t \in Tids :
                    /\ v.k.task[t].lost = w.k.task[t].lost
                    /\ v.k.task[t].nice =
                         IF t \in who /\ Owned(w, t)
                         THEN Applied(w.g.records[t].nice) ELSE w.k.task[t].nice
<1> DEFINE thread(t) == [w.k.task[t] EXCEPT !.nice = Applied(w.g.records[t].nice)]
           task == [t \in Tids |-> IF t \in who /\ Owned(w, t)
                                   THEN thread(t) ELSE w.k.task[t]]
           Done(t, s) == /\ s \in Task /\ Same(w.k.task[t], s)
                         /\ SamePlace(w.k.task[t], s) /\ s.lost = w.k.task[t].lost
<1>1. ASSUME NEW t \in Tids
      PROVE  /\ Done(t, thread(t)) /\ thread(t).nice = Applied(w.g.records[t].nice)
             /\ Done(t, w.k.task[t])
  <2>1. w.k.task[t] \in Task /\ Applied(w.g.records[t].nice) \in Int
    BY WorldParts, AppliedType DEF Record
  <2>2. QED
    BY <2>1, NiceEffect DEF Same, SamePlace
<1>2. \A t \in Tids :
        /\ Done(t, task[t])
        /\ task[t].nice = IF t \in who /\ Owned(w, t)
                          THEN Applied(w.g.records[t].nice) ELSE w.k.task[t].nice
  <2> HIDE DEF thread, Done
  <2> QED BY <1>1
<1>3. task \in [Tids -> Task]
  <2>1. \A t \in Tids : task[t] \in Task
    BY <1>2
  <2> HIDE DEF thread
  <2>2. QED
    BY <2>1
<1>4. ApplyNice(w, who) = [w EXCEPT !.k.task = task]
  BY DEF ApplyNice
<1> HIDE DEF task
<1>5. \A t \in Tids : Same(w.k.task[t], task[t])
  BY <1>2
<1>6. LET v == [w EXCEPT !.k.task = task]
      IN  /\ Steady(w, v) /\ SameMode(w, v) /\ v.g = w.g /\ v.k.task = task
          /\ v.k.minor = w.k.minor
  BY <1>3, <1>5, TaskSteady
<1>7. QED
  BY <1>2, <1>4, <1>6 DEF PlacesStay

LEMMA RestoreNiceEffect ==
    ASSUME NEW w \in Worlds, NEW force \in BOOLEAN
    PROVE  LET v == RestoreNice(w, force)
           IN  /\ Steady(w, v) /\ SameMode(w, v) /\ PlacesStay(w, v) /\ v.g = w.g
               /\ v.k.minor = w.k.minor
               /\ \A t \in Tids :
                    /\ v.k.task[t].lost = w.k.task[t].lost
                    /\ v.k.task[t].nice =
                         IF /\ Owned(w, t)
                            /\ Applied(w.g.records[t].nice) # w.g.records[t].nice
                            /\ \/ force
                               \/ w.k.task[t].nice = Applied(w.g.records[t].nice)
                         THEN w.g.records[t].nice ELSE w.k.task[t].nice
<1> DEFINE original(t) == w.g.records[t].nice
           back(t) == /\ Owned(w, t) /\ Applied(original(t)) # original(t)
                      /\ force \/ w.k.task[t].nice = Applied(original(t))
           thread(t) == [w.k.task[t] EXCEPT !.nice = original(t)]
           task == [t \in Tids |-> IF back(t) THEN thread(t) ELSE w.k.task[t]]
           Done(t, s) == /\ s \in Task /\ Same(w.k.task[t], s)
                         /\ SamePlace(w.k.task[t], s) /\ s.lost = w.k.task[t].lost
<1>1. ASSUME NEW t \in Tids
      PROVE  /\ Done(t, thread(t)) /\ thread(t).nice = original(t)
             /\ Done(t, w.k.task[t])
  <2>1. w.k.task[t] \in Task /\ original(t) \in Int
    BY WorldParts DEF Record
  <2>2. QED
    BY <2>1, NiceEffect DEF Same, SamePlace
<1>2. \A t \in Tids :
        /\ Done(t, task[t])
        /\ task[t].nice = IF back(t) THEN original(t) ELSE w.k.task[t].nice
  <2> HIDE DEF thread, Done, back, original
  <2> QED BY <1>1
<1>3. task \in [Tids -> Task]
  <2>1. \A t \in Tids : task[t] \in Task
    BY <1>2
  <2> HIDE DEF thread, back
  <2>2. QED
    BY <2>1
<1>4. RestoreNice(w, force) = [w EXCEPT !.k.task = task]
  BY DEF RestoreNice
<1> HIDE DEF task
<1>5. \A t \in Tids : Same(w.k.task[t], task[t])
  BY <1>2
<1>6. LET v == [w EXCEPT !.k.task = task]
      IN  /\ Steady(w, v) /\ SameMode(w, v) /\ v.g = w.g /\ v.k.task = task
          /\ v.k.minor = w.k.minor
  BY <1>3, <1>5, TaskSteady
<1>7. QED
  BY <1>2, <1>4, <1>6 DEF PlacesStay

LEMMA RestoreAffinityEffect ==
    ASSUME NEW w \in Worlds
    PROVE  LET v == RestoreAffinity(w)
           IN  /\ Steady(w, v) /\ SameMode(w, v) /\ NicesStay(w, v) /\ v.g = w.g
               /\ v.k.minor = w.k.minor
               /\ \A t \in Tids :
                    /\ v.k.task[t].group = w.k.task[t].group
                    /\ v.k.task[t].affinity =
                         IF Owned(w, t) /\ w.g.records[t].affinity # "none"
                         THEN w.g.records[t].affinity ELSE w.k.task[t].affinity
<1> DEFINE mask(t) == w.g.records[t].affinity
           back(t) == Owned(w, t) /\ mask(t) # "none"
           thread(t) == [w.k.task[t] EXCEPT !.affinity = mask(t)]
           task == [t \in Tids |-> IF back(t) THEN thread(t) ELSE w.k.task[t]]
           Done(t, s) == /\ s \in Task /\ Same(w.k.task[t], s)
                         /\ SameNice(w.k.task[t], s) /\ s.group = w.k.task[t].group
<1>1. ASSUME NEW t \in Tids
      PROVE  /\ mask(t) # "none" => Done(t, thread(t)) /\ thread(t).affinity = mask(t)
             /\ Done(t, w.k.task[t])
  <2>1. w.k.task[t] \in Task /\ mask(t) \in Masks \cup {"none"}
    BY WorldParts DEF Record
  <2> HIDE DEF mask
  <2>2. QED
    BY <2>1 DEF Task, Same, SameNice
<1>2. \A t \in Tids :
        /\ Done(t, task[t])
        /\ task[t].affinity = IF back(t) THEN mask(t) ELSE w.k.task[t].affinity
  <2>1. \A t \in Tids : back(t) => mask(t) # "none"
    OBVIOUS
  <2> HIDE DEF thread, Done, back, mask
  <2>2. QED
    BY <1>1, <2>1
<1>3. task \in [Tids -> Task]
  <2>1. \A t \in Tids : task[t] \in Task
    BY <1>2
  <2> HIDE DEF thread, back
  <2>2. QED
    BY <2>1
<1>4. RestoreAffinity(w) = [w EXCEPT !.k.task = task]
  BY DEF RestoreAffinity
<1> HIDE DEF task
<1>5. \A t \in Tids : Same(w.k.task[t], task[t])
  BY <1>2
<1>6. LET v == [w EXCEPT !.k.task = task]
      IN  /\ Steady(w, v) /\ SameMode(w, v) /\ v.g = w.g /\ v.k.task = task
          /\ v.k.minor = w.k.minor
  BY <1>3, <1>5, TaskSteady
<1>7. QED
  BY <1>2, <1>4, <1>6 DEF NicesStay

(* Writes beside the threads: minor_window_app, the trace, the timer.        *)
TasksStay(w, v) == v.k.task = w.k.task

LEMMA SetMinorEffect ==
    ASSUME NEW w \in Worlds, NEW m \in Apps \cup {NoApp}
    PROVE  LET v == [w EXCEPT !.k.minor = m]
           IN  Steady(w, v) /\ SameMode(w, v) /\ TasksStay(w, v)
<1>1. PICK v : v = [w EXCEPT !.k.minor = m]
  OBVIOUS
<1>2. v \in Worlds /\ v.g = w.g /\ v.bad = w.bad /\ v.k.task = w.k.task
      /\ v.k.clock = w.k.clock /\ v.k.used = w.k.used
      /\ v.k.perf = w.k.perf /\ v.k.ring = w.k.ring
  BY <1>1, SetMinor DEF Keeps, Worlds, Kernel
<1>3. QED
  BY <1>1, <1>2 DEF Steady, SameMode, TasksStay, Same

LEMMA MinorEffect ==
    ASSUME NEW w \in Worlds, NEW preserve \in BOOLEAN
    PROVE  LET v == RestoreMinor(w, preserve)
           IN  Steady(w, v) /\ SameMode(w, v) /\ TasksStay(w, v)
<1>1. /\ w.g.minor \in Apps \cup {NoApp} /\ NoApp \in Apps \cup {NoApp}
      /\ w.k.minor \in Apps \cup {NoApp}
  BY WorldParts
<1>2. \E m \in Apps \cup {NoApp} : RestoreMinor(w, preserve) = [w EXCEPT !.k.minor = m]
  BY <1>1 DEF RestoreMinor
<1>3. QED
  BY <1>2, SetMinorEffect

LEMMA ClearMinorEffect ==
    ASSUME NEW w \in Worlds, NEW a
    PROVE  LET v == ClearMinor(w, a)
           IN  Steady(w, v) /\ SameMode(w, v) /\ TasksStay(w, v)
<1>1. NoApp \in Apps \cup {NoApp} /\ w.k.minor \in Apps \cup {NoApp}
  BY WorldParts
<1>2. \E m \in Apps \cup {NoApp} : ClearMinor(w, a) = [w EXCEPT !.k.minor = m]
  BY <1>1 DEF ClearMinor
<1>3. QED
  BY <1>2, SetMinorEffect

LEMMA SetTraceEffect ==
    ASSUME NEW w \in Worlds, NEW on \in BOOLEAN
    PROVE  LET v == SetTrace(w, on)
           IN  /\ Steady(w, v) /\ TasksStay(w, v) /\ v.g.active = w.g.active
               /\ v.k.ring = w.k.ring
               /\ v.k.minor = w.k.minor
               /\ v.g.trace = w.g.trace \/ v.g.trace = on
               /\ "trace" \notin w.bad => v.g.trace = on
               /\ w.k.perf = w.g.trace /\ "trace" \notin w.bad
                    => v.k.perf = v.g.trace
<1>1. CASE w.g.trace = on
  BY <1>1 DEF SetTrace, Steady, TasksStay, Same
<1>2. CASE w.g.trace # on /\ "trace" \in w.bad
  <2>1. PICK v : v = [w EXCEPT !.k.perf = FALSE]
    OBVIOUS
  <2>2. v \in Worlds /\ v.g = w.g /\ v.bad = w.bad /\ v.k.task = w.k.task
        /\ v.k.clock = w.k.clock /\ v.k.used = w.k.used /\ v.k.ring = w.k.ring
        /\ v.k.minor = w.k.minor
    BY <2>1 DEF Worlds, Kernel
  <2>3. SetTrace(w, on) = v
    BY <1>2, <2>1 DEF SetTrace
  <2>4. QED
    BY <1>2, <2>2, <2>3 DEF Steady, TasksStay, Same
<1>3. CASE w.g.trace # on /\ "trace" \notin w.bad
  <2>1. PICK g : g = [w.g EXCEPT !.trace = on]
    OBVIOUS
  <2>2. PICK k : k = [w.k EXCEPT !.perf = on]
    OBVIOUS
  <2>3. /\ g \in Guard /\ g.running = w.g.running /\ g.armed = w.g.armed
        /\ g.active = w.g.active /\ g.pid = w.g.pid /\ g.app = w.g.app
        /\ g.start = w.g.start /\ g.records = w.g.records /\ g.trace = on
    BY <2>1 DEF Worlds, Guard
  <2>4. k \in Kernel /\ k.task = w.k.task /\ k.clock = w.k.clock
        /\ k.used = w.k.used /\ k.ring = w.k.ring /\ k.perf = on
        /\ k.minor = w.k.minor
    BY <2>2 DEF Worlds, Kernel
  <2>5. PICK v : v = [w EXCEPT !.g = g, !.k = k]
    OBVIOUS
  <2>6. v \in Worlds /\ v.g = g /\ v.k = k /\ v.bad = w.bad
    BY <2>3, <2>4, <2>5 DEF Worlds
  <2>7. SetTrace(w, on) = v
    BY <1>3, <2>1, <2>2, <2>5 DEF SetTrace
  <2>8. QED
    BY <2>3, <2>4, <2>6, <2>7 DEF Steady, TasksStay, Same
<1>4. QED
  BY <1>1, <1>2, <1>3

LEMMA InactiveEffect ==
    ASSUME NEW w \in Worlds
    PROVE  LET v == Inactive(w)
           IN  /\ Steady(w, v) /\ TasksStay(w, v) /\ ~v.g.active /\ v.k = w.k
               /\ v.g.trace = w.g.trace
<1>1. PICK g : g = [w.g EXCEPT !.active = FALSE]
  OBVIOUS
<1>2. /\ g \in Guard /\ g.running = w.g.running /\ g.armed = w.g.armed
      /\ ~g.active /\ g.pid = w.g.pid /\ g.app = w.g.app
      /\ g.start = w.g.start /\ g.records = w.g.records /\ g.trace = w.g.trace
  BY <1>1 DEF Worlds, Guard
<1>3. PICK v : v = [w EXCEPT !.g = g]
  OBVIOUS
<1>4. v \in Worlds /\ v.g = g /\ v.k = w.k /\ v.bad = w.bad
  BY <1>2, <1>3 DEF Worlds
<1>5. Inactive(w) = v
  BY <1>1, <1>3 DEF Inactive
<1>6. QED
  BY <1>2, <1>4, <1>5 DEF Steady, TasksStay, Same

LEMMA CancelTimerEffect ==
    ASSUME NEW w \in Worlds
    PROVE  LET v == CancelTimer(w)
           IN  Steady(w, v) /\ SameMode(w, v) /\ TasksStay(w, v)
<1>1. PICK g : g = [w.g EXCEPT !.completion = 0]
  OBVIOUS
<1>2. PICK k : k = [w.k EXCEPT !.timer = "off", !.timerApp = NoApp]
  OBVIOUS
<1>3. /\ g \in Guard /\ g.running = w.g.running /\ g.armed = w.g.armed
      /\ g.active = w.g.active /\ g.pid = w.g.pid /\ g.app = w.g.app
      /\ g.start = w.g.start /\ g.records = w.g.records /\ g.trace = w.g.trace
  BY <1>1 DEF Worlds, Guard
<1>4. k \in Kernel /\ k.task = w.k.task /\ k.clock = w.k.clock
      /\ k.used = w.k.used /\ k.ring = w.k.ring /\ k.perf = w.k.perf
  BY <1>2 DEF Worlds, Kernel
<1>5. PICK v : v = [w EXCEPT !.g = g, !.k = k]
  OBVIOUS
<1>6. v \in Worlds /\ v.g = g /\ v.k = k /\ v.bad = w.bad
  BY <1>3, <1>4, <1>5 DEF Worlds
<1>7. CancelTimer(w) = v
  BY <1>1, <1>2, <1>5 DEF CancelTimer, Worlds, Guard, Kernel
<1>8. QED
  BY <1>3, <1>4, <1>6, <1>7 DEF Steady, SameMode, TasksStay, Same

-----------------------------------------------------------------------------
(* The parts of the invariant under the operators                            *)

LEMMA SteadyThreads ==
    ASSUME NEW w, NEW v, Steady(w, v) PROVE SameThreads(w, v)
BY DEF Steady, SameThreads

LEMMA ThreadsTrans ==
    ASSUME NEW u, NEW v, NEW w, SameThreads(u, v), SameThreads(v, w)
    PROVE  SameThreads(u, w)
BY DEF SameThreads, Same

LEMMA SteadyAgrees ==
    ASSUME NEW w, Fit(w), NEW v, Steady(w, v)
    PROVE  /\ Alive(v.k.task) = Alive(w.k.task) /\ Alive(w.k.task) \subseteq Tids
           /\ SourceMatches(v) <=> SourceMatches(w)
           /\ \A t \in Tids : Owned(v, t) <=> Owned(w, t)
           /\ \A t \in Tids : ThreadGroup(v.k.task, t) = ThreadGroup(w.k.task, t)
<1>1. w \in Worlds /\ (w.g.armed => w.g.pid \in Tids)
  BY DEF Fit, Book
<1>2. ~w.g.armed => ~SourceMatches(w) /\ ~SourceMatches(v)
  BY DEF SourceMatches, Steady
<1>3. QED
  BY <1>1, <1>2, SteadyMeans DEF Alive

(* While the source lives its thread group is what its id leads.             *)
LEMMA GroupOfSource ==
    ASSUME NEW w, Fit(w), SourceMatches(w)
    PROVE  /\ w.g.pid \in Alive(w.k.task)
           /\ ThreadGroup(w.k.task, w.g.pid)
                = {t \in Alive(w.k.task) : w.k.task[t].leader = w.g.pid}
BY DEF Fit, Book, SourceMatches, ThreadGroup, Alive

LEMMA NiceStays ==
    ASSUME NEW w, Fit(w), NEW v, Steady(w, v), NicesStay(w, v)
    PROVE  /\ NiceHeld(w) => NiceHeld(v)
           /\ NiceDown(w) => NiceDown(v)
<1>1. \A t \in Alive(w.k.task) :
        /\ NiceKnown(w, t) => NiceKnown(v, t)
        /\ Raised(v.k.task[t]) => Raised(w.k.task[t])
        /\ Restorable(w, t) => Restorable(v, t)
  BY SteadyAgrees DEF NiceKnown, Raised, Restorable, NicesStay, SameNice, Steady, Same
<1>2. QED
  BY <1>1, SteadyAgrees DEF NiceHeld, NiceDown

LEMMA SourceStays ==
    ASSUME NEW w, Fit(w), NEW v, Steady(w, v), PlacesStay(w, v)
    PROVE  /\ Marked(w) => Marked(v)
           /\ Confined(w) => Confined(v)
           /\ Empty(w) => Empty(v)
<1>1. \A t \in Tids : /\ v.k.task[t].group = w.k.task[t].group
                      /\ v.k.task[t].affinity = w.k.task[t].affinity
                      /\ v.k.task[t].start = w.k.task[t].start
                      /\ v.k.task[t].leader = w.k.task[t].leader
  BY DEF PlacesStay, SamePlace, Steady, Same
<1>2. v.g.records = w.g.records /\ v.g.pid = w.g.pid
  BY DEF Steady
<1>3. QED
  BY <1>1, <1>2, SteadyAgrees DEF Marked, Confined, Empty, InSource

LEMMA TasksStaySame ==
    ASSUME NEW w, NEW v, TasksStay(w, v)
    PROVE  NicesStay(w, v) /\ PlacesStay(w, v)
BY DEF TasksStay, NicesStay, PlacesStay, SameNice, SamePlace

(* A thread moved out of the source groups is none of theirs, and all that   *)
(* were in them are moved.                                                   *)
LEMMA MovedOut ==
    ASSUME NEW w, Fit(w), SourceMatches(w), Marked(w), Confined(w),
           w.bad \cap Controllers = {}, NEW g \in Groups, g # "source"
    PROVE  Marked(MoveSource(w, g)) /\ Empty(MoveSource(w, g))
<1> DEFINE v == MoveSource(w, g)
           group == ThreadGroup(w.k.task, w.g.pid)
           task == Attach(w.k.task, group, Controllers \ w.bad, g)
<1>1. w \in Worlds /\ w.k.task \in [Tids -> Task]
  BY WorldParts DEF Fit
<1>2. Steady(w, v) /\ v.k.task = task
  BY <1>1, MoveSourceEffect
<1>3. Controllers \ w.bad = Controllers /\ "cpuset" \in Controllers
  BY DEF Controllers
<1>4. group = {t \in Alive(w.k.task) : w.k.task[t].leader = w.g.pid}
  BY GroupOfSource
<1>5. ASSUME NEW t \in Tids
      PROVE  /\ t \in group => /\ \A c \in Controllers : task[t].group[c] = g
                               /\ task[t].affinity \in {"full", w.k.task[t].affinity}
                               /\ w.k.task[t].group["cpuset"] # g
                                     => task[t].affinity = "full"
             /\ t \notin group => task[t] = w.k.task[t]
             /\ t \in group => t \in Alive(w.k.task)
  <2>1. w.k.task[t] \in Task
    BY <1>1
  <2>2. t \in group => t \in group \cap Alive(w.k.task)
    BY <1>4
  <2> HIDE DEF group
  <2>3. QED
    BY <1>1, <1>3, <2>2, AttachEffect DEF GroupMask
<1> HIDE DEF task, v
<1>6. Empty(v)
  <2>1. \A t \in Alive(w.k.task) : t \notin group => ~InSource(w.k.task[t])
    BY <1>4 DEF Confined
  <2> HIDE DEF group
  <2>2. QED
    BY <1>2, <1>5, <2>1, SteadyAgrees DEF Empty, InSource
<1>7. Marked(v)
  <2> SUFFICES ASSUME NEW t \in Tids
               PROVE  /\ v.g.records[t].start # 0 /\ v.k.task[t].start # 0
                           => Owned(v, t)
                      /\ v.k.task[t].affinity = "little" =>
                           /\ v.k.task[t].start # 0
                           /\ v.k.task[t].group["cpuset"] = "source"
                      /\ v.g.records[t].affinity # "little"
    BY DEF Marked
  <2>1. v.g.records = w.g.records /\ v.k.task[t].start = w.k.task[t].start
        /\ (Owned(v, t) <=> Owned(w, t))
    BY <1>2, SteadyAgrees DEF Steady, Same
  <2>2. v.k.task[t].affinity = "little" =>
          v.k.task[t].start # 0 /\ v.k.task[t].group["cpuset"] = "source"
    <3>1. w.k.task[t].affinity = "little" =>
            w.k.task[t].start # 0 /\ w.k.task[t].group["cpuset"] = "source"
      BY DEF Marked
    <3> HIDE DEF group
    <3>2. QED
      BY <1>2, <1>3, <1>5, <2>1, <3>1
  <2>3. QED
    BY <2>1, <2>2 DEF Marked
<1>8. QED
  BY <1>6, <1>7 DEF v

(* Every value that was raised and is not known to be lost is restored.      *)
LEMMA RestoredNice ==
    ASSUME NEW w, Fit(w), NiceHeld(w), NEW force \in BOOLEAN
    PROVE  NiceDown(RestoreNice(w, force))
<1> DEFINE v == RestoreNice(w, force)
<1>1. w \in Worlds
  BY DEF Fit
<1>2. /\ Steady(w, v)
      /\ \A t \in Tids :
           /\ v.k.task[t].lost = w.k.task[t].lost
           /\ v.k.task[t].nice =
                IF /\ Owned(w, t)
                   /\ Applied(w.g.records[t].nice) # w.g.records[t].nice
                   /\ \/ force
                      \/ w.k.task[t].nice = Applied(w.g.records[t].nice)
                THEN w.g.records[t].nice ELSE w.k.task[t].nice
  BY <1>1, RestoreNiceEffect
<1> HIDE DEF v
<1>3. ASSUME NEW t \in Alive(w.k.task) PROVE NiceKnown(v, t) /\ ~Raised(v.k.task[t])
  <2>1. t \in Tids /\ w.g.records[t].nice \in Int /\ w.k.task[t].nice \in Int
        /\ TargetNice \in Int
    BY <1>1, WorldParts, KernelAssumption DEF Alive, Record, Task
  <2>2. NiceKnown(w, t) /\ (Raised(w.k.task[t]) => Restorable(w, t))
    BY DEF NiceHeld
  <2>3. NiceKnown(v, t)
    BY <1>2, <2>1, <2>2, SteadyAgrees DEF NiceKnown, Steady, Same
  <2>4. ~Raised(v.k.task[t])
    BY <1>2, <2>1, <2>2 DEF Raised, Restorable, NiceKnown, Applied
  <2>5. QED
    BY <2>3, <2>4
<1>4. QED
  BY <1>2, <1>3, SteadyAgrees DEF NiceDown, v

(* A mask that is restored is none of the source group.                      *)
LEMMA RestoredMasks ==
    ASSUME NEW w, Fit(w), Marked(w)
    PROVE  /\ Marked(RestoreAffinity(w))
           /\ Empty(w) => Empty(RestoreAffinity(w))
<1> DEFINE v == RestoreAffinity(w)
<1>1. w \in Worlds
  BY DEF Fit
<1>2. /\ Steady(w, v)
      /\ \A t \in Tids :
           /\ v.k.task[t].group = w.k.task[t].group
           /\ v.k.task[t].affinity =
                IF Owned(w, t) /\ w.g.records[t].affinity # "none"
                THEN w.g.records[t].affinity ELSE w.k.task[t].affinity
  BY <1>1, RestoreAffinityEffect
<1> HIDE DEF v
<1>3. v.g.records = w.g.records
      /\ \A t \in Tids : v.k.task[t].start = w.k.task[t].start
  BY <1>2 DEF Steady, Same
<1>4. QED
  BY <1>2, <1>3, SteadyAgrees DEF Marked, Empty, InSource, v

-----------------------------------------------------------------------------
(* The ways out of suppression                                               *)

(* Suppression has ended and what it did to the threads is known ...         *)
Held(w) ==
    /\ Fit(w) /\ ~w.g.active
    /\ Reliable /\ ~TidReuse => Marked(w) /\ (w.g.running => Confined(w))
    /\ Reliable /\ LowNices => NiceHeld(w)
    /\ Faults = {} => w.k.perf = w.g.trace

(* ... or undone.                                                            *)
Down(w) ==
    /\ Fit(w) /\ ~w.g.active
    /\ Reliable /\ ~TidReuse => Marked(w) /\ (w.g.running => Empty(w))
    /\ Reliable /\ LowNices => NiceDown(w)
    /\ Faults = {} => w.k.perf = w.g.trace

LEMMA DownIsSound ==
    ASSUME NEW w, Down(w), NEW ring PROVE Sound(w, ring)
<1>1. NiceDown(w) => NiceKept(w)
  BY DEF NiceDown, NiceKept, NiceHeld
<1>2. Marked(w) /\ (w.g.running => Empty(w)) => SourceKept(w)
  BY DEF SourceKept, Confined, Empty
<1>3. QED
  BY <1>1, <1>2 DEF Down, Sound, Placed

LEMMA SoundIsDown ==
    ASSUME NEW w, NEW ring, Sound(w, ring), ~w.g.active PROVE Down(w)
BY DEF Down, Sound, SourceKept, NiceKept, Placed

LEMMA SoundStays ==
    ASSUME NEW w, NEW ring, Sound(w, ring),
           NEW v, Steady(w, v), TasksStay(w, v),
           v.g.active = w.g.active, v.g.trace = w.g.trace, v.k.perf = w.k.perf
    PROVE  Sound(v, ring)
<1>1. Fit(w)
  BY DEF Sound
<1>2. Fit(v)
  BY <1>1, SteadyFit DEF Fit, Book
<1>3. NicesStay(w, v) /\ PlacesStay(w, v)
  BY TasksStaySame
<1>4. v.g.running = w.g.running /\ v.g.pid = w.g.pid
  BY DEF Steady
<1>5. SourceKept(w) => SourceKept(v)
  BY <1>1, <1>3, <1>4, SourceStays DEF SourceKept
<1>6. NiceKept(w) => NiceKept(v)
  BY <1>1, <1>3, NiceStays DEF NiceKept
<1>7. Placed(w, ring) => Placed(v, ring)
  BY <1>1, <1>4, SteadyAgrees DEF Placed, Watched, TasksStay
<1>8. QED
  BY <1>2, <1>5, <1>6, <1>7 DEF Sound

LEMMA HeldStays ==
    ASSUME NEW w, Held(w), NEW v, Steady(w, v), TasksStay(w, v), SameMode(w, v)
    PROVE  /\ Held(v)
           /\ Reliable /\ ~TidReuse => (w.g.running /\ Empty(w) => Empty(v))
           /\ Reliable /\ LowNices => (NiceDown(w) => NiceDown(v))
<1>1. Fit(w)
  BY DEF Held
<1>2. Fit(v)
  BY <1>1, SteadyFit DEF SameMode, Held
<1>3. NicesStay(w, v) /\ PlacesStay(w, v)
  BY TasksStaySame
<1>4. QED
  BY <1>1, <1>2, <1>3, SourceStays, NiceStays DEF Held, SameMode, Steady

LEMMA DeactivateHeld ==
    ASSUME NEW w, NEW ring, Sound(w, ring)
    PROVE  Held(Deactivate(w)) /\ Steady(w, Deactivate(w))
           /\ TasksStay(w, Deactivate(w))
<1> DEFINE u == Inactive(w)
           v == SetTrace(u, FALSE)
<1>1. Fit(w) /\ w \in Worlds
  BY DEF Sound, Fit
<1>2. /\ Steady(w, u) /\ TasksStay(w, u) /\ ~u.g.active /\ u.k = w.k
      /\ u.g.trace = w.g.trace /\ u \in Worlds
  BY <1>1, InactiveEffect DEF Steady
<1>3. /\ Steady(u, v) /\ TasksStay(u, v) /\ v.g.active = u.g.active
      /\ u.k.perf = u.g.trace /\ "trace" \notin u.bad => v.k.perf = v.g.trace
  <2> HIDE DEF u
  <2> QED BY <1>2, SetTraceEffect
<1>4. Deactivate(w) = v
  BY DEF Deactivate, Inactive
<1> HIDE DEF u, v
<1>5. Steady(w, v) /\ TasksStay(w, v) /\ ~v.g.active
  BY <1>2, <1>3 DEF Steady, TasksStay, Same
<1>6. Fit(v)
  BY <1>1, <1>5, SteadyFit
<1>7. NicesStay(w, v) /\ PlacesStay(w, v)
  BY <1>5, TasksStaySame
<1>8. Faults = {} => v.k.perf = v.g.trace
  BY <1>1, <1>2, <1>3 DEF Sound, Placed, Steady, Worlds
<1>9. SourceKept(w) => Marked(v) /\ (v.g.running => Confined(v))
  BY <1>1, <1>5, <1>7, SourceStays DEF SourceKept, Steady
<1>10. NiceKept(w) => NiceHeld(v)
  BY <1>1, <1>5, <1>7, NiceStays DEF NiceKept
<1>11. QED
  BY <1>4, <1>5, <1>6, <1>8, <1>9, <1>10 DEF Held, Sound

(* Without a living source there is nothing to undo.                         *)
LEMMA HeldWithoutSource ==
    ASSUME NEW w, Held(w), ~SourceMatches(w) PROVE Down(w)
<1>1. Confined(w) => Empty(w)
  BY DEF Confined, Empty
<1>2. NiceHeld(w) => NiceDown(w)
  BY DEF NiceHeld, NiceDown, Restorable
<1>3. QED
  BY <1>1, <1>2 DEF Held, Down

LEMMA SteadyTrans ==
    ASSUME NEW u, NEW v, NEW w, Steady(u, v), Steady(v, w)
    PROVE  Steady(u, w)
BY DEF Steady, Same

(* The three writes that let a source go, each on what is held.              *)
LEMMA MoveOutHeld ==
    ASSUME NEW w, Held(w), SourceMatches(w), NEW g \in {"top", "background"}
    PROVE  LET v == MoveSource(w, g)
           IN  /\ Held(v) /\ Steady(w, v)
               /\ Reliable /\ ~TidReuse => Empty(v)
               /\ Reliable /\ LowNices => (NiceDown(w) => NiceDown(v))
<1> DEFINE v == MoveSource(w, g)
<1>1. Fit(w) /\ w \in Worlds /\ w.bad \subseteq Faults /\ w.g.running
  BY WorldParts DEF Held, Fit, Book, SourceMatches
<1>2. g \in Groups /\ g # "source"
  BY DEF Groups
<1>3. Steady(w, v) /\ SameMode(w, v) /\ NicesStay(w, v)
  BY <1>1, <1>2, MoveSourceEffect
<1>4. Reliable /\ ~TidReuse => Marked(v) /\ Empty(v)
  BY <1>1, <1>2, MovedOut DEF Reliable, Held
<1> HIDE DEF v
<1>5. Fit(v)
  BY <1>1, <1>3, SteadyFit DEF SameMode, Held
<1>6. Empty(v) => Confined(v)
  BY DEF Empty, Confined
<1>7. /\ NiceHeld(w) => NiceHeld(v)
      /\ NiceDown(w) => NiceDown(v)
  BY <1>1, <1>3, NiceStays
<1>8. QED
  BY <1>3, <1>4, <1>5, <1>6, <1>7 DEF Held, SameMode, v

LEMMA RestoreNiceHeld ==
    ASSUME NEW w, Held(w), NEW force \in BOOLEAN
    PROVE  LET v == RestoreNice(w, force)
           IN  /\ Held(v) /\ Steady(w, v)
               /\ Reliable /\ LowNices => NiceDown(v)
               /\ Reliable /\ ~TidReuse => (Empty(w) => Empty(v))
<1> DEFINE v == RestoreNice(w, force)
<1>1. Fit(w) /\ w \in Worlds
  BY DEF Held, Fit
<1>2. Steady(w, v) /\ SameMode(w, v) /\ PlacesStay(w, v)
  BY <1>1, RestoreNiceEffect
<1>3. NiceHeld(w) => NiceDown(v)
  BY <1>1, RestoredNice
<1> HIDE DEF v
<1>4. Fit(v)
  BY <1>1, <1>2, SteadyFit DEF SameMode, Held
<1>5. NiceDown(v) => NiceHeld(v)
  BY DEF NiceDown, NiceHeld
<1>6. /\ Marked(w) => Marked(v)
      /\ Confined(w) => Confined(v)
      /\ Empty(w) => Empty(v)
  BY <1>1, <1>2, SourceStays
<1>7. QED
  BY <1>2, <1>3, <1>4, <1>5, <1>6 DEF Held, SameMode, Steady, v

LEMMA RestoreAffinityHeld ==
    ASSUME NEW w, Held(w), Reliable /\ ~TidReuse => Empty(w)
    PROVE  LET v == RestoreAffinity(w)
           IN  /\ Held(v) /\ Steady(w, v)
               /\ Reliable /\ ~TidReuse => Empty(v)
<1> DEFINE v == RestoreAffinity(w)
<1>1. Fit(w) /\ w \in Worlds
  BY DEF Held, Fit
<1>2. Steady(w, v) /\ SameMode(w, v) /\ NicesStay(w, v)
  BY <1>1, RestoreAffinityEffect
<1>3. Marked(w) => Marked(v) /\ (Empty(w) => Empty(v))
  BY <1>1, RestoredMasks
<1> HIDE DEF v
<1>4. Fit(v)
  BY <1>1, <1>2, SteadyFit DEF SameMode, Held
<1>5. Empty(v) => Confined(v)
  BY DEF Empty, Confined
<1>6. NiceHeld(w) => NiceHeld(v)
  BY <1>1, <1>2, NiceStays
<1>7. QED
  BY <1>2, <1>3, <1>4, <1>5, <1>6 DEF Held, SameMode, v

LEMMA MinorHeld ==
    ASSUME NEW w, Held(w), NEW preserve \in BOOLEAN
    PROVE  LET v == RestoreMinor(w, preserve)
           IN  /\ Held(v) /\ Steady(w, v)
               /\ Reliable /\ ~TidReuse => (w.g.running /\ Empty(w) => Empty(v))
               /\ Reliable /\ LowNices => (NiceDown(w) => NiceDown(v))
<1>1. w \in Worlds
  BY DEF Held, Fit
<1>2. LET v == RestoreMinor(w, preserve)
      IN  Steady(w, v) /\ SameMode(w, v) /\ TasksStay(w, v)
  BY <1>1, MinorEffect
<1>3. QED
  BY <1>2, HeldStays

LEMMA ToTopDown ==
    ASSUME NEW w, Held(w), SourceMatches(w), NEW preserve \in BOOLEAN
    PROVE  Down(ToTop(w, preserve)) /\ Steady(w, ToTop(w, preserve))
<1> DEFINE w1 == MoveSource(w, "top")
           w2 == RestoreAffinity(w1)
           w3 == RestoreNice(w2, TRUE)
           w4 == RestoreMinor(w3, preserve)
<1>1. Held(w1) /\ Steady(w, w1) /\ (Reliable /\ ~TidReuse => Empty(w1))
  BY MoveOutHeld
<1>2. Held(w2) /\ Steady(w1, w2) /\ (Reliable /\ ~TidReuse => Empty(w2))
  <2> HIDE DEF w1
  <2> QED BY <1>1, RestoreAffinityHeld
<1>3. /\ Held(w3) /\ Steady(w2, w3) /\ (Reliable /\ ~TidReuse => Empty(w3))
      /\ Reliable /\ LowNices => NiceDown(w3)
  <2> HIDE DEF w2
  <2> QED BY <1>2, RestoreNiceHeld
<1>4. /\ Held(w4) /\ Steady(w3, w4) /\ (Reliable /\ ~TidReuse /\ w3.g.running => Empty(w4))
      /\ Reliable /\ LowNices => NiceDown(w4)
  <2> HIDE DEF w3
  <2> QED BY <1>3, MinorHeld
<1>5. ToTop(w, preserve) = w4
  BY DEF ToTop
<1> HIDE DEF w1, w2, w3, w4
<1>6. Steady(w, w4)
  BY <1>1, <1>2, <1>3, <1>4, SteadyTrans
<1>7. Down(w4)
  BY <1>4 DEF Held, Down, Steady
<1>8. QED
  BY <1>5, <1>6, <1>7

LEMMA ToBackgroundDown ==
    ASSUME NEW w, Held(w), SourceMatches(w), NEW preserve \in BOOLEAN
    PROVE  Down(ToBackground(w, preserve)) /\ Steady(w, ToBackground(w, preserve))
<1> DEFINE w1 == MoveSource(w, "background")
           w2 == RestoreNice(w1, FALSE)
           w3 == RestoreMinor(w2, preserve)
<1>1. Held(w1) /\ Steady(w, w1) /\ (Reliable /\ ~TidReuse => Empty(w1))
  BY MoveOutHeld
<1>2. /\ Held(w2) /\ Steady(w1, w2) /\ (Reliable /\ ~TidReuse => Empty(w2))
      /\ Reliable /\ LowNices => NiceDown(w2)
  <2> HIDE DEF w1
  <2> QED BY <1>1, RestoreNiceHeld
<1>3. /\ Held(w3) /\ Steady(w2, w3) /\ (Reliable /\ ~TidReuse /\ w2.g.running => Empty(w3))
      /\ Reliable /\ LowNices => NiceDown(w3)
  <2> HIDE DEF w2
  <2> QED BY <1>2, MinorHeld
<1>4. ToBackground(w, preserve) = w3
  BY DEF ToBackground
<1> HIDE DEF w1, w2, w3
<1>5. Steady(w, w3)
  BY <1>1, <1>2, <1>3, SteadyTrans
<1>6. Down(w3)
  BY <1>3 DEF Held, Down, Steady
<1>7. QED
  BY <1>4, <1>5, <1>6

(* A source that is left for another is let go before that one is armed.     *)
LEMMA AbandonDown ==
    ASSUME NEW w, NEW ring, Sound(w, ring)
    PROVE  Down(Abandon(w)) /\ Steady(w, Abandon(w))
<1> DEFINE quiet == Deactivate(w)
           w1 == RestoreNice(quiet, FALSE)
           w2 == RestoreMinor(w1, FALSE)
           w3 == MoveSource(w2, "background")
<1>1. Held(quiet) /\ Steady(w, quiet)
  BY DeactivateHeld
<1>2. CASE ~SourceMatches(quiet)
  <2>1. Abandon(w) = quiet
    BY <1>2 DEF Abandon
  <2> HIDE DEF quiet
  <2>2. QED
    BY <1>1, <1>2, <2>1, HeldWithoutSource
<1>3. CASE SourceMatches(quiet)
  <2>1. Held(w1) /\ Steady(quiet, w1) /\ (Reliable /\ LowNices => NiceDown(w1))
    <3> HIDE DEF quiet
    <3> QED BY <1>1, RestoreNiceHeld
  <2>2. Held(w2) /\ Steady(w1, w2) /\ (Reliable /\ LowNices => NiceDown(w2))
    <3> HIDE DEF w1
    <3> QED BY <2>1, MinorHeld
  <2>3. SourceMatches(w2)
    <3>1. Fit(quiet) /\ Fit(w1)
      BY <1>1, <2>1 DEF Held
    <3> HIDE DEF quiet, w1, w2
    <3>2. QED
      BY <1>3, <2>1, <2>2, <3>1, SteadyAgrees
  <2>4. /\ Held(w3) /\ Steady(w2, w3) /\ (Reliable /\ ~TidReuse => Empty(w3))
        /\ Reliable /\ LowNices => NiceDown(w3)
    <3> HIDE DEF w2
    <3> QED BY <2>2, <2>3, MoveOutHeld
  <2>5. Abandon(w) = w3
    BY <1>3 DEF Abandon
  <2> HIDE DEF quiet, w1, w2, w3
  <2>6. Steady(w, w3)
    BY <1>1, <2>1, <2>2, <2>4, SteadyTrans
  <2>7. Down(w3)
    BY <2>4 DEF Held, Down
  <2>8. QED
    BY <2>5, <2>6, <2>7
<1>4. QED
  BY <1>2, <1>3

(* Without its records and its source the guard has nothing to undo.         *)
NoRecords == [t \in Tids |-> NoRecord]

LEMMA IdleRecords ==
    ASSUME NEW g \in Guard
    PROVE  /\ Idle(g).records = NoRecords /\ Idle(g).trace = g.trace
           /\ Idle(g).pid = 0
           /\ \A t \in Tids : /\ Idle(g).records[t].start = 0
                              /\ Idle(g).records[t].affinity = "none"
<1> DEFINE none == NoRecords
<1>1. Idle(g) = [g EXCEPT !.armed = FALSE, !.active = FALSE, !.pid = 0, !.start = 0,
                          !.app = NoApp, !.minor = NoApp, !.records = none]
  BY DEF Idle, NoRecords
<1>2. \A t \in Tids : none[t].start = 0 /\ none[t].affinity = "none"
  BY DEF NoRecords, NoRecord
<1> HIDE DEF none
<1>3. Idle(g).records = none /\ Idle(g).trace = g.trace /\ Idle(g).pid = 0
  BY <1>1 DEF Guard
<1>4. QED
  BY <1>2, <1>3 DEF none

LEMMA DownForgotten == ASSUME NEW w, Down(w) PROVE Down(Forgotten(w))
<1>1. w \in Worlds /\ w.g \in Guard
  BY WorldParts DEF Down, Fit
<1>2. PICK v : v = Forgotten(w)
  OBVIOUS
<1>3. /\ v \in Worlds /\ v.k = w.k /\ ~v.g.armed /\ ~v.g.active
      /\ v.g.running = w.g.running
  BY <1>1, <1>2, ForgottenType
<1>4. /\ v.g.trace = w.g.trace
      /\ \A t \in Tids : /\ v.g.records[t].start = 0
                         /\ v.g.records[t].affinity = "none"
  BY <1>1, <1>2, IdleRecords DEF Forgotten, Worlds
<1>5. ~SourceMatches(v) /\ \A t \in Tids : ~Owned(v, t)
  BY <1>3, <1>4 DEF SourceMatches, Owned
<1>6. \A t \in Tids : 0 <= w.k.clock
  BY <1>1 DEF Worlds, Kernel
<1>7. Fit(v)
  BY <1>3, <1>4, <1>5, <1>6 DEF Down, Fit, Book
<1>8. NiceDown(w) => NiceDown(v)
  BY <1>3, <1>5 DEF NiceDown, NiceKnown, Alive
<1>9. Marked(w) /\ (w.g.running => Empty(w)) => Marked(v) /\ (v.g.running => Empty(v))
  BY <1>3, <1>4 DEF Marked, Empty
<1>10. QED
  BY <1>2, <1>3, <1>4, <1>7, <1>8, <1>9 DEF Down

LEMMA CancelTimerSound ==
    ASSUME NEW w, NEW ring, Sound(w, ring)
    PROVE  Sound(CancelTimer(w), ring) /\ Steady(w, CancelTimer(w))
           /\ SameMode(w, CancelTimer(w))
<1>1. w \in Worlds
  BY DEF Sound, Fit
<1>2. LET v == CancelTimer(w)
      IN  Steady(w, v) /\ SameMode(w, v) /\ TasksStay(w, v)
  BY <1>1, CancelTimerEffect
<1>3. QED
  BY <1>2, SoundStays DEF SameMode

(* A released source leaves the guard with nothing to undo.                  *)
LEMMA ReleaseSound ==
    ASSUME NEW w, NEW ring, Sound(w, ring), NEW p, NEW top \in BOOLEAN
    PROVE  /\ Sound(Release(w, p, top), ring)
           /\ SameThreads(w, Release(w, p, top))
<1> DEFINE cancelled == CancelTimer(w)
           quiet == Deactivate(cancelled)
           restored == IF ~SourceMatches(quiet) THEN quiet
                       ELSE IF top THEN ToTop(quiet, TRUE)
                       ELSE ToBackground(quiet, FALSE)
<1>1. Sound(cancelled, ring) /\ SameThreads(w, cancelled)
  BY CancelTimerSound, SteadyThreads
<1>2. Held(quiet) /\ SameThreads(cancelled, quiet)
  <2> HIDE DEF cancelled
  <2> QED BY <1>1, DeactivateHeld, SteadyThreads
<1>3. Down(restored) /\ SameThreads(quiet, restored)
  <2> HIDE DEF quiet
  <2>1. SameThreads(quiet, quiet)
    BY DEF SameThreads, Same
  <2>2. QED
    BY <1>2, <2>1, HeldWithoutSource, ToTopDown, ToBackgroundDown, SteadyThreads
<1>4. Down(Forgotten(restored)) /\ SameThreads(restored, Forgotten(restored))
  <2> HIDE DEF cancelled, quiet, restored
  <2> QED BY <1>3, DownForgotten, ForgottenType DEF Down, Fit, SameThreads, Same
<1>5. Release(w, p, top) = IF ~w.g.armed \/ w.g.pid # p THEN w
                           ELSE Forgotten(restored)
  BY DEF Release, Forgotten
<1>6. SameThreads(w, w)
  BY DEF SameThreads, Same
<1> HIDE DEF cancelled, quiet, restored
<1>7. QED
  BY <1>1, <1>2, <1>3, <1>4, <1>5, <1>6, DownIsSound, ThreadsTrans

LEMMA CompleteSourceSound ==
    ASSUME NEW w, NEW ring, Sound(w, ring), NEW id
    PROVE  /\ Sound(CompleteSource(w, id), ring)
           /\ SameThreads(w, CompleteSource(w, id))
<1> DEFINE cancelled == CancelTimer(w)
           quiet == Deactivate(cancelled)
           v == IF SourceMatches(quiet) THEN ToTop(quiet, TRUE) ELSE quiet
<1>1. Sound(cancelled, ring) /\ SameThreads(w, cancelled)
  BY CancelTimerSound, SteadyThreads
<1>2. Held(quiet) /\ SameThreads(cancelled, quiet)
  <2> HIDE DEF cancelled
  <2> QED BY <1>1, DeactivateHeld, SteadyThreads
<1>3. Sound(v, ring) /\ SameThreads(quiet, v)
  <2> HIDE DEF quiet
  <2>1. SameThreads(quiet, quiet)
    BY DEF SameThreads, Same
  <2>2. QED
    BY <1>2, <2>1, HeldWithoutSource, ToTopDown, DownIsSound, SteadyThreads
<1>4. CompleteSource(w, id) \in {w, v}
  BY DEF CompleteSource
<1>5. SameThreads(w, w)
  BY DEF SameThreads, Same
<1> HIDE DEF cancelled, quiet, v
<1>6. QED
  BY <1>1, <1>2, <1>3, <1>4, <1>5, ThreadsTrans

-----------------------------------------------------------------------------
(* The records                                                               *)

(* v has the kernel and the identity of w, and other records.                *)
OnlyRecords(w, v) ==
    /\ v \in Worlds /\ v.k = w.k /\ v.bad = w.bad
    /\ v.g.running = w.g.running /\ v.g.armed = w.g.armed
    /\ v.g.active = w.g.active /\ v.g.trace = w.g.trace
    /\ v.g.pid = w.g.pid /\ v.g.start = w.g.start /\ v.g.app = w.g.app

LEMMA RecordsEffect ==
    ASSUME NEW w \in Worlds, NEW records \in [Tids -> Record]
    PROVE  LET v == [w EXCEPT !.g.records = records]
           IN  OnlyRecords(w, v) /\ v.g.records = records
<1>1. PICK g : g = [w.g EXCEPT !.records = records]
  OBVIOUS
<1>2. /\ g \in Guard /\ g.running = w.g.running /\ g.armed = w.g.armed
      /\ g.active = w.g.active /\ g.trace = w.g.trace /\ g.pid = w.g.pid
      /\ g.start = w.g.start /\ g.app = w.g.app /\ g.records = records
  BY <1>1 DEF Worlds, Guard
<1>3. PICK v : v = [w EXCEPT !.g = g]
  OBVIOUS
<1>4. v \in Worlds /\ v.g = g /\ v.k = w.k /\ v.bad = w.bad
  BY <1>2, <1>3 DEF Worlds
<1>5. v = [w EXCEPT !.g.records = records]
  BY <1>1, <1>3
<1>6. QED
  BY <1>2, <1>4, <1>5 DEF OnlyRecords

(* r is the record of a thread of the source that has none yet.              *)
Enrolled(w, t, r) ==
    /\ t \in Alive(w.k.task) /\ w.k.task[t].leader = w.g.pid
    /\ w.k.task[t].app = w.g.app
    /\ w.k.task[t].start # w.g.records[t].start
    /\ r.start = w.k.task[t].start /\ r.nice = w.k.task[t].nice
    /\ r.affinity = IF w.g.active THEN "none" ELSE w.k.task[t].affinity

LEMMA RegisteredMeans ==
    ASSUME NEW w, NEW t \in Tids, t \in Alive(w.k.task),
           w.k.task[t].leader = w.g.pid
    PROVE  \/ Registered(w, t) = w.g.records[t]
           \/ Enrolled(w, t, Registered(w, t))
BY DEF Registered, Enrolled, FirstMask, Is

LEMMA EnrolSound ==
    ASSUME NEW w, NEW ring, Sound(w, ring), w.g.armed,
           NEW v, OnlyRecords(w, v),
           \A t \in Tids : \/ v.g.records[t] = w.g.records[t]
                           \/ Enrolled(w, t, v.g.records[t])
    PROVE  Sound(v, ring)
<1>1. Fit(w) /\ w \in Worlds /\ w.g.running
  BY DEF Sound, Fit, Book
<1>2. /\ v.k = w.k /\ v.g.armed /\ v.g.running /\ v.g.active = w.g.active
      /\ v.g.pid = w.g.pid /\ v.g.trace = w.g.trace /\ v \in Worlds
      /\ SourceMatches(v) <=> SourceMatches(w)
  BY <1>1 DEF OnlyRecords, SourceMatches
<1>3. \A t \in Tids : Enrolled(w, t, v.g.records[t]) => Owned(v, t) /\ ~Owned(w, t)
  BY <1>2 DEF Enrolled, Owned, Alive, OnlyRecords
<1>4. \A t \in Tids : v.g.records[t] = w.g.records[t]
                         => (Owned(v, t) <=> Owned(w, t))
  BY <1>2 DEF Owned, OnlyRecords
<1>5. Fit(v)
  <2>1. Book(w) /\ Kin(w.k)
    BY <1>1 DEF Fit
  <2>2. \A t \in Tids : Enrolled(w, t, v.g.records[t])
           => v.g.records[t].start <= w.k.clock /\ t \in w.k.used
    BY <2>1 DEF Enrolled, Kin, Alive
  <2>3. ASSUME NEW t \in Tids
        PROVE  /\ v.g.records[t].start <= v.k.clock
               /\ v.g.records[t].start # 0 => v.g.armed /\ t \in v.k.used
               /\ Owned(v, t) => v.k.task[t].leader = v.g.pid
    <3>1. CASE v.g.records[t] = w.g.records[t]
      BY <1>2, <1>4, <2>1, <3>1 DEF Book
    <3>2. CASE Enrolled(w, t, v.g.records[t])
      BY <1>2, <2>2, <3>2 DEF Enrolled
    <3>3. QED
      BY <3>1, <3>2
  <2>4. QED
    BY <1>2, <2>1, <2>3 DEF Fit, Book, OnlyRecords
<1>6. NiceKept(w) => NiceKept(v)
  <2> SUFFICES ASSUME NiceKept(w) PROVE NiceKept(v)
    OBVIOUS
  <2>1. ASSUME NEW t \in Alive(w.k.task)
        PROVE  /\ NiceKnown(v, t)
               /\ Raised(v.k.task[t]) => Restorable(v, t)
    <3>1. t \in Tids /\ NiceKnown(w, t)
          /\ (Raised(w.k.task[t]) => Restorable(w, t))
      BY DEF NiceKept, NiceHeld, Alive
    <3>2. CASE v.g.records[t] = w.g.records[t]
      BY <1>2, <1>4, <3>1, <3>2 DEF NiceKnown, Restorable, Raised
    <3>3. CASE Enrolled(w, t, v.g.records[t])
      BY <1>2, <1>3, <3>1, <3>3 DEF NiceKnown, Restorable, Raised, Enrolled
    <3>4. QED
      BY <3>1, <3>2, <3>3
  <2>2. \A t \in Alive(w.k.task) : Raised(v.k.task[t]) <=> Raised(w.k.task[t])
    BY <1>2
  <2>3. QED
    BY <1>2, <2>1, <2>2 DEF NiceKept, NiceHeld, NiceDown
<1>7. SourceKept(w) => SourceKept(v)
  <2> SUFFICES ASSUME SourceKept(w) PROVE SourceKept(v)
    OBVIOUS
  <2>1. Confined(v) /\ (v.g.active \/ Empty(v))
    BY <1>1, <1>2 DEF SourceKept, Confined, Empty
  <2>2. ASSUME NEW t \in Tids
        PROVE  /\ v.g.records[t].start # 0 /\ v.k.task[t].start # 0 => Owned(v, t)
               /\ v.k.task[t].affinity = "little" =>
                    /\ v.k.task[t].start # 0
                    /\ v.k.task[t].group["cpuset"] = "source"
               /\ v.g.records[t].affinity # "little"
    <3>1. /\ w.g.records[t].start # 0 /\ w.k.task[t].start # 0 => Owned(w, t)
          /\ w.k.task[t].affinity = "little" =>
               w.k.task[t].start # 0 /\ w.k.task[t].group["cpuset"] = "source"
          /\ w.g.records[t].affinity # "little"
      BY DEF SourceKept, Marked
    <3>2. CASE v.g.records[t] = w.g.records[t]
      BY <1>2, <1>4, <3>1, <3>2
    <3>3. CASE Enrolled(w, t, v.g.records[t])
      <4>1. Owned(v, t)
        BY <1>3, <3>3
      <4>2. w.g.active \/ w.k.task[t].group["cpuset"] # "source"
        BY <1>1, <3>3 DEF SourceKept, Empty, InSource, Controllers, Enrolled
      <4>3. QED
        BY <1>2, <3>1, <3>3, <4>1, <4>2 DEF Enrolled
    <3>4. QED
      BY <3>2, <3>3
  <2>3. QED
    BY <2>1, <2>2 DEF SourceKept, Marked
<1>8. Placed(w, ring) => Placed(v, ring)
  BY <1>2 DEF Placed, Watched
<1>9. QED
  BY <1>5, <1>6, <1>7, <1>8 DEF Sound

(* capture_baseline and register_task leave the state good: a refresh        *)
(* records threads of the source, because its main thread is its id.         *)
LEMMA RefreshSound ==
    ASSUME NEW w, NEW ring, Sound(w, ring), w.g.armed,
           w.k.task[w.g.pid].leader \in {0, w.g.pid}
    PROVE  Sound(Refresh(w), ring) /\ OnlyRecords(w, Refresh(w))
<1> DEFINE records == [t \in Tids |->
              IF t \in ThreadGroup(w.k.task, w.g.pid) THEN Registered(w, t)
              ELSE w.g.records[t]]
           v == [w EXCEPT !.g.records = records]
<1>1. w \in Worlds /\ Kin(w.k)
  BY DEF Sound, Fit
<1>2. records \in [Tids -> Record]
  BY <1>1, RegisteredType, WorldParts
<1>3. Refresh(w) = v
  BY DEF Refresh
<1>4. ASSUME NEW t \in ThreadGroup(w.k.task, w.g.pid)
      PROVE  t \in Tids /\ t \in Alive(w.k.task) /\ w.k.task[t].leader = w.g.pid
  <2>1. t \in Alive(w.k.task) /\ w.k.task[t].leader = w.k.task[w.g.pid].leader
    BY DEF ThreadGroup
  <2>2. t \in Tids /\ w.k.task[t].leader \in Tids
    BY <1>1, <2>1 DEF Kin, Led, Alive
  <2>3. 0 \notin Tids
    BY KernelAssumption
  <2>4. QED
    BY <2>1, <2>2, <2>3
<1>5. \A t \in Tids : \/ records[t] = w.g.records[t]
                      \/ Enrolled(w, t, records[t])
  BY <1>4, RegisteredMeans
<1> HIDE DEF records
<1>6. OnlyRecords(w, v) /\ v.g.records = records
  BY <1>1, <1>2, RecordsEffect
<1> HIDE DEF v
<1>7. Sound(v, ring)
  BY <1>5, <1>6, EnrolSound
<1>8. QED
  BY <1>3, <1>6, <1>7

(* A baseline is captured before suppression: what it records is as the      *)
(* application has it.                                                       *)
LEMMA CaptureSound ==
    ASSUME NEW w, NEW ring, Sound(w, ring), w.g.armed, ~w.g.active
    PROVE  Sound(CaptureBaseline(w), ring) /\ OnlyRecords(w, CaptureBaseline(w))
<1> DEFINE seen(t) == w.g.records[t].start # 0 /\ w.k.task[t].start # 0
           record(t) == [w.g.records[t] EXCEPT !.nice = w.k.task[t].nice,
                                               !.affinity = w.k.task[t].affinity]
           records == [t \in Tids |-> IF seen(t) THEN record(t) ELSE w.g.records[t]]
           v == [w EXCEPT !.g.records = records]
<1>1. Fit(w) /\ w \in Worlds /\ w.g.running
  BY DEF Sound, Fit, Book
<1>2. ASSUME NEW t \in Tids
      PROVE  /\ record(t) \in Record /\ record(t).start = w.g.records[t].start
             /\ record(t).nice = w.k.task[t].nice
             /\ record(t).affinity = w.k.task[t].affinity
  <2>1. w.g.records[t] \in Record /\ w.k.task[t] \in Task
    BY <1>1, WorldParts
  <2>2. QED
    BY <2>1 DEF Record, Task
<1>3. records \in [Tids -> Record]
  <2> HIDE DEF record, seen
  <2> QED BY <1>1, <1>2, WorldParts
<1>4. \A t \in Tids :
         /\ records[t].start = w.g.records[t].start
         /\ seen(t) => /\ records[t].nice = w.k.task[t].nice
                       /\ records[t].affinity = w.k.task[t].affinity
         /\ ~seen(t) => records[t] = w.g.records[t]
  <2> HIDE DEF record, seen
  <2> QED BY <1>2
<1>5. CaptureBaseline(w) = v
  BY DEF CaptureBaseline
<1> HIDE DEF records, record
<1>6. OnlyRecords(w, v) /\ v.g.records = records
  BY <1>1, <1>3, RecordsEffect
<1> HIDE DEF v
<1>7. /\ v.k = w.k /\ v.g.armed /\ v.g.running /\ ~v.g.active
      /\ v.g.pid = w.g.pid /\ v.g.trace = w.g.trace /\ v \in Worlds
      /\ SourceMatches(v) <=> SourceMatches(w)
      /\ \A t \in Tids : Owned(v, t) <=> Owned(w, t)
  BY <1>1, <1>4, <1>6 DEF OnlyRecords, SourceMatches, Owned
<1>8. Fit(v)
  BY <1>1, <1>4, <1>6, <1>7 DEF Fit, Book, OnlyRecords
<1>9. NiceKept(w) => NiceDown(v)
  <2> SUFFICES ASSUME NiceKept(w), NEW t \in Alive(w.k.task)
               PROVE  NiceKnown(v, t) /\ ~Raised(v.k.task[t])
    BY <1>7 DEF NiceDown
  <2>1. t \in Tids /\ NiceKnown(w, t) /\ ~Raised(w.k.task[t])
    BY DEF NiceKept, NiceDown, Alive
  <2>2. Owned(w, t) => seen(t)
    BY DEF Owned
  <2>3. QED
    BY <1>4, <1>6, <1>7, <2>1, <2>2 DEF NiceKnown, Raised
<1>10. SourceKept(w) => Marked(v) /\ Empty(v)
  <2> SUFFICES ASSUME SourceKept(w) PROVE Marked(v) /\ Empty(v)
    OBVIOUS
  <2>1. Empty(v) /\ Empty(w)
    BY <1>1, <1>7 DEF SourceKept, Empty
  <2>2. \A t \in Tids : seen(t) => w.k.task[t].group["cpuset"] # "source"
    BY <2>1 DEF Empty, InSource, Controllers, Alive
  <2>3. Marked(v)
    BY <1>4, <1>6, <1>7, <2>2 DEF SourceKept, Marked
  <2>4. QED
    BY <2>1, <2>3
<1>11. Down(v)
  BY <1>7, <1>8, <1>9, <1>10 DEF Sound, Down, Placed
<1>12. QED
  BY <1>5, <1>6, <1>11, DownIsSound

-----------------------------------------------------------------------------
(* The ways into suppression                                                 *)

LEMMA RecordsThreads ==
    ASSUME NEW w, NEW v, OnlyRecords(w, v) PROVE SameThreads(w, v)
BY DEF OnlyRecords, SameThreads, Same

(* The record of a living main thread's process id is its own.               *)
LEMMA LivingLeads ==
    ASSUME NEW w, Fit(w), NEW p \in Tids, w.k.task[p].leader \in {0, p},
           w.k.task[p].start # 0
    PROVE  w.k.task[p].leader = p
<1>1. w.k.task[p].leader \in Tids
  BY DEF Fit, Kin, Led, Alive
<1>2. 0 \notin Tids
  BY KernelAssumption
<1>3. QED
  BY <1>1, <1>2

(* A guard that has let go of its source takes a living process for the next.*)
Rearmed(w, p, a) ==
    [w EXCEPT !.g = [Idle(@) EXCEPT
        !.armed = TRUE, !.pid = p, !.app = a,
        !.start = w.k.task[p].start, !.minor = w.k.minor]]

LEMMA ArmFreshDown ==
    ASSUME NEW w, Down(w), w.g.running, NEW p \in Tids, NEW a \in Apps,
           w.k.task[p].leader = p, w.k.task[p].start # 0, w.k.task[p].app = a
    PROVE  LET v == Rearmed(w, p, a)
           IN  /\ Down(v) /\ v.g.armed /\ v.g.pid = p /\ SameThreads(w, v)
               /\ v.k = w.k
<1>1. w \in Worlds /\ w.g \in Guard /\ Fit(w)
  BY WorldParts DEF Down, Fit
<1>2. PICK start : start = w.k.task[p].start
  OBVIOUS
<1>3. PICK minor : minor = w.k.minor
  OBVIOUS
<1>4. start \in 0..MaxStart /\ minor \in Apps \cup {NoApp} /\ start <= w.k.clock
      /\ start # 0
  <2>1. w.k.task[p] \in Task /\ w.k.minor \in Apps \cup {NoApp}
    BY <1>1, WorldParts
  <2>2. QED
    BY <1>1, <1>2, <1>3, <2>1 DEF Fit, Kin, Task
<1>5. PICK idle : idle = Idle(w.g)
  OBVIOUS
<1>6. /\ idle \in Guard /\ ~idle.active /\ idle.running = w.g.running
      /\ idle.trace = w.g.trace
      /\ \A t \in Tids : /\ idle.records[t].start = 0
                         /\ idle.records[t].affinity = "none"
  BY <1>1, <1>5, IdleType, IdleRecords
<1>7. PICK g : g = [idle EXCEPT !.armed = TRUE, !.pid = p, !.app = a,
                                !.start = start, !.minor = minor]
  OBVIOUS
<1>8. /\ g \in Guard /\ ~g.active /\ g.running /\ g.trace = w.g.trace
      /\ g.armed /\ g.pid = p /\ g.app = a /\ g.start = start
      /\ g.records = idle.records
  BY <1>4, <1>6, <1>7 DEF Guard
<1>9. PICK v : v = [w EXCEPT !.g = g]
  OBVIOUS
<1>10. v \in Worlds /\ v.g = g /\ v.k = w.k /\ v.bad = w.bad
  BY <1>1, <1>8, <1>9 DEF Worlds
<1>11. v = Rearmed(w, p, a)
  BY <1>2, <1>3, <1>5, <1>7, <1>9 DEF Rearmed
<1>12. \A t \in Tids : ~Owned(v, t)
  BY <1>6, <1>8, <1>10 DEF Owned
<1>13. Fit(v)
  <2>1. 0 <= w.k.clock
    BY <1>1 DEF Worlds, Kernel
  <2>2. QED
    BY <1>1, <1>4, <1>6, <1>8, <1>10, <1>12, <2>1 DEF Fit, Book
<1>14. NiceDown(w) => NiceDown(v)
  BY <1>10, <1>12 DEF NiceDown, NiceKnown, Alive
<1>15. Marked(w) /\ Empty(w) => Marked(v) /\ Empty(v)
  BY <1>6, <1>8, <1>10 DEF Marked, Empty
<1>16. Down(v)
  BY <1>8, <1>10, <1>13, <1>14, <1>15 DEF Down
<1>17. SameThreads(w, v)
  BY <1>8, <1>10 DEF SameThreads, Same
<1>18. QED
  BY <1>8, <1>10, <1>11, <1>16, <1>17

LEMMA ArmSound ==
    ASSUME NEW w, NEW ring, Sound(w, ring), w.g.running,
           NEW p \in Tids, NEW a \in Apps, w.k.task[p].leader \in {0, p}
    PROVE  Sound(Arm(w, p, a), ring) /\ SameThreads(w, Arm(w, p, a))
<1> DEFINE free == IF w.g.active /\ ~SameSource(w, p, a) THEN Abandon(w) ELSE w
           fresh == Rearmed(free, p, a)
<1>1. Fit(w) /\ w \in Worlds
  BY DEF Sound, Fit
<1>2. CASE ~Is(w, p, a)
  BY <1>2 DEF Arm, SameThreads, Same
<1>3. CASE Is(w, p, a) /\ w.g.armed /\ SameSource(w, p, a)
  <2>1. Arm(w, p, a) = Refresh(w)
    BY <1>3 DEF Arm
  <2>2. w.g.pid = p
    BY <1>3 DEF SameSource
  <2>3. QED
    BY <1>3, <2>1, <2>2, RefreshSound, RecordsThreads
<1>4. CASE Is(w, p, a) /\ ~(w.g.armed /\ SameSource(w, p, a))
  <2>1. Arm(w, p, a) = Refresh(fresh)
    BY <1>4 DEF Arm, Rearmed
  <2>2. Down(free) /\ SameThreads(w, free)
    <3>1. CASE w.g.active
      <4>1. free = Abandon(w)
        BY <1>1, <1>4, <3>1 DEF Fit, Book
      <4>2. QED
        BY <4>1, AbandonDown DEF SameThreads, Steady
    <3>2. CASE ~w.g.active
      BY <3>2, SoundIsDown DEF SameThreads, Same
    <3>3. QED
      BY <3>1, <3>2
  <2>3. w.k.task[p].leader = p /\ w.k.task[p].start # 0 /\ w.k.task[p].app = a
    BY <1>1, <1>4, LivingLeads DEF Is
  <2> HIDE DEF free
  <2>4. free.k.task[p].leader = p /\ free.k.task[p].start # 0
        /\ free.k.task[p].app = a /\ free.g.running
    BY <2>2, <2>3 DEF SameThreads, Same
  <2>5. /\ Down(fresh) /\ fresh.g.armed /\ fresh.g.pid = p
        /\ SameThreads(free, fresh) /\ fresh.k = free.k
    BY <2>2, <2>4, ArmFreshDown
  <2> HIDE DEF fresh
  <2>6. Sound(fresh, ring)
    BY <2>5, DownIsSound
  <2>7. Sound(Refresh(fresh), ring) /\ OnlyRecords(fresh, Refresh(fresh))
    BY <2>4, <2>5, <2>6, RefreshSound
  <2>8. SameThreads(w, Refresh(fresh))
    BY <2>2, <2>5, <2>7, RecordsThreads, ThreadsTrans
  <2>9. QED
    BY <2>1, <2>7, <2>8
<1>5. QED
  BY <1>2, <1>3, <1>4

(* Threads of the source moved into its groups.                              *)
LEMMA MovedIn ==
    ASSUME NEW w, Fit(w), NEW who, w.bad \cap Controllers = {}
    PROVE  LET v == Move(w, who, "source")
           IN  /\ \A t \in Tids :
                    IF t \in who \cap Alive(w.k.task)
                    THEN v.k.task[t].group = In("source")
                    ELSE v.k.task[t] = w.k.task[t]
               /\ Marked(w) => Marked(v)
               /\ (/\ Confined(w) /\ SourceMatches(w)
                   /\ \A t \in who \cap Alive(w.k.task) :
                         w.k.task[t].leader = w.g.pid) => Confined(v)
<1> DEFINE v == Move(w, who, "source")
           task == Attach(w.k.task, who, Controllers \ w.bad, "source")
<1>1. w \in Worlds /\ w.k.task \in [Tids -> Task] /\ "source" \in Groups
  BY WorldParts DEF Fit, Groups
<1>2. Steady(w, v) /\ v.k.task = task
  BY <1>1, MoveEffect
<1>3. Controllers \ w.bad = Controllers /\ "cpuset" \in Controllers
  BY DEF Controllers
<1>4. ASSUME NEW t \in Tids
      PROVE  IF t \in who \cap Alive(w.k.task)
             THEN task[t].group = In("source") ELSE task[t] = w.k.task[t]
  <2>1. CASE t \in who \cap Alive(w.k.task)
    <3>1. /\ \A c \in Controllers :
               task[t].group[c] = IF c \in Controllers \ w.bad THEN "source"
                                  ELSE w.k.task[t].group[c]
          /\ task[t].group \in [Controllers -> Groups]
      <4>1. ASSUME NEW cs
            PROVE  /\ \A c \in Controllers :
                        Attach(w.k.task, who, cs, "source")[t].group[c]
                          = IF c \in cs THEN "source" ELSE w.k.task[t].group[c]
                   /\ Attach(w.k.task, who, cs, "source")[t].group
                        \in [Controllers -> Groups]
        BY <1>1, <2>1, AttachedGroup
      <4>2. QED
        BY <4>1
    <3> HIDE DEF task
    <3>2. task[t].group = In("source")
      BY <1>3, <3>1 DEF In
    <3>3. QED
      BY <2>1, <3>2
  <2>2. CASE t \notin who \cap Alive(w.k.task)
    BY <1>1, <2>2, AttachEffect
  <2>3. QED
    BY <2>1, <2>2
<1> HIDE DEF task, v
<1>5. In("source")["cpuset"] = "source"
  BY <1>3 DEF In
<1>6. Marked(w) => Marked(v)
  <2> SUFFICES ASSUME Marked(w), NEW t \in Tids
               PROVE  /\ v.g.records[t].start # 0 /\ v.k.task[t].start # 0
                           => Owned(v, t)
                      /\ v.k.task[t].affinity = "little" =>
                           /\ v.k.task[t].start # 0
                           /\ v.k.task[t].group["cpuset"] = "source"
                      /\ v.g.records[t].affinity # "little"
    BY DEF Marked
  <2>1. v.g.records = w.g.records /\ v.k.task[t].start = w.k.task[t].start
        /\ (Owned(v, t) <=> Owned(w, t))
    BY <1>2, SteadyAgrees DEF Steady, Same
  <2>2. v.k.task[t].affinity = "little" =>
          v.k.task[t].start # 0 /\ v.k.task[t].group["cpuset"] = "source"
    BY <1>2, <1>4, <1>5, <2>1 DEF Marked, Alive
  <2>3. QED
    BY <2>1, <2>2 DEF Marked
<1>7. ASSUME Confined(w), SourceMatches(w),
             \A t \in who \cap Alive(w.k.task) : w.k.task[t].leader = w.g.pid
      PROVE  Confined(v)
  <2> SUFFICES ASSUME NEW t \in Alive(v.k.task), InSource(v.k.task[t])
               PROVE  SourceMatches(v) /\ v.k.task[t].leader = v.g.pid
    BY DEF Confined
  <2>1. t \in Tids /\ t \in Alive(w.k.task) /\ SourceMatches(v)
        /\ v.k.task[t].leader = w.k.task[t].leader /\ v.g.pid = w.g.pid
    BY <1>2, <1>7, SteadyAgrees DEF Steady, Same
  <2>2. w.k.task[t].leader = w.g.pid
    BY <1>2, <1>4, <1>7, <2>1 DEF Confined
  <2>3. QED
    BY <2>1, <2>2
<1>8. QED
  BY <1>2, <1>4, <1>6, <1>7 DEF v

(* A nice value that is applied is one the record restores.                  *)
LEMMA AppliedNice ==
    ASSUME NEW w, Fit(w), SourceMatches(w), NiceHeld(w), NEW who
    PROVE  NiceHeld(ApplyNice(w, who))
<1> DEFINE v == ApplyNice(w, who)
<1>1. w \in Worlds
  BY DEF Fit
<1>2. /\ Steady(w, v)
      /\ \A t \in Tids :
           /\ v.k.task[t].lost = w.k.task[t].lost
           /\ v.k.task[t].nice = IF t \in who /\ Owned(w, t)
                                 THEN Applied(w.g.records[t].nice)
                                 ELSE w.k.task[t].nice
  BY <1>1, ApplyNiceEffect
<1> HIDE DEF v
<1>3. SourceMatches(v) /\ v.g.records = w.g.records
  BY <1>2, SteadyAgrees DEF Steady
<1>4. ASSUME NEW t \in Alive(w.k.task)
      PROVE  NiceKnown(v, t) /\ (Raised(v.k.task[t]) => Restorable(v, t))
  <2>1. t \in Tids /\ w.g.records[t].nice \in Int /\ w.k.task[t].nice \in Int
        /\ TargetNice \in Int
    BY <1>1, WorldParts, KernelAssumption DEF Alive, Record, Task
  <2>2. NiceKnown(w, t) /\ (Raised(w.k.task[t]) => Restorable(w, t))
    BY DEF NiceHeld
  <2>3. (Owned(v, t) <=> Owned(w, t)) /\ v.k.task[t].own = w.k.task[t].own
    BY <1>2, <2>1, SteadyAgrees DEF Steady, Same
  <2>4. NiceKnown(v, t)
    BY <1>2, <1>3, <2>1, <2>2, <2>3 DEF NiceKnown
  <2>5. Raised(v.k.task[t]) => Restorable(v, t)
    BY <1>2, <1>3, <2>1, <2>2, <2>3 DEF Raised, Restorable, NiceKnown, Applied
  <2>6. QED
    BY <2>4, <2>5
<1>5. QED
  BY <1>2, <1>4, SteadyAgrees DEF NiceHeld, v

(* activate_source, from a world in which the source lives.                  *)
LEMMA ActivatedWorld ==
    ASSUME NEW w \in Worlds
    PROVE  LET v == [w EXCEPT !.g.active = TRUE]
           IN  /\ Steady(w, v) /\ TasksStay(w, v) /\ v.g.active
               /\ v.g.trace = w.g.trace /\ v.k = w.k
<1>1. PICK g : g = [w.g EXCEPT !.active = TRUE]
  OBVIOUS
<1>2. /\ g \in Guard /\ g.running = w.g.running /\ g.armed = w.g.armed
      /\ g.active /\ g.pid = w.g.pid /\ g.app = w.g.app
      /\ g.start = w.g.start /\ g.records = w.g.records /\ g.trace = w.g.trace
  BY <1>1 DEF Worlds, Guard
<1>3. PICK v : v = [w EXCEPT !.g = g]
  OBVIOUS
<1>4. v \in Worlds /\ v.g = g /\ v.k = w.k /\ v.bad = w.bad
  BY <1>2, <1>3 DEF Worlds
<1>5. v = [w EXCEPT !.g.active = TRUE]
  BY <1>1, <1>3
<1>6. QED
  BY <1>2, <1>4, <1>5 DEF Steady, TasksStay, Same

LEMMA SuppressSound ==
    ASSUME NEW w, NEW ring, Sound(w, ring), NEW p, NEW a
    PROVE  Sound(Suppress(w, p, a), ring) /\ SameThreads(w, Suppress(w, p, a))
<1> DEFINE based == IF w.g.active THEN w ELSE CaptureBaseline(w)
           on == [based EXCEPT !.g.active = TRUE]
           watched == SetTrace(on, TRUE)
           cleared == ClearMinor(watched, a)
           moved == MoveSource(cleared, "source")
           v == Suppress(w, p, a)
<1>1. CASE ~SourceMatches(w)
  BY <1>1 DEF Suppress, SameThreads, Same
<1>2. CASE SourceMatches(w)
  <2>1. Fit(w) /\ w \in Worlds /\ w.g.armed
    BY <1>2 DEF Sound, Fit, SourceMatches
  <2>2. /\ Sound(based, ring) /\ SameThreads(w, based) /\ SourceMatches(based)
        /\ based.g.active = w.g.active /\ based.bad = w.bad /\ based.g.armed
    <3>1. CASE w.g.active
      BY <1>2, <2>1, <3>1 DEF SameThreads, Same
    <3>2. CASE ~w.g.active
      BY <1>2, <2>1, <3>2, CaptureSound, RecordsThreads
         DEF OnlyRecords, SourceMatches
    <3>3. QED
      BY <3>1, <3>2
  <2> HIDE DEF based
  <2>3. Fit(based) /\ based \in Worlds /\ based.bad \subseteq Faults
    BY <2>2, WorldParts DEF Sound, Fit
  <2>4. /\ Steady(based, on) /\ TasksStay(based, on) /\ on.g.active
        /\ on.g.trace = based.g.trace /\ on.k = based.k /\ on \in Worlds
    BY <2>3, ActivatedWorld DEF Steady
  <2> HIDE DEF on
  <2>5. /\ Steady(on, watched) /\ TasksStay(on, watched) /\ watched.g.active
        /\ watched.g.trace = on.g.trace \/ watched.g.trace = TRUE
        /\ on.k.perf = on.g.trace /\ "trace" \notin on.bad
             => watched.k.perf = watched.g.trace
        /\ watched \in Worlds
    BY <2>4, SetTraceEffect DEF Steady
  <2>6. Steady(based, watched) /\ TasksStay(based, watched)
    BY <2>4, <2>5, SteadyTrans DEF TasksStay
  <2>7. Faults = {} => watched.k.perf = watched.g.trace
    BY <2>2, <2>3, <2>4, <2>5 DEF Sound, Placed, Steady
  <2> HIDE DEF watched
  <2>8. CASE ~watched.g.trace
    <3>1. v = Inactive(watched)
      BY <1>2, <2>8 DEF Suppress, Inactive, based, on, watched
    <3>2. Steady(watched, v) /\ TasksStay(watched, v) /\ ~v.g.active
          /\ v.k = watched.k /\ v.g.trace = watched.g.trace
      BY <2>5, <3>1, InactiveEffect
    <3> HIDE DEF v
    <3>3. Steady(based, v) /\ TasksStay(based, v)
      BY <2>6, <3>2, SteadyTrans DEF TasksStay
    <3>4. Fit(v)
      BY <2>3, <3>2, <3>3, SteadyFit
    <3>5. ~based.g.active
      BY <2>3, <2>4, <2>5, <2>8 DEF Fit, Book, Worlds, Guard
    <3>6. Down(based)
      BY <2>2, <3>5, SoundIsDown
    <3>7. NicesStay(based, v) /\ PlacesStay(based, v)
      BY <3>3, TasksStaySame
    <3>8. Down(v)
      BY <2>3, <2>7, <3>2, <3>3, <3>4, <3>6, <3>7, NiceStays, SourceStays
         DEF Down, Steady
    <3>9. SameThreads(w, v)
      BY <2>2, <3>3, ThreadsTrans DEF Steady, SameThreads
    <3>10. QED
      BY <3>8, <3>9, DownIsSound DEF v
  <2>9. /\ Steady(watched, cleared) /\ TasksStay(watched, cleared)
        /\ SameMode(watched, cleared) /\ cleared \in Worlds
    BY <2>5, ClearMinorEffect DEF Steady
  <2>10. Steady(based, cleared) /\ TasksStay(based, cleared)
    BY <2>6, <2>9, SteadyTrans DEF TasksStay
  <2> HIDE DEF cleared
  <2>11. "source" \in Groups
    BY DEF Groups
  <2>12. Steady(cleared, moved) /\ SameMode(cleared, moved) /\ NicesStay(cleared, moved)
         /\ moved \in Worlds
    BY <2>9, <2>11, MoveSourceEffect DEF Steady
  <2>13. Steady(based, moved) /\ moved.g.active
         /\ moved.g.trace = watched.g.trace /\ moved.k.perf = watched.k.perf
    BY <2>5, <2>9, <2>10, <2>12, SteadyTrans DEF SameMode
  <2>14. CASE watched.g.trace /\ w.bad \cap Controllers # {}
    <3>1. v = Deactivate(moved)
      BY <1>2, <2>14 DEF Suppress, based, on, watched, cleared
    <3> HIDE DEF v, moved
    <3>2. Steady(moved, v) /\ ~v.g.active
      <4>1. PICK quiet : quiet = Inactive(moved)
        OBVIOUS
      <4>2. Steady(moved, quiet) /\ ~quiet.g.active /\ quiet \in Worlds
        BY <2>12, <4>1, InactiveEffect DEF Steady
      <4>3. v = SetTrace(quiet, FALSE)
        BY <3>1, <4>1 DEF Deactivate, Inactive
      <4>4. Steady(quiet, v) /\ v.g.active = quiet.g.active
        BY <4>2, <4>3, SetTraceEffect
      <4>5. QED
        BY <4>2, <4>4, SteadyTrans
    <3>3. Steady(based, v)
      BY <2>13, <3>2, SteadyTrans
    <3>4. Fit(v)
      BY <2>3, <3>2, <3>3, SteadyFit
    <3>5. ~Reliable /\ Faults # {}
      BY <2>2, <2>3, <2>14 DEF Reliable
    <3>6. SameThreads(w, v)
      BY <2>2, <3>3, ThreadsTrans DEF Steady, SameThreads
    <3>7. QED
      BY <3>4, <3>5, <3>6 DEF Sound, v
  <2>15. CASE watched.g.trace /\ w.bad \cap Controllers = {}
    <3>1. v = ApplyNice(moved, Tids)
      BY <1>2, <2>15 DEF Suppress, based, on, watched, cleared
    <3> DEFINE who == ThreadGroup(cleared.k.task, cleared.g.pid)
    <3>2. moved = Move(cleared, who, "source")
      BY DEF MoveSource
    <3>3. Fit(cleared) /\ Fit(moved) /\ SourceMatches(cleared) /\ SourceMatches(moved)
      <4>1. cleared.g.active => based.g.armed /\ cleared.g.trace
        BY <2>2, <2>9, <2>15 DEF SameMode
      <4>2. Fit(cleared) /\ SourceMatches(cleared)
        BY <2>2, <2>3, <2>10, <4>1, SteadyFit, SteadyAgrees
      <4>3. Fit(moved) /\ SourceMatches(moved)
        <5> HIDE DEF moved
        <5> QED BY <2>2, <2>3, <2>13, <2>15, SteadyFit, SteadyAgrees
      <4>4. QED
        BY <4>2, <4>3
    <3>4. who = {t \in Alive(cleared.k.task) : cleared.k.task[t].leader = cleared.g.pid}
      BY <3>3, GroupOfSource
    <3>5. cleared.bad \cap Controllers = {}
      BY <2>2, <2>10, <2>15 DEF Steady
    <3> HIDE DEF who
    <3>6. /\ \A t \in Tids :
               IF t \in who \cap Alive(cleared.k.task)
               THEN moved.k.task[t].group = In("source")
               ELSE moved.k.task[t] = cleared.k.task[t]
          /\ Marked(cleared) => Marked(moved)
          /\ Marked(cleared) /\ Confined(cleared) => Confined(moved)
      BY <3>2, <3>3, <3>4, <3>5, MovedIn
    <3> HIDE DEF moved
    <3>7. /\ Steady(moved, v) /\ SameMode(moved, v) /\ PlacesStay(moved, v)
      BY <2>12, <3>1, ApplyNiceEffect
    <3>8. NiceHeld(moved) => NiceHeld(v)
      BY <3>1, <3>3, AppliedNice
    <3> HIDE DEF v
    <3>9. Fit(v) /\ v.g.active /\ SameThreads(w, v)
      <4>1. v.g.active /\ v.g.trace /\ moved.g.armed
        BY <2>2, <2>13, <2>15, <3>7 DEF SameMode, Steady
      <4>2. Steady(based, v)
        BY <2>13, <3>7, SteadyTrans
      <4>3. QED
        BY <2>2, <3>3, <3>7, <4>1, <4>2, SteadyFit, ThreadsTrans DEF Steady, SameThreads
    <3>10. NiceKept(based) => NiceKept(v)
      <4>1. NicesStay(based, cleared)
        BY <2>10, TasksStaySame
      <4>2. NiceHeld(based) => NiceHeld(moved)
        BY <2>3, <2>10, <2>12, <3>3, <4>1, NiceStays
      <4>3. QED
        BY <3>8, <3>9, <4>2 DEF NiceKept
    <3>11. SourceKept(based) => SourceKept(v)
      <4>1. PlacesStay(based, cleared)
        BY <2>10, TasksStaySame
      <4>2. based.g.running
        BY <2>2, <2>3 DEF Fit, Book
      <4>3. SourceKept(based) => Marked(cleared) /\ Confined(cleared)
        BY <2>3, <2>10, <4>1, <4>2, SourceStays DEF SourceKept
      <4>4. Marked(moved) /\ Confined(moved) => Marked(v) /\ Confined(v)
        BY <3>3, <3>7, SourceStays
      <4>5. QED
        BY <3>6, <3>9, <4>3, <4>4 DEF SourceKept
    <3>12. Faults = {} => Placed(v, ring)
      <4>1. Faults = {} => v.k.perf = v.g.trace
        BY <2>7, <2>13, <3>7 DEF SameMode
      <4>2. ASSUME NEW t \in Alive(v.k.task), v.k.task[t].leader = v.g.pid
            PROVE  v.k.task[t].group = In("source")
        <5>1. t \in Tids /\ t \in Alive(moved.k.task) /\ t \in Alive(cleared.k.task)
          BY <2>12, <3>3, <3>7, SteadyAgrees
        <5>2. cleared.k.task[t].leader = cleared.g.pid
          BY <2>12, <3>7, <4>2, <5>1 DEF Steady, Same
        <5>3. moved.k.task[t].group = In("source")
          BY <3>4, <3>6, <5>1, <5>2
        <5>4. QED
          BY <3>7, <5>1, <5>3 DEF PlacesStay, SamePlace
      <4>3. QED
        BY <4>1, <4>2 DEF Placed, Watched
    <3>13. QED
      BY <2>2, <3>9, <3>10, <3>11, <3>12 DEF Sound, v
  <2>16. QED
    BY <2>8, <2>14, <2>15
<1>3. QED
  BY <1>1, <1>2

LEMMA ActivateSound ==
    ASSUME NEW w, NEW ring, Sound(w, ring), w.g.running,
           NEW p \in Tids, NEW a \in Apps, w.k.task[p].leader \in {0, p}
    PROVE  Sound(Activate(w, p, a), ring) /\ SameThreads(w, Activate(w, p, a))
<1> DEFINE armed == Arm(w, p, a)
           seen == IF w.g.active THEN Refresh(w) ELSE w
<1>0. SameThreads(w, w)
  BY DEF SameThreads, Same
<1>1. CASE /\ ~w.g.armed \/ w.g.pid # p \/ w.g.app # a
           /\ Is(w, p, a)
  <2>1. Activate(w, p, a) = Suppress(armed, p, a)
    BY <1>1 DEF Activate
  <2>2. Sound(armed, ring) /\ SameThreads(w, armed)
    BY ArmSound
  <2> HIDE DEF armed
  <2>3. QED
    BY <2>1, <2>2, SuppressSound, ThreadsTrans
<1>2. CASE /\ ~w.g.armed \/ w.g.pid # p \/ w.g.app # a
           /\ ~Is(w, p, a)
  BY <1>0, <1>2 DEF Activate
<1>3. CASE ~(~w.g.armed \/ w.g.pid # p \/ w.g.app # a)
  <2>1. Activate(w, p, a) = Suppress(seen, p, a)
    BY <1>3 DEF Activate
  <2>2. Sound(seen, ring) /\ SameThreads(w, seen)
    BY <1>0, <1>3, RefreshSound, RecordsThreads
  <2> HIDE DEF seen
  <2>3. QED
    BY <2>1, <2>2, SuppressSound, ThreadsTrans
<1>4. QED
  BY <1>1, <1>2, <1>3

-----------------------------------------------------------------------------
(* The handlers                                                              *)

LEMMA AcceptSound ==
    ASSUME NEW w, NEW ring, Sound(w, ring), NEW id \in Ids \cup {0}
    PROVE  LET v == [w EXCEPT !.g.accepted = id]
           IN  Sound(v, ring) /\ SameThreads(w, v) /\ v.g.armed = w.g.armed
               /\ v.g.active = w.g.active /\ v.g.pid = w.g.pid /\ v.g.app = w.g.app
<1>1. PICK g : g = [w.g EXCEPT !.accepted = id]
  OBVIOUS
<1>2. w \in Worlds
  BY DEF Sound, Fit
<1>3. /\ g \in Guard /\ g.running = w.g.running /\ g.armed = w.g.armed
      /\ g.active = w.g.active /\ g.pid = w.g.pid /\ g.app = w.g.app
      /\ g.start = w.g.start /\ g.records = w.g.records /\ g.trace = w.g.trace
  BY <1>1, <1>2 DEF Worlds, Guard
<1>4. PICK v : v = [w EXCEPT !.g = g]
  OBVIOUS
<1>5. v \in Worlds /\ v.g = g /\ v.k = w.k /\ v.bad = w.bad
  BY <1>2, <1>3, <1>4 DEF Worlds
<1>6. v = [w EXCEPT !.g.accepted = id]
  BY <1>1, <1>4
<1>7. Steady(w, v) /\ TasksStay(w, v)
  BY <1>3, <1>5 DEF Steady, TasksStay, Same
<1>8. Sound(v, ring)
  BY <1>3, <1>5, <1>7, SoundStays
<1>9. QED
  BY <1>3, <1>5, <1>6, <1>7, <1>8, SteadyThreads

LEMMA BegunSound ==
    ASSUME NEW w, NEW ring, Sound(w, ring), NEW id \in Ids
    PROVE  LET v == Accept(w, id)
           IN  Sound(v, ring) /\ SameThreads(w, v) /\ v.g.armed = w.g.armed
               /\ v.g.active = w.g.active /\ v.g.pid = w.g.pid /\ v.g.app = w.g.app
<1>1. PICK u : u = [w EXCEPT !.g.accepted = id]
  OBVIOUS
<1>2. Sound(u, ring) /\ SameThreads(w, u) /\ u.g.armed = w.g.armed
      /\ u.g.active = w.g.active /\ u.g.pid = w.g.pid /\ u.g.app = w.g.app
  BY <1>1, AcceptSound
<1>3. Accept(w, id) = CancelTimer(u)
  BY <1>1 DEF Accept
<1>4. QED
  BY <1>2, <1>3, CancelTimerSound, SteadyThreads, ThreadsTrans
     DEF Steady, SameMode

LEMMA BeginTransitionSound ==
    ASSUME NEW w, NEW ring, Sound(w, ring), NEW id \in Ids
    PROVE  /\ Sound(BeginTransition(w, id), ring)
           /\ SameThreads(w, BeginTransition(w, id))
<1> DEFINE begun == Accept(w, id)
<1>0. SameThreads(w, w)
  BY DEF SameThreads, Same
<1>1. /\ Sound(begun, ring) /\ SameThreads(w, begun) /\ begun.g.armed = w.g.armed
      /\ begun.g.active = w.g.active /\ begun.g.pid = w.g.pid
      /\ begun.g.app = w.g.app
  BY BegunSound
<1>2. CASE w.g.armed /\ ~w.g.active
  <2>1. Activate(begun, w.g.pid, w.g.app) = Suppress(begun, w.g.pid, w.g.app)
    <3> HIDE DEF begun
    <3> QED BY <1>1, <1>2 DEF Activate
  <2>2. /\ Sound(Suppress(begun, w.g.pid, w.g.app), ring)
        /\ SameThreads(w, Suppress(begun, w.g.pid, w.g.app))
    <3> HIDE DEF begun
    <3> QED BY <1>1, SuppressSound, ThreadsTrans
  <2>3. BeginTransition(w, id) \in {w, Activate(begun, w.g.pid, w.g.app)}
    BY <1>2 DEF BeginTransition
  <2> HIDE DEF begun
  <2>4. QED
    BY <1>0, <2>1, <2>2, <2>3
<1>3. CASE ~(w.g.armed /\ ~w.g.active)
  <2>1. BeginTransition(w, id) \in {w, begun}
    BY <1>3 DEF BeginTransition
  <2> HIDE DEF begun
  <2>2. QED
    BY <1>0, <1>1, <2>1
<1>4. QED
  BY <1>2, <1>3

LEMMA AdoptPackageSound ==
    ASSUME NEW w, NEW ring, Sound(w, ring), w.g.running,
           NEW id \in Ids, NEW a \in Apps, NEW activate \in BOOLEAN
    PROVE  /\ Sound(AdoptPackage(w, id, a, activate), ring)
           /\ SameThreads(w, AdoptPackage(w, id, a, activate))
<1> DEFINE p == Lowest(Processes(w, a))
           free == IF ~activate /\ w.g.active THEN Release(w, w.g.pid, FALSE) ELSE w
           begun == Accept(free, id)
           armed == IF begun.g.armed /\ begun.g.pid = p /\ begun.g.app = a
                    THEN begun ELSE Arm(begun, p, a)
<1>0. \A u : SameThreads(u, u)
  BY DEF SameThreads, Same
<1>1. CASE Stale(w, id) \/ Processes(w, a) = {}
  BY <1>0, <1>1 DEF AdoptPackage
<1>2. CASE ~(Stale(w, id) \/ Processes(w, a) = {})
  <2>1. p \in Tids /\ w.k.task[p].leader = p
    <3>1. Processes(w, a) \subseteq Tids
      BY DEF Processes, Alive
    <3>2. p \in Processes(w, a)
      BY <1>2, <3>1, LowestType
    <3>3. QED
      BY <3>1, <3>2 DEF Processes
  <2>2. Sound(free, ring) /\ SameThreads(w, free)
    BY <1>0, ReleaseSound
  <2>3. Sound(begun, ring) /\ SameThreads(w, begun)
    <3> HIDE DEF free
    <3> QED BY <2>2, BegunSound, ThreadsTrans
  <2>4. Sound(armed, ring) /\ SameThreads(w, armed)
    <3> HIDE DEF begun, p
    <3>1. begun.k.task[p].leader = p /\ begun.g.running
      BY <2>1, <2>3 DEF SameThreads, Same
    <3>2. Sound(Arm(begun, p, a), ring) /\ SameThreads(begun, Arm(begun, p, a))
      BY <2>1, <2>3, <3>1, ArmSound
    <3>3. QED
      BY <2>3, <3>2, ThreadsTrans
  <2>5. Sound(Activate(armed, p, a), ring) /\ SameThreads(w, Activate(armed, p, a))
    <3> HIDE DEF armed, p
    <3>1. armed.k.task[p].leader = p /\ armed.g.running
      BY <2>1, <2>4 DEF SameThreads, Same
    <3>2. QED
      BY <2>1, <2>4, <3>1, ActivateSound, ThreadsTrans
  <2>6. AdoptPackage(w, id, a, activate)
          = IF activate THEN Activate(armed, p, a) ELSE armed
    BY <1>2 DEF AdoptPackage
  <2> HIDE DEF armed, p
  <2>7. QED
    BY <2>4, <2>5, <2>6
<1>3. QED
  BY <1>1, <1>2

LEMMA ReplaceCurrentSound ==
    ASSUME NEW w, NEW ring, Sound(w, ring), w.g.running,
           NEW p \in Tids, NEW a \in Apps, w.k.task[p].leader \in {0, p}
    PROVE  /\ Sound(ReplaceCurrent(w, p, a), ring)
           /\ SameThreads(w, ReplaceCurrent(w, p, a))
<1> DEFINE v == Arm(w, p, a)
<1>1. Sound(v, ring) /\ SameThreads(w, v)
  BY ArmSound
<1>2. Sound(Activate(v, p, a), ring) /\ SameThreads(w, Activate(v, p, a))
  <2> HIDE DEF v
  <2>1. v.k.task[p].leader \in {0, p} /\ v.g.running
    BY <1>1 DEF SameThreads, Same
  <2>2. QED
    BY <1>1, <2>1, ActivateSound, ThreadsTrans
<1>3. ReplaceCurrent(w, p, a) \in {w, v, Activate(v, p, a)}
  BY DEF ReplaceCurrent
<1>4. SameThreads(w, w)
  BY DEF SameThreads, Same
<1> HIDE DEF v
<1>5. QED
  BY <1>1, <1>2, <1>3, <1>4

LEMMA ScheduleCompletionSound ==
    ASSUME NEW w, NEW ring, Sound(w, ring), NEW id \in Ids
    PROVE  /\ Sound(ScheduleCompletion(w, id), ring)
           /\ SameThreads(w, ScheduleCompletion(w, id))
<1>1. w \in Worlds /\ w.g.app \in Apps \cup {NoApp}
  BY WorldParts DEF Sound, Fit
<1>2. PICK g : g = [w.g EXCEPT !.completion = id]
  OBVIOUS
<1>3. PICK k : k = [w.k EXCEPT !.timer = "running", !.timerApp = w.g.app]
  OBVIOUS
<1>4. /\ g \in Guard /\ g.running = w.g.running /\ g.armed = w.g.armed
      /\ g.active = w.g.active /\ g.pid = w.g.pid /\ g.app = w.g.app
      /\ g.start = w.g.start /\ g.records = w.g.records /\ g.trace = w.g.trace
  BY <1>1, <1>2 DEF Worlds, Guard
<1>5. k \in Kernel /\ k.task = w.k.task /\ k.clock = w.k.clock
      /\ k.used = w.k.used /\ k.ring = w.k.ring /\ k.perf = w.k.perf
  BY <1>1, <1>3 DEF Worlds, Kernel
<1>6. PICK v : v = [w EXCEPT !.g = g, !.k = k]
  OBVIOUS
<1>7. v \in Worlds /\ v.g = g /\ v.k = k /\ v.bad = w.bad
  BY <1>1, <1>4, <1>5, <1>6 DEF Worlds
<1>8. ScheduleCompletion(w, id) \in {w, v}
  BY <1>1, <1>2, <1>3, <1>6 DEF ScheduleCompletion, Worlds, Guard, Kernel
<1>9. Steady(w, v) /\ TasksStay(w, v)
  BY <1>4, <1>5, <1>7 DEF Steady, TasksStay, Same
<1>10. Sound(v, ring)
  BY <1>4, <1>5, <1>7, <1>9, SoundStays
<1>11. SameThreads(w, w) /\ SameThreads(w, v)
  BY <1>9, SteadyThreads DEF SameThreads, Same
<1>12. QED
  BY <1>8, <1>10, <1>11

LEMMA DisableSound ==
    ASSUME NEW w, NEW ring, Sound(w, ring)
    PROVE  Sound(Disable(w), ring) /\ SameThreads(w, Disable(w))
<1>1. PICK v : v = Release(w, w.g.pid, TRUE)
  OBVIOUS
<1>2. Sound(v, ring) /\ SameThreads(w, v)
  BY <1>1, ReleaseSound
<1>3. Disable(w) = [v EXCEPT !.g.accepted = 0]
  BY <1>1 DEF Disable, ReleaseCurrent
<1>4. 0 \in Ids \cup {0}
  OBVIOUS
<1>5. /\ Sound([v EXCEPT !.g.accepted = 0], ring)
      /\ SameThreads(v, [v EXCEPT !.g.accepted = 0])
  BY <1>2, <1>4, AcceptSound
<1>6. QED
  BY <1>2, <1>3, <1>5, ThreadsTrans

(* The event of a thread: once it is answered nothing waits for it.          *)
LEMMA ReassertSound ==
    ASSUME NEW w, NEW ring, Sound(w, ring), NEW t \in Tids
    PROVE  Sound(Reassert(w, t), ring \ {t}) /\ SameThreads(w, Reassert(w, t))
<1> DEFINE known == w.g.records[t].start # 0
           seen == IF known THEN w
                   ELSE [w EXCEPT !.g.records[t] = Registered(w, t)]
           who == IF t = w.g.pid THEN ThreadGroup(w.k.task, t) ELSE {t}
           moved == MoveBack(seen, t)
           quiet == Deactivate(w)
           v == Reassert(w, t)
<1>1. Fit(w) /\ w \in Worlds
  BY DEF Sound, Fit
<1>2. CASE ~w.g.active \/ ~(t = w.g.pid \/ known \/ Belongs(w, t))
  <2>1. v = w
    BY <1>2 DEF Reassert
  <2>2. w.g.active /\ SourceMatches(w) =>
          t # w.g.pid /\ ~(t \in Alive(w.k.task) /\ w.k.task[t].leader = w.g.pid)
    BY <1>1, <1>2, GroupOfSource DEF Belongs
  <2>3. Placed(w, ring) => Placed(w, ring \ {t})
    BY <2>2 DEF Placed, Watched
  <2>4. SameThreads(w, w)
    BY DEF SameThreads, Same
  <2> HIDE DEF v
  <2>5. QED
    BY <2>1, <2>3, <2>4 DEF Sound, v
<1>3. CASE /\ w.g.active /\ (t = w.g.pid \/ known \/ Belongs(w, t))
           /\ (t = w.g.pid \/ known) /\ ~SourceMatches(w)
  <2>1. v = Forgotten(quiet)
    BY <1>3 DEF Reassert, Forgotten
  <2>2. Held(quiet) /\ Steady(w, quiet)
    BY DeactivateHeld
  <2> HIDE DEF quiet, v
  <2>3. ~SourceMatches(quiet)
    BY <1>1, <1>3, <2>2, SteadyAgrees
  <2>4. Down(quiet)
    BY <2>2, <2>3, HeldWithoutSource
  <2>5. SameThreads(w, v)
    <3>1. v.k = quiet.k /\ v.g.running = quiet.g.running
      BY <2>1, <2>4, ForgottenType DEF Down, Fit
    <3>2. QED
      BY <2>2, <3>1 DEF SameThreads, Steady
  <2>6. QED
    BY <2>1, <2>4, <2>5, DownForgotten, DownIsSound DEF v
<1>4. CASE /\ w.g.active /\ (t = w.g.pid \/ known \/ Belongs(w, t))
           /\ ~((t = w.g.pid \/ known) /\ ~SourceMatches(w))
  <2>1. v = ApplyNice(moved, {t})
    BY <1>4 DEF Reassert
  <2>2. SourceMatches(w) /\ w.g.armed
    BY <1>4 DEF Belongs, SourceMatches
  <2>3. w.g.pid \in Alive(w.k.task) /\ w.k.task[w.g.pid].leader = w.g.pid
        /\ ThreadGroup(w.k.task, w.g.pid)
             = {u \in Alive(w.k.task) : w.k.task[u].leader = w.g.pid}
    BY <1>1, <2>2, GroupOfSource DEF Fit, Book
  <2>4. Sound(seen, ring) /\ OnlyRecords(w, seen)
    <3>1. CASE known
      BY <1>1, <3>1 DEF OnlyRecords
    <3>2. CASE ~known
      <4> DEFINE records == [w.g.records EXCEPT ![t] = Registered(w, t)]
      <4>1. t \in Alive(w.k.task) /\ w.k.task[t].leader = w.g.pid
        BY <1>4, <2>3, <3>2 DEF Belongs
      <4>2. records \in [Tids -> Record]
        BY <1>1, WorldParts, RegisteredType
      <4>3. \A u \in Tids : \/ records[u] = w.g.records[u]
                            \/ Enrolled(w, u, records[u])
        BY <1>1, <4>1, RegisteredMeans, WorldParts
      <4>4. seen = [w EXCEPT !.g.records = records]
        BY <3>2
      <4> HIDE DEF records, seen, known
      <4>5. OnlyRecords(w, seen) /\ seen.g.records = records
        BY <1>1, <4>2, <4>4, RecordsEffect
      <4>6. QED
        BY <2>2, <4>3, <4>5, EnrolSound
    <3>3. QED
      BY <3>1, <3>2
  <2>5. seen.k = w.k /\ seen.g.pid = w.g.pid /\ seen.bad = w.bad
        /\ seen.g.active /\ seen.g.running /\ SourceMatches(seen)
        /\ (known => seen = w)
    <3>1. known => seen = w
      OBVIOUS
    <3> HIDE DEF seen, known
    <3>2. QED
      BY <1>1, <1>4, <2>2, <2>4, <3>1 DEF OnlyRecords, SourceMatches, Fit, Book
  <2>6. moved = Move(seen, who, "source")
    <3> HIDE DEF seen, known
    <3> QED BY <2>5 DEF MoveBack, MoveSource
  <2> HIDE DEF seen
  <2>7. Fit(seen) /\ seen \in Worlds /\ seen.bad \subseteq Faults
    BY <2>4, WorldParts DEF Sound, Fit
  <2>8. "source" \in Groups
    BY DEF Groups
  <2> HIDE DEF who, moved
  <2>9. Steady(seen, moved) /\ SameMode(seen, moved) /\ NicesStay(seen, moved)
        /\ moved \in Worlds
    <3>1. Steady(seen, moved) /\ SameMode(seen, moved)
      BY <2>6, <2>7, <2>8, MoveEffect
    <3>2. NicesStay(seen, moved)
      BY <2>6, <2>7, <2>8, MoveEffect
    <3>3. QED
      BY <3>1, <3>2 DEF Steady
  <2>10. Fit(moved) /\ SourceMatches(moved)
    BY <2>5, <2>7, <2>9, SteadyFit, SteadyAgrees DEF SameMode, Fit, Book
  <2>11. Steady(moved, v) /\ SameMode(moved, v) /\ PlacesStay(moved, v)
    BY <2>1, <2>9, ApplyNiceEffect
  <2>12. NiceHeld(moved) => NiceHeld(v)
    BY <2>1, <2>10, AppliedNice
  <2> HIDE DEF v
  <2>13. Fit(v) /\ v.g.active
    BY <2>5, <2>9, <2>10, <2>11, SteadyFit DEF SameMode, Fit, Book
  <2>18. SameThreads(w, v)
    <3>1. Steady(seen, v)
      BY <2>9, <2>11, SteadyTrans
    <3>2. QED
      BY <2>4, <3>1, RecordsThreads, SteadyThreads, ThreadsTrans
  <2>14. NiceKept(seen) => NiceKept(v)
    BY <2>7, <2>9, <2>12, <2>13, NiceStays DEF NiceKept
  <2>15. CASE w.bad \cap Controllers = {}
    <3>1. /\ \A u \in Tids :
               IF u \in who \cap Alive(seen.k.task)
               THEN moved.k.task[u].group = In("source")
               ELSE moved.k.task[u] = seen.k.task[u]
          /\ Marked(seen) => Marked(moved)
          /\ (/\ Confined(seen)
              /\ \A u \in who \cap Alive(seen.k.task) :
                    seen.k.task[u].leader = seen.g.pid) => Confined(moved)
      BY <2>5, <2>6, <2>7, <2>15, MovedIn
    <3>2. ASSUME Marked(seen), NEW u \in who \cap Alive(seen.k.task)
          PROVE  seen.k.task[u].leader = seen.g.pid
      <4>1. CASE t = w.g.pid
        BY <2>3, <2>5, <3>2, <4>1 DEF who
      <4>2. CASE t # w.g.pid
        <5>1. u = t /\ t \in Alive(w.k.task)
          BY <2>5, <3>2, <4>2 DEF who
        <5>2. known => Owned(w, t)
          BY <2>5, <3>2, <5>1 DEF Marked, Alive
        <5>3. QED
          BY <1>1, <1>4, <2>3, <2>5, <4>2, <5>1, <5>2 DEF Fit, Book, Belongs
      <4>3. QED
        BY <4>1, <4>2
    <3>3. SourceKept(seen) => SourceKept(v)
      <4>1. SourceKept(seen) => Marked(moved) /\ Confined(moved)
        BY <2>5, <3>1, <3>2 DEF SourceKept
      <4>2. QED
        BY <2>10, <2>11, <2>13, <4>1, SourceStays DEF SourceKept
    <3>4. Placed(seen, ring) => Placed(v, ring \ {t})
      <4>1. v.k.perf = seen.k.perf /\ v.g.trace = seen.g.trace /\ v.g.pid = w.g.pid
        BY <2>5, <2>9, <2>11 DEF SameMode, Steady
      <4>2. ASSUME Placed(seen, ring),
                   NEW u \in Alive(v.k.task), v.k.task[u].leader = v.g.pid
            PROVE  Watched(v, ring \ {t}, u)
        <5>1. u \in Tids /\ u \in Alive(seen.k.task)
              /\ seen.k.task[u].leader = w.g.pid
          <6>1. Alive(v.k.task) = Alive(seen.k.task) /\ u \in Tids
            BY <2>7, <2>9, <2>10, <2>11, SteadyAgrees
          <6>2. v.k.task[u].leader = seen.k.task[u].leader
            BY <2>9, <2>11, <6>1 DEF Steady, Same
          <6>3. QED
            BY <4>1, <4>2, <6>1, <6>2
        <5>2. Watched(seen, ring, u)
          BY <2>5, <4>2, <5>1 DEF Placed
        <5>3. u \in who \/ (t # w.g.pid /\ u # t)
          BY <2>3, <2>5, <5>1 DEF who
        <5>4. CASE u \in who
          BY <2>11, <3>1, <5>1, <5>4 DEF Watched, PlacesStay, SamePlace
        <5>5. CASE t # w.g.pid /\ u # t /\ u \notin who
          BY <2>5, <2>11, <3>1, <4>1, <5>1, <5>2, <5>5
             DEF Watched, PlacesStay, SamePlace
        <5>6. QED
          BY <5>3, <5>4, <5>5
      <4>3. QED
        BY <4>1, <4>2 DEF Placed
    <3>5. QED
      BY <2>4, <2>13, <2>14, <2>18, <3>3, <3>4 DEF Sound, v
  <2>16. CASE w.bad \cap Controllers # {}
    <3>1. ~Reliable /\ Faults # {}
      BY <2>5, <2>7, <2>16 DEF Reliable
    <3>2. QED
      BY <2>13, <2>18, <3>1 DEF Sound, v
  <2>17. QED
    BY <2>15, <2>16
<1>5. QED
  BY <1>2, <1>3, <1>4
-----------------------------------------------------------------------------
(* The steps of the daemon                                                   *)

Silent(g) == g.running \/ g.trace = FALSE
Threads == Sane(World({})) /\ Silent(guard)

(* What fails, the timer and the rings are none of the invariant's matter.   *)
LEMMA SoundElsewhere ==
    ASSUME NEW w, NEW ring, Sound(w, ring), NEW v \in Worlds, v.g = w.g,
           v.k.task = w.k.task, v.k.clock = w.k.clock, v.k.used = w.k.used,
           v.k.perf = w.k.perf
    PROVE  Sound(v, ring)
<1>1. SourceMatches(v) <=> SourceMatches(w)
  BY DEF SourceMatches
<1>2. \A t \in Tids : Owned(v, t) <=> Owned(w, t)
  BY DEF Owned
<1>3. Fit(v)
  BY <1>1, <1>2 DEF Sound, Fit, Kin, Book
<1>4. SourceKept(w) => SourceKept(v)
  BY <1>1, <1>2 DEF SourceKept, Marked, Confined, Empty
<1>5. NiceKept(w) => NiceKept(v)
  <2>1. \A t \in Alive(w.k.task) : t \in Tids
    BY DEF Alive
  <2>2. QED
    BY <1>1, <1>2, <2>1 DEF NiceKept, NiceHeld, NiceDown, NiceKnown, Restorable
<1>6. Placed(w, ring) => Placed(v, ring)
  BY <1>1 DEF Placed, Watched
<1>7. QED
  BY <1>3, <1>4, <1>5, <1>6 DEF Sound

LEMMA WorldSound ==
    ASSUME IInv, Threads, NEW bad \in SUBSET Faults
    PROVE  /\ Sound(World(bad), kernel.ring) /\ World(bad) \in Worlds
           /\ World(bad).g = guard /\ World(bad).k = kernel
<1>1. /\ World(bad) \in Worlds /\ World(bad).g = guard /\ World(bad).k = kernel
      /\ World({}).g = guard /\ World({}).k = kernel
  BY DEF World, IInv, TypeOK, Worlds
<1>2. Sound(World({}), kernel.ring)
  BY <1>1 DEF Threads, Sane
<1>3. QED
  BY <1>1, <1>2, SoundElsewhere

LEMMA SaneBecomes ==
    ASSUME NEW w, Sane(w), Silent(w.g), Becomes(w) PROVE Threads'
<1>1. PICK v : v = [g |-> w.g, k |-> w.k, bad |-> {}]
  OBVIOUS
<1>2. v \in Worlds /\ v.g = w.g /\ v.k = w.k
  BY <1>1 DEF Sane, Sound, Fit, Worlds
<1>3. Sane(v)
  BY <1>2, SoundElsewhere DEF Sane
<1>4. v = [g |-> guard', k |-> kernel', bad |-> {}]
  BY <1>1 DEF Becomes
<1>5. QED
  BY <1>3, <1>4 DEF Threads, World, Silent, Becomes

LEMMA HandlerBecomes ==
    ASSUME NEW bad, World(bad).g = guard, World(bad).k = kernel, guard.running,
           NEW w, Sound(w, kernel.ring), SameThreads(World(bad), w), Becomes(w)
    PROVE  Threads'
BY SaneBecomes DEF SameThreads, Sane, Silent

(* A daemon that ended has no records, no timer and no rings.                *)
LEMMA EndedSane ==
    ASSUME NEW w, Fit(w),
           Reliable /\ ~TidReuse => Marked(w),
           Reliable /\ LowNices =>
              \A t \in Alive(w.k.task) : w.k.task[t].own < TargetNice
                                        /\ ~Raised(w.k.task[t])
    PROVE  Sane(Ended(w)) /\ Silent(Ended(w).g)
<1>1. PICK g : g = [NewGuard EXCEPT !.running = FALSE]
  OBVIOUS
<1>2. PICK k : k = [w.k EXCEPT !.timer = "off", !.timerApp = NoApp,
                               !.perf = FALSE, !.ring = {}]
  OBVIOUS
<1>3. /\ w \in Worlds /\ 0 <= w.k.clock /\ Ended(w) \in Worlds
      /\ w.k.task \in [Tids -> Task]
  BY EndedGood, WorldParts DEF Fit, Good, Worlds, Kernel
<1>4. PICK v : v = Ended(w)
  OBVIOUS
<1>5. v.g = g /\ v.k = k /\ v \in Worlds
  BY <1>1, <1>2, <1>3, <1>4 DEF Ended, Worlds, Kernel
<1>6. /\ ~g.running /\ ~g.armed /\ ~g.active /\ g.trace = FALSE
      /\ g.records = NoRecords
  <2> DEFINE none == NoRecords
  <2>1. NewGuard = [running |-> TRUE, armed |-> FALSE, active |-> FALSE, pid |-> 0,
                    start |-> 0, app |-> NoApp, minor |-> NoApp, records |-> none,
                    accepted |-> 0, completion |-> 0, trace |-> FALSE]
    BY DEF NewGuard, NoRecords
  <2> HIDE DEF none
  <2>2. QED
    BY <1>1, <2>1 DEF none
<1>7. \A t \in Tids : g.records[t].start = 0 /\ g.records[t].affinity = "none"
  BY <1>6 DEF NoRecords, NoRecord
<1>8. k.task = w.k.task /\ k.clock = w.k.clock /\ k.used = w.k.used /\ k.perf = FALSE
  BY <1>2, <1>3 DEF Worlds, Kernel
<1>9. ~SourceMatches(v) /\ \A t \in Tids : ~Owned(v, t)
  BY <1>5, <1>6, <1>7 DEF SourceMatches, Owned
<1>10. Fit(v)
  BY <1>3, <1>5, <1>6, <1>7, <1>8, <1>9 DEF Fit, Kin, Book
<1>11. Marked(w) => SourceKept(v)
  BY <1>5, <1>6, <1>7, <1>8 DEF Marked, SourceKept
<1>12. Reliable /\ LowNices => NiceKept(v)
  <2>1. \A t \in Alive(w.k.task) : t \in Tids
    BY DEF Alive
  <2>2. Reliable /\ LowNices => NiceDown(v)
    BY <1>5, <1>8, <1>9, <2>1 DEF NiceDown, NiceKnown
  <2>3. QED
    BY <2>2 DEF NiceKept, NiceHeld, NiceDown
<1>13. Placed(v, v.k.ring)
  BY <1>5, <1>6, <1>8 DEF Placed
<1>14. QED
  BY <1>4, <1>5, <1>6, <1>10, <1>11, <1>12, <1>13 DEF Sane, Sound, Silent

LEMMA CommandThreads == IInv /\ Threads /\ Command => Threads'
<1> SUFFICES ASSUME IInv, Threads, Command PROVE Threads'
  OBVIOUS
<1>0. ASSUME NEW bad \in SUBSET Faults
      PROVE  /\ Sound(World(bad), kernel.ring) /\ World(bad) \in Worlds
             /\ World(bad).g = guard /\ World(bad).k = kernel
  BY WorldSound
<1>1. ASSUME NEW p \in Tids, NEW a \in Apps, ArmCommand(p, a) PROVE Threads'
  <2>1. PICK bad \in SUBSET Faults : Becomes(Arm(World(bad), p, a))
    BY <1>1 DEF ArmCommand
  <2>2. World(bad).g.running /\ World(bad).k.task[p].leader \in {0, p}
    BY <1>0, <1>1 DEF ArmCommand, Sent, IsPid
  <2>3. QED
    BY <1>0, <1>1, <2>1, <2>2, ArmSound, HandlerBecomes DEF ArmCommand, Sent
<1>2. ASSUME NEW id \in Ids, EnterCommand(id) PROVE Threads'
  BY <1>0, <1>2, BeginTransitionSound, HandlerBecomes DEF EnterCommand, Sent
<1>3. ASSUME NEW id \in Ids, NEW a \in Apps, HandoffCommand(id, a) PROVE Threads'
  BY <1>0, <1>3, AdoptPackageSound, HandlerBecomes DEF HandoffCommand, Sent
<1>4. ASSUME NEW id \in Ids, NEW a \in Apps, AdoptCommand(id, a) PROVE Threads'
  BY <1>0, <1>4, AdoptPackageSound, HandlerBecomes DEF AdoptCommand, Sent
<1>5. ASSUME NEW id \in Ids, CompleteCommand(id) PROVE Threads'
  <2>1. {} \in SUBSET Faults
    OBVIOUS
  <2>2. QED
    BY <1>0, <1>5, <2>1, ScheduleCompletionSound, HandlerBecomes
       DEF CompleteCommand, Sent
<1>6. ASSUME NEW p \in Tids, NEW a \in Apps, ReplaceCommand(p, a) PROVE Threads'
  <2>1. PICK bad \in SUBSET Faults : Becomes(ReplaceCurrent(World(bad), p, a))
    BY <1>6 DEF ReplaceCommand
  <2>2. World(bad).g.running /\ World(bad).k.task[p].leader \in {0, p}
    BY <1>0, <1>6 DEF ReplaceCommand, Sent, IsPid
  <2>3. QED
    BY <1>0, <1>6, <2>1, <2>2, ReplaceCurrentSound, HandlerBecomes
       DEF ReplaceCommand, Sent
<1>7. ASSUME NEW p \in Tids, NEW top \in BOOLEAN, ReleaseCommand(p, top)
      PROVE  Threads'
  BY <1>0, <1>7, ReleaseSound, HandlerBecomes DEF ReleaseCommand, Sent
<1>8. CASE ResetCommand
  BY <1>0, <1>8, DisableSound, HandlerBecomes DEF ResetCommand, Sent
<1>9. CASE StopCommand
  <2>1. PICK bad \in SUBSET Faults : Becomes(Ended(ReleaseCurrent(World(bad))))
    BY <1>9 DEF StopCommand
  <2>2. Sound(ReleaseCurrent(World(bad)), kernel.ring)
    BY <1>0, ReleaseSound DEF ReleaseCurrent
  <2>3. ~ReleaseCurrent(World(bad)).g.active
    <3>1. Good(World(bad))
      BY WorldGood
    <3>2. QED
      BY <3>1, ReleaseType DEF ReleaseCurrent, Good, Agrees
  <2>4. /\ Sane(Ended(ReleaseCurrent(World(bad))))
        /\ Silent(Ended(ReleaseCurrent(World(bad))).g)
    <3>1. Down(ReleaseCurrent(World(bad)))
      BY <2>2, <2>3, SoundIsDown
    <3>2. ASSUME NEW w, Down(w) PROVE Sane(Ended(w)) /\ Silent(Ended(w).g)
      BY <3>2, EndedSane DEF Down, NiceDown, NiceKnown
    <3>3. QED
      BY <3>1, <3>2
  <2>5. QED
    BY <2>1, <2>4, SaneBecomes
<1>10. QED
  BY <1>1, <1>2, <1>3, <1>4, <1>5, <1>6, <1>7, <1>8, <1>9 DEF Command
LEMMA TimerThreads == IInv /\ Threads /\ HandleTimer => Threads'
<1> SUFFICES ASSUME IInv, Threads, HandleTimer PROVE Threads'
  OBVIOUS
<1>1. PICK bad \in SUBSET Faults :
        LET read == [World(bad) EXCEPT !.k.timer = "off", !.k.timerApp = NoApp]
        IN  Becomes(IF guard.completion # guard.accepted THEN read
                    ELSE CompleteSource([read EXCEPT !.g.completion = 0],
                                        guard.completion))
  BY DEF HandleTimer
<1> DEFINE k == [kernel EXCEPT !.timer = "off", !.timerApp = NoApp]
           read == [World(bad) EXCEPT !.k.timer = "off", !.k.timerApp = NoApp]
           done == [read EXCEPT !.g.completion = 0]
<1>2. /\ Sound(World(bad), kernel.ring) /\ World(bad) \in Worlds
      /\ World(bad).g = guard /\ World(bad).k = kernel
  BY WorldSound
<1>3. /\ k \in Kernel /\ k.task = kernel.task /\ k.clock = kernel.clock
      /\ k.used = kernel.used /\ k.perf = kernel.perf /\ k.ring = kernel.ring
  BY <1>2 DEF Worlds, Kernel
<1>4. read = [World(bad) EXCEPT !.k = k]
  BY <1>2 DEF Worlds, Kernel
<1>5. done = CancelTimer(World(bad))
  BY <1>2 DEF CancelTimer, Worlds, Kernel, Guard
<1>6. Becomes(read) \/ Becomes(CompleteSource(done, guard.completion))
  BY <1>1
<1> HIDE DEF k, read, done
<1>7. read \in Worlds /\ read.g = guard /\ read.k = k
  BY <1>2, <1>3, <1>4 DEF Worlds
<1>8. Sound(read, kernel.ring) /\ SameThreads(World(bad), read)
  BY <1>2, <1>3, <1>7, SoundElsewhere DEF SameThreads, Same
<1>9. Sound(done, kernel.ring) /\ SameThreads(World(bad), done)
  BY <1>2, <1>5, CancelTimerSound, SteadyThreads
<1>10. PICK v : v = CompleteSource(done, guard.completion)
  OBVIOUS
<1>11. Sound(v, kernel.ring) /\ SameThreads(World(bad), v)
  BY <1>9, <1>10, CompleteSourceSound, ThreadsTrans
<1>12. guard.running
  BY DEF HandleTimer
<1>13. QED
  BY <1>2, <1>6, <1>8, <1>10, <1>11, <1>12, HandlerBecomes

LEMMA EventThreads ==
    ASSUME IInv, Threads, NEW t \in Tids, HandleEvent(t) PROVE Threads'
<1>1. PICK bad \in SUBSET Faults :
        Becomes(Reassert([World(bad) EXCEPT !.k.ring = @ \ {t}], t))
  BY DEF HandleEvent
<1>2. /\ Sound(World(bad), kernel.ring) /\ World(bad) \in Worlds
      /\ World(bad).g = guard /\ World(bad).k = kernel
  BY WorldSound
<1>3. PICK w : w = [World(bad) EXCEPT !.k.ring = @ \ {t}]
  OBVIOUS
<1>4. /\ w \in Worlds /\ w.g = guard /\ w.k.task = kernel.task
      /\ w.k.clock = kernel.clock /\ w.k.used = kernel.used
      /\ w.k.perf = kernel.perf /\ w.k.ring = kernel.ring \ {t}
  BY <1>2, <1>3 DEF Worlds, Kernel
<1>5. Sound(w, kernel.ring)
  BY <1>2, <1>4, SoundElsewhere
<1>6. Sound(Reassert(w, t), w.k.ring) /\ SameThreads(w, Reassert(w, t))
  BY <1>4, <1>5, ReassertSound
<1>7. Sane(Reassert(w, t)) /\ Silent(Reassert(w, t).g)
  BY <1>4, <1>6 DEF Sane, SameThreads, HandleEvent, Silent
<1>8. QED
  BY <1>1, <1>3, <1>7, SaneBecomes

(* The groups the service empties before it starts the daemon.               *)
LEMMA DrainEffect ==
    ASSUME NEW task \in [Tids -> Task]
    PROVE  /\ DrainGroups(task) \in [Tids -> Task]
           /\ \A t \in Tids :
                /\ Same(task[t], DrainGroups(task)[t])
                /\ SameNice(task[t], DrainGroups(task)[t])
                /\ t \in Alive(task) => ~InSource(DrainGroups(task)[t])
                /\ (task[t].affinity = "little" =>
                       task[t].start # 0 /\ task[t].group["cpuset"] = "source")
                     => DrainGroups(task)[t].affinity # "little"
<1> DEFINE in(c) == {t \in Alive(task) : task[t].group[c] = "source"}
           who(ts, c) == UNION {ThreadGroup(ts, t) : t \in in(c)}
           ts1 == Attach(task, who(task, "cpuset"), {"cpuset"}, "background")
           ts2 == Attach(ts1, who(ts1, "cpuctl"), {"cpuctl"}, "background")
<1>1. DrainGroups(task) = ts2
  BY DEF DrainGroups
<1>2. "background" \in Groups /\ "source" \in Groups
      /\ Controllers = {"cpuset", "cpuctl"}
  BY DEF Groups, Controllers
<1>3. ts1 \in [Tids -> Task]
  BY <1>2, AttachType
<1>4. ts2 \in [Tids -> Task]
  <2> HIDE DEF ts1
  <2> QED BY <1>2, <1>3, AttachType
<1>5. \A t \in in("cpuset") : t \in who(task, "cpuset")
  BY DEF ThreadGroup
<1>6. ASSUME NEW t \in Tids
      PROVE  /\ Same(task[t], ts1[t]) /\ SameNice(task[t], ts1[t])
             /\ t \notin who(task, "cpuset") \cap Alive(task) => ts1[t] = task[t]
             /\ t \in who(task, "cpuset") \cap Alive(task) =>
                  /\ ts1[t].group["cpuset"] = "background"
                  /\ ts1[t].group["cpuctl"] = task[t].group["cpuctl"]
                  /\ ts1[t].affinity = IF task[t].group["cpuset"] # "background"
                                       THEN "full" ELSE task[t].affinity
  <2> HIDE DEF who
  <2> QED BY <1>2, AttachEffect DEF GroupMask
<1> HIDE DEF ts1
<1>7. Alive(ts1) = Alive(task)
  BY <1>6 DEF Alive, Same
<1>8. \A t \in Alive(task) : ts1[t].group["cpuset"] # "source"
  <2> HIDE DEF who
  <2> QED BY <1>5, <1>6 DEF Alive
<1>9. \A t \in in("cpuctl") : t \in who(ts1, "cpuctl")
  BY <1>7 DEF ThreadGroup
<1>10. ASSUME NEW t \in Tids
       PROVE  /\ Same(ts1[t], ts2[t]) /\ SameNice(ts1[t], ts2[t])
              /\ t \notin who(ts1, "cpuctl") \cap Alive(ts1) => ts2[t] = ts1[t]
              /\ t \in who(ts1, "cpuctl") \cap Alive(ts1) =>
                   /\ ts2[t].group["cpuset"] = ts1[t].group["cpuset"]
                   /\ ts2[t].group["cpuctl"] = "background"
                   /\ ts2[t].affinity = ts1[t].affinity
  <2> HIDE DEF who
  <2> QED BY <1>2, <1>3, AttachEffect
<1> HIDE DEF ts2
<1>11. \A t \in Alive(task) : ts2[t].group["cpuset"] # "source"
  <2> HIDE DEF who
  <2> QED BY <1>7, <1>8, <1>10 DEF Alive
<1>12. \A t \in Alive(task) : ts2[t].group["cpuctl"] # "source"
  <2>1. ASSUME NEW t \in Alive(task), task[t].group["cpuctl"] = "source"
        PROVE  t \in who(ts1, "cpuctl") \cap Alive(ts1)
    BY <1>7, <1>9, <2>1
  <2> HIDE DEF who
  <2>2. \A t \in Alive(task) : ts1[t].group["cpuctl"] = task[t].group["cpuctl"]
    BY <1>6 DEF Alive
  <2>3. QED
    BY <1>7, <1>10, <2>1, <2>2 DEF Alive
<1>13. ASSUME NEW t \in Tids,
              task[t].affinity = "little" =>
                 task[t].start # 0 /\ task[t].group["cpuset"] = "source"
       PROVE  ts2[t].affinity # "little"
  <2>1. ts1[t].affinity # "little"
    <3>1. task[t].affinity = "little" => t \in who(task, "cpuset") \cap Alive(task)
      BY <1>5, <1>13 DEF Alive
    <3> HIDE DEF who
    <3>2. QED
      BY <1>6, <1>13, <3>1
  <2> HIDE DEF who
  <2>2. QED
    BY <1>10, <2>1
<1>14. ASSUME NEW t \in Tids PROVE Same(task[t], ts2[t]) /\ SameNice(task[t], ts2[t])
  BY <1>6, <1>10 DEF Same, SameNice
<1>15. QED
  BY <1>1, <1>2, <1>4, <1>11, <1>12, <1>13, <1>14 DEF InSource, Alive
LEMMA StartThreads == IInv /\ Threads /\ StartGuard => Threads'
<1> SUFFICES ASSUME IInv, Threads, StartGuard PROVE Threads'
  OBVIOUS
<1> DEFINE none == NoRecords
           task == DrainGroups(kernel.task)
<1>1. PICK w : w = World({})
  OBVIOUS
<1>2. /\ Sound(w, kernel.ring) /\ w \in Worlds /\ w.g = guard /\ w.k = kernel
      /\ guard.trace = FALSE /\ ~guard.active
  <2>1. {} \in SUBSET Faults
    OBVIOUS
  <2>2. Sound(w, kernel.ring) /\ w \in Worlds /\ w.g = guard /\ w.k = kernel
    BY <1>1, <2>1, WorldSound
  <2>3. ~guard.running
    BY DEF StartGuard
  <2>4. QED
    BY <2>2, <2>3 DEF Sound, Fit, Book, Threads, Silent
<1>3. /\ task \in [Tids -> Task]
      /\ \A t \in Tids :
           /\ Same(kernel.task[t], task[t])
           /\ SameNice(kernel.task[t], task[t])
           /\ t \in Alive(kernel.task) => ~InSource(task[t])
           /\ (kernel.task[t].affinity = "little" =>
                  kernel.task[t].start # 0 /\ kernel.task[t].group["cpuset"] = "source")
                => task[t].affinity # "little"
  <2>1. kernel.task \in [Tids -> Task]
    BY <1>2, WorldParts
  <2>2. QED
    BY <2>1, DrainEffect
<1>4. /\ NewGuard.running /\ ~NewGuard.armed /\ ~NewGuard.active
      /\ NewGuard.trace = FALSE /\ NewGuard.records = none
      /\ \A t \in Tids : none[t].start = 0 /\ none[t].affinity = "none"
  <2>1. \A t \in Tids : none[t].start = 0 /\ none[t].affinity = "none"
    BY DEF NoRecords, NoRecord
  <2>2. NewGuard = [running |-> TRUE, armed |-> FALSE, active |-> FALSE, pid |-> 0,
                    start |-> 0, app |-> NoApp, minor |-> NoApp, records |-> none,
                    accepted |-> 0, completion |-> 0, trace |-> FALSE]
    BY DEF NewGuard, NoRecords
  <2> HIDE DEF none
  <2>3. QED
    BY <2>1, <2>2
<1>5. guard' = NewGuard /\ kernel' = [kernel EXCEPT !.task = task]
  BY DEF StartGuard
<1> HIDE DEF task, none
<1>6. PICK v : v = [g |-> guard', k |-> kernel', bad |-> {}]
  OBVIOUS
<1>7. /\ v.g = NewGuard /\ v.k.task = task /\ v.k.clock = kernel.clock
      /\ v.k.used = kernel.used /\ v.k.perf = kernel.perf /\ v.k.ring = kernel.ring
  BY <1>2, <1>5, <1>6 DEF Worlds, Kernel
<1>8. v \in Worlds
  BY <1>3, <1>5, <1>6, NextIInv DEF IInv, TypeOK, Worlds, Next
<1>9. ~SourceMatches(v) /\ \A t \in Tids : ~Owned(v, t)
  BY <1>4, <1>7 DEF SourceMatches, Owned
<1>10. Alive(task) = Alive(kernel.task) /\ \A t \in Alive(task) : t \in Tids
  BY <1>3 DEF Alive, Same
<1>11. Fit(v)
  <2>1. \A t \in Tids : Led(kernel.task, t) => Led(task, t)
    BY <1>3, <1>10 DEF Led, Same
  <2>2. Kin(v.k)
    BY <1>2, <1>3, <1>7, <2>1 DEF Sound, Fit, Kin, Same
  <2>3. 0 <= v.k.clock
    BY <1>8 DEF Worlds, Kernel
  <2>4. QED
    BY <1>4, <1>7, <1>8, <1>9, <2>2, <2>3 DEF Fit, Book
<1>12. SourceKept(w) => SourceKept(v)
  <2> SUFFICES ASSUME SourceKept(w) PROVE SourceKept(v)
    OBVIOUS
  <2>1. Empty(v)
    BY <1>3, <1>7, <1>10 DEF Empty
  <2>2. ASSUME NEW t \in Tids PROVE task[t].affinity # "little"
    <3>1. kernel.task[t].affinity = "little" =>
            kernel.task[t].start # 0 /\ kernel.task[t].group["cpuset"] = "source"
      BY <1>2 DEF SourceKept, Marked
    <3>2. QED
      BY <1>3, <3>1
  <2>3. Marked(v)
    BY <1>4, <1>7, <2>2 DEF Marked
  <2>4. QED
    BY <2>1, <2>3 DEF SourceKept, Confined, Empty
<1>13. NiceKept(w) => NiceKept(v)
  <2> SUFFICES ASSUME NiceDown(w) PROVE NiceDown(v)
    BY <1>2 DEF NiceKept, NiceDown, NiceHeld
  <2>1. QED
    BY <1>2, <1>3, <1>7, <1>9, <1>10
       DEF NiceDown, NiceKnown, Raised, Same, SameNice
<1>14. Placed(w, kernel.ring) => Placed(v, v.k.ring)
  BY <1>2, <1>4, <1>7 DEF Placed
<1>15. Sane(v) /\ Silent(v.g) /\ Becomes(v)
  BY <1>2, <1>4, <1>6, <1>7, <1>11, <1>12, <1>13, <1>14
     DEF Sane, Sound, Silent, Becomes
<1>16. QED
  BY <1>15, SaneBecomes

LEMMA CrashThreads == IInv /\ Threads /\ Crash => Threads'
<1> SUFFICES ASSUME IInv, Threads, Crash PROVE Threads'
  OBVIOUS
<1> DEFINE orphan(r) == IF r.nice > r.own
                        THEN [r EXCEPT !.lost = @ \cup {"nice"}] ELSE r
           task == [t \in Tids |-> orphan(kernel.task[t])]
<1>1. PICK w : w = World({})
  OBVIOUS
<1>2. Sound(w, kernel.ring) /\ w \in Worlds /\ w.g = guard /\ w.k = kernel
      /\ w.k.task \in [Tids -> Task]
  <2>1. {} \in SUBSET Faults
    OBVIOUS
  <2>2. QED
    BY <1>1, <2>1, WorldSound, WorldParts
<1>3. ASSUME NEW t \in Tids
      PROVE  /\ task[t] \in Task /\ Same(kernel.task[t], task[t])
             /\ task[t].group = kernel.task[t].group
             /\ task[t].affinity = kernel.task[t].affinity
             /\ task[t].nice = kernel.task[t].nice
             /\ kernel.task[t].nice > kernel.task[t].own => "nice" \in task[t].lost
             /\ "nice" \in kernel.task[t].lost => "nice" \in task[t].lost
             /\ task[t].nice \in Int /\ task[t].own \in Int
  <2>1. kernel.task[t] \in Task
    BY <1>2
  <2>2. ASSUME NEW r \in Task
        PROVE  /\ orphan(r) \in Task /\ Same(r, orphan(r))
               /\ orphan(r).group = r.group /\ orphan(r).affinity = r.affinity
               /\ orphan(r).nice = r.nice
               /\ r.nice > r.own => "nice" \in orphan(r).lost
               /\ "nice" \in r.lost => "nice" \in orphan(r).lost
               /\ orphan(r).nice \in Int /\ orphan(r).own \in Int
    BY DEF Task, Same
  <2> HIDE DEF orphan
  <2>3. QED
    BY <2>1, <2>2
<1>4. task \in [Tids -> Task]
  <2> HIDE DEF orphan
  <2>1. \A t \in Tids : orphan(kernel.task[t]) \in Task
    BY <1>3
  <2>2. QED
    BY <2>1
<1>5. Becomes(Ended([w EXCEPT !.k.task = task]))
  BY <1>1, <1>2 DEF Crash
<1> HIDE DEF task
<1>6. PICK v : v = [w EXCEPT !.k.task = task]
  OBVIOUS
<1>7. Steady(w, v) /\ v.g = w.g /\ v.k.task = task /\ SameMode(w, v)
  BY <1>2, <1>3, <1>4, <1>6, TaskSteady
<1>8. Fit(v) /\ Alive(v.k.task) = Alive(w.k.task) /\ Alive(w.k.task) \subseteq Tids
      /\ \A t \in Tids : Owned(v, t) <=> Owned(w, t)
  BY <1>2, <1>7, SteadyFit, SteadyAgrees DEF Sound, Fit, Book, SameMode
<1>9. Marked(w) => Marked(v)
  BY <1>2, <1>3, <1>7, <1>8 DEF Marked, Same
<1>10. NiceKept(w) => \A t \in Alive(v.k.task) : v.k.task[t].own < TargetNice
                                              /\ ~Raised(v.k.task[t])
  <2> SUFFICES ASSUME NiceKept(w), NEW t \in Alive(v.k.task)
               PROVE  v.k.task[t].own < TargetNice /\ ~Raised(v.k.task[t])
    OBVIOUS
  <2>1. t \in Tids /\ t \in Alive(w.k.task) /\ w.k.task[t].own < TargetNice
    BY <1>8 DEF NiceKept, NiceHeld, NiceKnown
  <2>2. TargetNice \in Int
    BY KernelAssumption
  <2>3. QED
    BY <1>2, <1>3, <1>7, <2>1, <2>2 DEF Raised, Same
<1>11. Sane(Ended(v)) /\ Silent(Ended(v).g)
  BY <1>2, <1>8, <1>9, <1>10, EndedSane DEF Sound, SourceKept
<1>12. QED
  BY <1>5, <1>6, <1>11, SaneBecomes
-----------------------------------------------------------------------------
(* The steps of the kernel and the applications                              *)

LEMMA KernelSane ==
    ASSUME Threads, UNCHANGED guard,
           NEW w, Sane(w), w.g = guard, w.k = kernel'
    PROVE  Threads'
BY SaneBecomes DEF Threads, Becomes

(* Displacing a thread is announced, or known to be lost.                    *)
LEMMA AnnouncedSound ==
    ASSUME NEW w, NEW t \in Tids, NEW who, Sound(w, w.k.ring \cup {t}),
           Faults = {} =>
             \A u \in Alive(w.k.task) \ who :
                w.g.active /\ SourceMatches(w) /\ w.k.task[u].leader = w.g.pid
                  => Watched(w, w.k.ring, u)
    PROVE  Sane([w EXCEPT !.k = Announced(w.k, t, who)])
<1> DEFINE k == Announced(w.k, t, who)
           lost(u) == [w.k.task[u] EXCEPT !.lost = @ \cup {"place"}]
           task == [u \in Tids |-> IF u \in who THEN lost(u) ELSE w.k.task[u]]
<1>1. Fit(w) /\ w \in Worlds /\ w.k \in Kernel /\ w.k.task \in [Tids -> Task]
      /\ k \in Kernel
  BY AnnouncedType, WorldParts DEF Sound, Fit, Worlds
<1>2. k = IF ~w.k.perf THEN w.k
          ELSE IF t \in w.k.ring \/ Cardinality(w.k.ring) < RingSize
          THEN [w.k EXCEPT !.ring = w.k.ring \cup {t}]
          ELSE [w.k EXCEPT !.task = task]
  BY DEF Announced
<1> HIDE DEF k, task
<1>3. PICK v : v = [w EXCEPT !.k = k]
  OBVIOUS
<1>4. v \in Worlds /\ v.g = w.g /\ v.k = k /\ v.bad = w.bad
  BY <1>1, <1>3 DEF Worlds
<1>5. CASE ~w.k.perf
  <2>1. v.k = w.k
    BY <1>2, <1>4, <1>5
  <2>2. Faults = {} => ~w.g.active
    BY <1>1, <1>5 DEF Sound, Placed, Fit, Book
  <2>3. Sound(v, w.k.ring \cup {t})
    BY <1>4, <2>1, SoundElsewhere
  <2>4. Placed(v, w.k.ring \cup {t}) /\ ~v.g.active => Placed(v, v.k.ring)
    BY DEF Placed
  <2>5. QED
    BY <1>3, <1>4, <2>2, <2>3, <2>4 DEF Sane, Sound, k
<1>6. CASE w.k.perf /\ k = [w.k EXCEPT !.ring = w.k.ring \cup {t}]
  <2>1. v.k.ring = w.k.ring \cup {t} /\ v.k.task = w.k.task /\ v.k.clock = w.k.clock
        /\ v.k.used = w.k.used /\ v.k.perf = w.k.perf
    BY <1>1, <1>4, <1>6 DEF Kernel
  <2>2. QED
    BY <1>3, <1>4, <2>1, SoundElsewhere DEF Sane, k
<1>7. CASE w.k.perf /\ k = [w.k EXCEPT !.task = task]
  <2>1. ASSUME NEW u \in Tids
        PROVE  /\ task[u] \in Task /\ Same(w.k.task[u], task[u])
               /\ SameNice(w.k.task[u], task[u])
               /\ task[u].group = w.k.task[u].group
               /\ task[u].affinity = w.k.task[u].affinity
               /\ "place" \in task[u].lost <=> u \in who \/ "place" \in w.k.task[u].lost
    <3>1. w.k.task[u] \in Task
      BY <1>1
    <3>2. /\ lost(u) \in Task /\ Same(w.k.task[u], lost(u))
          /\ SameNice(w.k.task[u], lost(u))
          /\ lost(u).group = w.k.task[u].group
          /\ lost(u).affinity = w.k.task[u].affinity
          /\ "place" \in lost(u).lost
      BY <3>1 DEF Task, Same, SameNice
    <3>3. task[u] = IF u \in who THEN lost(u) ELSE w.k.task[u]
      BY DEF task
    <3> HIDE DEF lost
    <3>4. QED
      BY <3>1, <3>2, <3>3 DEF Same, SameNice
  <2>2. v = [w EXCEPT !.k.task = task] /\ task \in [Tids -> Task]
    <3>1. \A u \in Tids : task[u] \in Task
      BY <2>1
    <3>2. task \in [Tids -> Task]
      BY <3>1 DEF task
    <3>3. QED
      BY <1>1, <1>3, <1>7, <3>2 DEF Worlds
  <2>3. Steady(w, v) /\ SameMode(w, v) /\ v.k.task = task
    BY <1>1, <2>1, <2>2, TaskSteady
  <2>4. Fit(v) /\ NicesStay(w, v)
    BY <1>1, <2>1, <2>3, SteadyFit DEF Fit, Book, SameMode, NicesStay
  <2>5. /\ Alive(v.k.task) = Alive(w.k.task) /\ Alive(w.k.task) \subseteq Tids
        /\ SourceMatches(v) <=> SourceMatches(w)
        /\ \A u \in Tids : Owned(v, u) <=> Owned(w, u)
    BY <1>1, <2>3, SteadyAgrees
  <2>6. SourceKept(w) => SourceKept(v)
    <3>1. /\ Marked(w) => Marked(v)
          /\ Confined(w) => Confined(v)
          /\ Empty(w) => Empty(v)
      BY <1>4, <2>1, <2>3, <2>5 DEF Marked, Confined, Empty, InSource, Same
    <3>2. QED
      BY <1>4, <3>1 DEF SourceKept
  <2>7. NiceKept(w) => NiceKept(v)
    BY <1>1, <1>4, <2>3, <2>4, NiceStays DEF NiceKept
  <2>8. Faults = {} => Placed(v, v.k.ring)
    <3>1. v.k.perf = w.k.perf /\ v.k.ring = w.k.ring /\ v.g = w.g
      BY <1>4, <2>3 DEF SameMode
    <3>2. ASSUME Faults = {}, v.g.active, SourceMatches(v),
                 NEW u \in Alive(v.k.task), v.k.task[u].leader = v.g.pid
          PROVE  Watched(v, v.k.ring, u)
      <4>1. u \in Tids /\ u \in Alive(w.k.task) /\ w.k.task[u].leader = w.g.pid
        BY <2>1, <2>3, <2>5, <3>1, <3>2 DEF Same
      <4>2. u \in who \/ Watched(w, w.k.ring, u)
        BY <2>5, <3>1, <3>2, <4>1
      <4>3. QED
        BY <2>1, <2>3, <3>1, <4>1, <4>2 DEF Watched
    <3>3. QED
      BY <3>1, <3>2 DEF Placed, Sound
  <2>9. QED
    BY <1>3, <2>4, <2>6, <2>7, <2>8 DEF Sane, Sound, k
<1>8. QED
  BY <1>2, <1>5, <1>6, <1>7
(* The world the daemon sees next when the kernel moves.                     *)
LEMMA NextWorld ==
    ASSUME IInv, IInv', Threads, UNCHANGED guard
    PROVE  /\ Sane(World({})) /\ World({}).g = guard /\ World({}).k = kernel
           /\ World({}) \in Worlds /\ kernel \in Kernel
           /\ kernel.task \in [Tids -> Task]
           /\ \A v : v = [World({}) EXCEPT !.k = kernel'] =>
                v \in Worlds /\ v.g = guard /\ v.k = kernel'
<1>1. /\ World({}) = [g |-> guard, k |-> kernel, bad |-> {}]
      /\ guard \in Guard /\ kernel \in Kernel /\ kernel' \in Kernel
  BY DEF World, IInv, TypeOK
<1>2. World({}) \in Worlds
  BY <1>1 DEF Worlds
<1>3. QED
  BY <1>1, <1>2 DEF Threads, Worlds, Kernel

LEMMA TimerRuns ==
    ASSUME IInv, IInv', Threads, UNCHANGED guard,
           kernel'.task = kernel.task, kernel'.clock = kernel.clock,
           kernel'.used = kernel.used, kernel'.perf = kernel.perf,
           kernel'.ring = kernel.ring
    PROVE  Threads'
<1>1. PICK v : v = [World({}) EXCEPT !.k = kernel']
  OBVIOUS
<1>2. /\ Sane(World({})) /\ World({}).g = guard /\ World({}).k = kernel
      /\ v \in Worlds /\ v.g = guard /\ v.k = kernel'
  BY <1>1, NextWorld
<1>3. Sane(v)
  BY <1>2, SoundElsewhere DEF Sane
<1>4. QED
  BY <1>2, <1>3, KernelSane

(* The framework sets a nice value: it is the thread's own from then on.     *)
LEMMA NiceThreads ==
    ASSUME IInv, IInv', Threads,
           NEW t \in Tids, NEW n \in AppNices, SystemSetsNice(t, n)
    PROVE  Threads'
<1> DEFINE thread == [kernel.task[t] EXCEPT !.nice = n, !.own = n]
<1>1. PICK w : w = World({})
  OBVIOUS
<1>2. PICK v : v = [w EXCEPT !.k = kernel']
  OBVIOUS
<1>3. UNCHANGED guard
  BY DEF SystemSetsNice
<1>4. /\ Sane(w) /\ w.g = guard /\ w.k = kernel /\ w \in Worlds
      /\ v \in Worlds /\ v.g = guard /\ v.k = kernel'
      /\ kernel \in Kernel /\ kernel.task \in [Tids -> Task]
  BY <1>1, <1>2, <1>3, NextWorld
<1>5. /\ kernel'.clock = kernel.clock /\ kernel'.used = kernel.used
      /\ kernel'.perf = kernel.perf /\ kernel'.ring = kernel.ring
      /\ kernel'.task = [kernel.task EXCEPT ![t] = thread]
  <2> DEFINE task == [kernel.task EXCEPT ![t] = thread]
  <2>1. /\ kernel.task[t] \in Task /\ kernel \in Kernel
        /\ kernel.task \in [Tids -> Task]
    BY <1>4
  <2>2. kernel' = [kernel EXCEPT !.task = task]
    BY <2>1 DEF SystemSetsNice, Kernel, Task
  <2> HIDE DEF task
  <2>3. QED
    BY <1>4, <2>2 DEF Kernel, task
<1>6. ASSUME NEW u \in Tids
      PROVE  LET r == kernel.task[u]
                 s == kernel'.task[u]
             IN  /\ s.start = r.start /\ s.leader = r.leader /\ s.app = r.app
                 /\ s.group = r.group /\ s.affinity = r.affinity /\ s.lost = r.lost
                 /\ u = t => s.nice = n /\ s.own = n
                 /\ u # t => s = r
  <2>1. kernel.task[t] \in Task
    BY <1>4
  <2>2. kernel'.task[u] = IF u = t THEN thread ELSE kernel.task[u]
    BY <1>4, <1>5
  <2>3. QED
    BY <2>1, <2>2 DEF Task
<1>7. /\ Alive(v.k.task) = Alive(w.k.task) /\ Alive(w.k.task) \subseteq Tids
      /\ \A u \in Tids : Owned(v, u) <=> Owned(w, u)
  BY <1>4, <1>6 DEF Alive, Owned
<1>8. w.g.armed => w.g.pid \in Tids
  BY <1>4 DEF Sane, Sound, Fit, Book
<1>9. SourceMatches(v) <=> SourceMatches(w)
  BY <1>4, <1>6, <1>8 DEF SourceMatches
<1>10. Fit(v)
  <2>1. \A u \in Tids : Led(kernel.task, u) => Led(kernel'.task, u)
    BY <1>4, <1>6, <1>7 DEF Led
  <2>2. Kin(v.k)
    BY <1>4, <1>5, <1>6, <2>1 DEF Sane, Sound, Fit, Kin
  <2>3. Book(v)
    BY <1>4, <1>5, <1>6, <1>7, <1>9 DEF Sane, Sound, Fit, Book
  <2>4. QED
    BY <1>4, <2>2, <2>3 DEF Fit
<1>11. SourceKept(w) => SourceKept(v)
  BY <1>4, <1>6, <1>7, <1>9 DEF SourceKept, Marked, Confined, Empty, InSource
<1>12. Reliable /\ LowNices => NiceKept(v)
  <2> SUFFICES ASSUME Reliable, LowNices PROVE NiceKept(v)
    OBVIOUS
  <2>1. n < TargetNice /\ n \in Int /\ TargetNice \in Int
    BY KernelAssumption DEF LowNices
  <2>2. ASSUME NEW u \in Alive(w.k.task)
        PROVE  /\ NiceKnown(w, u) => NiceKnown(v, u)
               /\ Raised(v.k.task[u]) => u # t /\ Raised(w.k.task[u])
               /\ u # t /\ Restorable(w, u) => Restorable(v, u)
    BY <1>4, <1>6, <1>7, <1>9, <2>1, <2>2 DEF NiceKnown, Raised, Restorable
  <2>3. NiceKept(w)
    BY <1>4 DEF Sane, Sound
  <2>4. QED
    BY <1>4, <1>7, <2>2, <2>3 DEF NiceKept, NiceHeld, NiceDown
<1>13. Placed(w, w.k.ring) => Placed(v, v.k.ring)
  BY <1>4, <1>5, <1>6, <1>7, <1>9 DEF Placed, Watched
<1>14. Sane(v)
  BY <1>4, <1>10, <1>11, <1>12, <1>13 DEF Sane, Sound
<1>15. QED
  BY <1>3, <1>4, <1>14, KernelSane

(* An application pins a thread that is not in the source's cpuset.          *)
LEMMA PinThreads ==
    ASSUME IInv, IInv', Threads, NEW t \in Tids, PinThread(t) PROVE Threads'
<1> DEFINE thread == [kernel.task[t] EXCEPT !.affinity = "pinned"]
           task == [kernel.task EXCEPT ![t] = thread]
<1>1. PICK w : w = World({})
  OBVIOUS
<1>2. PICK v : v = [w EXCEPT !.k = kernel']
  OBVIOUS
<1>3. UNCHANGED guard
  BY DEF PinThread
<1>4. /\ Sane(w) /\ w.g = guard /\ w.k = kernel /\ w \in Worlds
      /\ v \in Worlds /\ v.g = guard /\ v.k = kernel'
      /\ kernel \in Kernel /\ kernel.task \in [Tids -> Task]
  BY <1>1, <1>2, <1>3, NextWorld
<1>5. kernel' = [kernel EXCEPT !.task = task]
  BY <1>4 DEF PinThread, Kernel
<1>6. ASSUME NEW u \in Tids
      PROVE  /\ task[u] \in Task /\ Same(kernel.task[u], task[u])
             /\ SameNice(kernel.task[u], task[u])
             /\ task[u].group = kernel.task[u].group
             /\ task[u].lost = kernel.task[u].lost
             /\ task[u].affinity = "pinned" \/ task[u].affinity = kernel.task[u].affinity
  <2>1. kernel.task[t] \in Task /\ kernel.task[u] \in Task
    BY <1>4
  <2>2. thread \in Task /\ Same(kernel.task[t], thread)
        /\ SameNice(kernel.task[t], thread) /\ thread.affinity = "pinned"
        /\ thread.group = kernel.task[t].group /\ thread.lost = kernel.task[t].lost
    BY <2>1 DEF Task, Masks, Same, SameNice
  <2>3. task[u] = IF u = t THEN thread ELSE kernel.task[u]
    BY <1>4
  <2> HIDE DEF thread, task
  <2>4. QED
    BY <2>1, <2>2, <2>3 DEF Same, SameNice
<1>7. task \in [Tids -> Task]
  <2>1. \A u \in Tids : task[u] \in Task
    BY <1>6
  <2>2. task = [u \in Tids |-> task[u]]
    BY <1>4
  <2> HIDE DEF task
  <2>3. QED
    BY <2>1, <2>2
<1>8. v = [w EXCEPT !.k.task = task]
  BY <1>2, <1>4, <1>5 DEF Worlds
<1> HIDE DEF task
<1>9. Steady(w, v) /\ SameMode(w, v) /\ v.k.task = task /\ NicesStay(w, v)
  BY <1>4, <1>6, <1>7, <1>8, TaskSteady DEF NicesStay
<1>10. Fit(w) /\ Fit(v)
  BY <1>4, <1>9, SteadyFit DEF Sane, Sound, Fit, Book, SameMode
<1>11. /\ Alive(v.k.task) = Alive(w.k.task) /\ Alive(w.k.task) \subseteq Tids
       /\ SourceMatches(v) <=> SourceMatches(w)
       /\ \A u \in Tids : Owned(v, u) <=> Owned(w, u)
  BY <1>9, <1>10, SteadyAgrees
<1>12. SourceKept(w) => SourceKept(v)
  <2>1. /\ Marked(w) => Marked(v)
        /\ Confined(w) => Confined(v)
        /\ Empty(w) => Empty(v)
    BY <1>4, <1>6, <1>9, <1>11 DEF Marked, Confined, Empty, InSource, Same
  <2>2. QED
    BY <1>4, <2>1 DEF SourceKept
<1>13. NiceKept(w) => NiceKept(v)
  BY <1>4, <1>9, <1>10, NiceStays DEF NiceKept
<1>14. Placed(w, w.k.ring) => Placed(v, v.k.ring)
  BY <1>4, <1>6, <1>9, <1>11 DEF Placed, Watched, SameMode, Same
<1>15. Sane(v)
  BY <1>4, <1>10, <1>12, <1>13, <1>14 DEF Sane, Sound
<1>16. QED
  BY <1>3, <1>4, <1>15, KernelSane
(* The framework takes threads out of the source groups and announces it.    *)
LEMMA MoveThreads ==
    ASSUME IInv, IInv', Threads, NEW t \in Tids, NEW cs \in SUBSET Controllers,
           NEW g \in SystemGroups, SystemMoves(t, cs, g)
    PROVE  Threads'
<1>1. PICK w : w = World({})
  OBVIOUS
<1>2. PICK v : v = [w EXCEPT !.k = kernel']
  OBVIOUS
<1>3. UNCHANGED guard
  BY DEF SystemMoves
<1>4. /\ Sane(w) /\ w.g = guard /\ w.k = kernel /\ w \in Worlds
      /\ v \in Worlds /\ v.g = guard /\ v.k = kernel'
      /\ kernel \in Kernel /\ kernel.task \in [Tids -> Task]
  BY <1>1, <1>2, <1>3, NextWorld
<1>5. PICK who :
        /\ who \in IF kernel.task[t].leader = t
                   THEN {{t}, ThreadGroup(kernel.task, t)} ELSE {{t}}
        /\ kernel' = Announced([kernel EXCEPT !.task = Attach(kernel.task, who, cs, g)],
                               t, who)
  BY DEF SystemMoves
<1>6. ASSUME NEW u \in who
      PROVE  u = t \/ (kernel.task[u].leader = t)
  BY <1>5 DEF ThreadGroup
<1>7. g \in Groups /\ g # "source"
  BY GroupsAreGroups, GuardAssumption
<1> DEFINE task == Attach(kernel.task, who, cs, g)
<1>8. task \in [Tids -> Task]
  BY <1>4, <1>7, AttachType
<1>9. ASSUME NEW u \in Tids
      PROVE  /\ Same(kernel.task[u], task[u]) /\ SameNice(kernel.task[u], task[u])
             /\ u \notin who => task[u] = kernel.task[u]
             /\ \A c \in Controllers : \/ task[u].group[c] = kernel.task[u].group[c]
                                       \/ task[u].group[c] = g
             /\ \/ task[u].affinity = "full"
                \/ /\ task[u].affinity = kernel.task[u].affinity
                   /\ task[u].group["cpuset"] = kernel.task[u].group["cpuset"]
  <2>1. "cpuset" \in Controllers
    BY DEF Controllers
  <2>2. GroupMask(g) = "full"
    BY <1>7 DEF GroupMask
  <2>3. QED
    BY <1>4, <1>7, <2>1, <2>2, AttachEffect
<1>10. PICK z : z = [w EXCEPT !.k.task = task]
  OBVIOUS
<1> HIDE DEF task
<1>11. /\ Steady(w, z) /\ SameMode(w, z) /\ z.g = w.g /\ z.k.task = task
       /\ z \in Worlds
  <2>1. w.k.task = kernel.task /\ \A u \in Tids : Same(kernel.task[u], task[u])
    BY <1>4, <1>9
  <2>2. Steady(w, z) /\ SameMode(w, z) /\ z.g = w.g /\ z.k.task = task
    BY <1>4, <1>8, <1>10, <2>1, TaskSteady
  <2>3. QED
    BY <2>2 DEF Steady
<1>12. Fit(w) /\ Fit(z) /\ NicesStay(w, z)
  BY <1>4, <1>9, <1>11, SteadyFit DEF Sane, Sound, Fit, Book, SameMode, NicesStay
<1>13. /\ Alive(z.k.task) = Alive(w.k.task) /\ Alive(w.k.task) \subseteq Tids
       /\ SourceMatches(z) <=> SourceMatches(w)
       /\ \A u \in Tids : Owned(z, u) <=> Owned(w, u)
  BY <1>11, <1>12, SteadyAgrees
<1>14. SourceKept(w) => SourceKept(z)
  <2>1. \A u \in Tids : InSource(task[u]) => InSource(kernel.task[u])
    BY <1>7, <1>9 DEF InSource
  <2>2. Marked(w) => Marked(z)
    BY <1>4, <1>9, <1>11, <1>13 DEF Marked, Same
  <2>3. (Confined(w) => Confined(z)) /\ (Empty(w) => Empty(z))
    BY <1>4, <1>9, <1>11, <1>13, <2>1 DEF Confined, Empty, Same
  <2>4. QED
    BY <1>11, <2>2, <2>3 DEF SourceKept
<1>15. NiceKept(w) => NiceKept(z)
  BY <1>11, <1>12, NiceStays DEF NiceKept
<1>16. ASSUME Faults = {}, NEW u \in Alive(z.k.task), z.g.active,
              SourceMatches(z), z.k.task[u].leader = z.g.pid
       PROVE  /\ u \notin who => Watched(z, z.k.ring, u)
              /\ Watched(z, z.k.ring \cup {t}, u)
  <2>1. /\ u \in Tids /\ u \in Alive(w.k.task) /\ w.k.task[u].leader = w.g.pid
        /\ z.k.ring = w.k.ring
    BY <1>4, <1>9, <1>11, <1>13, <1>16 DEF Same, SameMode
  <2>2. Watched(w, w.k.ring, u)
    BY <1>4, <1>11, <1>13, <1>16, <2>1 DEF Sane, Sound, Placed
  <2>3. u \notin who => Watched(z, z.k.ring, u)
    BY <1>4, <1>9, <1>11, <2>1, <2>2 DEF Watched
  <2>4. u \in who => u = t \/ w.g.pid = t
    BY <1>4, <1>6, <2>1
  <2>5. QED
    BY <1>11, <2>3, <2>4 DEF Watched
<1>17. Sound(z, z.k.ring \cup {t})
  <2>1. Faults = {} => Placed(z, z.k.ring \cup {t})
    BY <1>4, <1>11, <1>16 DEF Placed, Sane, Sound, SameMode
  <2>2. QED
    BY <1>4, <1>12, <1>14, <1>15, <2>1 DEF Sane, Sound
<1>18. Sane([z EXCEPT !.k = Announced(z.k, t, who)])
  BY <1>16, <1>17, AnnouncedSound
<1>19. /\ [z EXCEPT !.k = Announced(z.k, t, who)].g = guard
       /\ [z EXCEPT !.k = Announced(z.k, t, who)].k = kernel'
  <2>1. z.k = [kernel EXCEPT !.task = task]
    BY <1>4, <1>10 DEF Worlds
  <2>2. kernel' = Announced(z.k, t, who)
    BY <1>5, <2>1 DEF task
  <2>3. QED
    BY <1>4, <1>11, <2>2 DEF Worlds
<1>20. QED
  BY <1>3, <1>18, <1>19, KernelSane

(* A thread ends, with its process when it is the main thread.               *)
LEMMA ExitThreads ==
    ASSUME IInv, IInv', Threads, NEW t \in Tids, ThreadExits(t) PROVE Threads'
<1> DEFINE dead == IF kernel.task[t].leader = t
                   THEN ThreadGroup(kernel.task, t) ELSE {t}
           task == [u \in Tids |-> IF u \in dead THEN NoTask ELSE kernel.task[u]]
<1>1. PICK w : w = World({})
  OBVIOUS
<1>2. PICK v : v = [w EXCEPT !.k = kernel']
  OBVIOUS
<1>3. UNCHANGED guard
  BY DEF ThreadExits
<1>4. /\ Sane(w) /\ w.g = guard /\ w.k = kernel /\ w \in Worlds
      /\ v \in Worlds /\ v.g = guard /\ v.k = kernel'
      /\ kernel \in Kernel /\ kernel.task \in [Tids -> Task]
  BY <1>1, <1>2, <1>3, NextWorld
<1>5. /\ kernel'.clock = kernel.clock /\ kernel'.used = kernel.used
      /\ kernel'.perf = kernel.perf /\ kernel'.ring = kernel.ring
      /\ kernel'.task = task
  <2>1. kernel' = [kernel EXCEPT !.task = task]
    BY DEF ThreadExits
  <2> HIDE DEF task
  <2>2. QED
    BY <1>4, <2>1 DEF Kernel
<1>6. Fit(w) /\ Kin(kernel) /\ Book(w)
  BY <1>4 DEF Sane, Sound, Fit
<1>7. ASSUME NEW u \in Alive(kernel.task) \ dead
      PROVE  /\ u \in Tids /\ kernel.task[u].leader \in Alive(kernel.task) \ dead
             /\ Led(kernel.task, u)
  <2>1. u \in Tids /\ Led(kernel.task, u)
    BY <1>6 DEF Kin, Alive
  <2>2. kernel.task[u].leader \notin dead
    <3>1. CASE kernel.task[t].leader = t
      BY <1>7, <2>1, <3>1 DEF ThreadGroup, Led
    <3>2. CASE kernel.task[t].leader # t
      BY <1>7, <2>1, <3>2 DEF Led
    <3>3. QED
      BY <3>1, <3>2
  <2>3. QED
    BY <2>1, <2>2 DEF Led
<1>8. NoTask.start = 0 /\ NoTask.affinity = "full"
  BY DEF NoTask
<1>9. ASSUME NEW u \in Tids
      PROVE  task[u] = IF u \in dead THEN NoTask ELSE kernel.task[u]
  OBVIOUS
<1> HIDE DEF dead, task
<1>10. Alive(task) = Alive(kernel.task) \ dead /\ Alive(task) \subseteq Tids
       /\ \A u \in Alive(task) : task[u] = kernel.task[u]
  BY <1>8, <1>9 DEF Alive
<1>11. \A u \in Tids : /\ Owned(v, u) => u \in Alive(task) /\ Owned(w, u)
                       /\ u \in Alive(task) /\ Owned(w, u) => Owned(v, u)
  BY <1>4, <1>5, <1>8, <1>9, <1>10 DEF Owned, Alive
<1>12. SourceMatches(v) => SourceMatches(w) /\ w.g.pid \in Alive(task)
  <2>1. w.g.armed => w.g.pid \in Tids /\ w.g.start # 0
    BY <1>6 DEF Book
  <2>2. QED
    BY <1>4, <1>5, <1>8, <1>9, <2>1 DEF SourceMatches, Alive
<1>13. SourceMatches(w) /\ w.g.pid \in Alive(task) => SourceMatches(v)
  BY <1>4, <1>5, <1>10 DEF SourceMatches
<1>14. ASSUME NEW u \in Alive(task), SourceMatches(w), kernel.task[u].leader = w.g.pid
       PROVE  SourceMatches(v)
  BY <1>7, <1>10, <1>13, <1>14
<1>15. Fit(v)
  <2>1. ASSUME NEW u \in Tids
        PROVE  /\ task[u].start <= kernel.clock
               /\ task[u].start # 0 => u \in kernel.used /\ Led(task, u)
    <3>1. 0 <= kernel.clock
      BY <1>4 DEF Kernel
    <3>2. CASE u \in Alive(task)
      BY <1>6, <1>7, <1>10, <3>2 DEF Led, Kin, Alive
    <3>3. CASE u \notin Alive(task)
      BY <3>1, <3>3 DEF Alive
    <3>4. QED
      BY <3>2, <3>3
  <2>2. Kin(v.k)
    BY <1>4, <1>5, <2>1 DEF Kin
  <2>3. Book(v)
    BY <1>4, <1>5, <1>6, <1>10, <1>11, <1>12 DEF Book
  <2>4. QED
    BY <1>4, <2>2, <2>3 DEF Fit
<1>16. SourceKept(w) => SourceKept(v)
  <2>1. Marked(w) => Marked(v)
    BY <1>4, <1>5, <1>8, <1>9, <1>10, <1>11 DEF Marked, Alive
  <2>2. (Confined(w) => Confined(v)) /\ (Empty(w) => Empty(v))
    BY <1>4, <1>5, <1>10, <1>14 DEF Confined, Empty
  <2>3. QED
    BY <1>4, <2>1, <2>2 DEF SourceKept
<1>17. NiceKept(w) => NiceKept(v)
  <2>1. ASSUME NEW u \in Alive(task)
        PROVE  /\ NiceKnown(w, u) => NiceKnown(v, u)
               /\ Raised(v.k.task[u]) <=> Raised(w.k.task[u])
               /\ Restorable(w, u) => Restorable(v, u)
    <3>1. u \in Tids /\ v.k.task[u] = w.k.task[u] /\ (Owned(v, u) <=> Owned(w, u))
      BY <1>4, <1>5, <1>10, <1>11
    <3>2. Owned(w, u) /\ SourceMatches(w) => SourceMatches(v)
      BY <1>4, <1>6, <1>14, <3>1 DEF Book
    <3>3. QED
      BY <1>4, <3>1, <3>2 DEF NiceKnown, Raised, Restorable
  <2>2. QED
    BY <1>4, <1>5, <1>10, <2>1 DEF NiceKept, NiceHeld, NiceDown
<1>18. Placed(w, w.k.ring) => Placed(v, v.k.ring)
  BY <1>4, <1>5, <1>10, <1>12 DEF Placed, Watched
<1>19. Sane(v)
  BY <1>4, <1>15, <1>16, <1>17, <1>18 DEF Sane, Sound
<1>20. QED
  BY <1>3, <1>4, <1>19, KernelSane
(* A thread is born under an id no living thread has, later than any record: *)
(* what a process starts with and what a clone takes over is sound.          *)
Decent(w, t, r) ==
    /\ r.start = w.k.clock + 1
    /\ Led([w.k.task EXCEPT ![t] = r], t)
    /\ InSource(r) => \E u \in Alive(w.k.task) :
          InSource(w.k.task[u]) /\ w.k.task[u].leader = r.leader
    /\ Marked(w) => (r.affinity = "little" => r.group["cpuset"] = "source")
    /\ LowNices /\ NiceKept(w) => r.own < TargetNice /\ ~Raised(r)

LEMMA BornSound ==
    ASSUME NEW w, NEW ring, Sound(w, ring), NEW t \in Tids \ Alive(w.k.task),
           TidReuse \/ t \notin w.k.used,
           NEW r \in Task, Decent(w, t, r),
           Faults = {} /\ r.leader = w.g.pid /\ t # w.g.pid
             /\ w.g.active /\ SourceMatches(w) =>
             r.group = In("source") \/ w.g.pid \in ring \/ "place" \in r.lost,
           NEW v \in Worlds, v.g = w.g, v.k.task = [w.k.task EXCEPT ![t] = r],
           v.k.clock = w.k.clock + 1, v.k.used = w.k.used \cup {t},
           v.k.perf = w.k.perf
    PROVE  Sound(v, ring)
<1>1. /\ Fit(w) /\ w \in Worlds /\ Kin(w.k) /\ Book(w) /\ w.k.clock \in Int
      /\ w.k.task \in [Tids -> Task] /\ w.k.clock + 1 # 0 /\ w.k.clock >= 0
  <2>1. Fit(w) /\ w \in Worlds /\ w.k.clock \in 0..MaxStart /\ MaxStart \in Int
    BY KernelAssumption DEF Sound, Fit, Worlds, Kernel
  <2>2. QED
    BY <2>1, WorldParts DEF Fit
<1>2. PICK task : task = [w.k.task EXCEPT ![t] = r]
  OBVIOUS
<1>3. \A u \in Tids : task[u] = IF u = t THEN r ELSE w.k.task[u]
  BY <1>1, <1>2
<1>4. r.start = w.k.clock + 1 /\ r.start # 0 /\ v.k.task = task
  BY <1>1, <1>2 DEF Decent
<1>5. /\ Alive(task) = Alive(w.k.task) \cup {t} /\ Alive(w.k.task) \subseteq Tids
      /\ t \notin Alive(w.k.task)
  BY <1>3, <1>4 DEF Alive
<1>6. \A u \in Tids : Owned(v, u) <=> u # t /\ Owned(w, u)
  <2>1. \A u \in Tids : w.g.records[u].start \in Int /\ w.g.records[u].start <= w.k.clock
    BY <1>1, WorldParts, KernelAssumption DEF Book, Record
  <2>2. QED
    BY <1>1, <1>3, <1>4, <2>1 DEF Owned
<1>7. SourceMatches(v) <=> SourceMatches(w)
  <2>1. w.g.armed => w.g.pid \in Tids /\ w.g.start # 0 /\ w.g.start <= w.k.clock
                     /\ w.g.start \in Int
    BY <1>1, KernelAssumption DEF Book, Worlds, Guard
  <2>2. w.k.task[t].start = 0
    BY <1>5 DEF Alive
  <2>3. QED
    BY <1>1, <1>3, <1>4, <2>1, <2>2 DEF SourceMatches
<1>8. SourceMatches(w) => w.g.pid \in Alive(w.k.task)
  BY <1>1, GroupOfSource
<1>9. Fit(v)
  <2>1. ASSUME NEW u \in Tids
        PROVE  /\ task[u].start <= w.k.clock + 1
               /\ task[u].start # 0 => u \in w.k.used \cup {t} /\ Led(task, u)
    <3>1. CASE u = t
      BY <1>2, <1>3, <1>4, <1>1, <3>1 DEF Decent
    <3>2. CASE u # t
      <4>1. /\ task[u] = w.k.task[u] /\ w.k.task[u].start <= w.k.clock
            /\ w.k.task[u].start \in Int
            /\ w.k.task[u].start # 0 => u \in w.k.used /\ Led(w.k.task, u)
        BY <1>1, <1>3, <3>2, KernelAssumption DEF Kin, Task
      <4>2. Led(w.k.task, u) => Led(task, u)
        BY <1>3, <1>5, <3>2, <4>1 DEF Led
      <4>3. QED
        BY <1>1, <4>1, <4>2
    <3>3. QED
      BY <3>1, <3>2
  <2>2. Kin(v.k)
    BY <1>4, <2>1 DEF Kin
  <2>3. Book(v)
    <3>1. w.g.armed => /\ w.g.pid \in Tids /\ w.g.start # 0
                       /\ w.g.start <= w.k.clock + 1
                       /\ SourceMatches(w) => task[w.g.pid].leader = w.g.pid
      <4>1. w.g.start \in Int
        BY <1>1, KernelAssumption DEF Worlds, Guard
      <4>2. QED
        BY <1>1, <1>3, <1>5, <1>8, <4>1 DEF Book
    <3>2. ASSUME NEW u \in Tids
          PROVE  /\ w.g.records[u].start <= w.k.clock + 1
                 /\ w.g.records[u].start # 0 => w.g.armed /\ u \in w.k.used \cup {t}
                 /\ Owned(v, u) => task[u].leader = w.g.pid
      <4>1. w.g.records[u].start \in Int
        BY <1>1, WorldParts, KernelAssumption DEF Record
      <4>2. QED
        BY <1>1, <1>3, <1>6, <4>1 DEF Book
    <3>3. w.g.active => w.g.armed /\ w.g.trace
      BY <1>1 DEF Book
    <3>4. w.g.armed => w.g.running
      BY <1>1 DEF Book
    <3>5. QED
      BY <1>4, <1>7, <3>1, <3>2, <3>3, <3>4 DEF Book
  <2>4. QED
    BY <2>2, <2>3 DEF Fit
<1>10. ASSUME ~TidReuse, SourceKept(w) PROVE SourceKept(v)
  <2>1. w.g.records[t].start = 0
    BY <1>1, <1>10 DEF Book
  <2>2. Marked(v)
    BY <1>3, <1>4, <1>6, <1>10, <2>1 DEF SourceKept, Marked, Decent
  <2>3. Confined(w) => Confined(v)
    <3> SUFFICES ASSUME Confined(w), NEW u \in Alive(task), InSource(task[u])
                 PROVE  SourceMatches(w) /\ task[u].leader = w.g.pid
      BY <1>4, <1>7 DEF Confined
    <3>1. CASE u = t
      <4>1. task[u] = r
        BY <1>3, <1>5, <3>1
      <4>2. PICK x \in Alive(w.k.task) :
              InSource(w.k.task[x]) /\ w.k.task[x].leader = r.leader
        BY <4>1 DEF Decent
      <4>3. QED
        BY <4>1, <4>2 DEF Confined
    <3>2. CASE u # t
      BY <1>3, <1>5, <3>2 DEF Confined
    <3>3. QED
      BY <3>1, <3>2
  <2>4. Empty(w) => Empty(v)
    BY <1>3, <1>4, <1>5 DEF Empty, Decent
  <2>5. QED
    BY <1>10, <2>2, <2>3, <2>4 DEF SourceKept
<1>11. ASSUME LowNices, NiceKept(w) PROVE NiceKept(v)
  <2>1. NiceKnown(v, t) /\ ~Raised(v.k.task[t])
    BY <1>3, <1>4, <1>6, <1>11 DEF NiceKnown, Decent
  <2>2. ASSUME NEW u \in Alive(w.k.task)
        PROVE  /\ NiceKnown(w, u) => NiceKnown(v, u)
               /\ Raised(v.k.task[u]) <=> Raised(w.k.task[u])
               /\ Restorable(w, u) => Restorable(v, u)
    <3>1. u \in Tids /\ u # t
      BY <1>5
    <3>2. QED
      BY <1>3, <1>4, <1>6, <1>7, <3>1 DEF NiceKnown, Raised, Restorable
  <2>3. QED
    BY <1>4, <1>5, <1>11, <2>1, <2>2 DEF NiceKept, NiceHeld, NiceDown
<1>12. ASSUME Faults = {}, Placed(w, ring) PROVE Placed(v, ring)
  <2>1. ASSUME w.g.active, SourceMatches(w), NEW u \in Alive(task),
               task[u].leader = w.g.pid
        PROVE  Watched(v, ring, u)
    <3>1. CASE u = t
      BY <1>3, <1>4, <1>5, <1>8, <1>12, <2>1, <3>1 DEF Watched
    <3>2. CASE u # t
      BY <1>3, <1>4, <1>5, <1>12, <2>1, <3>2 DEF Placed, Watched
    <3>3. QED
      BY <3>1, <3>2
  <2>2. QED
    BY <1>4, <1>7, <1>12, <2>1 DEF Placed
<1>13. QED
  BY <1>9, <1>10, <1>11, <1>12 DEF Sound
LEMMA SpawnThreads ==
    ASSUME IInv, IInv', Threads, NEW t \in Tids, NEW a \in Apps,
           NEW n \in AppNices, NEW g \in SystemGroups, SpawnProcess(t, a, n, g)
    PROVE  Threads'
<1> DEFINE born == NewProcess(t, a, n, g, kernel.clock + 1)
<1>1. PICK w : w = World({})
  OBVIOUS
<1>2. PICK r : r = born
  OBVIOUS
<1>3. UNCHANGED guard
  BY DEF SpawnProcess
<1>4. /\ Sane(w) /\ w.g = guard /\ w.k = kernel /\ w \in Worlds
      /\ kernel \in Kernel /\ kernel.task \in [Tids -> Task]
  BY <1>1, <1>3, NextWorld
<1>5. /\ t \in Tids \ Alive(kernel.task) /\ (TidReuse \/ t \notin kernel.used)
      /\ kernel.clock < MaxStart
      /\ kernel' = Announced(Born(t, r), t, {t})
  BY <1>2 DEF SpawnProcess, Free
<1>6. r \in Task
  BY <1>2, <1>5, BirthTypes DEF IInv
<1>7. g \in {"top", "background"} /\ n \in Int /\ kernel.clock + 1 # 0
  BY <1>4, GuardAssumption, KernelAssumption DEF Kernel
<1>8. /\ r.start = kernel.clock + 1 /\ r.leader = t /\ r.nice = n /\ r.own = n
      /\ r.affinity = "full" /\ r.group = In(g)
  BY <1>2 DEF NewProcess, NoTask
<1>9. Decent(w, t, r)
  <2>1. ~InSource(r)
    BY <1>7, <1>8 DEF InSource, In
  <2>2. Led([kernel.task EXCEPT ![t] = r], t)
    BY <1>4, <1>7, <1>8 DEF Led, Alive
  <2>3. LowNices => r.own < TargetNice /\ ~Raised(r)
    BY <1>7, <1>8, KernelAssumption DEF LowNices, Raised
  <2>4. QED
    BY <1>4, <1>8, <2>1, <2>2, <2>3 DEF Decent
<1>10. PICK k : k = Born(t, r)
  OBVIOUS
<1>11. /\ k \in Kernel /\ k.task = [kernel.task EXCEPT ![t] = r]
       /\ k.clock = kernel.clock + 1 /\ k.used = kernel.used \cup {t}
       /\ k.perf = kernel.perf /\ k.ring = kernel.ring
  <2> DEFINE task == [kernel.task EXCEPT ![t] = r]
             clock == kernel.clock + 1
             used == kernel.used \cup {t}
  <2>1. k \in Kernel
    BY <1>5, <1>6, <1>10, BornType DEF IInv
  <2>2. k = [kernel EXCEPT !.task = task, !.clock = clock, !.used = used]
    BY <1>4, <1>10 DEF Born, Kernel
  <2>3. task = [kernel.task EXCEPT ![t] = r]
    OBVIOUS
  <2> HIDE DEF task, clock, used
  <2>4. k.task = task /\ k.clock = clock /\ k.used = used
        /\ k.perf = kernel.perf /\ k.ring = kernel.ring
    BY <1>4, <2>2 DEF Kernel
  <2>5. QED
    BY <2>1, <2>3, <2>4 DEF clock, used
<1>12. PICK z : z = [w EXCEPT !.k = k]
  OBVIOUS
<1>13. z \in Worlds /\ z.g = guard /\ z.k = k
  BY <1>4, <1>11, <1>12 DEF Worlds
<1>14. Sound(z, w.k.ring)
  <2>1. Sound(w, w.k.ring) /\ z.g = w.g
    BY <1>4, <1>13 DEF Sane
  <2>2. r.leader = w.g.pid => ~(t # w.g.pid)
    BY <1>8
  <2>3. QED
    BY <1>4, <1>5, <1>6, <1>9, <1>11, <1>13, <2>1, <2>2, BornSound
<1>15. Sane([z EXCEPT !.k = Announced(z.k, t, {t})])
  <2>1. z.k.ring = w.k.ring
    BY <1>4, <1>11, <1>13
  <2>2. Placed(z, w.k.ring) => Placed(z, z.k.ring \cup {t})
    BY <2>1 DEF Placed, Watched
  <2>3. Sound(z, z.k.ring \cup {t})
    BY <1>14, <2>2 DEF Sound
  <2>4. Faults = {} =>
          \A u \in Alive(z.k.task) \ {t} :
             z.g.active /\ SourceMatches(z) /\ z.k.task[u].leader = z.g.pid
               => Watched(z, z.k.ring, u)
    BY <1>14, <2>1 DEF Sound, Placed
  <2>5. QED
    BY <2>3, <2>4, AnnouncedSound
<1>16. /\ [z EXCEPT !.k = Announced(z.k, t, {t})].g = guard
       /\ [z EXCEPT !.k = Announced(z.k, t, {t})].k = kernel'
  BY <1>5, <1>10, <1>13 DEF Worlds
<1>17. QED
  BY <1>3, <1>15, <1>16, KernelSane

(* A clone takes over groups, mask and nice value of the thread that makes   *)
(* it; what it takes over raised or displaced is noted.                      *)
LEMMA CloneThreads ==
    ASSUME IInv, IInv', Threads, NEW parent \in Tids, NEW t \in Tids,
           CloneThread(parent, t)
    PROVE  Threads'
<1> DEFINE p == kernel.task[parent]
           lost == p.lost \cup (IF p.nice > p.own THEN {"nice"} ELSE {})
                          \cup (IF kernel.perf /\ p.group # In("source")
                                THEN {"place"} ELSE {})
<1>1. PICK w : w = World({})
  OBVIOUS
<1>2. PICK v : v = [w EXCEPT !.k = kernel']
  OBVIOUS
<1>3. UNCHANGED guard
  BY DEF CloneThread
<1>4. /\ Sane(w) /\ w.g = guard /\ w.k = kernel /\ w \in Worlds
      /\ v \in Worlds /\ v.g = guard /\ v.k = kernel'
      /\ kernel \in Kernel /\ kernel.task \in [Tids -> Task]
  BY <1>1, <1>2, <1>3, NextWorld
<1>5. PICK r : r = Clone(p, kernel.clock + 1, kernel.perf)
  OBVIOUS
<1>6. /\ t \in Tids \ Alive(kernel.task) /\ (TidReuse \/ t \notin kernel.used)
      /\ kernel.clock < MaxStart /\ kernel' = Born(t, r)
      /\ parent \in Alive(kernel.task)
  BY <1>5 DEF CloneThread, Free
<1>7. r \in Task
  BY <1>5, <1>6, BirthTypes DEF IInv
<1>8. p \in Task
  BY <1>4
<1>9. /\ r.start = kernel.clock + 1 /\ r.leader = p.leader /\ r.app = p.app
      /\ r.nice = p.nice /\ r.own = p.own /\ r.affinity = p.affinity
      /\ r.group = p.group
      /\ p.nice > p.own => "nice" \in r.lost
      /\ kernel.perf /\ p.group # In("source") => "place" \in r.lost
      /\ p.lost \subseteq r.lost
  <2>1. r = [p EXCEPT !.start = kernel.clock + 1, !.lost = lost]
    BY <1>5 DEF Clone
  <2>2. /\ p.nice > p.own => "nice" \in lost
        /\ kernel.perf /\ p.group # In("source") => "place" \in lost
        /\ p.lost \subseteq lost
    OBVIOUS
  <2> HIDE DEF p, lost
  <2>3. QED
    BY <1>8, <2>1, <2>2 DEF Task
<1>10. Fit(w) /\ Kin(kernel) /\ Book(w) /\ kernel.clock + 1 # 0
  <2>1. kernel.clock \in 0..MaxStart /\ MaxStart \in Int
    BY <1>4, KernelAssumption DEF Kernel
  <2>2. QED
    BY <1>4, <2>1 DEF Sane, Sound, Fit
<1>11. /\ parent # t /\ p.leader \in Alive(kernel.task) /\ p.leader # t
       /\ kernel.task[p.leader].leader = p.leader
       /\ kernel.task[p.leader].app = p.app
       /\ p.leader \in Tids
  <2>1. Led(kernel.task, parent)
    BY <1>6, <1>10 DEF Kin, Alive
  <2>2. QED
    BY <1>6, <2>1 DEF Led, Alive
<1> HIDE DEF p, lost
<1>12. Decent(w, t, r)
  <2>1. InSource(r) => InSource(p)
    BY <1>9 DEF InSource
  <2>2. Led([kernel.task EXCEPT ![t] = r], t)
    <3>1. PICK task : task = [kernel.task EXCEPT ![t] = r]
      OBVIOUS
    <3>2. task[t] = r /\ task[p.leader] = kernel.task[p.leader]
      BY <1>4, <1>11, <3>1
    <3>3. p.leader \in Alive(task)
      BY <1>11, <3>2 DEF Alive
    <3>4. QED
      BY <1>9, <1>11, <3>1, <3>2, <3>3 DEF Led
  <2>3. Marked(w) => (r.affinity = "little" => r.group["cpuset"] = "source")
    BY <1>4, <1>9 DEF Marked, p
  <2>4. LowNices /\ NiceKept(w) => r.own < TargetNice /\ ~Raised(r)
    <3>1. NiceKept(w) => p.own < TargetNice
      BY <1>4, <1>6 DEF NiceKept, NiceHeld, NiceKnown, p
    <3>2. p.nice \in Int /\ p.own \in Int /\ TargetNice \in Int
      BY <1>8, KernelAssumption DEF Task
    <3>3. QED
      BY <1>9, <3>1, <3>2 DEF Raised
  <2>5. QED
    BY <1>4, <1>6, <1>9, <2>1, <2>2, <2>3, <2>4 DEF Decent, p
<1>13. ASSUME Faults = {}, r.leader = w.g.pid, w.g.active, SourceMatches(w)
       PROVE  r.group = In("source") \/ w.g.pid \in w.k.ring \/ "place" \in r.lost
  <2>1. kernel.perf
    BY <1>4, <1>10, <1>13 DEF Sane, Sound, Placed, Book
  <2>2. QED
    BY <1>9, <2>1
<1>14. /\ kernel'.task = [kernel.task EXCEPT ![t] = r]
       /\ kernel'.clock = kernel.clock + 1 /\ kernel'.used = kernel.used \cup {t}
       /\ kernel'.perf = kernel.perf /\ kernel'.ring = kernel.ring
  <2> DEFINE task == [kernel.task EXCEPT ![t] = r]
             clock == kernel.clock + 1
             used == kernel.used \cup {t}
  <2>1. kernel' = [kernel EXCEPT !.task = task, !.clock = clock, !.used = used]
    BY <1>4, <1>6 DEF Born, Kernel
  <2>2. task = [kernel.task EXCEPT ![t] = r]
    OBVIOUS
  <2> HIDE DEF task, clock, used
  <2>3. kernel'.task = task /\ kernel'.clock = clock /\ kernel'.used = used
        /\ kernel'.perf = kernel.perf /\ kernel'.ring = kernel.ring
    BY <1>4, <2>1 DEF Kernel
  <2>4. QED
    BY <2>2, <2>3 DEF clock, used
<1>15. Sound(v, w.k.ring)
  <2>1. Sound(w, w.k.ring) /\ v.g = w.g
    BY <1>4 DEF Sane
  <2>2. QED
    BY <1>4, <1>6, <1>7, <1>12, <1>13, <1>14, <2>1, BornSound
<1>16. Sane(v)
  BY <1>4, <1>14, <1>15 DEF Sane
<1>17. QED
  BY <1>3, <1>4, <1>16, KernelSane

LEMMA SystemThreads == IInv /\ IInv' /\ Threads /\ System => Threads'
<1> SUFFICES ASSUME IInv, IInv', Threads, System PROVE Threads'
  OBVIOUS
<1>0. kernel \in Kernel
  BY DEF IInv, TypeOK
<1>1. CASE TimerExpires
  BY <1>0, <1>1, TimerRuns DEF TimerExpires, Kernel
<1>2. ASSUME NEW t \in Tids, NEW cs \in SUBSET Controllers, NEW g \in SystemGroups,
             SystemMoves(t, cs, g)
      PROVE  Threads'
  BY <1>2, MoveThreads
<1>3. ASSUME NEW t \in Tids, NEW n \in AppNices, SystemSetsNice(t, n) PROVE Threads'
  BY <1>3, NiceThreads
<1>4. ASSUME NEW a \in MinorUsers, SystemSetsMinor(a) PROVE Threads'
  BY <1>0, <1>4, TimerRuns DEF SystemSetsMinor, Kernel
<1>5. ASSUME NEW t \in Tids, PinThread(t) PROVE Threads'
  BY <1>5, PinThreads
<1>6. ASSUME NEW t \in Tids, NEW a \in Apps, NEW n \in AppNices,
             NEW g \in SystemGroups, SpawnProcess(t, a, n, g)
      PROVE  Threads'
  BY <1>6, SpawnThreads
<1>7. ASSUME NEW parent \in Tids, NEW t \in Tids, CloneThread(parent, t)
      PROVE  Threads'
  BY <1>7, CloneThreads
<1>8. ASSUME NEW t \in Tids, ThreadExits(t) PROVE Threads'
  BY <1>8, ExitThreads
<1>9. QED
  BY <1>1, <1>2, <1>3, <1>4, <1>5, <1>6, <1>7, <1>8 DEF System
-----------------------------------------------------------------------------
(* The theorems                                                              *)

LEMMA InitThreads == Init => Threads
<1> SUFFICES ASSUME Init PROVE Threads
  OBVIOUS
<1> DEFINE none == NoRecords
           first(t) == NewProcess(t, Initial[t], 0, "top", 1)
           task == [t \in Tids |-> IF t \in DOMAIN Initial /\ MaxStart > 0
                                   THEN first(t) ELSE NoTask]
           clock == IF MaxStart > 0 THEN 1 ELSE 0
<1>1. PICK w : w = World({})
  OBVIOUS
<1>2. w \in Worlds /\ w.g = guard /\ w.k = kernel
  <2>1. IInv
    BY InitIInv
  <2>2. QED
    BY <1>1, <2>1 DEF World, IInv, TypeOK, Worlds
<1>3. /\ guard.running /\ ~guard.armed /\ ~guard.active /\ guard.trace = FALSE
      /\ \A t \in Tids : guard.records[t].start = 0
                         /\ guard.records[t].affinity = "none"
  <2>1. \A t \in Tids : none[t].start = 0 /\ none[t].affinity = "none"
    BY DEF NoRecords, NoRecord
  <2>2. guard = [running |-> TRUE, armed |-> FALSE, active |-> FALSE, pid |-> 0,
                 start |-> 0, app |-> NoApp, minor |-> NoApp, records |-> none,
                 accepted |-> 0, completion |-> 0, trace |-> FALSE]
    BY DEF Init, NewGuard, NoRecords
  <2> HIDE DEF none
  <2>3. QED
    BY <2>1, <2>2
<1>4. /\ kernel.task = task /\ kernel.clock = clock /\ kernel.perf = FALSE
      /\ kernel.used = DOMAIN Initial
  BY DEF Init
<1>5. \A t \in Tids :
        /\ t \in DOMAIN Initial /\ MaxStart > 0 =>
             /\ task[t].start = 1 /\ task[t].leader = t /\ task[t].nice = 0
             /\ task[t].own = 0 /\ task[t].affinity = "full"
             /\ task[t].group = In("top")
        /\ ~(t \in DOMAIN Initial /\ MaxStart > 0) =>
             task[t].start = 0 /\ task[t].affinity = "full"
  <2>1. ASSUME NEW t
        PROVE  /\ first(t).start = 1 /\ first(t).leader = t /\ first(t).nice = 0
               /\ first(t).own = 0 /\ first(t).affinity = "full"
               /\ first(t).group = In("top")
               /\ NoTask.start = 0 /\ NoTask.affinity = "full"
    BY DEF NewProcess, NoTask
  <2> HIDE DEF first
  <2>2. QED
    BY <2>1
<1>6. clock \in Nat /\ (MaxStart > 0 => clock = 1)
  BY KernelAssumption
<1> HIDE DEF task, clock
<1>7. ~SourceMatches(w) /\ \A t \in Tids : ~Owned(w, t)
  BY <1>2, <1>3 DEF SourceMatches, Owned
<1>8. Fit(w)
  <2>1. \A t \in Tids : task[t].start # 0 => task[t].leader = t /\ task[t].start = 1
                                             /\ t \in DOMAIN Initial /\ clock = 1
    BY <1>5, <1>6
  <2>2. Kin(kernel)
    BY <1>4, <1>6, <2>1 DEF Kin, Led, Alive
  <2>3. Book(w)
    BY <1>2, <1>3, <1>4, <1>6, <1>7 DEF Book
  <2>4. QED
    BY <1>2, <2>2, <2>3 DEF Fit
<1>9. SourceKept(w)
  <2>1. \A t \in Alive(task) : ~InSource(task[t])
    BY <1>5 DEF Alive, InSource, In
  <2>2. QED
    BY <1>2, <1>3, <1>4, <1>5, <2>1 DEF SourceKept, Marked, Confined, Empty
<1>10. LowNices => NiceKept(w)
  <2>1. \A t \in Alive(task) : t \in Tids /\ task[t].nice = 0 /\ task[t].own = 0
    BY <1>5 DEF Alive
  <2>2. TargetNice \in Int
    BY KernelAssumption
  <2>3. LowNices => NiceDown(w)
    BY <1>2, <1>4, <1>7, <2>1, <2>2 DEF LowNices, NiceDown, NiceKnown, Raised
  <2>4. QED
    BY <2>3 DEF NiceKept, NiceDown, NiceHeld
<1>11. Placed(w, w.k.ring)
  BY <1>2, <1>3, <1>4 DEF Placed
<1>12. QED
  BY <1>1, <1>3, <1>8, <1>9, <1>10, <1>11 DEF Threads, Sane, Sound, Silent

LEMMA NextThreads == IInv /\ IInv' /\ Threads /\ [Next]_vars => Threads'
<1> SUFFICES ASSUME IInv, IInv', Threads, [Next]_vars PROVE Threads'
  OBVIOUS
<1>1. CASE Command
  BY <1>1, CommandThreads
<1>2. CASE HandleTimer
  BY <1>2, TimerThreads
<1>3. ASSUME NEW t \in Tids, HandleEvent(t) PROVE Threads'
  BY <1>3, EventThreads
<1>4. CASE StartGuard
  BY <1>4, StartThreads
<1>5. CASE Crash
  BY <1>5, CrashThreads
<1>6. CASE System
  BY <1>6, SystemThreads
<1>7. CASE UNCHANGED vars
  BY <1>7 DEF vars, Threads, World
<1>8. QED
  BY <1>1, <1>2, <1>3, <1>4, <1>5, <1>6, <1>7 DEF Next

LEMMA ThreadsInvariance == Spec => [](IInv /\ Threads)
<1>1. Init => IInv /\ Threads
  BY InitIInv, InitThreads
<1>2. IInv /\ Threads /\ [Next]_vars => (IInv /\ Threads)'
  BY NextIInv, NextThreads
<1>3. QED
  BY <1>1, <1>2, PTL DEF Spec

(* Where attaching a thread does not fail and ids are not given out twice,   *)
(* no history leaves a thread in the source groups that the guard does not   *)
(* suppress: not the ways out of activate_source, arm_source's switch to     *)
(* another process, a source that dies, nor a daemon that is stopped, killed *)
(* and started again behind service.sh's drain.                              *)
THEOREM SourceGroupsAreTheSources ==
    Reliable /\ ~TidReuse => (Spec => []OnlySourceInSourceGroups)
<1> SUFFICES ASSUME Reliable /\ ~TidReuse PROVE Spec => []OnlySourceInSourceGroups
  OBVIOUS
<1>1. IInv /\ Threads => OnlySourceInSourceGroups
  <2> SUFFICES ASSUME IInv, Threads, guard.running, NEW t \in Alive(kernel.task),
                      \E c \in Controllers : kernel.task[t].group[c] = "source"
               PROVE  guard.active /\ t \in SourceThreads
    BY DEF OnlySourceInSourceGroups
  <2>1. PICK w : w = World({})
    OBVIOUS
  <2>2. Sane(w) /\ w.g = guard /\ w.k = kernel
    BY <2>1 DEF Threads, World
  <2>3. InSource(kernel.task[t])
    BY DEF InSource
  <2>4. guard.active /\ SourceMatches(w) /\ kernel.task[t].leader = guard.pid
    BY <2>2, <2>3 DEF Sane, Sound, SourceKept, Confined, Empty
  <2>5. t \in ThreadGroup(kernel.task, guard.pid)
    BY <2>2, <2>4, GroupOfSource DEF Sane, Sound
  <2>6. QED
    BY <2>1, <2>4, <2>5 DEF SourceThreads
<1>2. QED
  BY <1>1, ThreadsInvariance, PTL

(* Under the same conditions no record takes the mask of the source group    *)
(* for the one to restore (capture_source_baseline, register_task), whatever *)
(* starts, is cloned or displaced while the guard looks.                     *)
THEOREM MasksAreTheThreads ==
    Reliable /\ ~TidReuse => (Spec => []BaselineNotSuppressed)
<1> SUFFICES ASSUME Reliable /\ ~TidReuse PROVE Spec => []BaselineNotSuppressed
  OBVIOUS
<1>1. IInv /\ Threads => BaselineNotSuppressed
  BY DEF Threads, Sane, Sound, SourceKept, Marked, World, BaselineNotSuppressed
<1>2. QED
  BY <1>1, ThreadsInvariance, PTL

(* Where attaching does not fail and applications use nice values below the  *)
(* one of suppression, every value the guard raised is restored when nothing *)
(* is suppressed any more, also when ids are given out again (apply_nice,    *)
(* restore_nice and the records of register_task).                           *)
THEOREM NicesAreRestored ==
    Reliable /\ LowNices => (Spec => []NoNiceLeft)
<1> SUFFICES ASSUME Reliable /\ LowNices PROVE Spec => []NoNiceLeft
  OBVIOUS
<1>1. IInv /\ Threads => NoNiceLeft
  <2> SUFFICES ASSUME Threads, ~guard.active, NEW t \in Alive(kernel.task),
                      LeftSlow(t)
               PROVE  "nice" \in kernel.task[t].lost
    BY DEF NoNiceLeft
  <2>1. PICK w : w = World({})
    OBVIOUS
  <2>2. Sane(w) /\ w.g = guard /\ w.k = kernel
    BY <2>1 DEF Threads, World
  <2>3. ~Raised(kernel.task[t])
    BY <2>2 DEF Sane, Sound, NiceKept, NiceDown
  <2>4. QED
    BY <2>3 DEF LeftSlow, Raised
<1>2. QED
  BY <1>1, ThreadsInvariance, PTL

(* Where neither attaching nor the trace fails, each thread of a suppressed  *)
(* source is in its groups or announced, or its event was dropped: no order  *)
(* of commands, events and births leaves one outside unnoticed               *)
(* (activate_source, reassert_source).                                       *)
THEOREM PlacementIsWatched ==
    Faults = {} => (Spec => []PlacementWatched)
<1> SUFFICES ASSUME Faults = {} PROVE Spec => []PlacementWatched
  OBVIOUS
<1>1. IInv /\ Threads => PlacementWatched
  <2> SUFFICES ASSUME Threads, guard.active, NEW t \in SourceThreads
               PROVE  \/ kernel.task[t].group = In("source")
                      \/ {t, guard.pid} \cap kernel.ring # {}
                      \/ "place" \in kernel.task[t].lost
    BY DEF PlacementWatched
  <2>1. PICK w : w = World({})
    OBVIOUS
  <2>2. Sane(w) /\ w.g = guard /\ w.k = kernel
    BY <2>1 DEF Threads, World
  <2>3. SourceMatches(w) /\ t \in ThreadGroup(kernel.task, guard.pid)
    BY <2>1 DEF SourceThreads
  <2>4. t \in Alive(kernel.task) /\ kernel.task[t].leader = guard.pid
    BY <2>2, <2>3, GroupOfSource DEF Sane, Sound
  <2>5. Watched(w, w.k.ring, t)
    BY <2>2, <2>3, <2>4 DEF Sane, Sound, Placed
  <2>6. QED
    BY <2>2, <2>5 DEF Watched
<1>2. QED
  BY <1>1, ThreadsInvariance, PTL
-----------------------------------------------------------------------------
(* Masks that are handed back                                                *)

(* No thread comes to top-app's cpuset on the way from w to v ...            *)
Spared(w, v) ==
    /\ v \in Worlds
    /\ \A t \in Tids : v.k.task[t].group["cpuset"] = "top"
                         => w.k.task[t].group["cpuset"] = "top"

(* ... or one that does is given the mask of its record.                     *)
Returned(w, v) ==
    \A t \in Tids :
       /\ Owned(w, t) /\ w.g.records[t].affinity # "none"
       /\ w.k.task[t].group["cpuset"] = "source"
       /\ v.k.task[t].group["cpuset"] = "top"
       => v.k.task[t].affinity = w.g.records[t].affinity

LEMMA SparedIsReturned == ASSUME NEW w, NEW v, Spared(w, v) PROVE Returned(w, v)
BY DEF Spared, Returned

LEMMA SparedTrans ==
    ASSUME NEW u, NEW v, NEW w, Spared(u, v), Spared(v, w) PROVE Spared(u, w)
BY DEF Spared

LEMMA SparedBySteady ==
    ASSUME NEW w, NEW v, Steady(w, v), TasksStay(w, v) \/ PlacesStay(w, v)
    PROVE  Spared(w, v)
BY DEF Steady, TasksStay, PlacesStay, SamePlace, Spared

LEMMA SparedByKeeps ==
    ASSUME NEW w, NEW v \in Worlds, v.k.task = w.k.task PROVE Spared(w, v)
BY DEF Spared

LEMMA SparedByMove ==
    ASSUME NEW w \in Worlds, NEW who, NEW g \in {"background", "source"}
    PROVE  Spared(w, Move(w, who, g))
<1>1. PICK v : v = Move(w, who, g)
  OBVIOUS
<1>2. g \in Groups /\ g # "top" /\ "cpuset" \in Controllers
  BY DEF Groups, Controllers
<1>3. PICK cs : cs = Controllers \ w.bad
  OBVIOUS
<1>4. v \in Worlds /\ v.k.task = Attach(w.k.task, who, cs, g)
  BY <1>1, <1>2, <1>3, MoveEffect DEF Steady
<1>5. w.k.task \in [Tids -> Task]
  BY WorldParts
<1>6. ASSUME NEW t \in Tids
      PROVE  v.k.task[t].group["cpuset"] \in {g, w.k.task[t].group["cpuset"]}
  BY <1>2, <1>4, <1>5, AttachEffect
<1>7. QED
  BY <1>1, <1>2, <1>4, <1>6 DEF Spared

LEMMA DeactivateEffect ==
    ASSUME NEW w \in Worlds
    PROVE  LET v == Deactivate(w) IN Steady(w, v) /\ TasksStay(w, v)
<1>1. PICK u : u = Inactive(w)
  OBVIOUS
<1>2. Steady(w, u) /\ TasksStay(w, u) /\ u \in Worlds
  BY <1>1, InactiveEffect DEF Steady
<1>3. Steady(u, SetTrace(u, FALSE)) /\ TasksStay(u, SetTrace(u, FALSE))
  BY <1>2, SetTraceEffect
<1>4. Deactivate(w) = SetTrace(u, FALSE)
  BY <1>1 DEF Deactivate, Inactive
<1>5. QED
  BY <1>2, <1>3, <1>4, SteadyTrans DEF TasksStay

LEMMA SparedByWrites ==
    ASSUME NEW w \in Worlds
    PROVE  /\ Spared(w, w) /\ Spared(w, Deactivate(w)) /\ Spared(w, CancelTimer(w))
           /\ Spared(w, Inactive(w)) /\ Spared(w, Forgotten(w))
           /\ Spared(w, Refresh(w)) /\ Spared(w, CaptureBaseline(w))
           /\ \A who : Spared(w, ApplyNice(w, who))
           /\ \A force \in BOOLEAN : Spared(w, RestoreNice(w, force))
           /\ \A preserve \in BOOLEAN : Spared(w, RestoreMinor(w, preserve))
           /\ \A a : Spared(w, ClearMinor(w, a))
           /\ Spared(w, SetTrace(w, TRUE))
<1>1. Spared(w, w) /\ Spared(w, Deactivate(w)) /\ Spared(w, CancelTimer(w))
  BY DeactivateEffect, CancelTimerEffect, SparedBySteady DEF Spared
<1>2. Spared(w, Inactive(w)) /\ Spared(w, Forgotten(w))
  BY InactiveEffect, SparedBySteady, ForgottenType DEF Spared
<1>3. Spared(w, Refresh(w)) /\ Spared(w, CaptureBaseline(w))
  <2>1. Refresh(w) \in Worlds /\ CaptureBaseline(w) \in Worlds
    BY RefreshKeeps, CaptureKeeps DEF Keeps
  <2>2. Refresh(w).k = w.k /\ CaptureBaseline(w).k = w.k
    BY DEF Refresh, CaptureBaseline, Worlds
  <2>3. QED
    BY <2>1, <2>2, SparedByKeeps
<1>4. /\ \A who : Spared(w, ApplyNice(w, who))
      /\ \A force \in BOOLEAN : Spared(w, RestoreNice(w, force))
  BY ApplyNiceEffect, RestoreNiceEffect, SparedBySteady
<1>5. /\ \A preserve \in BOOLEAN : Spared(w, RestoreMinor(w, preserve))
      /\ \A a : Spared(w, ClearMinor(w, a))
  BY MinorEffect, ClearMinorEffect, SparedBySteady
<1>6. Spared(w, SetTrace(w, TRUE))
  BY SetTraceEffect, SparedBySteady
<1>7. QED
  BY <1>1, <1>2, <1>3, <1>4, <1>5, <1>6

LEMMA SparedByAbandon ==
    ASSUME NEW w \in Worlds PROVE Spared(w, Abandon(w))
<1>1. PICK quiet : quiet = Deactivate(w)
  OBVIOUS
<1>2. PICK w1 : w1 = RestoreNice(quiet, FALSE)
  OBVIOUS
<1>3. PICK w2 : w2 = RestoreMinor(w1, FALSE)
  OBVIOUS
<1>4. Spared(w, quiet)
  BY <1>1, SparedByWrites
<1>5. Spared(quiet, w1)
  BY <1>2, <1>4, SparedByWrites DEF Spared
<1>6. Spared(w1, w2)
  BY <1>3, <1>5, SparedByWrites DEF Spared
<1>7. Spared(w2, MoveSource(w2, "background"))
  BY <1>6, SparedByMove DEF Spared, MoveSource
<1>8. Abandon(w) = IF ~SourceMatches(quiet) THEN quiet
                   ELSE MoveSource(w2, "background")
  BY <1>1, <1>2, <1>3 DEF Abandon
<1>9. QED
  BY <1>4, <1>5, <1>6, <1>7, <1>8, SparedTrans

LEMMA SparedByArm ==
    ASSUME NEW w \in Worlds, NEW p \in Tids, NEW a \in Apps
    PROVE  Spared(w, Arm(w, p, a))
<1>1. PICK free : free = IF w.g.active /\ ~SameSource(w, p, a) THEN Abandon(w) ELSE w
  OBVIOUS
<1>2. PICK fresh : fresh = Rearmed(free, p, a)
  OBVIOUS
<1>3. Spared(w, free)
  BY <1>1, SparedByAbandon, SparedByWrites
<1>4. Arm(w, p, a) \in Worlds
  BY ArmType DEF SameTiming
<1>5. \A v : Refresh(v).k = v.k \/ v \notin Worlds
  BY DEF Refresh, Worlds
<1>6. Arm(w, p, a) \in {w, Refresh(free), Refresh(fresh)}
  BY <1>1, <1>2 DEF Arm, Rearmed
<1>7. free \in Worlds /\ Refresh(free).k = free.k
  BY <1>3, <1>5 DEF Spared
<1>8. fresh.k = free.k /\ Refresh(fresh).k = fresh.k
  BY <1>2, <1>7 DEF Rearmed, Refresh, Worlds
<1>9. Arm(w, p, a).k \in {w.k, free.k}
  BY <1>6, <1>7, <1>8
<1>10. QED
  BY <1>3, <1>4, <1>9, SparedByKeeps, SparedTrans DEF Spared

LEMMA SparedBySuppress ==
    ASSUME NEW w \in Worlds, NEW p, NEW a PROVE Spared(w, Suppress(w, p, a))
<1>1. PICK based : based = IF w.g.active THEN w ELSE CaptureBaseline(w)
  OBVIOUS
<1>2. PICK on : on = [based EXCEPT !.g.active = TRUE]
  OBVIOUS
<1>3. PICK watched : watched = SetTrace(on, TRUE)
  OBVIOUS
<1>4. PICK cleared : cleared = ClearMinor(watched, a)
  OBVIOUS
<1>5. PICK moved : moved = MoveSource(cleared, "source")
  OBVIOUS
<1>6. Spared(w, based)
  BY <1>1, SparedByWrites
<1>7. Spared(based, on)
  <2>1. based \in Worlds
    BY <1>6 DEF Spared
  <2>2. PICK g : g = [based.g EXCEPT !.active = TRUE]
    OBVIOUS
  <2>3. g \in Guard
    BY <2>1, <2>2 DEF Worlds, Guard
  <2>4. on = [based EXCEPT !.g = g]
    BY <1>2, <2>2
  <2>5. on \in Worlds /\ on.k = based.k
    BY <2>1, <2>3, <2>4 DEF Worlds
  <2>6. QED
    BY <2>5, SparedByKeeps
<1>8. Spared(on, watched)
  BY <1>3, <1>7, SparedByWrites DEF Spared
<1>9. Spared(watched, cleared)
  <2>1. watched \in Worlds
    BY <1>8 DEF Spared
  <2>2. Steady(watched, cleared) /\ TasksStay(watched, cleared)
    BY <1>4, <2>1, ClearMinorEffect
  <2>3. QED
    BY <2>2, SparedBySteady
<1>10. Spared(cleared, moved)
  BY <1>5, <1>9, SparedByMove DEF Spared, MoveSource
<1>11. Spared(w, watched) /\ Spared(w, moved)
  BY <1>6, <1>7, <1>8, <1>9, <1>10, SparedTrans
<1>12. /\ Spared(w, Inactive(watched)) /\ Spared(w, Deactivate(moved))
       /\ Spared(w, ApplyNice(moved, Tids))
  <2>1. watched \in Worlds /\ moved \in Worlds
    BY <1>11 DEF Spared
  <2>2. QED
    BY <1>11, <2>1, SparedByWrites, SparedTrans
<1>13. Suppress(w, p, a) \in {w, Inactive(watched), Deactivate(moved),
                              ApplyNice(moved, Tids)}
  BY <1>1, <1>2, <1>3, <1>4, <1>5 DEF Suppress, Inactive
<1>14. QED
  BY <1>12, <1>13, SparedByWrites

LEMMA SparedByActivate ==
    ASSUME NEW w \in Worlds, NEW p \in Tids, NEW a \in Apps
    PROVE  Spared(w, Activate(w, p, a))
<1>1. /\ Spared(w, w) /\ Spared(w, Refresh(w)) /\ Spared(w, Arm(w, p, a))
  BY SparedByWrites, SparedByArm
<1>2. ASSUME NEW v, Spared(w, v) PROVE Spared(w, Suppress(v, p, a))
  BY <1>2, SparedBySuppress, SparedTrans DEF Spared
<1>3. Activate(w, p, a) \in {w, Suppress(w, p, a), Suppress(Refresh(w), p, a),
                             Suppress(Arm(w, p, a), p, a)}
  BY DEF Activate
<1>4. QED
  BY <1>1, <1>2, <1>3

LEMMA SparedByAccept ==
    ASSUME NEW w \in Worlds, NEW id \in Ids \cup {0}
    PROVE  LET v == [w EXCEPT !.g.accepted = id]
           IN  /\ Spared(w, v) /\ Spared(w, Accept(w, id))
               /\ Accept(w, id).g.pid = w.g.pid /\ Accept(w, id).g.app = w.g.app
               /\ Accept(w, id).g.armed = w.g.armed
<1>1. PICK g : g = [w.g EXCEPT !.accepted = id]
  OBVIOUS
<1>2. g \in Guard /\ g.pid = w.g.pid /\ g.app = w.g.app /\ g.armed = w.g.armed
  BY <1>1 DEF Worlds, Guard
<1>3. PICK v : v = [w EXCEPT !.g = g]
  OBVIOUS
<1>4. v \in Worlds /\ v.k = w.k /\ v.g = g
  BY <1>2, <1>3 DEF Worlds
<1>5. v = [w EXCEPT !.g.accepted = id] /\ Accept(w, id) = CancelTimer(v)
  BY <1>1, <1>3 DEF Accept
<1>6. Steady(v, CancelTimer(v)) /\ TasksStay(v, CancelTimer(v))
  BY <1>4, CancelTimerEffect
<1>7. Spared(w, v) /\ Spared(v, CancelTimer(v))
  BY <1>4, <1>6, SparedByKeeps, SparedBySteady
<1>8. QED
  BY <1>2, <1>4, <1>5, <1>6, <1>7, SparedTrans DEF Steady

(* The way to top-app restores the masks behind the move.                    *)
LEMMA ReturnedByToTop ==
    ASSUME NEW w \in Worlds, NEW quiet, Steady(w, quiet), TasksStay(w, quiet)
    PROVE  Returned(w, ToTop(quiet, TRUE)) /\ ToTop(quiet, TRUE) \in Worlds
<1>1. PICK w1 : w1 = MoveSource(quiet, "top")
  OBVIOUS
<1>2. PICK w2 : w2 = RestoreAffinity(w1)
  OBVIOUS
<1>3. PICK w3 : w3 = RestoreNice(w2, TRUE)
  OBVIOUS
<1>4. PICK w4 : w4 = RestoreMinor(w3, TRUE)
  OBVIOUS
<1>5. quiet \in Worlds /\ "top" \in Groups
  BY DEF Steady, Groups
<1>6. Steady(quiet, w1) /\ w1 \in Worlds
  BY <1>1, <1>5, MoveSourceEffect DEF Steady
<1>7. /\ Steady(w1, w2) /\ w2 \in Worlds
      /\ \A t \in Tids : Owned(w1, t) /\ w1.g.records[t].affinity # "none"
           => w2.k.task[t].affinity = w1.g.records[t].affinity
  BY <1>2, <1>6, RestoreAffinityEffect DEF Steady
<1>8. Steady(w2, w3) /\ PlacesStay(w2, w3) /\ w3 \in Worlds
  BY <1>3, <1>7, RestoreNiceEffect DEF Steady
<1>9. Steady(w3, w4) /\ TasksStay(w3, w4) /\ w4 \in Worlds
  BY <1>4, <1>8, MinorEffect DEF Steady
<1>10. ToTop(quiet, TRUE) = w4
  BY <1>1, <1>2, <1>3, <1>4 DEF ToTop
<1>11. /\ Steady(w, w1)
       /\ w1.g.records = w.g.records /\ \A t \in Tids : Owned(w1, t) <=> Owned(w, t)
  <2>1. Steady(w, w1)
    BY <1>6, SteadyTrans
  <2>2. QED
    BY <2>1, SteadyMeans DEF Steady
<1>12. \A t \in Tids : w4.k.task[t].affinity = w2.k.task[t].affinity
  BY <1>8, <1>9 DEF PlacesStay, SamePlace, TasksStay
<1>13. QED
  BY <1>7, <1>9, <1>10, <1>11, <1>12 DEF Returned

LEMMA QuietEffect ==
    ASSUME NEW w \in Worlds
    PROVE  LET quiet == Deactivate(CancelTimer(w))
           IN  Steady(w, quiet) /\ TasksStay(w, quiet)
<1>1. PICK v : v = CancelTimer(w)
  OBVIOUS
<1>2. Steady(w, v) /\ TasksStay(w, v) /\ v \in Worlds
  BY <1>1, CancelTimerEffect DEF Steady
<1>3. Steady(v, Deactivate(v)) /\ TasksStay(v, Deactivate(v))
  BY <1>2, DeactivateEffect
<1>4. QED
  BY <1>1, <1>2, <1>3, SteadyTrans DEF TasksStay

LEMMA ReturnedByRelease ==
    ASSUME NEW w \in Worlds, NEW p, NEW top \in BOOLEAN
    PROVE  /\ Returned(w, Release(w, p, top)) /\ Release(w, p, top) \in Worlds
           /\ ~top => Spared(w, Release(w, p, top))
<1>1. PICK quiet : quiet = Deactivate(CancelTimer(w))
  OBVIOUS
<1>2. Steady(w, quiet) /\ TasksStay(w, quiet) /\ quiet \in Worlds
  BY <1>1, QuietEffect DEF Steady
<1>3. Spared(w, quiet)
  BY <1>2, SparedBySteady
<1>4. PICK low : low = ToBackground(quiet, FALSE)
  OBVIOUS
<1>5. Spared(w, low)
  <2>1. PICK w1 : w1 = MoveSource(quiet, "background")
    OBVIOUS
  <2>2. PICK w2 : w2 = RestoreNice(w1, FALSE)
    OBVIOUS
  <2>3. Spared(quiet, w1)
    BY <1>2, <2>1, SparedByMove DEF MoveSource
  <2>4. Spared(w1, w2)
    BY <2>2, <2>3, SparedByWrites DEF Spared
  <2>5. Spared(w2, RestoreMinor(w2, FALSE))
    BY <2>4, SparedByWrites DEF Spared
  <2>6. low = RestoreMinor(w2, FALSE)
    BY <1>4, <2>1, <2>2 DEF ToBackground
  <2>7. QED
    BY <1>3, <2>3, <2>4, <2>5, <2>6, SparedTrans
<1>6. PICK high : high = ToTop(quiet, TRUE)
  OBVIOUS
<1>7. Returned(w, high) /\ high \in Worlds
  BY <1>2, <1>6, ReturnedByToTop
<1>8. ASSUME NEW v \in Worlds
      PROVE  /\ Forgotten(v) \in Worlds /\ Forgotten(v).k = v.k
             /\ Returned(w, v) => Returned(w, Forgotten(v))
             /\ Spared(w, v) => Spared(w, Forgotten(v))
  <2>1. Forgotten(v) \in Worlds /\ Forgotten(v).k = v.k
    BY ForgottenType
  <2>2. QED
    BY <2>1 DEF Returned, Spared
<1>9. /\ Release(w, p, top) \in {w, Forgotten(quiet), Forgotten(low), Forgotten(high)}
      /\ ~top => Release(w, p, top) \in {w, Forgotten(quiet), Forgotten(low)}
  BY <1>1, <1>4, <1>6 DEF Release, Forgotten
<1>10. /\ Spared(w, w) /\ Spared(w, Forgotten(quiet)) /\ Spared(w, Forgotten(low))
       /\ Returned(w, Forgotten(high)) /\ Forgotten(high) \in Worlds
  BY <1>2, <1>3, <1>5, <1>7, <1>8, SparedByWrites DEF Spared
<1>11. QED
  BY <1>9, <1>10, SparedIsReturned DEF Spared

LEMMA ReturnedByComplete ==
    ASSUME NEW w \in Worlds, NEW id
    PROVE  Returned(w, CompleteSource(w, id))
<1>1. PICK quiet : quiet = Deactivate(CancelTimer(w))
  OBVIOUS
<1>2. Steady(w, quiet) /\ TasksStay(w, quiet)
  BY <1>1, QuietEffect
<1>3. Returned(w, ToTop(quiet, TRUE))
  BY <1>2, ReturnedByToTop
<1>4. Spared(w, quiet) /\ Spared(w, w)
  BY <1>2, SparedBySteady, SparedByWrites
<1>5. CompleteSource(w, id) \in {w, quiet, ToTop(quiet, TRUE)}
  BY <1>1 DEF CompleteSource
<1>6. QED
  BY <1>3, <1>4, <1>5, SparedIsReturned

LEMMA SparedByBegin ==
    ASSUME NEW w \in Worlds, NEW id \in Ids
    PROVE  Spared(w, BeginTransition(w, id))
<1>1. PICK begun : begun = Accept(w, id)
  OBVIOUS
<1>2. /\ Spared(w, begun) /\ Spared(w, w) /\ begun.g.pid = w.g.pid
      /\ begun.g.app = w.g.app /\ begun.g.armed = w.g.armed
  BY <1>1, SparedByAccept, SparedByWrites
<1>3. ASSUME NEW v, Spared(w, v) PROVE \A p, a : Spared(w, Suppress(v, p, a))
  BY <1>3, SparedBySuppress, SparedTrans DEF Spared
<1>4. Spared(w, Refresh(begun))
  BY <1>2, SparedByWrites, SparedTrans DEF Spared
<1>5. BeginTransition(w, id)
        \in {w, begun, Suppress(begun, w.g.pid, w.g.app),
             Suppress(Refresh(begun), w.g.pid, w.g.app)}
  BY <1>1, <1>2 DEF BeginTransition, Activate
<1>6. QED
  BY <1>2, <1>3, <1>4, <1>5

LEMMA SparedByAdopt ==
    ASSUME NEW w \in Worlds, NEW id \in Ids, NEW a \in Apps,
           NEW activate \in BOOLEAN
    PROVE  Spared(w, AdoptPackage(w, id, a, activate))
<1>1. CASE Stale(w, id) \/ Processes(w, a) = {}
  BY <1>1, SparedByWrites DEF AdoptPackage
<1>2. CASE ~(Stale(w, id) \/ Processes(w, a) = {})
  <2>1. PICK p : p = Lowest(Processes(w, a))
    OBVIOUS
  <2>2. p \in Tids
    <3>1. Processes(w, a) \subseteq Tids
      BY DEF Processes, Alive
    <3>2. QED
      BY <1>2, <2>1, <3>1, LowestType
  <2>3. PICK free : free = IF ~activate /\ w.g.active
                           THEN Release(w, w.g.pid, FALSE) ELSE w
    OBVIOUS
  <2>4. PICK begun : begun = Accept(free, id)
    OBVIOUS
  <2>5. PICK armed : armed = IF begun.g.armed /\ begun.g.pid = p /\ begun.g.app = a
                             THEN begun ELSE Arm(begun, p, a)
    OBVIOUS
  <2>6. Spared(w, free)
    BY <2>3, ReturnedByRelease, SparedByWrites
  <2>7. Spared(free, begun)
    BY <2>4, <2>6, SparedByAccept DEF Spared
  <2>8. Spared(begun, armed)
    BY <2>2, <2>5, <2>7, SparedByArm, SparedByWrites DEF Spared
  <2>9. Spared(armed, Activate(armed, p, a))
    BY <2>2, <2>8, SparedByActivate DEF Spared
  <2>10. AdoptPackage(w, id, a, activate)
           = IF activate THEN Activate(armed, p, a) ELSE armed
    BY <1>2, <2>1, <2>3, <2>4, <2>5 DEF AdoptPackage
  <2>11. Spared(w, armed)
    BY <2>6, <2>7, <2>8, SparedTrans
  <2>12. QED
    BY <2>9, <2>10, <2>11, SparedTrans
<1>3. QED
  BY <1>1, <1>2

LEMMA SparedByReplace ==
    ASSUME NEW w \in Worlds, NEW p \in Tids, NEW a \in Apps
    PROVE  Spared(w, ReplaceCurrent(w, p, a))
<1>1. PICK v : v = Arm(w, p, a)
  OBVIOUS
<1>2. Spared(w, v) /\ Spared(w, w)
  BY <1>1, SparedByArm, SparedByWrites
<1>3. Spared(v, Activate(v, p, a))
  BY <1>2, SparedByActivate DEF Spared
<1>4. ReplaceCurrent(w, p, a) \in {w, v, Activate(v, p, a)}
  BY <1>1 DEF ReplaceCurrent
<1>5. QED
  BY <1>2, <1>3, <1>4, SparedTrans

LEMMA SparedByReassert ==
    ASSUME NEW w \in Worlds, NEW t \in Tids
    PROVE  Spared(w, Reassert(w, t))
<1>1. PICK seen : seen = IF w.g.records[t].start # 0 THEN w
                         ELSE [w EXCEPT !.g.records[t] = Registered(w, t)]
  OBVIOUS
<1>2. seen \in Worlds /\ seen.k = w.k
  <2>1. PICK records : records = [w.g.records EXCEPT ![t] = Registered(w, t)]
    OBVIOUS
  <2>2. records \in [Tids -> Record]
    BY <2>1, RegisteredType, WorldParts
  <2>3. LET v == [w EXCEPT !.g.records = records]
        IN  v \in Worlds /\ v.k = w.k
    BY <2>2, RecordsEffect DEF OnlyRecords
  <2>4. [w EXCEPT !.g.records[t] = Registered(w, t)] = [w EXCEPT !.g.records = records]
    BY <2>1 DEF Worlds, Guard
  <2>5. QED
    BY <1>1, <2>3, <2>4
<1>3. PICK moved : moved = MoveBack(seen, t)
  OBVIOUS
<1>4. Spared(seen, moved)
  BY <1>2, <1>3, SparedByMove DEF MoveBack, MoveSource
<1>5. Spared(moved, ApplyNice(moved, {t}))
  <2>1. moved \in Worlds
    BY <1>4 DEF Spared
  <2>2. LET v == ApplyNice(moved, {t}) IN Steady(moved, v) /\ PlacesStay(moved, v)
    BY <2>1, ApplyNiceEffect
  <2>3. QED
    BY <2>2, SparedBySteady
<1>6. PICK quiet : quiet = Deactivate(w)
  OBVIOUS
<1>7. Spared(w, quiet) /\ Spared(w, w) /\ Spared(w, seen)
  BY <1>2, <1>6, SparedByWrites, SparedByKeeps
<1>8. Spared(quiet, Forgotten(quiet))
  BY <1>7, SparedByWrites DEF Spared
<1>9. Reassert(w, t) \in {w, Forgotten(quiet), ApplyNice(moved, {t})}
  BY <1>1, <1>3, <1>6 DEF Reassert, Forgotten
<1>10. QED
  BY <1>4, <1>5, <1>7, <1>8, <1>9, SparedTrans
(* What the property says of one step.                                       *)
HandsBack ==
    (guard.active /\ ~guard'.active) =>
       \A t \in SourceThreads :
          (/\ Owned(World({}), t) /\ guard.records[t].affinity # "none"
           /\ kernel'.task[t].start = kernel.task[t].start
           /\ kernel.task[t].group["cpuset"] = "source"
           /\ kernel'.task[t].group["cpuset"] = "top")
          => kernel'.task[t].affinity = guard.records[t].affinity

LEMMA ReturnedHandsBack ==
    ASSUME NEW w, w.g.records = guard.records, w.g.app = guard.app,
           w.k.task = kernel.task,
           NEW v, Returned(w, v), kernel'.task = v.k.task
    PROVE  HandsBack
<1>1. \A t \in Tids : Owned(w, t) <=> Owned(World({}), t)
  BY DEF Owned, World
<1>2. SourceThreads \subseteq Tids
  BY DEF SourceThreads, ThreadGroup, Alive
<1>3. QED
  BY <1>1, <1>2 DEF HandsBack, Returned

LEMMA HandlerHandsBack ==
    ASSUME NEW bad \in SUBSET Faults, NEW v, Becomes(v),
           Spared(World(bad), v) \/ Returned(World(bad), v)
    PROVE  HandsBack
<1>1. Returned(World(bad), v)
  BY SparedIsReturned
<1>2. kernel'.task = v.k.task
  BY DEF Becomes
<1>3. World(bad).g = guard /\ World(bad).k = kernel
  BY DEF World
<1>4. QED
  BY <1>1, <1>2, <1>3, ReturnedHandsBack

LEMMA CommandHandsBack == IInv /\ Command => HandsBack
<1> SUFFICES ASSUME IInv, Command PROVE HandsBack
  OBVIOUS
<1>0. ASSUME NEW bad \in SUBSET Faults
      PROVE  World(bad) \in Worlds /\ World(bad).k = kernel /\ World(bad).g = guard
  BY WorldGood DEF World, Good
<1>1. ASSUME NEW p \in Tids, NEW a \in Apps, ArmCommand(p, a) PROVE HandsBack
  BY <1>1 DEF ArmCommand, HandsBack
<1>2. ASSUME NEW id \in Ids, EnterCommand(id) PROVE HandsBack
  BY <1>0, <1>2, SparedByBegin, HandlerHandsBack DEF EnterCommand
<1>3. ASSUME NEW id \in Ids, NEW a \in Apps,
             HandoffCommand(id, a) \/ AdoptCommand(id, a)
      PROVE  HandsBack
  BY <1>0, <1>3, SparedByAdopt, HandlerHandsBack DEF HandoffCommand, AdoptCommand
<1>4. ASSUME NEW id \in Ids, CompleteCommand(id) PROVE HandsBack
  <2>1. PICK w : w = World({})
    OBVIOUS
  <2>2. w \in Worlds /\ w.g = guard /\ Becomes(ScheduleCompletion(w, id))
    BY <1>0, <1>4, <2>1 DEF CompleteCommand
  <2>3. ScheduleCompletion(w, id).g.active = w.g.active
    BY <2>2 DEF ScheduleCompletion, Worlds, Guard
  <2>4. QED
    BY <2>2, <2>3 DEF Becomes, HandsBack
<1>5. ASSUME NEW p \in Tids, NEW a \in Apps, ReplaceCommand(p, a) PROVE HandsBack
  BY <1>0, <1>5, SparedByReplace, HandlerHandsBack DEF ReplaceCommand
<1>6. ASSUME NEW p \in Tids, NEW top \in BOOLEAN, ReleaseCommand(p, top)
      PROVE  HandsBack
  BY <1>0, <1>6, ReturnedByRelease, HandlerHandsBack DEF ReleaseCommand
<1>7. ASSUME NEW bad \in SUBSET Faults
      PROVE  LET v == ReleaseCurrent(World(bad))
             IN  v \in Worlds /\ Returned(World(bad), v)
  BY <1>0, <1>7, ReturnedByRelease DEF ReleaseCurrent
<1>8. CASE ResetCommand
  <2>1. PICK bad \in SUBSET Faults : Becomes(Disable(World(bad)))
    BY <1>8 DEF ResetCommand
  <2>2. PICK v : v = ReleaseCurrent(World(bad))
    OBVIOUS
  <2>3. v \in Worlds /\ Returned(World(bad), v)
    BY <1>7, <2>2
  <2>4. Disable(World(bad)).k = v.k
    BY <2>2, <2>3 DEF Disable, Worlds
  <2>5. kernel'.task = v.k.task
    BY <2>1, <2>4 DEF Becomes
  <2>6. QED
    BY <1>0, <2>3, <2>5, ReturnedHandsBack
<1>9. CASE StopCommand
  <2>1. PICK bad \in SUBSET Faults : Becomes(Ended(ReleaseCurrent(World(bad))))
    BY <1>9 DEF StopCommand
  <2>2. PICK v : v = ReleaseCurrent(World(bad))
    OBVIOUS
  <2>3. v \in Worlds /\ Returned(World(bad), v)
    BY <1>7, <2>2
  <2>4. Ended(v).k.task = v.k.task
    BY <2>3 DEF Ended, Worlds, Kernel
  <2>5. kernel'.task = v.k.task
    BY <2>1, <2>2, <2>4 DEF Becomes
  <2>6. QED
    BY <1>0, <2>3, <2>5, ReturnedHandsBack
<1>10. QED
  BY <1>1, <1>2, <1>3, <1>4, <1>5, <1>6, <1>8, <1>9 DEF Command

LEMMA NextHandsBack == IInv /\ Threads /\ [Next]_vars => HandsBack
<1> SUFFICES ASSUME IInv, Threads, [Next]_vars PROVE HandsBack
  OBVIOUS
<1>0. ASSUME NEW bad \in SUBSET Faults
      PROVE  World(bad) \in Worlds /\ World(bad).k = kernel /\ World(bad).g = guard
  BY WorldGood DEF World, Good
<1>1. CASE Command
  BY <1>1, CommandHandsBack
<1>2. CASE HandleTimer
  <2>1. PICK bad \in SUBSET Faults :
          LET read == [World(bad) EXCEPT !.k.timer = "off", !.k.timerApp = NoApp]
          IN  Becomes(IF guard.completion # guard.accepted THEN read
                      ELSE CompleteSource([read EXCEPT !.g.completion = 0],
                                          guard.completion))
    BY <1>2 DEF HandleTimer
  <2> DEFINE read == [World(bad) EXCEPT !.k.timer = "off", !.k.timerApp = NoApp]
             done == [read EXCEPT !.g.completion = 0]
  <2>2. World(bad) \in Worlds /\ World(bad).k = kernel /\ World(bad).g = guard
    BY <1>0
  <2>3. read.g = guard
    BY <2>2
  <2>4. done = CancelTimer(World(bad))
    BY <2>2 DEF CancelTimer, Worlds, Kernel, Guard
  <2>5. Becomes(read) \/ Becomes(CompleteSource(done, guard.completion))
    BY <2>1
  <2> HIDE DEF read, done
  <2>6. /\ done \in Worlds /\ done.k.task = kernel.task
        /\ done.g.records = guard.records /\ done.g.app = guard.app
    BY <2>2, <2>4, CancelTimerEffect DEF Steady, TasksStay
  <2>7. CASE Becomes(read)
    BY <2>3, <2>7 DEF Becomes, HandsBack
  <2>8. CASE Becomes(CompleteSource(done, guard.completion))
    <3>1. PICK v : v = CompleteSource(done, guard.completion)
      OBVIOUS
    <3>2. Returned(done, v) /\ kernel'.task = v.k.task
      BY <2>6, <2>8, <3>1, ReturnedByComplete DEF Becomes
    <3>3. QED
      BY <2>6, <3>2, ReturnedHandsBack
  <2>9. QED
    BY <2>5, <2>7, <2>8
<1>3. ASSUME NEW t \in Tids, HandleEvent(t) PROVE HandsBack
  <2>1. PICK bad \in SUBSET Faults :
          Becomes(Reassert([World(bad) EXCEPT !.k.ring = @ \ {t}], t))
    BY <1>3 DEF HandleEvent
  <2>2. PICK w : w = [World(bad) EXCEPT !.k.ring = @ \ {t}]
    OBVIOUS
  <2>3. w \in Worlds /\ w.g = guard /\ w.k.task = kernel.task
    BY <1>0, <2>2 DEF Worlds, Kernel
  <2>4. PICK v : v = Reassert(w, t)
    OBVIOUS
  <2>5. Returned(w, v) /\ kernel'.task = v.k.task
    BY <2>1, <2>2, <2>3, <2>4, SparedByReassert, SparedIsReturned DEF Becomes
  <2>6. QED
    BY <2>3, <2>5, ReturnedHandsBack
<1>4. CASE StartGuard
  <2>1. PICK w : w = World({})
    OBVIOUS
  <2>2. Book(w) /\ w.g = guard
    BY <2>1 DEF Threads, Sane, Sound, Fit, World
  <2>3. QED
    BY <1>4, <2>2 DEF Book, StartGuard, HandsBack
<1>5. CASE Crash
  <2> DEFINE orphan(r) == IF r.nice > r.own
                          THEN [r EXCEPT !.lost = @ \cup {"nice"}] ELSE r
             task == [t \in Tids |-> orphan(kernel.task[t])]
             left == [World({}) EXCEPT !.k.task = task]
  <2>1. World({}) \in Worlds /\ World({}).k = kernel
    BY <1>0
  <2>2. \A t \in Tids : task[t].group = kernel.task[t].group
    <3>1. ASSUME NEW r \in Task PROVE orphan(r).group = r.group
      BY DEF Task
    <3>2. kernel.task \in [Tids -> Task]
      BY <2>1, WorldParts
    <3> HIDE DEF orphan
    <3>3. QED
      BY <3>1, <3>2
  <2>3. Becomes(Ended(left))
    BY <1>5, <2>1 DEF Crash
  <2> HIDE DEF task
  <2>4. Ended(left).k.task = task
    BY <2>1 DEF Ended, Worlds, Kernel
  <2>5. \A t \in Tids : kernel'.task[t].group = kernel.task[t].group
    BY <2>2, <2>3, <2>4 DEF Becomes
  <2>6. SourceThreads \subseteq Tids
    BY DEF SourceThreads, ThreadGroup, Alive
  <2>7. QED
    BY <2>5, <2>6 DEF HandsBack
<1>6. CASE System
  <2>1. UNCHANGED guard
    BY <1>6 DEF System, TimerExpires, SystemMoves, SystemSetsNice, SystemSetsMinor,
                PinThread, SpawnProcess, CloneThread, ThreadExits
  <2>2. QED
    BY <2>1 DEF HandsBack
<1>7. CASE UNCHANGED vars
  BY <1>7 DEF vars, HandsBack
<1>8. QED
  BY <1>1, <1>2, <1>3, <1>4, <1>5, <1>6, <1>7 DEF Next

(* Whatever attach or trace fails, and whichever way suppression ends, each  *)
(* thread that comes back to top-app has the mask its record kept: the       *)
(* masks are written after the attach that overwrites them (release_source,  *)
(* complete_source).                                                         *)
THEOREM MasksAreHandedBack == Spec => AffinityHandedBack
<1>1. IInv /\ Threads /\ [Next]_vars => [HandsBack]_vars
  BY NextHandsBack
<1>2. QED
  BY <1>1, ThreadsInvariance, PTL DEF Spec, AffinityHandedBack, HandsBack

=============================================================================
