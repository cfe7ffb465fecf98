-------------------------- MODULE TransitionPolicy --------------------------
(***************************************************************************)
(* The thread policy of a transition (native/transition_policy.c): while a*)
(* transition is active, named threads of the Launcher and of the system  *)
(* get a mask and a utilization clamp, auxiliary processes go to the      *)
(* background groups and the little cores get a lower frequency limit; its*)
(* end gives everything back.  The coordinator calls it under one mutex,  *)
(* and an action is one of its functions up to the next system call on the*)
(* limit: the thermal daemon takes no lock, and what it writes may fall   *)
(* between a read of the limit and the write that depends on it.  Towards *)
(* threads and groups a function is one step.                             *)
(*                                                                        *)
(* Threads, groups and the limit belong to others as well: own is what the*)
(* application, the framework or the thermal daemon last chose, which no  *)
(* code can read back once the policy has written over it.                *)
(***************************************************************************)
EXTENDS Integers, FiniteSets

CONSTANTS
    Tids,            \* thread ids
    MaxStart,        \* bound: births, and so the largest start time
    MaxTasks,        \* POLICY_MAX_TASKS
    OwnMasks, OwnClamps,    \* what applications and the framework choose
    TargetMask, TargetClamp, \* what the policy writes
    Limits,          \* frequency limits the thermal daemon chooses
    Percent,         \* frequency_percent
    Groups,          \* groups the framework keeps the auxiliary process in
    Faults,          \* controllers and "limit": moves and writes that may fail
    Configurations,  \* sets of enabled parts: launcher, systemui, ...
    CanCrash         \* may the coordinator be killed with SIGKILL

Parts == {"launcher", "systemui", "auxiliary", "frequency"}
Controllers == {"cpuset", "cpuctl"}

ASSUME PolicyAssumption ==
    /\ MaxStart \in Nat \ {0} /\ MaxTasks \in Nat
    /\ OwnMasks # {} /\ OwnClamps # {}
    /\ TargetMask \notin OwnMasks /\ TargetClamp \notin OwnClamps
    /\ Limits \subseteq Nat /\ Limits # {} /\ Groups # {} /\ Percent \in Nat
    /\ Faults \subseteq Controllers \cup {"limit"}
    /\ Configurations \subseteq SUBSET Parts
    /\ CanCrash \in BOOLEAN

VARIABLES
    policy,   \* struct transition_policy
    thread,   \* the threads of the Launcher and of the system
    aux,      \* an auxiliary process
    limit,    \* scaling_max_freq of the little cores
    clock     \* births so far

vars == <<policy, thread, aux, limit, clock>>

-----------------------------------------------------------------------------
(* State                                                                     *)

(* Classes by what configure_target makes of them: raster stands for the     *)
(* classes with mask and clamp, fence for a mask alone, critical for the     *)
(* classes of SystemUI and system_server; plain threads have no class.       *)
LauncherClasses == {"raster", "fence"}
SystemClasses == {"critical"}
Classes == LauncherClasses \cup SystemClasses \cup {"plain"}

ClampManaged(class) == class = "raster"
IsTransient(class) == class \in SystemClasses

Masks == OwnMasks \cup {TargetMask}
Clamps == OwnClamps \cup {TargetClamp}

(* lost names the values of which the policy cannot know what was chosen: a  *)
(* clone inherited them, a crash left them, the framework chose again after  *)
(* the record was made, or another thread's record wrote them.               *)
Thread == [start: 0..MaxStart, class: Classes, mask: Masks, clamp: Clamps,
           ownMask: OwnMasks, ownClamp: OwnClamps, lost: SUBSET {"mask", "clamp"}]

Record == [tid: Tids, start: 1..MaxStart, class: Classes \ {"plain"},
           mask: Masks, clamp: Clamps]

AllGroups == Groups \cup {"background"}
InGroups == [Controllers -> AllGroups]
Auxiliary == [start: 1..MaxStart, group: InGroups, own: InGroups,
              lost: SUBSET Controllers]

Saved == [start: 1..MaxStart, group: InGroups]
Lowered == [original: Nat, applied: Nat]

(* The parts of the policy that hold at most one saved value are sets.       *)
(* While a function has not returned, pending is what it does next with the  *)
(* limit, and limits holds its local variables; in "ending", destroy has     *)
(* done what complete does and has its own part before it.                   *)
Policy == [status: {"off", "idle", "active", "ending"}, enabled: SUBSET Parts,
           pending: {"none", "lower", "readBack", "giveBack"},
           tasks: SUBSET Record, aux: SUBSET Saved, limits: SUBSET Lowered]

Limit == [value: Nat, own: Nat, lost: BOOLEAN]

NewThread(class, m, v) ==
    [start |-> 1, class |-> class, mask |-> m, clamp |-> v,
     ownMask |-> m, ownClamp |-> v, lost |-> {}]

NoThread == [NewThread("plain", CHOOSE m \in OwnMasks : TRUE,
                       CHOOSE v \in OwnClamps : TRUE) EXCEPT !.start = 0]

Alive(ts) == {t \in Tids : ts[t].start # 0}
Active == policy.status = "active"
Returned == policy.pending = "none"

-----------------------------------------------------------------------------
(* Records                                                                   *)

(* record_alive: the id still names the thread the record was made for.      *)
RecordAlive(r, ts) == ts[r.tid].start = r.start

Compact(tasks, ts) ==
    {r \in tasks : ~IsTransient(r.class) /\ RecordAlive(r, ts)}

(* Fault: the record is filled in before the start time is read.              *)
NoStartYet(t, th) == [tid |-> t, start |-> 0, class |-> th.class,
                      mask |-> th.mask, clamp |-> th.clamp]

NewRecord(t, th) == [tid |-> t, start |-> th.start, class |-> th.class,
                     mask |-> th.mask, clamp |-> th.clamp]

(* collect_process: known threads are classified again, new ones recorded    *)
(* with what they have now, as long as the table has room.                   *)
Collected(tasks, ts, classes) ==
    LET named == {t \in Alive(ts) : ts[t].class \in classes}
        known == {r.tid : r \in {q \in tasks : RecordAlive(q, ts)}}
        kept == {IF RecordAlive(r, ts) /\ r.tid \in named
                 THEN [r EXCEPT !.class = ts[r.tid].class] ELSE r : r \in tasks}
        fresh == named \ known
        room == MaxTasks - Cardinality(tasks)
        taken == {S \in SUBSET fresh : Cardinality(S) <= room
                      /\ (S = fresh \/ Cardinality(S) = room)}
    IN  {kept \cup {NewRecord(t, ts[t]) : t \in S} : S \in taken}

(* Fault: the clamp to restore is the one of the first transition.            *)
KeepClamps(tasks, ts) == tasks

(* transition_policy_begin refreshes the clamps of the records that stay.    *)
RefreshClamps(tasks, ts) ==
    {IF ~IsTransient(r.class) /\ ClampManaged(r.class) /\ RecordAlive(r, ts)
     THEN [r EXCEPT !.clamp = ts[r.tid].clamp] ELSE r : r \in tasks}

Writes(R) == (IF R # {} THEN {"mask"} ELSE {})
             \cup (IF \E r \in R : ClampManaged(r.class) THEN {"clamp"} ELSE {})

(* apply_record for every record, with or without looking at the identity.   *)
Applied(ts, tasks, validate, values) ==
    [t \in Tids |->
        LET here == {r \in tasks : r.tid = t /\ ts[t].start # 0}
            own == {r \in here : RecordAlive(r, ts)}
            stray == IF validate THEN {} ELSE here \ own
            written == values \cap Writes(own \cup stray)
        IN  [ts[t] EXCEPT
                !.mask = IF "mask" \in written THEN TargetMask ELSE @,
                !.clamp = IF "clamp" \in written THEN TargetClamp ELSE @,
                !.lost = @ \cup (Writes(stray) \ Writes(own))]]

(* restore_record for every record; masks says whose affinity is restored.   *)
Restored(ts, tasks, masks) ==
    [t \in Tids |->
        LET mine == {r \in tasks : r.tid = t /\ RecordAlive(r, ts)}
            r == CHOOSE q \in mine : TRUE
        IN  IF mine = {} THEN ts[t]
            ELSE [ts[t] EXCEPT
                    !.mask = IF r \in masks THEN r.mask ELSE @,
                    !.clamp = IF ClampManaged(r.class) THEN r.clamp ELSE @]]

-----------------------------------------------------------------------------
(* Auxiliary processes and the frequency limit                               *)

(* apply_auxiliary moves cpuset first, then cpuctl, and records the process  *)
(* when both moves succeed.                                                  *)
MovedAway(S) ==
    [aux EXCEPT
        !.group = [k \in Controllers |-> IF k \in S THEN "background" ELSE @[k]],
        !.lost = @ \cup IF S = Controllers THEN {}
                        ELSE {k \in S : aux.own[k] # "background"}]

AuxiliaryOutcomes ==
    {[aux |-> MovedAway(Controllers),
      saved |-> {[start |-> aux.start, group |-> aux.group]}]}
    \cup {[aux |-> MovedAway({"cpuset"}), saved |-> {}] : k \in Faults \cap {"cpuctl"}}
    \cup {[aux |-> aux, saved |-> {}] : k \in Faults \cap {"cpuset"}}

(* Fault: whatever process has the name now gets the groups of the old one.  *)
AnyProcess ==
    {IF policy.aux = {} THEN aux
     ELSE [aux EXCEPT !.group = (CHOOSE s \in policy.aux : TRUE).group]}

(* The moves back in F fail, which nobody notices.                           *)
MovedBack(s, F) ==
    [aux EXCEPT
        !.group = [k \in Controllers |-> IF k \in F THEN @[k] ELSE s.group[k]],
        !.lost = @ \cup {k \in F : aux.group[k] # aux.own[k]}]

RestoredAuxiliary ==
    LET saved == {s \in policy.aux : s.start = aux.start}
    IN  IF saved = {} THEN {aux}
        ELSE {MovedBack(CHOOSE s \in saved : TRUE, F) :
                 F \in SUBSET (Faults \cap Controllers)}

Scaled(v) == (v * Percent) \div 100

(* Another writer's choice is lost to the restore when it is the very value  *)
(* recorded as applied, by chance, or when it comes while a function is      *)
(* between two system calls on the limit: written over, recorded as applied  *)
(* or lifted.                                                                *)
Chosen(v, p) ==
    [value |-> v, own |-> v,
     lost |-> p.pending # "none" \/ \E f \in p.limits : f.applied = v]

(* What apply_frequency_limit read and is about to write to the one cpufreq  *)
(* policy of the little cores.                                               *)
LimitRead ==
    LET original == limit.value
        target == Scaled(original)
    IN  IF original = 0 \/ Percent >= 100 \/ target >= original THEN {}
        ELSE {[original |-> original, applied |-> target]}

(* Fault: the limit is put back whatever it is now.                           *)
Everything == policy.limits

(* complete gives back the limit only where it is still what was applied.    *)
StillApplied == {f \in policy.limits : f.applied = limit.value}

(* A write that fails leaves to others what they chose.                      *)
Unwritten == [limit EXCEPT !.lost = limit.value # limit.own]

-----------------------------------------------------------------------------
(* The functions the coordinator calls                                       *)

Enabled(part) == part \in policy.enabled

(* Bound: the coordinators of a run have the same parts enabled.             *)
PolicyOff(enabled) == [status |-> "off", enabled |-> enabled, pending |-> "none",
                       tasks |-> {}, aux |-> {}, limits |-> {}]

CollectedIf(part, tasks, classes) ==
    IF Enabled(part) THEN Collected(tasks, thread, classes) ELSE {tasks}

(* The Launcher's masks are applied at once and stay until destroy.          *)
Initialize ==
    /\ policy.status = "off"
    /\ \E tasks \in CollectedIf("launcher", {}, LauncherClasses) :
          /\ policy' = [policy EXCEPT !.status = "idle", !.tasks = tasks]
          /\ thread' = Applied(thread, tasks, TRUE, {"mask"})
    /\ UNCHANGED <<aux, limit, clock>>

FirstBegin == ~Active

(* The limit comes last: begin returns here unless there is one to lower.    *)
Begin ==
    /\ policy.status \in {"idle", "active"} /\ Returned
    /\ \E launcher \in CollectedIf("launcher",
             IF FirstBegin THEN Compact(policy.tasks, thread) ELSE policy.tasks,
             LauncherClasses) :
       \E all \in CollectedIf("systemui", launcher, SystemClasses) :
       \E a \in IF FirstBegin /\ Enabled("auxiliary") THEN AuxiliaryOutcomes
                ELSE {[aux |-> aux, saved |-> policy.aux]} :
          LET tasks == IF FirstBegin THEN RefreshClamps(all, thread) ELSE all
              read == IF FirstBegin /\ Enabled("frequency") THEN LimitRead ELSE {}
          IN  /\ policy' = [policy EXCEPT
                     !.status = "active", !.tasks = tasks, !.aux = a.saved,
                     !.limits = IF FirstBegin THEN read ELSE @,
                     !.pending = IF read = {} THEN "none" ELSE "lower"]
              /\ thread' = Applied(thread, tasks, TRUE, {"mask", "clamp"})
              /\ aux' = a.aux
    /\ UNCHANGED <<limit, clock>>

(* A limit that could not be written gets no record.                         *)
LowerLimit ==
    /\ policy.pending = "lower"
    /\ \/ \E f \in policy.limits :
             /\ limit' = [limit EXCEPT !.value = f.applied]
             /\ policy' = [policy EXCEPT !.pending = "readBack"]
       \/ /\ "limit" \in Faults
          /\ limit' = Unwritten
          /\ policy' = [policy EXCEPT !.pending = "none", !.limits = {}]
    /\ UNCHANGED <<thread, aux, clock>>

ReadBack ==
    /\ policy.pending = "readBack"
    /\ policy' = [policy EXCEPT
           !.pending = "none",
           !.limits = {[f EXCEPT !.applied = limit.value] : f \in @}]
    /\ UNCHANGED <<thread, aux, limit, clock>>

(* The cached ids are written without a look at who has them now.            *)
Reassert ==
    /\ Active /\ Returned
    /\ thread' = Applied(thread, policy.tasks, FALSE, {"mask", "clamp"})
    /\ UNCHANGED <<policy, aux, limit, clock>>

(* Fault: the masks of SystemUI and system_server stay for the next time.     *)
NoMasks(tasks) == {}

MasksOnComplete(tasks) == {r \in tasks : IsTransient(r.class)}

Completed == Restored(thread, policy.tasks, MasksOnComplete(policy.tasks))

(* transition_policy_complete up to the write of the limit.                  *)
Completing(status) ==
    /\ Active /\ Returned
    /\ thread' = Completed
    /\ policy' = [policy EXCEPT
           !.status = status, !.aux = {}, !.tasks = Compact(@, thread),
           !.limits = StillApplied,
           !.pending = IF StillApplied = {} THEN "none" ELSE "giveBack"]
    /\ aux' \in RestoredAuxiliary
    /\ UNCHANGED <<limit, clock>>

Complete == Completing("idle")

GiveBack ==
    /\ policy.pending = "giveBack"
    /\ \/ \E f \in policy.limits : limit' = [limit EXCEPT !.value = f.original]
       \/ "limit" \in Faults /\ limit' = Unwritten
    /\ policy' = [policy EXCEPT !.pending = "none", !.limits = {}]
    /\ UNCHANGED <<thread, aux, clock>>

(* A clamp chosen between transitions is not in the record destroy restores. *)
Overwritten(ts, tasks) ==
    [t \in Tids |-> LET th == Restored(ts, tasks, tasks)[t] IN
        [th EXCEPT !.lost = @ \cup IF th.clamp # ts[t].clamp THEN {"clamp"} ELSE {}]]

(* transition_policy_destroy completes what is active, then restores all.    *)
CompleteFirst == Completing("ending")

Destroy ==
    /\ policy.status \in {"idle", "ending"} /\ Returned
    /\ thread' = Overwritten(thread, policy.tasks)
    /\ policy' = PolicyOff(policy.enabled)
    /\ UNCHANGED <<aux, limit, clock>>

-----------------------------------------------------------------------------
(* Everybody else                                                            *)

Differing(th) == (IF th.mask # th.ownMask THEN {"mask"} ELSE {})
                 \cup (IF th.clamp # th.ownClamp THEN {"clamp"} ELSE {})

(* SIGKILL: nothing is given back and the next coordinator knows nothing.    *)
Crash ==
    /\ CanCrash /\ policy.status # "off"
    /\ policy' = PolicyOff(policy.enabled)
    /\ thread' = [t \in Tids |-> [thread[t] EXCEPT !.lost = @ \cup Differing(thread[t])]]
    /\ aux' = [aux EXCEPT !.lost = @ \cup {k \in Controllers : aux.group[k] # aux.own[k]}]
    /\ limit' = [limit EXCEPT !.lost = @ \/ limit.value # limit.own]
    /\ UNCHANGED clock

Own(t) == {r \in policy.tasks : r.tid = t /\ RecordAlive(r, thread)}

(* Bound: what others do to a part that is not enabled is not followed, nor  *)
(* do threads take names that only such a part looks for.                    *)
Watched(parts) == policy.enabled \cap parts # {}
Threads == Watched({"launcher", "systemui"})
Names == (IF Enabled("launcher") THEN LauncherClasses ELSE {})
         \cup (IF Enabled("systemui") THEN SystemClasses ELSE {}) \cup {"plain"}

Others == UNCHANGED <<policy, aux, limit, clock>>

SetMask(t, m) ==
    /\ Threads /\ t \in Alive(thread)
    /\ thread' = [thread EXCEPT ![t].mask = m, ![t].ownMask = m,
           ![t].lost = IF Own(t) # {} THEN @ \cup {"mask"} ELSE @ \ {"mask"}]
    /\ Others

SetClamp(t, v) ==
    /\ Threads /\ t \in Alive(thread)
    /\ thread' = [thread EXCEPT ![t].clamp = v, ![t].ownClamp = v,
           ![t].lost = IF Active /\ Own(t) # {} THEN @ \cup {"clamp"}
                       ELSE @ \ {"clamp"}]
    /\ Others

(* A thread gets its name after it was born; a record made under a name with *)
(* another claim on the clamp then has a clamp nobody restores or refreshes. *)
Rename(t, class) ==
    /\ Threads /\ t \in Alive(thread)
    /\ {thread[t].class, class} \cap SystemClasses = {}
    /\ LET changed == \E r \in Own(t) : class # "plain"
                          /\ ClampManaged(class) # ClampManaged(r.class)
       IN  thread' = [thread EXCEPT ![t].class = class,
               ![t].lost = IF changed THEN @ \cup {"clamp"} ELSE @]
    /\ Others

Birth(t, th) ==
    /\ Threads /\ t \notin Alive(thread) /\ clock < MaxStart
    /\ thread' = [thread EXCEPT ![t] = [th EXCEPT !.start = clock + 1]]
    /\ clock' = clock + 1
    /\ UNCHANGED <<policy, aux, limit>>

Spawn(t, class, m, v) == Birth(t, NewThread(class, m, v))

(* A clone has the mask, the clamp and, except for a main thread, the name   *)
(* of the thread that made it.                                               *)
Clone(parent, t, class) ==
    /\ parent \in Alive(thread) /\ class \in {thread[parent].class, "plain"}
    /\ Birth(t, [thread[parent] EXCEPT !.class = class,
                                       !.lost = Differing(thread[parent])])

Exit(t) ==
    /\ Threads /\ t \in Alive(thread)
    /\ thread' = [thread EXCEPT ![t] = NoThread]
    /\ Others

AuxiliaryRestarts(g) ==
    /\ Watched({"auxiliary"}) /\ clock < MaxStart
    /\ aux' = [start |-> clock + 1, group |-> [k \in Controllers |-> g],
               own |-> [k \in Controllers |-> g], lost |-> {}]
    /\ clock' = clock + 1
    /\ UNCHANGED <<policy, thread, limit>>

FrameworkMoves(k, g) ==
    /\ Watched({"auxiliary"})
    /\ aux' = [aux EXCEPT !.group[k] = g, !.own[k] = g,
           !.lost = IF policy.aux # {} THEN @ \cup {k} ELSE @ \ {k}]
    /\ UNCHANGED <<policy, thread, limit, clock>>

ThermalSets(v) ==
    /\ Watched({"frequency"})
    /\ limit' = Chosen(v, policy)
    /\ UNCHANGED <<policy, thread, aux, clock>>

-----------------------------------------------------------------------------
Init ==
    /\ \E enabled \in Configurations :
          /\ policy = PolicyOff(enabled)
          /\ limit = Chosen(CHOOSE v \in Limits : TRUE, PolicyOff(enabled))
    /\ thread = [t \in Tids |-> NoThread]
    /\ LET in == [k \in Controllers |-> CHOOSE g \in Groups : TRUE]
       IN  aux = [start |-> 1, group |-> in, own |-> in, lost |-> {}]
    /\ clock = 1

System ==
    \/ \E t \in Tids :
          \/ \E m \in OwnMasks : SetMask(t, m)
          \/ \E v \in OwnClamps : SetClamp(t, v)
          \/ \E class \in Names : Rename(t, class)
          \/ \E class \in Names, m \in OwnMasks, v \in OwnClamps :
                Spawn(t, class, m, v)
          \/ \E parent \in Tids, class \in Classes : Clone(parent, t, class)
          \/ Exit(t)
    \/ \E g \in Groups : AuxiliaryRestarts(g)
    \/ \E k \in Controllers, g \in Groups : FrameworkMoves(k, g)
    \/ \E v \in Limits : ThermalSets(v)

Next ==
    \/ Initialize \/ Begin \/ LowerLimit \/ ReadBack \/ Reassert
    \/ Complete \/ GiveBack \/ CompleteFirst \/ Destroy
    \/ Crash \/ System

Spec == Init /\ [][Next]_vars

-----------------------------------------------------------------------------
(* Properties                                                                *)

(* Every function of the policy leaves its tables and what it writes to well *)
(* formed.                                                                   *)
TypeOK ==
    /\ policy \in Policy /\ thread \in [Tids -> Thread]
    /\ aux \in Auxiliary /\ limit \in Limit /\ clock \in 1..MaxStart

(* A live thread that runs with another mask than the one its application    *)
(* chose has a record that will give that one back: during a transition any  *)
(* record; between transitions only one of a Launcher thread, which keeps    *)
(* its mask until destroy; after destroy none (transition_policy.c:          *)
(* restore_record, compact_tasks).                                           *)
NoMaskForgotten ==
    \A t \in Alive(thread) :
        \/ thread[t].mask = thread[t].ownMask
        \/ "mask" \in thread[t].lost
        \/ \E r \in Own(t) :
              /\ r.mask = thread[t].ownMask
              /\ Active \/ (policy.status # "off" /\ ~IsTransient(r.class))

(* A raised clamp is there only during a transition, with a record of the    *)
(* clamp the application chose last before it: the refresh at each begin     *)
(* keeps up with choices made between transitions.                           *)
NoClampForgotten ==
    \A t \in Alive(thread) :
        \/ thread[t].clamp = thread[t].ownClamp
        \/ "clamp" \in thread[t].lost
        \/ Active /\ \E r \in Own(t) : /\ ClampManaged(r.class)
                                       /\ r.clamp = thread[t].ownClamp

(* Between transitions the frequency limit is what others chose last: the    *)
(* policy does not ratchet it down over several transitions and does not     *)
(* lift a limit set during one (transition_policy_complete compares it with  *)
(* the value read back after the write).  Excepted are a limit set between   *)
(* two system calls of one function on it, one that equals what the policy   *)
(* wrote, and what a failed write or a crash left.                           *)
LimitIsReturned ==
    Active \/ ~Returned \/ limit.lost \/ limit.value = limit.own

(* Between transitions an auxiliary process is in the groups the framework   *)
(* put it in, also when it was restarted during the transition.  Excepted    *)
(* are a group chosen while the process was recorded, one that a failed move *)
(* left it in, and what a crash left.                                        *)
AuxiliaryIsReturned ==
    Active \/ \A k \in Controllers : k \in aux.lost \/ aux.group[k] = aux.own[k]

-----------------------------------------------------------------------------
(* What the repository says and the code does not do                         *)

(* docs/ARCHITECTURE.md: at a reload, when the module is switched off and    *)
(* when it is removed, the coordinator restores the Launcher's state.  The   *)
(* clamp of a live thread is then the one its application chose last, unless *)
(* the policy could not know it.                                             *)
DestroyRestoresClamps ==
    [][ (policy.status # "off" /\ policy'.status = "off") =>
          \A t \in Alive(thread) :
             "clamp" \in thread[t].lost
             \/ thread'[t].clamp = thread[t].ownClamp ]_vars
=============================================================================
