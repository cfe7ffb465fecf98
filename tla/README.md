# Formal model of the HyperOS 4 launcher scheduling module

TLA+ specifications of the two native processes of the module, of the thread
policy one of them applies, of the system they form with the service loop and of
the reload of its configuration; the TLC instances that check them; and TLAPS
proofs of the properties that hold for every size of the system. Line numbers refer to the sources in this repository.

## The system

The module suppresses the application a user leaves (the *source*) while
Launcher animates, and boosts the threads of Launcher and SystemUI for as long
as the animation takes.

| Part | Code | State | Operations |
|---|---|---|---|
| Transition coordinator | `native/launcher_logwatch.c` | phase, transaction kind, transition id, gesture flag, `target_unsuppressed`, policy deadline, current source package, `stopping` | one handler per Launcher log line, policy timer, watchdog, teardown |
| Source guard | `native/source_guard.c` | armed/active, source identity (pid, uid, start time, package), one record per thread (original nice, affinity), accepted and completion transition ids, trace flag; timerfd; perf rings | `arm`, `enter`, `handoff`, `adopt`, `complete`, `replace-current`, `release-background`, `restore-top`, `disable`, `reset-top`, `stop`; timer expiry; `cgroup_attach_task` events |
| Transition thread policy | `native/transition_policy.c` | cached thread ids, saved affinity and uclamp, saved groups of auxiliary processes, saved frequency limit, `active` | begin, complete, reassert, destroy |
| `/proc` and syscall helpers | `native/proc_control.c` | none | identity, affinity and scheduling calls |
| Service loop | `module-src/service.sh`, `lib/coordinator.sh`, `lib/process-policy.sh`, `lib/source-guard.sh` | mode and source files, the two child processes | prepare groups, start the guard, bootstrap the source, run the coordinator, reset the guard |
| Locks and reload | `module-src/lib/runtime.sh` | lock directories, request and acknowledgement files | claim, release, recover a stale lock, restart the daemon |
| Topology, configuration | `lib/topology.sh`, `lib/config.sh` | cached masks, flat files | mask derivation, bounded reads |
| WebUI, install and uninstall scripts, tools | `module-src/webroot`, `lib/webui-*.sh`, `customize.sh`, `uninstall.sh`, `tools` | none of their own | file operations, rendering, measurement |

How they interact:

* Launcher writes log lines; the coordinator's reader thread classifies each one
  (`is_relevant`, `handle_event`) and calls a handler.
* The coordinator's three threads share `struct coordinator` under one mutex. A
  second mutex, `event_lock`, is held by the reader around a whole event.
* The coordinator sends the guard datagrams: `enter ID`, `handoff ID PACKAGE`,
  `adopt ID PACKAGE`, `complete ID DELAY`. Nothing comes back.
* The service sends the guard `arm`, `reset-top`, `disable`, `stop` through the
  same socket, and the coordinator a SIGTERM.
* The guard writes cgroups, nice values and masks of the source's threads. The
  framework and the application write the same things. The perf rings tell the
  guard about attaches.

What is hard in it: the order of log lines, of the coordinator's two timers and
of the guard's completion timer; handlers that unlock between deciding and
acting; thread and process ids that are reused; threads born while their process
is suppressed; writes that fail half way; crashes of the daemon; and restoring
exactly what was there before. `PROJECT.json` lists these hazards at their lines
with the properties that cover them.

### What makes each part correct

* **Guard.** While it suppresses, the source's threads are in the source groups
  or an event that will bring them back is pending; when it does not, nobody is
  in those groups and nobody keeps the raised nice value. What it restores is
  what it found before suppression. A timer completes only the transition and
  the source it was set for; an older id never takes the guard back; a
  scheduled completion happens.
* **Coordinator.** Policies are applied exactly while a transaction is open and
  always with a deadline; the commands it sends are ones the guard accepts; a
  target it had adopted unsuppressed is not suppressed by repeated lines; an
  entry ends in the scene its surface lines confirmed; nothing happens after
  teardown.
* **Thread policy.** At the end of a transition the clamps, the groups, the
  frequency limit and the masks of the system's threads are again what their owner
  chose last before it, whichever threads appear, die, are renamed or give their
  id to another in between; a limit others set meanwhile is kept. Launcher's
  threads get their masks when the coordinator starts or a transition finds them,
  and keep them until it ends: until then a record holds the mask to restore.
* **System.** However long commands wait in the socket, and whenever a coordinator
  is replaced, the guard never finds a command stale; it suppresses only what the
  coordinator believes suppressed, never the adopted target, and a settled target
  gets its source released.
* **Reload.** A shell that reports success was followed by a coordinator with its
  settings; settings that reach none are reported; the restart lock is never lost.

## Modules

| Module | Models |
|---|---|
| `TaskKernel` | what Linux and the framework do to threads, as far as the guard's code relies on it (external) |
| `SourceGuard` | the guard daemon over `TaskKernel` |
| `GuardProtocol` | what the guard promises its senders; `SourceGuard` implements it, `LauncherScheduling` uses it |
| `Coordinator` | the coordinator's three threads |
| `LauncherScheduling` | coordinator, socket, guard (as `GuardProtocol`) and the service loop that replaces coordinators |
| `TransitionPolicy` | the thread policy of a transition and everybody else who writes the same values |
| `ServiceReload` | shells that save settings and call `restart_daemon`, the restart lock, the service loop and coordinator processes |
| `MCSourceGuard`, `MCCoordinator`, `MCLauncherScheduling`, `MCTransitionPolicy`, `MCServiceReload` | constants of the TLC instances |
| `SourceGuardProofs`, `SourceGuardThreadProofs`, `SourceGuardProtocolProofs` | theorems about the guard: its types and timer; the threads it places and restores; its refinement of `GuardProtocol` |
| `CoordinatorProofs`, `CoordinatorCommandProofs` | theorems about the coordinator: deadlines, teardown and its scenes; its commands |
| `LauncherSchedulingProofs` | theorems about the composition: coordinator, socket, guard and restarts |
| `TransitionPolicyProofs` | theorems about what a transition's thread policy gives back |
| `ServiceReloadProofs` | theorems about saved settings and reloads |

### SourceGuard

`guard` holds the static variables of `source_guard.c`; `kernel` the threads,
`minor_window_app`, the timerfd and the rings. A handler is an operator on a
*world* `[g, k, bad]`: the guard's memory, the kernel, and the kernel interfaces
that fail while the handler runs. Operators compose exactly as the C functions
call each other: `Release` is `release_source`, which uses `CancelTimer`,
`Deactivate`, `ToTop` or `ToBackground` and `Idle`. `AdoptPackage`, for example,
is `adopt_package` with its release of an active source, the accepted id, the
cancelled timer, `arm_source` and `activate_source`, in that order. Each action
applies one handler to the current world: one action per command
(`handle_command`), `HandleTimer` (the timerfd branch of `daemon_main`),
`HandleEvent` (one sample of `drain_ring`), `StartGuard` (with the draining of
the source groups by `remove_source_groups`) and `Crash` (SIGKILL). Between them
the applications and the framework act: they displace threads, set nice values,
pin, clone, exit and start.

The daemon is one poll loop, so its handlers do not interleave with each other;
the model lets the rest of the system act only between handlers. A write that
fails is a member of `bad`, so partial activation and partial release are
reached although a handler is one step.

Two fields belong to no variable of the code. `timerApp` remembers for which
application the running timer was set, so that a property can say it is the
present one. `lost` says of a thread what the guard cannot find out: its raised
nice value was inherited or outlived a crash (`"nice"`), or no event announces
that it is outside the source groups (`"place"`: the ring dropped its event, or
a thread still displaced cloned it).

### Coordinator

`Events` are the lines that `is_relevant` lets through; the line type
`on_animation_start`, which `handle_event` would take for a gesture start, is not
among them. An action is one critical section of the mutex. The reader thread goes through
`ReadLine` (blocked in liblog), `CheckStopping` (takes `event_lock`, looks at
`stopping`) and a handler. `handle_overview_toggle`, the Launcher-resumed
handler and the cancel branch unlock between reading the state and acting on
it: they take the `Decide` step first and `Act` on whatever state they then
find. The timer thread is `PolicyTimer` and `TimerEnds`; the main thread is
`Terminate`, `EventBarrier` and `Teardown`. `out` is the list of datagrams the
last critical section sent. `told` is a history of what those commands told the
guard, kept for the properties only.

### GuardProtocol and the refinement

`GuardProtocol` is the guard seen from its socket: one record with the armed
application, whether it is suppressed, the accepted transition and the pending
completion. A kernel write that fails, a process that is not found or a source
that died are the reasons for which a command may end in fewer changes; they are
choices there and computed in `SourceGuard`. `SourceGuard!ImplementsProtocol` maps
the daemon's memory and its timerfd to that record: every handler, with all the
functions it calls, is one step of the protocol or none. The composition then
uses the protocol in place of the daemon, which is what makes it small enough to
check.

### LauncherScheduling

It extends `Coordinator` and adds the socket (a sequence of commands that grows
with every `out` of the coordinator and every command of the shell, and is lost
with the guard), the guard, `SOURCE_FILE` and the loop of `run_daemon`. An action
of the coordinator appends what it sent; `Receive` is the guard's `recv` and
`handle_command`. `RestartCoordinator` is the body of the loop between two
coordinators: snapshot of the guard's *status file*, which does not know the
commands still in the socket, `reset-top`, `reset-top` again, the bootstrapped
source with its `arm`, the configuration with its initial phase, and the `enter`
`main` sends when it starts in recents. `missed` is a history: the guard found no
process for the last target it was told of, so it still holds the old source.

### TransitionPolicy

One action per function of `transition_policy.h`, one more per way in which an
application, the framework, init or the thermal daemon writes the same values.
The mutex of the coordinator does not stop those. Where a function reads the
frequency limit and then acts on what it read, its system calls are therefore
steps of their own and the thermal daemon may write in between: `Begin` reads the
limit, `LowerLimit` writes it, `ReadBack` reads what was written; `Complete`
compares and `GiveBack` writes. `policy.pending` says which of them comes next,
and no other function of the policy begins before. `CompleteFirst` and `Destroy`
are the two halves of `transition_policy_destroy`.

`own` fields hold what those chose last, which no code can read back once the
policy has written over it; `lost` names the values of which the policy cannot
know that choice, and the properties except them:

* a clone inherits applied values, and the record made of it takes them for
  original;
* a coordinator killed in a transition leaves everything as it is;
* the framework chooses again while a record holds the old value (for a mask: as
  long as the record lives; for a clamp: during a transition);
* `transition_policy_reassert` writes a reused thread id;
* a rename gives a recorded thread another claim on the clamp;
* an auxiliary process was moved in one hierarchy only, its move back failed,
  or the framework chose its group again while it was recorded;
* another writer set the limit to exactly the value recorded as applied, or
  between two system calls of the policy: after the read and before the write
  (transition_policy.c:327-330) it is written over, after the write and before
  the read back (330-334) it is recorded as applied, after the compare and before
  the write of the original (408-409) it is lifted;
* the write that was to give the limit back failed;
* `transition_policy_destroy` wrote an older clamp over one chosen while no
  transition was active.

Everything else must be given back; each exception is a known limit of the code.

### ServiceReload

Shells run at their own pace: each file operation of `acquire_restart_lock`,
`increment_file` and `restart_daemon` is a step, and sleeps order nothing. A lock
is a directory with an owner file, made in two steps and removed in two. The
service loop, the coordinator processes (starting, online, gone) and their status
file are the other side. `loads` is a history of the settings each coordinator
was configured with. `Hasty` shells may be killed or run out of their five
seconds at any time; the others only when the code makes them wait in vain.

### Abstractions

* An application stands for a package name and its uid.
* The suppressed nice value is the constant `TargetNice`; the guard reads it from
  a file each time it arms, and only the comparison with it matters.
* The three masks are every CPU, what an application pinned, and the CPUs of the
  source group.
* The rings of all CPUs are one set of thread ids of bounded size. If the rings
  could only partly be switched they count as off.
* The task table's limit of 4096 records is not modelled.
* Transition ids are distinct clock readings; the guard's instances take them
  from a small set in any order.
* Delays are abstract: a deadline is none, set or reached.
* Status files, the sequence number, lag statistics and log wording are left out.
* In `TransitionPolicy` classes of threads that are treated alike are one class;
  one process stands for each auxiliary name, one cpufreq policy for the little
  cores. Corrections are not counted. Towards threads and groups a function is one
  step: what others choose between two of its system calls on the same mask, clamp
  or group is not modelled, and reads do not fail.
* In `LauncherScheduling` what the shell reads and sends between two coordinators
  is one step, after which the commands are received one by one; a coordinator
  ends by `Teardown` only.
* In `ServiceReload` one save happens at a time and is one step; only switching the
  module off is modelled, not on; the service itself stays alive; the limit of 100
  attempts for the lock is left out, so that `LockIsObtained` says the wait ends.
* Thread creation that fails at start and configuration errors end `main` before
  the model begins.

Operators whose comment begins with *Fault* are variants of the operator below
them, with an error a programmer might make there. No specification uses them.
Substituting one for the operator it stands before makes TLC report the property
named for it in `PROJECT.json`, which shows that the property depends on that
line of the code.

## Runs

Every instance keeps the domains small and names its bounds: `MaxStart` (births
of threads), `RingSize`, `MaxTasks`, `MaxClock` (clock readings), `MaxQueue`,
`MaxRestarts`, `MaxMishaps`, the sets `Tids`, `Ids`, `Apps`, `Clients`.

| Run | Question | Instance |
|---|---|---|
| `guard_placement` | Are the source's threads, and only they, in the source groups (`PlacementWatched`, `OnlySourceInSourceGroups`, `TypeOK`)? | processes of two applications and one thread id to be born, a ring of one, crash and restart |
| `guard_restore` | Are the masks recorded ones from before suppression, and handed back (`BaselineNotSuppressed`, `AffinityHandedBack`)? | threads pin themselves, a second thread or process is born, crash, every command |
| `guard_reuse` | Does a raised nice value outlive suppression (`NoNiceLeft`)? | thread ids are reused, threads start at nice 0 and the framework sets 5, crash |
| `guard_protocol` | Do timer, accepted id and armed source stay together (`TimerMatchesSource`, `TimerMatchesTransition`, `TransitionIdsNeverGoBack`), and is every handler a step of the protocol (`ImplementsProtocol`)? | two ids in every order and repeated, a ring of one with its events, cpuctl writes that fail |
| `guard_liveness` | Does a scheduled completion happen and a displaced thread come back (`CompletionHappens`, `DisplacedComesBack`)? | fair poll loop |
| `coordinator` | The safety properties of the coordinator, `TransitionsEnd` and `ShutdownCompletes` | two packages, every kind of line, four clock readings, fair threads |
| `system` | Does the guard do what the coordinator believes (`NothingIsRefused`, `SuppressionIsKnown`, `TargetIsFree`, `WantedStaysSuppressed`, `SourceIsReleased`)? | two applications, three clock readings, a queue of two before lines wait, one restart, the guard may die |
| `thread_policy` | Is everything given back (`NoMaskForgotten`, `NoClampForgotten`, `LimitIsReturned`, `AuxiliaryIsReturned`)? | two thread ids that are reused, three births, a table of two records, each of the four parts in turn, moves to and from the background and writes of the limit that fail, the limit's system calls one by one, kills |
| `reload` | Is what a shell reports true (`OkMeansLoaded`, `SavedIsLoadedOrReported`), and the lock never lost (`LockIsObtained`)? | two shells, one of which may be killed, time out or switch the module off; a lock left over; two mishaps |
| `coordinator_slow_gesture` | Can a cancelled gesture leave the source suppressed? Yes | gesture longer than the fallback |
| `policy_stale_clamp` | Can a coordinator that ends write an older clamp over the one an application chose (`DestroyRestoresClamps`)? Yes | one thread, a clamp chosen while no transition is active |
| `reload_disable` | Can a shell report a failure of a reload the service followed? Yes | one shell that switches the module off |

Why these bounds are enough for the questions: each interaction is between one
source, one other application and one thread that is born, dies or reuses an
id; two transition ids are enough for old against new, a ring of one for
overflow, and two clock readings for a transaction opened while another is. A
third reading lets the transaction be replaced in the unlocked window of a
handler, a fourth lets it be replaced by a handler after that.

In the composition one restart puts an old and a new coordinator at the two ends
of the socket, and a third clock reading lets the new one open a transaction
while commands of the old one wait. In the thread policy two ids and three
births give a reused id, a clone and a full table; limits of 64, 80 and 100 with
a share of 80% make the applied value one the thermal daemon may choose as well.
The four parts of the policy are enabled one at a time: only the threads of Launcher
and of the system share a table, and the theorems cover them together.
Two shells are the least that can contend for the lock while a third owner, left
over, is dead.

Kernel writes fail (`Faults`) in `guard_protocol` (cpuctl) and `thread_policy`
(both controllers and the limit); the other guard runs have none. In the same way
only `guard_reuse` and `thread_policy` reuse thread ids.

The coordinator, system and reload instances have `CHECK_DEADLOCK FALSE`: the
coordinator's process exits, lines stop at the bound on clock readings, and the
shells end. The other instances check for deadlock.

### What the violated runs show

* **`coordinator_slow_gesture`** The fallback deadline ends the entry while the
  finger is still down, and the cancel that follows has no transaction to end.
* **`policy_stale_clamp`** docs/ARCHITECTURE.md:101-103 says that the coordinator
  restores the state of Launcher when it is reloaded, switched off or removed.
  `transition_policy_destroy` restores the clamps of all persistent records, also
  when no transition is active. A record holds the clamp that `register_task` read
  in `transition_policy_initialize` (transition_policy.c:142-144), or the one the
  last begin refreshed (:372); what was chosen since is overwritten. The shortest
  trace has no transition: a thread is registered, its clamp is changed, the
  coordinator ends.
* **`reload_disable`** `restart_daemon` waits for the status of a coordinator
  other than the one it found. The service, switched off, acknowledges the request
  and starts none; the shell reports failure after five seconds (action.sh:18,
  webui.sh:33), although the service did what was asked. The same holds
  when there was no coordinator to begin with, as on the way back from off.

### Known limits of the code the properties leave out

The constants of the instances and the exceptions named in the properties keep
these out; each is reachable in the model once they are lifted.

* A thread id reused while its record lives: `drain_ring` and `reassert_source`
  compare no start time, so an attach event of another application's thread moves
  it into the source groups (`TidReuse` with `OnlySourceInSourceGroups`).
* A thread registered at or above the nice value of suppression, lowered by the
  framework and raised again, is not restored: its `applied_nice` is its
  `original_nice` (`AppNices` with `NoNiceLeft`).
* A thread cloned while suppressed keeps the raised nice value for good (`lost`
  in `NoNiceLeft`).
* A cpuctl write that fails after the cpuset write leaves the source in the
  source cpuset; the next activation records the suppressed mask (`Faults` with
  `BaselineNotSuppressed`).
* A forced release of a source that was never suppressed writes the nice value
  read at arming over one the framework set since (`restore_nice(1)` in
  `release_source`).
* An exit transaction that gets neither an end line nor `activityResumed` ends by
  the timer, which sends the guard nothing: `ResumedTargetIsReleased` and
  `SourceIsReleased` speak of transactions in which a target resumed.
* A late `activityResumed` line of the old target, after the transaction has
  settled in app, is sent as an `adopt` with a new id (launcher_logwatch.c:394) and
  makes the guard follow it. The model takes the step; `TargetIsFree` speaks of an
  open exit only.
* A limit that the thermal daemon sets between two system calls of the policy is
  written over, taken for the policy's own or lifted (transition_policy.c:327-334,
  408-409; `lost` in `LimitIsReturned`).
* An auxiliary process whose move fails in one hierarchy, or whose move back fails,
  stays where it is, and nothing retries (`lost` in `AuxiliaryIsReturned`).
* What a coordinator killed with SIGKILL in a transition leaves, the next one takes
  for the owner's choice (`lost` in all four properties of `TransitionPolicy`).
* A guard that dies is not started again while its service runs.
* docs/ARCHITECTURE.md:107 says a reload in recents does not put the source back
  to top-app early; the loop sends `reset-top` after every coordinator, before the
  new one suppresses the source again (`LauncherScheduling!Resets`).
* The comment at runtime.sh:102 wants the lock not to be taken from a shell that
  has made the directory but not yet the owner file. The wait of 0.1 s makes that
  unlikely, not impossible: two shells can then hold the lock. `OkMeansLoaded` and
  `LockIsObtained` hold all the same.
* A reload signalled between the writing of the coordinator's configuration and
  its start finds no process to end; the shell then reports a failure.

### Fairness

`SourceGuard!FairSpec` assumes that a running timer expires and that the poll
loop gets to an expired timer and to each waiting event: `poll` returns as long
as a descriptor is readable and each round visits the timer and every ring.
Nothing is assumed of commands, of the framework or of a restart.
`Coordinator!FairSpec` assumes that a line that was read is handled, that time
passes, that the timer thread gets the mutex, and that `main`, once woken, goes
on; each of these is one thread that waits for nothing else. Log lines and
signals are not promised. `CompletionHappens` and `TransitionsEnd` except a
sender or a log that keeps restarting the timer for ever, because
`schedule_completion` and the handlers do restart it.
`LauncherScheduling!FairSystem` assumes of the composition only that the guard's
loop receives what is in its socket and gets to the end of a pending completion.
`ServiceReload!FairSpec` assumes that the loop, each shell and a coordinator that
was started or signalled go on; kills, mishaps and new shells are not promised.

## Proofs

The proof modules are checked by TLAPS for every value of the constants that
satisfies the named assumptions `KernelAssumption`, `GuardAssumption`,
`CoordinatorAssumption`, `SchedulingAssumption`, `PolicyAssumption` and
`ReloadAssumption` (disjointness of `NoApp` and of the
lock's "nobody", integer nice values, natural bounds: what the code takes for
granted).

* **`SourceGuardProofs!TypeCorrect`** `Spec => []TypeOK`. One lemma per operator
  on worlds states that it preserves `Worlds`; the step theorem then follows the
  disjuncts of `Next`.
* **`SourceGuardProofs!TimerIsTheSources`, `TimerIsTheTransitions`** Neither
  property is inductive. `Agrees` strengthens them: a source is active
  only while one is armed; a timer that is not off has a completion id and a
  running guard; if that id is the accepted one and a source is armed, the timer
  was set for that source; and while a source is active it is the accepted one. The
  difficulty is in handlers that pass through states in which the invariant
  does not hold, for instance between the accepted id and the cancelled timer:
  `Accept` is one operator and lemmas about `Arm`, `Activate`, `Release` state
  which part each preserves under which condition.
* **`SourceGuardProtocolProofs!GuardImplementsProtocol`** `Spec => ImplementsProtocol`:
  the daemon implements the abstract protocol. One lemma per action maps it to a
  step of `GuardProtocol` or to none, through the functions it calls: the two
  releases inside `Adopt` and `Replace` are invisible because the record that
  counts is the last one. The invariant `CInv` is `Agrees` on the current world
  with two facts the mapping needs: the guard has an application exactly when it
  is armed, and a guard that is down remembers nothing. Without the first an
  armed source and no source would map to the same record.
* **`SourceGuardProtocolProofs!IdsNeverGoBack`** `TransitionIdsNeverGoBack`: only
  a command with a newer id, or the end of the guard, changes the accepted id.
* **`SourceGuardThreadProofs!SourceGroupsAreTheSources`, `MasksAreTheThreads`,
  `NicesAreRestored`, `PlacementIsWatched`** where the guard puts the threads of
  the source and what it leaves on them: `OnlySourceInSourceGroups`,
  `BaselineNotSuppressed`, `NoNiceLeft`, `PlacementWatched`. They share one
  invariant, `Threads`. `Kin` is the kernel's order of births, `Book` says of which
  process an armed source and its records are. `SourceKept` adds that a record is
  of the thread that has its id now or of none, and that only a thread in the
  source cpuset has its mask: without it `CaptureBaseline` could record a
  suppressed mask. `NiceKept` says which raised values the records can restore
  (`Restorable`) and that without suppression none is raised; `Placed` that the
  trace is on while the guard suppresses. A handler goes through states between
  those two: threads still raised while `active` is already off, groups moved and
  nice values not. `Sound` therefore speaks of worlds, and each operator has one
  lemma that says what it does to one thread, from which the lemmas about the
  functions that call it are composed.
  The conditions are on the constants. `Reliable`: attaching a thread does not
  fail. `~TidReuse`: no id is given out twice. `LowNices`: the value of
  suppression is positive and applications use lower ones (19 at the default
  setting; the setting allows any from -20). `Faults = {}`: the trace can be
  switched as well. Each theorem has only those it needs, the runs
  `guard_placement`, `guard_restore` and `guard_reuse` satisfy those of the
  properties they check, and without any one of them TLC finds the property
  violated by the code's own steps: a cpuctl write that fails after the cpuset
  write; an attach event of the thread that got a dead one's id, which also ends up
  in the baseline; a thread registered at 19 that the framework lowers while it is
  suppressed, raised again by the next handoff or attach event and not restored,
  because its record says it was never changed; a trace that could not be switched off and that
  `trace_enabled` no longer tells the truth about.
* **`SourceGuardThreadProofs!MasksAreHandedBack`** `AffinityHandedBack` with no
  condition at all. Every function is shown to bring no thread to top-app
  (`Spared`) or to give those it brings the mask of their record (`Returned`):
  only `ToTop` does the second, and restores the masks after the attach.
* **`CoordinatorProofs!TypeCorrect`** `Spec => []TypeOK`.
* **`CoordinatorProofs!PolicyAlwaysHasDeadline`** Policies are applied exactly
  while a transaction is open and exactly while a deadline is set. It is
  inductive with `TypeOK`, because a handler takes its second critical section
  on an arbitrary state that satisfies it.
* **`CoordinatorProofs!TeardownIsFinal`** needs `BarrierHolds`: once `main` is
  past the barrier no handler is between the stopping check and its end, and
  `stopping` is set, so no reader passes the check again.

* **`CoordinatorCommandProofs!GuardFollows`, `AdoptedTargetStaysFree`** Both
  speak of the datagrams of one step and of what earlier ones told the guard.
  The invariant is `Sound`: while a transaction is open the last command that
  began one carried its id, no id is ahead of the clock, and a transaction whose
  target was adopted is an exit that remembers it in `target_unsuppressed`. It
  splits in `Linked` and `Remembers` because `start_entry` clears the flag before
  it opens its transaction: in between only `Linked` holds. `Spares` adds, for the
  composition, that such an exit has freed its source. `Accepted` states the two
  properties of a step that is only half done, and what its receiver relies on:
  the history `told` is what the commands of the step say (`Says`), and their ids
  are not below `Floor`, the last id told or, before the first, the clock.
* **`CoordinatorProofs!ResumedTargetReleased`, `EntrySettles`** The
  Launcher-resumed handler and the cancel branch decide under one lock and act
  under the next. The invariant is `Scenes`: a resumed target leaves only an exit
  open, and its source is not suppressed (`Freed`); while the coordinator holds no
  source the guard was last told of none (`Unheard`); an open entry is in the scene
  last confirmed (`Placed`); and a handler that has decided to go home found no
  transaction open (`DecidedHome`), which is what the unlocked window may not
  spoil. The first three hold at every call inside a handler; the fourth only
  between critical sections.
* **`LauncherSchedulingProofs!CommandsAreAccepted`, `GuardIsKnown`,
  `AdoptedTargetIsFree`, `NoStaleRelease`** the safety of the composition, for
  sockets and restarts without bound: `NothingIsRefused`, `SuppressionIsKnown`,
  `TargetIsFree`, `WantedStaysSuppressed`. All but the first speak of an
  empty socket only, so the invariant must say what the commands that still wait will make of
  the guard (`Sees`). Ids never decrease from the guard through the socket to the
  coordinator's `Floor` (`Aged`), and an `arm` waits only right behind a
  `reset-top`, or at the head for a guard that was just reset (`Armed`).
  A command is decisive when it settles what is suppressed and for which
  transition whatever happened before: `enter`, `handoff`, `adopt`, `reset-top`.
  If one waits, the last of them agrees with `told`, and a `complete` for it waits
  behind it exactly if a release was announced (`Decided`). If none waits, the
  guard itself agrees with `told`, unless it missed a process (`Undecided`).
  The lemmas say what one more command at the end of the socket and one less at
  its head do to this relation; a step of the coordinator appends what
  `CoordinatorCommandProofs!Accepted` allows, `RestartCoordinator` appends two
  resets, an `arm` and perhaps an `enter` behind whatever the old coordinator left,
  and the guard obeys, ignores without harm, or knows that it missed the command
  (`Obeys`). A reset is what lets a new coordinator begin from
  `NothingTold`: without one, a decisive command of the old coordinator would
  disagree with it.
* **`LauncherSchedulingProofs!EveryCoordinatorIsBounded`** carries the coordinator's
  own invariants across restarts: each coordinator of the loop starts in a state
  that satisfies them.
* **`TransitionPolicyProofs!TypeCorrect`** `Spec => []TypeOK`.
* **`TransitionPolicyProofs!MasksComeBack`, `ClampsComeBack`, `LimitComesBack`,
  `AuxiliaryComesBack`** what was borrowed for a transition is given back. None is
  inductive: each speaks of the time after a transition, and says nothing of the
  records that will have to restore the values while it lasts. `Consistent` says,
  for each thread, what its live record remembers and which value is written over
  it (`Holds`), that a thread without a live record is as its owner left it
  (`Untouched`), unless the value is among the `lost`; records are of distinct
  threads and not from the future; transient records exist only in a transition
  (`ThreadPart`). `AuxPart` and `LimitPart` say the same of the auxiliary
  processes and the cpufreq limit; between two system calls on the limit
  `LimitPart` says what the function will write over: what it read there, or a
  value that is already among the lost. `MasksComeBack` is not only about
  the time after a transition: a thread of Launcher keeps the policy's mask between
  transitions, with a record of its own, and nobody keeps it after destroy.
  A record whose thread id was given to another
  thread is told from a live one by its birth time, as in the code.
* **`ServiceReloadProofs!TypeCorrect`** `Spec => []TypeOK`, with `Reporting`: a
  shell that leaves the lock has a result to report.
* **`ServiceReloadProofs!SuccessIsReal`** `OkMeansLoaded` needs `OneCoordinator`
  (the status file names the last coordinator or none, and no coordinator runs
  while the loop is not waiting for one) and `Followed`: a shell that found a
  coordinator saved before, so every later one is configured with its settings.
  `Followed` says nothing of the lock: success is true even when two shells hold
  it.

Only model-checked: everything that must eventually happen (`CompletionHappens`,
`DisplacedComesBack`, `TransitionsEnd`, `ShutdownCompletes`, `SourceIsReleased`,
`SavedIsLoadedOrReported`, `LockIsObtained`): liveness under fairness is out of
the prover's reach. Every other property of a passing run is a theorem. The guard takes the lowest process id of a package:
`Lowest` is a `CHOOSE`, and that a minimum exists is proved by well-founded
induction from the library. The initial cpufreq limit of `TransitionPolicy` is
some member of `Limits` and not the greatest, which an infinite set need not have.

## Not modelled

`PROJECT.json` lists every component. Not modelled are the instance lock of the
service with `cleanup_stale_daemons`, the boot and the exit traps of service.sh;
the derivation of masks (`topology.sh`), planned below; configuration reads, the
WebUI, install and uninstall scripts and the offline tools, which are sequential
file operations without state that outlives a call.

## Plan

1. Done: `TaskKernel`, `SourceGuard`, `Coordinator`, their instances and first
   theorems; `GuardProtocol` and its refinement; `LauncherScheduling`;
   `TransitionPolicy`; `ServiceReload` and its theorems.
2. Done: the theorems of `TransitionPolicy`, the refinement of `GuardProtocol`,
   the scenes of the coordinator, the placement and restoration of the guard's
   threads, the composition.
3. Open: `Topology`: mask derivation as operators against a reference definition over
   small CPU sets. The instance lock of the service with two boots.
