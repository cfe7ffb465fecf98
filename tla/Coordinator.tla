----------------------------- MODULE Coordinator -----------------------------
(***************************************************************************)
(* The transition coordinator (native/launcher_logwatch.c): a log reader    *)
(* thread that turns Launcher log lines into transitions, a policy timer    *)
(* thread that ends them, and the main thread that tears both down.  The    *)
(* threads share the coordinator under one mutex; an action is one critical *)
(* section, so handlers that unlock between reading and acting take two.    *)
(*                                                                          *)
(* Commands go to the source guard in the order of out.  Transition ids are *)
(* clock readings: clock counts the readings made, which are distinct.      *)
(***************************************************************************)
EXTENDS Integers, Sequences

CONSTANTS
    Apps, NoApp,      \* packages an activityResumed line may name, and none
    SourceEnabled,    \* source_enabled of the run configuration
    InitialPhases,    \* initial_phase of the run configuration
    InitialSources,   \* initial_source of the run configuration
    Events,           \* kinds of log lines that arrive
    MaxClock          \* bound: clock readings

ASSUME CoordinatorAssumption ==
    /\ NoApp \notin Apps
    /\ SourceEnabled \in BOOLEAN
    /\ InitialPhases \subseteq {"app", "home", "recents"}
    /\ InitialSources \subseteq Apps \cup {NoApp}
    /\ MaxClock \in Nat \ {0}

VARIABLES
    c,         \* struct coordinator, the part the mutex guards
    clock,     \* monotonic clock readings so far
    out,       \* commands the last critical section sent to the guard
    reader,    \* what the log reader thread is doing
    timer,     \* is the policy timer thread in its loop
    stopping,  \* the flag main sets before teardown
    main,      \* where the main thread is
    told       \* history: what the commands sent so far told the guard

vars == <<c, clock, out, reader, timer, stopping, main, told>>

-----------------------------------------------------------------------------
Phases == {"app", "entering", "home", "recents", "leaving"}
Kinds == {"none", "entry", "exit", "home"}

(* policy is transition_policy.active; deadline is policy_deadline_valid,    *)
(* split by whether its time has come.                                       *)
State == [phase: Phases, kind: Kinds, id: Nat, gesture: BOOLEAN,
          unsuppressed: BOOLEAN, policy: BOOLEAN,
          deadline: {"none", "set", "reached"}, source: Apps \cup {NoApp}]

Message == [name: {"enter", "handoff", "adopt", "complete"}, id: Nat,
            app: Apps \cup {NoApp}]

(* The source is free, suppressed, or about to be released by a completion   *)
(* the guard was told of; id and adopted are the transition of the last      *)
(* command that begins one and of the last adopt; scene is the scene the     *)
(* last surface line of the transaction confirmed, target whether a target   *)
(* resumed in it.                                                            *)
Told == [source: {"free", "suppressed", "releasing"}, id: Nat, adopted: Nat,
         scene: Phases \cup {"none"}, target: BOOLEAN]

Resumed(p) == [kind |-> "resumed", app |-> p]
Line(k) == [kind |-> k, app |-> NoApp]
LogLines == {Resumed(p) : p \in IF "resumed" \in Events THEN Apps ELSE {}}
            \cup {Line(k) : k \in Events \ {"resumed"}}
NoLine == Line("none")

(* at: blocked in liblog, holding a line, past the stopping check, or        *)
(* between the two critical sections of a handler, with what it decided.     *)
Reader == [at: {"idle", "read", "checked", "decided"},
           line: LogLines \cup {NoLine},
           next: {"none", "home", "leave", "enter", "cancel"}]
Idle == [at |-> "idle", line |-> NoLine, next |-> "none"]

-----------------------------------------------------------------------------
(* Critical sections, as functions of a step s = [c, clock, out, told]       *)

Step == [c |-> c, clock |-> clock, out |-> <<>>, told |-> told]

Heard(t, m) ==
    CASE m.name = "enter" -> [t EXCEPT !.source = "suppressed", !.id = m.id]
      [] m.name = "handoff" -> [t EXCEPT !.source = "suppressed", !.id = m.id]
      [] m.name = "adopt" -> [t EXCEPT !.source = "free", !.id = m.id,
                                       !.adopted = m.id]
      [] OTHER -> IF t.source = "suppressed" /\ m.id = t.id
                  THEN [t EXCEPT !.source = "releasing"] ELSE t

Send(s, name, id, app) ==
    LET m == [name |-> name, id |-> id, app |-> app]
    IN  IF SourceEnabled THEN [s EXCEPT !.out = Append(@, m), !.told = Heard(@, m)]
        ELSE s

(* Fault: the phase is stored in the field of the transaction kind.           *)
SettledMixed(state) == [state EXCEPT !.kind = state.phase, !.deadline = "none"]

(* What a transaction that ends leaves behind.                               *)
Settled(state) ==
    LET phase == IF state.kind = "exit" THEN "app"
                 ELSE IF state.phase = "entering" THEN "recents" ELSE state.phase
    IN  [state EXCEPT !.phase = phase, !.kind = "none", !.deadline = "none",
             !.unsuppressed = IF phase = "app" THEN FALSE ELSE @]

(* Faults: a step that sets no deadline; a completion the guard is not sent.  *)
NoDeadline(s) == s
NotSent(s) == s

SetDeadline(s) == [s EXCEPT !.c.deadline = "set"]

SendComplete(s) == Send(s, "complete", s.c.id, NoApp)

SchedulePolicyCompletion(s) ==
    IF s.c.policy THEN SetDeadline(s)
    ELSE [s EXCEPT !.c = Settled(@)]

(* Fault: one id for every transition.                                        *)
OneId(s, kind) == IF s.c.id = 0 THEN s.clock + 1 ELSE s.c.id

NextId(s, kind) == IF s.c.kind # kind THEN s.clock + 1 ELSE s.c.id

PrepareTransition(s, kind, phase) ==
    LET new == s.c.kind # kind
        id == NextId(s, kind)
        opened == [s.c EXCEPT !.id = id, !.kind = kind, !.phase = phase,
                              !.deadline = "none"]
        noted == [s.told EXCEPT !.scene = "none",
                                !.target = IF new THEN FALSE ELSE @]
    IN  [s EXCEPT !.c = opened, !.told = noted,
                  !.clock = IF new THEN @ + 1 ELSE @]

BeginPolicy(s) == [s EXCEPT !.c.policy = TRUE]

StartEntry(s) ==
    LET begun == PrepareTransition([s EXCEPT !.c.unsuppressed = FALSE],
                                   "entry", "entering")
        told1 == Send(begun, "enter", begun.c.id, NoApp)
    IN  [SetDeadline(BeginPolicy(told1)) EXCEPT !.c.gesture = TRUE]

StartLeaving(s) ==
    LET begun == PrepareTransition(s, "exit", "leaving")
        left == IF s.c.kind = "exit" THEN s
                ELSE Send(begun, "enter", begun.c.id, NoApp)
    IN  SetDeadline(BeginPolicy(left))

StartHome(s) ==
    LET begun == PrepareTransition(s, "home", "home")
        told1 == Send(begun, "enter", begun.c.id, NoApp)
    IN  SchedulePolicyCompletion([BeginPolicy(told1) EXCEPT !.c.gesture = FALSE])

SettleSurface(s, phase) ==
    SchedulePolicyCompletion([s EXCEPT !.c.phase = phase, !.c.gesture = FALSE,
                                       !.told.scene = phase])

(* Fault: the package alone decides that a target is the source.              *)
SamePackage(s, p) == s.c.source = p

IsSource(s, p) == ~s.c.unsuppressed /\ s.c.source = p

HandoffTarget(s, p) ==
    LET same == IsSource(s, p)
        named == [s EXCEPT !.c.source = p]
        leaving == IF s.c.kind = "exit" THEN named
                   ELSE BeginPolicy(PrepareTransition(named, "exit", "leaving"))
        sent == Send(leaving, IF same THEN "handoff" ELSE "adopt", leaving.c.id, p)
        timed == SchedulePolicyCompletion(
                     [sent EXCEPT !.c.unsuppressed = ~same, !.told.target = TRUE])
    IN  IF s.c.phase = "app" /\ s.c.kind = "none"
        THEN Send([named EXCEPT !.c.unsuppressed = FALSE, !.clock = @ + 1],
                  "adopt", s.clock + 1, p)
        ELSE IF same THEN SendComplete(timed) ELSE timed

CompleteToApp(s, cancel) ==
    LET kind == IF cancel /\ s.c.gesture /\ s.c.kind = "entry"
                THEN "exit" ELSE s.c.kind
        left == [s EXCEPT !.c.kind = kind, !.c.phase = "leaving"]
        done == IF s.c.id # 0 /\ kind = "exit"
                THEN SendComplete(SchedulePolicyCompletion(left)) ELSE s
    IN  [done EXCEPT !.c.gesture = FALSE]

-----------------------------------------------------------------------------
(* The log reader thread                                                     *)

Becomes(s) == c' = s.c /\ clock' = s.clock /\ out' = s.out /\ told' = s.told

Quiet == out' = <<>> /\ UNCHANGED <<c, clock, told>>

EventLockHeld == reader.at \in {"checked", "decided"}

ReadLine(line) ==
    /\ reader.at = "idle" /\ main # "exited" /\ clock < MaxClock
    /\ reader' = [Idle EXCEPT !.at = "read", !.line = line]
    /\ Quiet /\ UNCHANGED <<timer, stopping, main>>

(* monitor_logs takes event_lock, handle_event looks at stopping first.      *)
CheckStopping ==
    /\ reader.at = "read" /\ main # "exited"
    /\ reader' = IF stopping THEN Idle ELSE [reader EXCEPT !.at = "checked"]
    /\ Quiet /\ UNCHANGED <<timer, stopping, main>>

Handles(kinds) == reader.at = "checked" /\ reader.line.kind \in kinds

(* A handler of one critical section.                                        *)
Done(s) == /\ Becomes(s)
           /\ reader' = Idle
           /\ UNCHANGED <<timer, stopping, main>>

(* The first critical section of a handler that acts in a second one.        *)
Decide(next) == /\ Quiet
                /\ reader' = [reader EXCEPT !.at = "decided", !.next = next]
                /\ UNCHANGED <<timer, stopping, main>>

HandleTargetResumed == Handles({"resumed"}) /\ Done(HandoffTarget(Step, reader.line.app))

(* Fault: a resumed Launcher is the home screen while a gesture enters it.    *)
OnlyLeaving(state) == state.kind = "exit" \/ state.phase = "leaving"

Passing(state) == \/ state.kind \in {"entry", "exit"}
                  \/ state.phase \in {"entering", "recents", "leaving"}

HandleLauncherResumed ==
    /\ Handles({"launcherResumed"})
    /\ IF Passing(c)
       THEN Done(Step)
       ELSE IF c.kind = "home" \/ c.phase = "home"
       THEN Done(SchedulePolicyCompletion([Step EXCEPT !.c.phase = "home"]))
       ELSE Decide("home")

HandleOverviewToggle ==
    /\ Handles({"overviewToggle"})
    /\ Decide(IF c.kind = "exit" \/ (c.kind = "none" /\ c.phase = "recents")
              THEN "leave" ELSE "enter")

HandleEntry == Handles({"gestureStart"}) /\ Done(StartEntry(Step))
HandleGestureToHome == Handles({"gestureToHome"}) /\ Done(SettleSurface(Step, "home"))
HandleEnterOverview == Handles({"enterOverview"}) /\ Done(SettleSurface(Step, "recents"))
HandleOverviewToHome == Handles({"overviewToHome"}) /\ Done(StartHome(Step))
HandleExit == Handles({"exitOverview"}) /\ Done(StartLeaving(Step))
HandleExitComplete == Handles({"exitComplete"}) /\ Done(CompleteToApp(Step, FALSE))

HandleCancel == /\ Handles({"gestureToApp"})
                /\ IF c.gesture THEN Decide("cancel") ELSE Done(Step)

(* The second critical section, on whatever state it now finds.              *)
Act ==
    /\ reader.at = "decided"
    /\ Done(CASE reader.next = "home" -> StartHome(Step)
              [] reader.next = "leave" -> StartLeaving(Step)
              [] reader.next = "enter" -> StartEntry(Step)
              [] OTHER -> CompleteToApp(Step, TRUE))

-----------------------------------------------------------------------------
(* The policy timer thread                                                   *)

DeadlinePasses ==
    /\ c.deadline = "set" /\ main # "exited"
    /\ c' = [c EXCEPT !.deadline = "reached"]
    /\ out' = <<>> /\ UNCHANGED <<clock, reader, timer, stopping, main, told>>

PolicyTimer ==
    /\ timer /\ ~stopping
    /\ c.policy /\ c.deadline = "reached"
    /\ c' = Settled([c EXCEPT !.policy = FALSE])
    /\ out' = <<>> /\ UNCHANGED <<clock, reader, timer, stopping, main, told>>

(* Fault: a timer thread that waits with no policy active is not woken.       *)
TimerEndsAwake == /\ timer /\ stopping /\ c.policy
                  /\ timer' = FALSE
                  /\ Quiet /\ UNCHANGED <<reader, stopping, main>>

TimerEnds ==
    /\ timer /\ stopping
    /\ timer' = FALSE
    /\ Quiet /\ UNCHANGED <<reader, stopping, main>>

-----------------------------------------------------------------------------
(* The main thread                                                           *)

(* SIGTERM from the service, the watchdog (Launcher gone) or the reader.     *)
Terminate ==
    /\ main = "waiting"
    /\ main' = "stopping" /\ stopping' = TRUE
    /\ Quiet /\ UNCHANGED <<reader, timer>>

(* Fault: main joins the timer while a handler may be under way.              *)
NoBarrier == /\ main = "stopping" /\ main' = "joining"
             /\ Quiet /\ UNCHANGED <<reader, timer, stopping>>

EventBarrier ==
    /\ main = "stopping" /\ ~EventLockHeld
    /\ main' = "joining"
    /\ Quiet /\ UNCHANGED <<reader, timer, stopping>>

(* transition_policy_destroy runs without the mutex.                         *)
Teardown ==
    /\ main = "joining" /\ ~timer
    /\ main' = "exited"
    /\ c' = [c EXCEPT !.policy = FALSE]
    /\ out' = <<>> /\ UNCHANGED <<clock, reader, timer, stopping, told>>

-----------------------------------------------------------------------------
FreshState(phase, source, id) ==
    [phase |-> phase, kind |-> "none", id |-> id, gesture |-> FALSE,
     unsuppressed |-> FALSE, policy |-> FALSE, deadline |-> "none",
     source |-> source]

NothingTold == [source |-> "free", id |-> 0, adopted |-> 0, scene |-> "none",
                target |-> FALSE]

(* main enters the reloaded recents scene again before the threads start.    *)
Init ==
    /\ \E phase \in InitialPhases, source \in InitialSources :
         LET again == phase = "recents" /\ SourceEnabled /\ source # NoApp
             fresh == [c |-> FreshState(phase, source, IF again THEN 1 ELSE 0),
                       clock |-> IF again THEN 1 ELSE 0,
                       out |-> <<>>, told |-> NothingTold]
             s == IF again THEN Send(fresh, "enter", 1, NoApp) ELSE fresh
         IN  c = s.c /\ clock = s.clock /\ out = s.out /\ told = s.told
    /\ reader = Idle
    /\ timer = TRUE /\ stopping = FALSE /\ main = "waiting"

HandleEvent ==
    \/ HandleTargetResumed \/ HandleLauncherResumed \/ HandleOverviewToggle
    \/ HandleEntry \/ HandleGestureToHome \/ HandleEnterOverview
    \/ HandleOverviewToHome \/ HandleExit \/ HandleExitComplete \/ HandleCancel
    \/ Act

Next ==
    \/ \E line \in LogLines : ReadLine(line)
    \/ CheckStopping
    \/ HandleEvent
    \/ DeadlinePasses \/ PolicyTimer \/ TimerEnds
    \/ Terminate \/ EventBarrier \/ Teardown

Spec == Init /\ [][Next]_vars

(* Time passes, the mutex is fair enough for each thread to get its turn,    *)
(* and main does not stop half way; log lines and signals are not promised.  *)
FairSpec ==
    /\ Spec
    /\ WF_vars(CheckStopping \/ HandleEvent)
    /\ WF_vars(DeadlinePasses) /\ WF_vars(PolicyTimer) /\ WF_vars(TimerEnds)
    /\ WF_vars(EventBarrier) /\ WF_vars(Teardown)

-----------------------------------------------------------------------------
(* Properties                                                                *)

(* Every critical section leaves the coordinator well formed.                *)
TypeOK ==
    /\ c \in State /\ clock \in Nat /\ out \in Seq(Message)
    /\ reader \in Reader /\ timer \in BOOLEAN /\ stopping \in BOOLEAN
    /\ main \in {"waiting", "stopping", "joining", "exited"}
    /\ told \in Told

(* Thread policies are applied exactly while a transaction is open, and      *)
(* never without a deadline that will end them, whatever the order of log    *)
(* lines and of the timer (policy.active against transaction_kind and        *)
(* policy_deadline_valid in every handler).                                  *)
PolicyHasDeadline ==
    main # "exited" => /\ c.policy <=> c.kind # "none"
                       /\ c.policy <=> c.deadline # "none"

(* The id of a command is never below the id of the last one that began a    *)
(* transition, which the guard would refuse, and a complete carries exactly  *)
(* that id, without which the guard would ignore it.                         *)
CommandsFollowTheGuard ==
    [][ \A i \in DOMAIN out' :
          /\ out'[i].id >= told.id
          /\ out'[i].name = "complete" => out'[i].id = told'.id ]_vars

(* A target that was adopted unsuppressed is not suppressed by a repeated    *)
(* activityResumed line of the same transition (target_unsuppressed).        *)
AdoptedStaysUnsuppressed ==
    [][ \A i \in DOMAIN out' :
          out'[i].name = "handoff" => out'[i].id # told.adopted ]_vars

(* When a transaction in which a target resumed has settled in app, the      *)
(* guard was told to release the source, even if no end line ever came.      *)
ResumedTargetIsReleased ==
    (c.phase = "app" /\ c.kind = "none" /\ told.target)
        => told.source # "suppressed"

(* An entry ends in the scene its last surface line confirmed, and without   *)
(* one in recents, unless a target or a return to home replaces it: neither  *)
(* a Launcher resumed line nor the timer rewrites entering to home.          *)
EntryEndsInScene ==
    [][ c.kind = "entry" =>
          /\ c'.kind = "none" =>
               c'.phase = IF told.scene = "none" THEN "recents" ELSE told.scene
          /\ c'.kind = "home" => reader.line.kind = "overviewToHome" ]_vars

(* After teardown no log line, timer or half-done handler applies thread     *)
(* policies again (the event_lock barrier of main).                          *)
NoTransitionAfterTeardown == main = "exited" => ~c.policy /\ ~EventLockHeld

(* Policies do not stay applied for ever, unless lines for ever keep         *)
(* restarting the transaction.                                               *)
TransitionsEnd ==
    []<>(reader.at = "checked") \/ (c.policy ~> ~c.policy)

(* Once main has seen the signal, the process exits.                         *)
ShutdownCompletes == stopping ~> main = "exited"

-----------------------------------------------------------------------------
(* What the repository says and the code does not do                         *)

(* STATE-MACHINE.md: a cancelled gesture restores the source after the       *)
(* visual wait.                                                              *)
CancelReleasesSource ==
    [][ (reader.at = "decided" /\ reader.next = "cancel" /\ reader'.at = "idle")
          => told'.source # "suppressed" ]_vars
=============================================================================
