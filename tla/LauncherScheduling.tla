------------------------- MODULE LauncherScheduling -------------------------
(***************************************************************************)
(* The running system: the coordinator, the datagram socket of the source   *)
(* guard, the guard as GuardProtocol describes it, and the service loop     *)
(* (service.sh) that follows every coordinator with another one.            *)
(*                                                                          *)
(* Nobody waits for the guard: commands of the coordinator and of the shell *)
(* queue up in its socket and are lost when it is dead, while log lines,    *)
(* timers and the end of the coordinator go on.                             *)
(***************************************************************************)
EXTENDS Coordinator

CONSTANTS MaxQueue,   \* bound: commands in the socket before lines wait
          MaxRestarts, \* bound: coordinators started
          CanCrash    \* may the guard be killed with SIGKILL

ASSUME SchedulingAssumption ==
    /\ MaxQueue \in Nat \ {0} /\ MaxRestarts \in Nat
    /\ CanCrash \in BOOLEAN

VARIABLES
    socket,   \* commands the guard has not received yet
    g,        \* the guard
    saved,    \* the package in SOURCE_FILE
    restarts, \* coordinators started by the loop so far
    missed    \* history: the guard found no process for the last target named

allVars == <<vars, socket, g, saved, restarts, missed>>

Guard == INSTANCE GuardProtocol WITH Ids <- 1..MaxClock

-----------------------------------------------------------------------------
(* The socket                                                                *)

Shell(name, app) == [name |-> name, id |-> 0, app |-> app]

Arrive(msgs) == socket' = IF g.up THEN socket \o msgs ELSE <<>>

Received == Head(socket)

(* The guard reads one command: it follows it, or ignores it because it has  *)
(* no source, because the package has no process of its name, or because the *)
(* completion is not for what it suppresses.                                 *)
Follows(m) ==
    /\ \/ m.name = "enter" /\ Guard!Enter(m.id)
       \/ m.name = "handoff" /\ Guard!Handoff(m.id, m.app)
       \/ m.name = "adopt" /\ Guard!Adopt(m.id, m.app)
       \/ m.name = "complete" /\ Guard!Complete(m.id)
       \/ m.name = "arm" /\ Guard!Arm(m.app)
       \/ m.name = "reset-top" /\ Guard!Reset
    /\ missed' = (missed /\ m.name \in {"complete", "arm"})

Ignores(m) ==
    /\ \/ m.name \in {"handoff", "adopt", "arm"}
       \/ m.name = "enter" /\ (g.app = NoApp \/ m.id < g.accepted)
       \/ m.name = "complete" /\ ~(g.active /\ m.id = g.accepted)
    /\ missed' = (missed \/ m.name \in {"handoff", "adopt"})
    /\ Guard!NoEffect

Receive ==
    /\ g.up /\ socket # <<>>
    /\ socket' = Tail(socket)
    /\ Follows(Received) \/ Ignores(Received)
    /\ UNCHANGED <<vars, saved, restarts>>

GuardCompletes == Guard!Completes /\ UNCHANGED <<vars, socket, saved, restarts, missed>>
GuardLosesSource == Guard!SourceLost /\ UNCHANGED <<vars, socket, saved, restarts, missed>>

(* Nothing starts a dead guard again while its service runs.                 *)
GuardCrashes ==
    /\ CanCrash /\ Guard!Ends
    /\ socket' = <<>>
    /\ UNCHANGED <<vars, saved, restarts, missed>>

-----------------------------------------------------------------------------
(* The coordinator and the service loop                                      *)

CoordinatorSteps(A) ==
    /\ A
    /\ Arrive(out')
    /\ UNCHANGED <<g, saved, restarts, missed>>

ReadLines == /\ Len(socket) < MaxQueue
             /\ CoordinatorSteps(\E line \in LogLines : ReadLine(line))

Runs == CoordinatorSteps(\/ CheckStopping \/ HandleEvent \/ DeadlinePasses
                         \/ PolicyTimer \/ TimerEnds \/ Terminate
                         \/ EventBarrier \/ Teardown)

(* Fault: the guard keeps what the old coordinator told it.                   *)
NoReset == <<>>

(* The loop resets after the old coordinator and before the new one.         *)
Resets == <<Shell("reset-top", NoApp), Shell("reset-top", NoApp)>>

(* snapshot_source_guard reads the status of the guard, not its socket.      *)
Snapshot == IF g.up /\ g.app # NoApp THEN g.app ELSE saved

(* bootstrap_current_source finds the resumed application; over the Launcher *)
(* it keeps the saved source of the recents scene, if that process still     *)
(* runs, and forgets it otherwise.                                           *)
Bootstrapped == (IF c.phase = "recents" THEN {Snapshot} ELSE {}) \cup Apps \cup {NoApp}

(* The focused window, read after the resumed activity, chooses the phase.   *)
InitialPhase(focused, app) ==
    IF ~focused THEN "app" ELSE IF app = NoApp THEN "home" ELSE "recents"

(* Bound: what the shell reads and sends between two coordinators is one     *)
(* step; the guard receives the commands one by one.                         *)
RestartCoordinator ==
    /\ main = "exited" /\ restarts < MaxRestarts /\ clock < MaxClock
    /\ \E app \in Bootstrapped, focused \in BOOLEAN :
         LET phase == InitialPhase(focused, app)
             again == phase = "recents" /\ SourceEnabled
             id == IF again THEN clock + 1 ELSE 0
             s == [c |-> FreshState(phase, app, id), clock |-> clock,
                   out |-> <<>>, told |-> NothingTold]
             started == IF again THEN Send([s EXCEPT !.clock = id], "enter", id, NoApp)
                        ELSE s
             arm == IF app = NoApp THEN <<>> ELSE <<Shell("arm", app)>>
         IN  /\ Becomes(started)
             /\ Arrive(Resets \o arm \o started.out)
             /\ saved' = app
    /\ reader' = Idle /\ timer' = TRUE /\ stopping' = FALSE /\ main' = "waiting"
    /\ restarts' = restarts + 1
    /\ UNCHANGED <<g, missed>>

-----------------------------------------------------------------------------
SystemInit ==
    /\ Init
    /\ Guard!Init
    /\ socket = (IF c.source = NoApp THEN <<>> ELSE <<Shell("arm", c.source)>>) \o out
    /\ saved = c.source /\ restarts = 0 /\ missed = FALSE

SystemNext ==
    \/ ReadLines \/ Runs \/ RestartCoordinator
    \/ Receive \/ GuardCompletes \/ GuardLosesSource \/ GuardCrashes

SystemSpec == SystemInit /\ [][SystemNext]_allVars

(* The guard's loop gets its turn whatever the coordinator does.             *)
FairSystem == SystemSpec /\ WF_allVars(Receive) /\ WF_allVars(GuardCompletes)

-----------------------------------------------------------------------------
(* Properties                                                                *)

FromCoordinator(m) == m.name \notin {"arm", "reset-top"}

(* The guard never finds a command of the coordinator stale, and always      *)
(* finds itself reset when the shell arms a source, however long commands    *)
(* of the old coordinator waited in the socket.                              *)
NothingIsRefused ==
    (g.up /\ socket # <<>>) =>
        /\ FromCoordinator(Received) => Received.id >= g.accepted
        /\ Received.name = "arm" => g.accepted = 0 /\ ~g.active

(* Once its socket is empty the guard suppresses only what the coordinator   *)
(* told it to suppress and believes suppressed, and a release that was       *)
(* announced has its completion under way, unless it found no process for    *)
(* the target that was to replace the source.                                *)
SuppressionIsKnown ==
    (g.up /\ g.active /\ socket = <<>> /\ ~missed) =>
        /\ told.source # "free"
        /\ told.source = "releasing" => g.pending = g.accepted

(* While the coordinator wants its source suppressed, no completion runs in  *)
(* a guard that has read its commands: the timer of a release announced      *)
(* before, by this coordinator or the one before it, was cancelled since.    *)
WantedStaysSuppressed ==
    (g.up /\ g.active /\ socket = <<>> /\ ~missed /\ told.source = "suppressed") =>
        g.pending = 0

(* The target that was adopted for an exit is not the application the guard  *)
(* suppresses, whatever the guard could not apply, unless it found no        *)
(* process for that target.                                                  *)
TargetIsFree ==
    (g.up /\ socket = <<>> /\ ~missed /\ c.kind = "exit" /\ told.adopted = c.id /\ g.active)
        => g.app # c.source

SettledWithTarget ==
    g.up /\ ~missed /\ main = "waiting" /\ c.phase = "app" /\ c.kind = "none" /\ told.target

(* An app scene with a resumed target does not keep a suppressed source: the *)
(* completion the coordinator sent reaches its end.                          *)
SourceIsReleased == (SettledWithTarget /\ g.active) ~> (~SettledWithTarget \/ ~g.active)
=============================================================================
