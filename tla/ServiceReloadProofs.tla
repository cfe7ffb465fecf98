------------------------- MODULE ServiceReloadProofs -------------------------
(***************************************************************************)
(* For every set of shells and every number of mishaps: files and processes *)
(* stay well formed, and a shell that reports success is followed by a      *)
(* coordinator that has its settings.                                       *)
(***************************************************************************)
EXTENDS ServiceReload, TLAPS

-----------------------------------------------------------------------------
(* Type correctness                                                          *)

(* A shell leaves the lock with something to report.                         *)
Reporting ==
    \A k \in Clients : client[k].at \in {"release", "leave"}
                           => client[k].told \in {"ok", "failed"}

Typed == TypeOK /\ Reporting

LEMMA InitTyped == Init => Typed
  BY ReloadAssumption DEF Init, Typed, TypeOK, Reporting, Lock, Client

(* The service loop and the coordinator process.                             *)
LEMMA LoopTyped ==
  ASSUME Typed, Loop \/ NoLauncher \/ GoesOnline \/ Ends \/ Dies
  PROVE  Typed'
<1> USE DEF Typed, TypeOK, Reporting
<1>1. CASE ReadRequest
  BY <1>1 DEF ReadRequest
<1>2. CASE Acknowledge
  BY <1>2 DEF Acknowledge
<1>3. CASE Enabled
  BY <1>3 DEF Enabled, ServiceAt
<1>4. CASE Disabled
  BY <1>4 DEF Disabled, ServiceAt
<1>5. CASE Configure
  BY <1>5 DEF Configure
<1>6. CASE StartCoordinator
  <2>1. loads' \in Seq(SUBSET Clients)
    BY <1>6 DEF StartCoordinator
  <2>2. co' \in [pid: Nat, at: {"starting", "online", "gone"}, term: BOOLEAN]
    BY <1>6 DEF StartCoordinator
  <2>3. service' \in [at: {"loop", "acknowledge", "enabled", "launcher", "start", "wait"},
                      requested: Nat, configured: SUBSET Clients]
    BY <1>6 DEF StartCoordinator
  <2> QED
    BY <1>6, <2>1, <2>2, <2>3 DEF StartCoordinator
<1>7. CASE CoordinatorReturns
  BY <1>7 DEF CoordinatorReturns, ServiceAt
<1>8. CASE NoLauncher
  BY <1>8 DEF NoLauncher, ServiceAt
<1>9. CASE GoesOnline
  BY <1>9 DEF GoesOnline
<1>10. CASE Ends
  BY <1>10 DEF Ends, Gone
<1>11. CASE Dies
  <2>1. status' \in Nat /\ mishaps' \in Nat
    BY <1>11, ReloadAssumption DEF Dies
  <2>2. co' \in [pid: Nat, at: {"starting", "online", "gone"}, term: BOOLEAN]
    BY <1>11 DEF Dies, Gone
  <2> QED
    BY <1>11, <2>1, <2>2 DEF Dies
<1> QED
  BY <1>1, <1>2, <1>3, <1>4, <1>5, <1>6, <1>7, <1>8, <1>9, <1>10, <1>11 DEF Loop

LEMMA MovedTyped ==
  ASSUME NEW c \in Client,
         NEW to \in Waits \cup {"owning", "find", "count", "write", "signal",
                                "poll", "leave", "ok", "failed", "dead"}
  PROVE  [c EXCEPT !.at = to] \in Client
  BY DEF Client

(* Moving a shell on keeps the shells well formed.                           *)
LEMMA GoesTyped ==
  ASSUME Typed, NEW k \in Clients,
         NEW to \in Waits \cup {"owning", "find", "count", "write", "signal",
                                "poll", "leave", "ok", "failed", "dead"},
         to = "leave" => client[k].at = "release",
         Goes(k, to)
  PROVE  client' \in [Clients -> Client] /\ Reporting'
<1>1. client' \in [Clients -> Client]
  <2>1. client \in [Clients -> Client]
    BY DEF Typed, TypeOK
  <2>2. client' = [client EXCEPT ![k] = [client[k] EXCEPT !.at = to]]
    BY DEF Goes
  <2>3. [client[k] EXCEPT !.at = to] \in Client
    BY <2>1, MovedTyped
  <2> QED
    BY <2>1, <2>2, <2>3
<1>2. Reporting'
  BY DEF Typed, TypeOK, Reporting, Goes, Client, Waits
<1> QED
  BY <1>1, <1>2

LEMMA LockTyped ==
  ASSUME lock \in Lock
  PROVE  /\ [lock EXCEPT !.dir = TRUE] \in Lock
         /\ \A k \in Clients : Owned(k) \in Lock
         /\ OwnerRemoved \in Lock
         /\ DirectoryRemoved \in Lock
<1>1. lock.owner = "nobody" => [lock EXCEPT !.dir = FALSE] \in Lock
  BY DEF Lock
<1> QED
  BY <1>1 DEF Lock, Owned, OwnerRemoved, DirectoryRemoved

(* What a shell remembers when it looks for the coordinator, counts its      *)
(* request, or has its answer.                                               *)
LEMMA RecordTyped ==
  ASSUME NEW c \in Client, NEW n \in Nat, NEW result \in {"ok", "failed"}
  PROVE  /\ [c EXCEPT !.at = "count", !.watcher = n] \in Client
         /\ [c EXCEPT !.at = "write", !.serial = n] \in Client
         /\ [c EXCEPT !.at = "release", !.told = result,
                      !.watcher = 0, !.serial = 0] \in Client
<1>1. [c EXCEPT !.at = "count", !.watcher = n] \in Client
  BY DEF Client
<1>2. [c EXCEPT !.at = "write", !.serial = n] \in Client
  BY DEF Client
<1>3. [c EXCEPT !.at = "release", !.told = result,
               !.watcher = 0, !.serial = 0] \in Client
  BY DEF Client
<1> QED
  BY <1>1, <1>2, <1>3

LEMMA RecordState ==
  ASSUME NEW c \in Client, NEW n \in Nat, NEW result \in {"ok", "failed"}
  PROVE  /\ [c EXCEPT !.at = "count", !.watcher = n].at = "count"
         /\ [c EXCEPT !.at = "write", !.serial = n].at = "write"
         /\ [c EXCEPT !.at = "release", !.told = result,
                      !.watcher = 0, !.serial = 0].told = result
  BY DEF Client

(* Replacing what one shell remembers.                                       *)
LEMMA ReplacedTyped ==
  ASSUME Typed, NEW k \in Clients, NEW next \in Client,
         next.at \in {"release", "leave"} => next.told \in {"ok", "failed"},
         client' = [client EXCEPT ![k] = next]
  PROVE  client' \in [Clients -> Client] /\ Reporting'
  BY DEF Typed, TypeOK, Reporting

(* One shell and the lock it works on.                                       *)
LEMMA ShellTyped ==
  ASSUME Typed, NEW k \in Clients, Save(k) \/ Shell(k) \/ Killed(k)
  PROVE  Typed'
<1>1. CASE Save(k)
  BY <1>1, GoesTyped DEF Typed, TypeOK, Save, Waits
<1>2. CASE MakeLock(k)
  BY <1>2, GoesTyped, LockTyped DEF Typed, TypeOK, MakeLock, Waits
<1>3. CASE WriteOwner(k)
  BY <1>3, GoesTyped, LockTyped DEF Typed, TypeOK, WriteOwner
<1>4. CASE Peek(k)
  BY <1>4 DEF Typed, TypeOK, Peek, Reporting, Client, Waits, Lock
<1>5. CASE Judge(k)
  BY <1>5 DEF Typed, TypeOK, Judge, Reporting, Client, Waits
<1>6. CASE RemoveOwner(k)
  BY <1>6, GoesTyped, LockTyped DEF Typed, TypeOK, RemoveOwner, Waits
<1>7. CASE RemoveDirectory(k)
  BY <1>7, GoesTyped, LockTyped DEF Typed, TypeOK, RemoveDirectory, Waits
<1>8. CASE Find(k)
  <2>1. Watcher \in Nat /\ client[k] \in Client
    BY DEF Typed, TypeOK, Watcher
  <2> DEFINE next == [client[k] EXCEPT !.at = "count", !.watcher = Watcher]
  <2>2. next \in Client /\ next.at = "count"
    BY <2>1, RecordTyped, RecordState
  <2>3. client' = [client EXCEPT ![k] = next]
    BY <1>8 DEF Find, Typed, TypeOK
  <2> HIDE DEF next
  <2>4. client' \in [Clients -> Client] /\ Reporting'
    BY <2>2, <2>3, ReplacedTyped
  <2> QED
    BY <1>8, <2>4 DEF Find, Typed, TypeOK
<1>9. CASE Count(k)
  <2>1. request + 1 \in Nat /\ client[k] \in Client
    BY DEF Typed, TypeOK
  <2> DEFINE next == [client[k] EXCEPT !.at = "write", !.serial = request + 1]
  <2>2. next \in Client /\ next.at = "write"
    BY <2>1, RecordTyped, RecordState
  <2>3. client' = [client EXCEPT ![k] = next]
    BY <1>9 DEF Count, Typed, TypeOK
  <2> HIDE DEF next
  <2>4. client' \in [Clients -> Client] /\ Reporting'
    BY <2>2, <2>3, ReplacedTyped
  <2> QED
    BY <1>9, <2>4 DEF Count, Typed, TypeOK
<1>10. CASE WriteRequest(k)
  BY <1>10, GoesTyped DEF Typed, TypeOK, WriteRequest, Client
<1>11. CASE Signal(k)
  BY <1>11, GoesTyped DEF Typed, TypeOK, Signal, Signalled
<1>12. CASE Reloaded(k)
  <2>1. client[k] \in Client
    BY DEF Typed, TypeOK
  <2>2. Tells(k, "ok") \in Client /\ Tells(k, "ok").told = "ok"
    BY <2>1, RecordTyped, RecordState DEF Tells
  <2>3. client' \in [Clients -> Client] /\ Reporting'
    BY <1>12, <2>2, ReplacedTyped DEF Reloaded
  <2>4. ack' \in Nat
    BY <1>12, <2>1 DEF Reloaded, Client
  <2> QED
    BY <1>12, <2>3, <2>4 DEF Reloaded, Typed, TypeOK
<1>13. CASE TimesOut(k)
  <2>1. client[k] \in Client
    BY DEF Typed, TypeOK
  <2>2. Tells(k, "failed") \in Client /\ Tells(k, "failed").told = "failed"
    BY <2>1, RecordTyped, RecordState DEF Tells
  <2>3. client' \in [Clients -> Client] /\ Reporting'
    BY <1>13, <2>2, ReplacedTyped DEF TimesOut
  <2> QED
    BY <1>13, <2>3 DEF TimesOut, Typed, TypeOK
<1>14. CASE Release(k)
  BY <1>14, GoesTyped, LockTyped DEF Typed, TypeOK, Release, Reporting, Client
<1>15. CASE Leave(k)
  BY <1>15, GoesTyped, LockTyped DEF Typed, TypeOK, Leave, Reporting, Client
<1>16. CASE Killed(k)
  BY <1>16, GoesTyped DEF Typed, TypeOK, Killed
<1> QED
  BY <1>1, <1>2, <1>3, <1>4, <1>5, <1>6, <1>7, <1>8, <1>9, <1>10, <1>11, <1>12, <1>13, <1>14, <1>15, <1>16 DEF Shell

LEMMA StepTyped == Typed /\ [Next]_vars => Typed'
<1> SUFFICES ASSUME Typed, [Next]_vars PROVE Typed'
  OBVIOUS
<1>1. CASE UNCHANGED vars
  BY <1>1 DEF vars, Typed, TypeOK, Reporting
<1>2. CASE Next
  BY <1>2, LoopTyped, ShellTyped DEF Next
<1> QED
  BY <1>1, <1>2

(* Files and processes stay well formed.                                     *)
THEOREM TypeCorrect == Spec => []TypeOK
<1>1. Spec => []Typed
  BY InitTyped, StepTyped, PTL DEF Spec
<1>2. Typed => TypeOK
  BY DEF Typed
<1> QED
  BY <1>1, <1>2, PTL

-----------------------------------------------------------------------------
(* A reported success                                                        *)

(* The status file names the last coordinator or none, and no shell finds a  *)
(* coordinator while another one is being configured.                        *)
OneCoordinator ==
    /\ Len(loads) >= 1 /\ co.pid = Len(loads)
    /\ status \in {0, co.pid}
    /\ service.at # "wait" => ~Running /\ status = 0

(* What the shell saved is in the configuration that is about to be loaded.  *)
Configured(k) == service.at = "start" => k \in service.configured

Loaded(k) == k \in loads[Len(loads)]

(* A shell that found a coordinator saved before: every later coordinator    *)
(* has its settings.                                                         *)
Followed(k) ==
    /\ client[k].at # "idle" => k \in settings.saved
    /\ client[k].at = "idle" => client[k].watcher = 0 /\ client[k].told = "nothing"
    /\ client[k].watcher # 0 => /\ Configured(k)
                                /\ client[k].watcher <= Len(loads)
                                /\ client[k].watcher < Len(loads) => Loaded(k)
    /\ client[k].told = "ok" => Configured(k) /\ Loaded(k)

Sound == Typed /\ OneCoordinator /\ \A k \in Clients : Followed(k)

LEMMA InitSound == Init => Sound
  BY InitTyped DEF Init, Sound, OneCoordinator, Running, Followed, Configured, Loaded

(* The loop and the coordinator do not touch the shells.                     *)
LEMMA LoopSound ==
  ASSUME Sound, Loop \/ NoLauncher \/ GoesOnline \/ Ends \/ Dies
  PROVE  OneCoordinator' /\ \A k \in Clients : Followed(k)'
<1> USE DEF Sound, Typed, TypeOK, OneCoordinator, Running, Followed, Configured, Loaded
<1>1. CASE ReadRequest
  BY <1>1 DEF ReadRequest
<1>2. CASE Acknowledge
  BY <1>2 DEF Acknowledge
<1>3. CASE Enabled
  BY <1>3 DEF Enabled, ServiceAt
<1>4. CASE Disabled
  BY <1>4 DEF Disabled, ServiceAt
<1>5. CASE Configure
  BY <1>5 DEF Configure
<1>6. CASE StartCoordinator
  <2>1. Len(loads') = Len(loads) + 1 /\ loads'[Len(loads')] = service.configured
    BY <1>6 DEF StartCoordinator
  <2>2. co'.pid = Len(loads') /\ service'.at = "wait" /\ status = 0
    BY <1>6, <2>1 DEF StartCoordinator
  <2>3. UNCHANGED <<client, settings, status>> /\ service.at = "start"
    BY <1>6 DEF StartCoordinator
  <2>4. ASSUME NEW k \in Clients PROVE Followed(k)'
    <3>1. client[k].watcher \in Nat /\ Len(loads) \in Nat
      BY DEF Client
    <3> QED
      BY <2>1, <2>2, <2>3, <3>1
  <2> QED
    BY <2>1, <2>2, <2>3, <2>4
<1>7. CASE CoordinatorReturns
  BY <1>7 DEF CoordinatorReturns, ServiceAt
<1>8. CASE NoLauncher
  BY <1>8 DEF NoLauncher, ServiceAt
<1>9. CASE GoesOnline
  BY <1>9 DEF GoesOnline
<1>10. CASE Ends
  BY <1>10 DEF Ends, Gone
<1>11. CASE Dies
  BY <1>11 DEF Dies, Gone
<1> QED
  BY <1>1, <1>2, <1>3, <1>4, <1>5, <1>6, <1>7, <1>8, <1>9, <1>10, <1>11 DEF Loop

(* A shell that goes on without forgetting or learning anything.             *)
LEMMA GoesSound ==
  ASSUME Sound, NEW k \in Clients, NEW to, to # "idle", k \in settings.saved,
         Goes(k, to), UNCHANGED <<settings, service, loads>>
  PROVE  \A j \in Clients : Followed(j)'
  BY DEF Sound, Typed, TypeOK, Client, Goes, Followed, Configured, Loaded

LEMMA ShellSound ==
  ASSUME Sound, NEW k \in Clients, Save(k) \/ Shell(k) \/ Killed(k)
  PROVE  OneCoordinator' /\ \A j \in Clients : Followed(j)'
<1>0. client[k].at # "idle" => k \in settings.saved
  BY DEF Sound, Followed
<1>1. CASE Save(k)
  BY <1>1 DEF Sound, Typed, TypeOK, Client, Save, Goes, OneCoordinator, Running, Followed, Configured, Loaded
<1>2. CASE MakeLock(k)
  BY <1>0, <1>2, GoesSound DEF Sound, MakeLock, OneCoordinator, Running
<1>3. CASE WriteOwner(k)
  BY <1>0, <1>3, GoesSound DEF Sound, WriteOwner, OneCoordinator, Running
<1>4. CASE Peek(k)
  BY <1>0, <1>4 DEF Sound, Typed, TypeOK, Client, Peek, OneCoordinator, Running, Followed, Configured, Loaded
<1>5. CASE Judge(k)
  BY <1>0, <1>5 DEF Sound, Typed, TypeOK, Client, Judge, OneCoordinator, Running, Followed, Configured, Loaded
<1>6. CASE RemoveOwner(k)
  BY <1>0, <1>6, GoesSound DEF Sound, RemoveOwner, OneCoordinator, Running
<1>7. CASE RemoveDirectory(k)
  BY <1>0, <1>7, GoesSound DEF Sound, RemoveDirectory, OneCoordinator, Running
<1>8. CASE Find(k)
  BY <1>0, <1>8 DEF Sound, Typed, TypeOK, Client, Find, Watcher, OneCoordinator, Running, Followed, Configured, Loaded
<1>9. CASE Count(k)
  BY <1>0, <1>9 DEF Sound, Typed, TypeOK, Client, Count, OneCoordinator, Running, Followed, Configured, Loaded
<1>10. CASE WriteRequest(k)
  BY <1>0, <1>10, GoesSound DEF Sound, WriteRequest, OneCoordinator, Running
<1>11. CASE Signal(k)
  BY <1>0, <1>11, GoesSound DEF Sound, Signal, OneCoordinator, Running, Signalled
<1>12. CASE Reloaded(k)
  BY <1>0, <1>12 DEF Sound, Typed, TypeOK, Client, Reloaded, Tells, AnotherOnline, OneCoordinator, Running, Followed, Configured, Loaded
<1>13. CASE TimesOut(k)
  BY <1>0, <1>13 DEF Sound, Typed, TypeOK, Client, TimesOut, Tells, OneCoordinator, Running, Followed, Configured, Loaded
<1>14. CASE Release(k)
  BY <1>0, <1>14, GoesSound DEF Sound, Release, OneCoordinator, Running, Client, Typed, TypeOK, Reporting
<1>15. CASE Leave(k)
  BY <1>0, <1>15, GoesSound DEF Sound, Leave, OneCoordinator, Running, Client, Typed, TypeOK, Reporting
<1>16. CASE Killed(k)
  BY <1>0, <1>16, GoesSound DEF Sound, Killed, OneCoordinator, Running, Alive
<1> QED
  BY <1>1, <1>2, <1>3, <1>4, <1>5, <1>6, <1>7, <1>8, <1>9, <1>10, <1>11, <1>12, <1>13, <1>14, <1>15, <1>16 DEF Shell

LEMMA StepSound == Sound /\ [Next]_vars => Sound'
<1> SUFFICES ASSUME Sound, [Next]_vars PROVE Sound'
  OBVIOUS
<1>1. Typed'
  BY StepTyped DEF Sound
<1>2. CASE UNCHANGED vars
  BY <1>1, <1>2 DEF vars, Sound, OneCoordinator, Running, Followed, Configured, Loaded
<1>3. CASE Next
  BY <1>1, <1>3, LoopSound, ShellSound DEF Next, Sound
<1> QED
  BY <1>2, <1>3

(* A shell that tells its user the reload succeeded is followed by a         *)
(* coordinator that has its settings, whoever else holds the restart lock.   *)
THEOREM SuccessIsReal == Spec => []OkMeansLoaded
<1>1. Spec => []Sound
  BY InitSound, StepSound, PTL DEF Spec
<1>2. Sound => OkMeansLoaded
  BY DEF Sound, Followed, Loaded, OkMeansLoaded
<1> QED
  BY <1>1, <1>2, PTL
=============================================================================
