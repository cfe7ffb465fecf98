---------------------------- MODULE ServiceReload ----------------------------
(***************************************************************************)
(* Reload of the configuration: shells of the WebUI and of the action       *)
(* button save settings and call restart_daemon (lib/runtime.sh), which      *)
(* takes a lock made of a directory, counts a request, ends the coordinator  *)
(* and waits for another one, while the service loop (service.sh) reads the  *)
(* settings and runs one coordinator after the other.                        *)
(*                                                                          *)
(* Every shell runs at its own pace: the sleeps of the code order nothing,   *)
(* and each file operation is a step of its own.                             *)
(***************************************************************************)
EXTENDS Naturals, Sequences

CONSTANTS
    Clients,      \* shells that call restart_daemon, each once
    Disabling,    \* those that turn the master switch off
    Hasty,        \* those that may be killed, or time out early
    MaxMishaps    \* bound: coordinators that die, rounds without a Launcher

ASSUME ReloadAssumption ==
    /\ Disabling \subseteq Clients /\ Hasty \subseteq Clients
    /\ {"nobody", "stale"} \cap Clients = {}
    /\ MaxMishaps \in Nat

VARIABLES
    settings,  \* the configuration files
    request,   \* RELOAD_REQUEST_FILE
    ack,       \* RELOAD_ACK_FILE
    status,    \* coordinator_pid in COORDINATOR_STATUS, 0 without the file
    lock,      \* RESTART_LOCK_DIR and the owner file in it
    service,   \* the loop of run_daemon
    co,        \* the coordinator process, named by its number
    loads,     \* history: the settings each coordinator was configured with
    client,    \* the shells
    mishaps

vars == <<settings, request, ack, status, lock, service, co, loads, client, mishaps>>

Waits == {"lock", "peek", "peekAgain", "judge", "remove", "rmdir"}

Lock == {l \in [dir: BOOLEAN, owner: Clients \cup {"nobody", "stale"}] :
            l.owner # "nobody" => l.dir}

Client == [at: Waits \cup {"idle", "owning", "find", "count", "write", "signal",
                           "poll", "release", "leave", "ok", "failed", "dead"},
           seen: Clients \cup {"nobody", "stale"}, watcher: Nat, serial: Nat,
           told: {"nothing", "ok", "failed"}]

Alive(k) == k \in Clients /\ client[k].at \notin {"idle", "ok", "failed", "dead"}

Running == co.at # "gone"

-----------------------------------------------------------------------------
(* The service loop                                                          *)

ServiceAt(from, to) == service.at = from /\ service' = [service EXCEPT !.at = to]

ReadRequest ==
    /\ service.at = "loop"
    /\ service' = [service EXCEPT !.at = "acknowledge", !.requested = request]
    /\ UNCHANGED <<settings, request, ack, status, lock, co, loads, client, mishaps>>

Acknowledge ==
    /\ service.at = "acknowledge"
    /\ service' = [service EXCEPT !.at = "enabled", !.requested = 0]
    /\ ack' = service.requested
    /\ UNCHANGED <<settings, request, status, lock, co, loads, client, mishaps>>

(* With the master switch off the loop waits two seconds and starts again.   *)
Enabled ==
    /\ settings.on /\ ServiceAt("enabled", "launcher")
    /\ UNCHANGED <<settings, request, ack, status, lock, co, loads, client, mishaps>>

Disabled ==
    /\ ~settings.on /\ ServiceAt("enabled", "loop")
    /\ status' = 0
    /\ UNCHANGED <<settings, request, ack, lock, co, loads, client, mishaps>>

NoLauncher ==
    /\ mishaps < MaxMishaps /\ ServiceAt("launcher", "loop")
    /\ mishaps' = mishaps + 1
    /\ UNCHANGED <<settings, request, ack, status, lock, co, loads, client>>

(* write_coordinator_configuration: the settings as they are now.            *)
Configure ==
    /\ service.at = "launcher"
    /\ service' = [service EXCEPT !.at = "start", !.configured = settings.saved]
    /\ UNCHANGED <<settings, request, ack, status, lock, co, loads, client, mishaps>>

StartCoordinator ==
    /\ service.at = "start"
    /\ service' = [service EXCEPT !.at = "wait", !.configured = {}]
    /\ loads' = Append(loads, service.configured)
    /\ co' = [pid |-> Len(loads) + 1, at |-> "starting", term |-> FALSE]
    /\ UNCHANGED <<settings, request, ack, status, lock, client, mishaps>>

CoordinatorReturns ==
    /\ ~Running /\ ServiceAt("wait", "loop")
    /\ status' = 0
    /\ UNCHANGED <<settings, request, ack, lock, co, loads, client, mishaps>>

-----------------------------------------------------------------------------
(* The coordinator process                                                   *)

Gone == [co EXCEPT !.at = "gone", !.term = FALSE]

GoesOnline ==
    /\ co.at = "starting"
    /\ co' = [co EXCEPT !.at = "online"] /\ status' = co.pid
    /\ UNCHANGED <<settings, request, ack, lock, service, loads, client, mishaps>>

(* On SIGTERM it removes its status file, if it got so far.                  *)
Ends ==
    /\ Running /\ co.term
    /\ co' = Gone
    /\ status' = IF co.at = "online" THEN 0 ELSE status
    /\ UNCHANGED <<settings, request, ack, lock, service, loads, client, mishaps>>

(* Killed, or ended by itself because the Launcher or its log is gone.       *)
Dies ==
    /\ Running /\ mishaps < MaxMishaps
    /\ co' = Gone /\ mishaps' = mishaps + 1
    /\ status' \in {status, 0}
    /\ UNCHANGED <<settings, request, ack, lock, service, loads, client>>

-----------------------------------------------------------------------------
(* The shells                                                                *)

Goes(k, to) == client' = [client EXCEPT ![k].at = to]

Save(k) ==
    /\ client[k].at = "idle" /\ Goes(k, "lock")
    /\ settings' = [saved |-> settings.saved \cup {k},
                    on |-> settings.on /\ k \notin Disabling]
    /\ UNCHANGED <<request, ack, status, lock, service, co, loads, mishaps>>

MakeLock(k) ==
    /\ client[k].at = "lock"
    /\ Goes(k, IF lock.dir THEN "peek" ELSE "owning")
    /\ lock' = [lock EXCEPT !.dir = TRUE]
    /\ UNCHANGED <<settings, request, ack, status, service, co, loads, mishaps>>

(* Fault: an owner file where there is no directory.                         *)
AlwaysOwned(k) == [lock EXCEPT !.owner = k]

(* The directory may be gone already: then nothing is written.               *)
Owned(k) == IF lock.dir THEN [lock EXCEPT !.owner = k] ELSE lock

WriteOwner(k) ==
    /\ client[k].at = "owning" /\ Goes(k, "find")
    /\ lock' = Owned(k)
    /\ UNCHANGED <<settings, request, ack, status, service, co, loads, mishaps>>

(* An owner that is not there yet is read a second time.                     *)
Peek(k) ==
    /\ client[k].at \in {"peek", "peekAgain"}
    /\ client' = [client EXCEPT ![k].seen = lock.owner,
                    ![k].at = IF client[k].at = "peek" /\ lock.owner = "nobody"
                              THEN "peekAgain" ELSE "judge"]
    /\ UNCHANGED <<settings, request, ack, status, lock, service, co, loads, mishaps>>

Judge(k) ==
    /\ client[k].at = "judge"
    /\ client' = [client EXCEPT ![k].seen = "nobody",
                    ![k].at = IF Alive(client[k].seen) THEN "lock" ELSE "remove"]
    /\ UNCHANGED <<settings, request, ack, status, lock, service, co, loads, mishaps>>

(* Fault: only the directory of a dead owner is removed.                     *)
OwnerKept == lock

OwnerRemoved == [lock EXCEPT !.owner = "nobody"]

DirectoryRemoved == IF lock.owner = "nobody" THEN [lock EXCEPT !.dir = FALSE] ELSE lock

RemoveOwner(k) ==
    /\ client[k].at = "remove" /\ Goes(k, "rmdir")
    /\ lock' = OwnerRemoved
    /\ UNCHANGED <<settings, request, ack, status, service, co, loads, mishaps>>

RemoveDirectory(k) ==
    /\ client[k].at = "rmdir" /\ Goes(k, "lock")
    /\ lock' = DirectoryRemoved
    /\ UNCHANGED <<settings, request, ack, status, service, co, loads, mishaps>>

(* find_daemon_logwatch_pid                                                  *)
Watcher == IF Running THEN co.pid ELSE 0

Find(k) ==
    /\ client[k].at = "find"
    /\ client' = [client EXCEPT ![k].at = "count", ![k].watcher = Watcher]
    /\ UNCHANGED <<settings, request, ack, status, lock, service, co, loads, mishaps>>

Count(k) ==
    /\ client[k].at = "count"
    /\ client' = [client EXCEPT ![k].at = "write", ![k].serial = request + 1]
    /\ UNCHANGED <<settings, request, ack, status, lock, service, co, loads, mishaps>>

WriteRequest(k) ==
    /\ client[k].at = "write" /\ Goes(k, "signal")
    /\ request' = client[k].serial
    /\ UNCHANGED <<settings, ack, status, lock, service, co, loads, mishaps>>

(* Fault: no signal is sent.                                                 *)
NoSignal == co

(* The coordinator is looked up again: it may be another one, or none.       *)
Signalled == IF Running THEN [co EXCEPT !.term = TRUE] ELSE co

Signal(k) ==
    /\ client[k].at = "signal" /\ Goes(k, "poll")
    /\ co' = Signalled
    /\ UNCHANGED <<settings, request, ack, status, lock, service, loads, mishaps>>

(* Fault: any coordinator that is online will do.                            *)
AnyOnline(k) == client[k].watcher # 0 /\ status # 0

AnotherOnline(k) == /\ client[k].watcher # 0
                    /\ status \notin {0, client[k].watcher}

(* What the shell remembered serves no more.                                 *)
Tells(k, result) == [client[k] EXCEPT !.at = "release", !.told = result,
                                      !.watcher = 0, !.serial = 0]

Reloaded(k) ==
    /\ client[k].at = "poll" /\ AnotherOnline(k)
    /\ client' = [client EXCEPT ![k] = Tells(k, "ok")]
    /\ ack' = client[k].serial
    /\ UNCHANGED <<settings, request, status, lock, service, co, loads, mishaps>>

(* Five seconds are over.  They are enough for what the coordinator and the  *)
(* service still have to do: a shell that is not hasty gives up only when it *)
(* found no coordinator to compare with, or none will be started.            *)
TimesOut(k) ==
    /\ client[k].at = "poll"
    /\ client[k].watcher = 0 \/ ~settings.on \/ k \in Hasty
    /\ client' = [client EXCEPT ![k] = Tells(k, "failed")]
    /\ UNCHANGED <<settings, request, ack, status, lock, service, co, loads, mishaps>>

(* remove_owned_lock                                                         *)
Release(k) ==
    /\ client[k].at = "release"
    /\ IF lock.owner = k
       THEN lock' = OwnerRemoved /\ Goes(k, "leave")
       ELSE Goes(k, client[k].told) /\ UNCHANGED lock
    /\ UNCHANGED <<settings, request, ack, status, service, co, loads, mishaps>>

Leave(k) ==
    /\ client[k].at = "leave" /\ Goes(k, client[k].told)
    /\ lock' = DirectoryRemoved
    /\ UNCHANGED <<settings, request, ack, status, service, co, loads, mishaps>>

Killed(k) ==
    /\ k \in Hasty /\ Alive(k)
    /\ Goes(k, "dead")
    /\ UNCHANGED <<settings, request, ack, status, lock, service, co, loads, mishaps>>

-----------------------------------------------------------------------------
(* The module has been running for a while; a shell killed before may have   *)
(* left its lock, which outlives a restart of the phone.                     *)
Init ==
    /\ settings = [saved |-> {}, on |-> TRUE]
    /\ request = 0 /\ ack = 0
    /\ lock \in {l \in Lock : l.owner \notin Clients}
    /\ service = [at |-> "wait", requested |-> 0, configured |-> {}]
    /\ loads = <<{}>> /\ status = 1
    /\ co = [pid |-> 1, at |-> "online", term |-> FALSE]
    /\ client = [k \in Clients |-> [at |-> "idle", seen |-> "nobody", watcher |-> 0,
                                    serial |-> 0, told |-> "nothing"]]
    /\ mishaps = 0

Loop ==
    \/ ReadRequest \/ Acknowledge \/ Enabled \/ Disabled \/ Configure
    \/ StartCoordinator \/ CoordinatorReturns

Shell(k) ==
    \/ MakeLock(k) \/ WriteOwner(k) \/ Peek(k) \/ Judge(k)
    \/ RemoveOwner(k) \/ RemoveDirectory(k)
    \/ Find(k) \/ Count(k) \/ WriteRequest(k) \/ Signal(k)
    \/ Reloaded(k) \/ TimesOut(k) \/ Release(k) \/ Leave(k)

Next ==
    \/ Loop \/ NoLauncher
    \/ GoesOnline \/ Ends \/ Dies
    \/ \E k \in Clients : Save(k) \/ Shell(k) \/ Killed(k)

Spec == Init /\ [][Next]_vars

(* Every process gets its turn; mishaps, new shells and kills do not have to *)
(* happen.                                                                   *)
FairSpec == /\ Spec
            /\ WF_vars(Loop) /\ WF_vars(GoesOnline) /\ WF_vars(Ends)
            /\ \A k \in Clients : WF_vars(Shell(k))

-----------------------------------------------------------------------------
(* Properties                                                                *)

(* Every step leaves files and processes well formed; nobody writes an owner *)
(* where there is no lock directory.                                         *)
TypeOK ==
    /\ settings \in [saved: SUBSET Clients, on: BOOLEAN]
    /\ request \in Nat /\ ack \in Nat /\ status \in Nat /\ mishaps \in Nat
    /\ lock \in Lock
    /\ service \in [at: {"loop", "acknowledge", "enabled", "launcher", "start", "wait"},
                    requested: Nat, configured: SUBSET Clients]
    /\ co \in [pid: Nat, at: {"starting", "online", "gone"}, term: BOOLEAN]
    /\ loads \in Seq(SUBSET Clients)
    /\ client \in [Clients -> Client]

(* A shell that tells its user the reload succeeded saw a coordinator that   *)
(* was configured after it saved: not the old one, nor the status file of a  *)
(* dead one, even when two shells hold the restart lock.                     *)
OkMeansLoaded ==
    \A k \in Clients : client[k].told = "ok" => k \in loads[Len(loads)]

(* What was saved reaches a coordinator, or the shell that saved it reports  *)
(* a failure or was killed, unless the module is switched off.               *)
SavedIsLoadedOrReported ==
    \A k \in Clients : k \in settings.saved ~>
        \/ k \in loads[Len(loads)] \/ ~settings.on
        \/ client[k].told = "failed" \/ client[k].at = "dead"

(* Nobody waits for the restart lock for ever, whoever died with it or left  *)
(* it half made.                                                             *)
LockIsObtained ==
    \A k \in Clients : client[k].at \in Waits ~> client[k].at \notin Waits

-----------------------------------------------------------------------------
(* What the repository says and the code does not do                         *)

(* action.sh, webui.sh: a shell that reports that the service was not        *)
(* restarted, or did not reload, says so of a request the service did not    *)
(* follow.                                                                   *)
FailureIsReal ==
    [][ \A k \in Clients \ Hasty :
          (client[k].told = "nothing" /\ client'[k].told = "failed")
             => ack < client[k].serial ]_vars
=============================================================================
