---------------------------- MODULE GuardProtocol ----------------------------
(***************************************************************************)
(* What the source guard promises those who send it commands: which source  *)
(* it is armed for, whether that source is suppressed, which transition it  *)
(* follows and which completion is under way.  Threads, groups and kernel   *)
(* interfaces are left to SourceGuard, which implements this protocol; here *)
(* they are the reasons for which a command may have no effect.             *)
(***************************************************************************)
EXTENDS Naturals

CONSTANTS Apps, NoApp,  \* applications, and none
          Ids           \* transition ids, positive numbers

VARIABLE g   \* the guard, as its senders may think of it

Down == [up |-> FALSE, app |-> NoApp, active |-> FALSE, accepted |-> 0,
         pending |-> 0]
Fresh == [Down EXCEPT !.up = TRUE]

(* Fault: a completion that is under way is not cancelled.                    *)
FollowOnly(id) == [g EXCEPT !.accepted = id]

(* A new transition is followed and leaves no completion of an older one.    *)
Follow(id) == [g EXCEPT !.accepted = id, !.pending = 0]

(* A command that names a process or package nobody runs has no effect.      *)
NoEffect == g.up /\ UNCHANGED g

(* Sent only to a guard that was reset.                                      *)
Arm(a) ==
    /\ g.up /\ g.accepted = 0 /\ ~g.active
    /\ g' = [g EXCEPT !.app = a]

(* Suppression may fail; what is suppressed already stays so.                *)
Enter(id) ==
    /\ g.up /\ g.app # NoApp /\ id >= g.accepted
    /\ \E active \in {TRUE, g.active} : g' = [Follow(id) EXCEPT !.active = active]

Handoff(id, a) ==
    /\ g.up /\ id >= g.accepted
    /\ \E active \in BOOLEAN : g' = [Follow(id) EXCEPT !.app = a, !.active = active]

(* An adopted target is never suppressed by being adopted.                   *)
Adopt(id, a) ==
    /\ g.up /\ id >= g.accepted
    /\ g' = [Follow(id) EXCEPT !.app = a, !.active = FALSE]

Complete(id) ==
    /\ g.up /\ g.active /\ id = g.accepted
    /\ g' = [g EXCEPT !.pending = id]

(* Only the completion of the transition that is followed ends suppression.  *)
Completes ==
    /\ g.up /\ g.pending # 0
    /\ g' = [g EXCEPT !.pending = 0,
                      !.active = IF g.pending = g.accepted THEN FALSE ELSE @]

Replace ==
    /\ g.up /\ g.active
    /\ g' = [g EXCEPT !.active = FALSE]

Release ==
    /\ g.up /\ g.app # NoApp
    /\ g' = [Fresh EXCEPT !.accepted = g.accepted]

Reset ==
    /\ g.up
    /\ g' = IF g.app = NoApp THEN [g EXCEPT !.accepted = 0] ELSE Fresh

(* The process of the source is gone.                                        *)
SourceLost ==
    /\ g.up /\ g.active
    /\ g' = [g EXCEPT !.app = NoApp, !.active = FALSE]

Ends == g.up /\ g' = Down
Starts == ~g.up /\ g' = Fresh

Init == g = Fresh

Next ==
    \/ \E id \in Ids : Enter(id) \/ Complete(id)
    \/ \E id \in Ids, a \in Apps : Handoff(id, a) \/ Adopt(id, a)
    \/ \E a \in Apps : Arm(a)
    \/ Completes \/ Replace \/ Release \/ Reset \/ SourceLost
    \/ Ends \/ Starts

Spec == Init /\ [][Next]_g
=============================================================================
