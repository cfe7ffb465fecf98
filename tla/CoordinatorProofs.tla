-------------------------- MODULE CoordinatorProofs --------------------------
(***************************************************************************)
(* Proofs about the transition coordinator.  A critical section is a        *)
(* function of a step; what each one preserves is a lemma about steps, and  *)
(* the theorems combine the lemmas.                                         *)
(***************************************************************************)
EXTENDS Coordinator, TLAPS

Steps == [c: State, clock: Nat, out: Seq(Message), told: Told]

(* Thread policies, the open transaction and the deadline go together.       *)
Timed(state) == /\ state.policy <=> state.kind # "none"
                /\ state.policy <=> state.deadline # "none"

-----------------------------------------------------------------------------
(* The parts critical sections are built from                                *)

(* Sending a command touches only the command queue and its history.         *)
LEMMA SendStep ==
    ASSUME NEW s \in Steps, NEW id \in Nat, NEW app \in Apps \cup {NoApp},
           NEW name \in {"enter", "handoff", "adopt", "complete"}
    PROVE  /\ Send(s, name, id, app) \in Steps
           /\ Send(s, name, id, app).c = s.c
           /\ Send(s, name, id, app).clock = s.clock
<1> DEFINE m == [name |-> name, id |-> id, app |-> app]
<1>1. m \in Message
  BY DEF Message
<1>2. Heard(s.told, m) \in Told
  BY <1>1 DEF Steps, Told, Message, Heard
<1>3. Append(s.out, m) \in Seq(Message)
  BY <1>1 DEF Steps
<1>4. QED
  BY <1>2, <1>3 DEF Send, Steps

(* A transaction that ends leaves no policy deadline.                        *)
LEMMA SettledState ==
    ASSUME NEW state \in State
    PROVE  /\ Settled(state) \in State
           /\ Settled(state).policy = state.policy
           /\ Settled(state).kind = "none"
           /\ Settled(state).deadline = "none"
BY DEF Settled, State, Phases, Kinds

LEMMA ScheduleStep ==
    ASSUME NEW s \in Steps
    PROVE  /\ SchedulePolicyCompletion(s) \in Steps
           /\ SchedulePolicyCompletion(s).c.policy = s.c.policy
           /\ s.c.policy /\ s.c.kind # "none" => Timed(SchedulePolicyCompletion(s).c)
           /\ ~s.c.policy => Timed(SchedulePolicyCompletion(s).c)
<1>1. CASE s.c.policy
  BY <1>1 DEF SchedulePolicyCompletion, SetDeadline, Steps, State, Timed
<1>2. CASE ~s.c.policy
  <2>1. s.c \in State
    BY DEF Steps
  <2>2. SchedulePolicyCompletion(s) = [s EXCEPT !.c = Settled(s.c)]
    BY <1>2 DEF SchedulePolicyCompletion
  <2>3. QED
    BY <1>2, <2>1, <2>2, SettledState DEF Steps, Timed
<1>3. QED
  BY <1>1, <1>2

LEMMA PrepareStep ==
    ASSUME NEW s \in Steps, NEW kind \in Kinds, NEW phase \in Phases
    PROVE  /\ PrepareTransition(s, kind, phase) \in Steps
           /\ PrepareTransition(s, kind, phase).c.kind = kind
           /\ PrepareTransition(s, kind, phase).c.policy = s.c.policy
<1> DEFINE new == s.c.kind # kind
           id == IF new THEN s.clock + 1 ELSE s.c.id
           opened == [s.c EXCEPT !.id = id, !.kind = kind, !.phase = phase,
                                 !.deadline = "none"]
           noted == [s.told EXCEPT !.scene = "none",
                                   !.target = IF new THEN FALSE ELSE s.told.target]
           time == IF new THEN s.clock + 1 ELSE s.clock
<1>1. s.c \in State /\ s.told \in Told /\ id \in Nat /\ time \in Nat
  BY DEF Steps, State
<1>2. PrepareTransition(s, kind, phase)
        = [s EXCEPT !.c = opened, !.told = noted, !.clock = time]
  BY DEF PrepareTransition, NextId
<1> HIDE DEF id, time
<1>3. opened \in State /\ opened.kind = kind /\ opened.policy = s.c.policy
  BY <1>1 DEF State
<1>4. noted \in Told
  BY <1>1 DEF Told
<1> HIDE DEF opened, noted
<1>5. QED
  BY <1>1, <1>2, <1>3, <1>4 DEF Steps
LEMMA PolicyStep ==
    ASSUME NEW s \in Steps
    PROVE  /\ BeginPolicy(s) \in Steps
           /\ BeginPolicy(s).c.kind = s.c.kind
           /\ BeginPolicy(s).c.policy
BY DEF BeginPolicy, Steps, State

(* Setting a deadline or a field of the transaction keeps a step a step.     *)
LEMMA FieldSteps ==
    ASSUME NEW s \in Steps
    PROVE  /\ [s EXCEPT !.c.unsuppressed = FALSE] \in Steps
           /\ [s EXCEPT !.c.deadline = "set"] \in Steps
           /\ \A g \in BOOLEAN : [s EXCEPT !.c.gesture = g] \in Steps
           /\ \A p \in Apps : [s EXCEPT !.c.source = p] \in Steps
           /\ \A phase \in Phases : [s EXCEPT !.c.phase = phase] \in Steps
BY DEF Steps, State

-----------------------------------------------------------------------------
(* The critical sections                                                     *)

LEMMA StartEntryStep ==
    ASSUME NEW s \in Steps
    PROVE  StartEntry(s) \in Steps /\ Timed(StartEntry(s).c)
<1> DEFINE s1 == [s EXCEPT !.c.unsuppressed = FALSE]
           s2 == PrepareTransition(s1, "entry", "entering")
           s3 == Send(s2, "enter", s2.c.id, NoApp)
           s4 == BeginPolicy(s3)
<1>1. s1 \in Steps
  BY FieldSteps
<1>2. s2 \in Steps /\ s2.c.kind = "entry"
  <2> HIDE DEF s1
  <2> QED BY <1>1, PrepareStep DEF Kinds, Phases
<1>3. s3 \in Steps /\ s3.c = s2.c
  <2> HIDE DEF s2
  <2>1. s2.c.id \in Nat
    BY <1>2 DEF Steps, State
  <2>2. QED
    BY <1>2, <2>1, SendStep
<1>4. s4 \in Steps /\ s4.c.kind = "entry" /\ s4.c.policy
  <2> HIDE DEF s3, s2
  <2> QED BY <1>2, <1>3, PolicyStep
<1> DEFINE state == [s4.c EXCEPT !.deadline = "set", !.gesture = TRUE]
<1>5. StartEntry(s) = [s4 EXCEPT !.c.deadline = "set", !.c.gesture = TRUE]
  BY DEF StartEntry, SetDeadline
<1> HIDE DEF s4
<1>6. state \in State /\ Timed(state)
  BY <1>4 DEF Steps, State, Timed
<1>7. StartEntry(s) = [s4 EXCEPT !.c = state]
  BY <1>4, <1>5 DEF Steps, State
<1> HIDE DEF state
<1>8. QED
  BY <1>4, <1>6, <1>7 DEF Steps

LEMMA StartLeavingStep ==
    ASSUME NEW s \in Steps
    PROVE  StartLeaving(s) \in Steps /\ Timed(StartLeaving(s).c)
<1> DEFINE s1 == PrepareTransition(s, "exit", "leaving")
           s2 == IF s.c.kind = "exit" THEN s ELSE Send(s1, "enter", s1.c.id, NoApp)
           s3 == BeginPolicy(s2)
<1>1. s1 \in Steps /\ s1.c.kind = "exit"
  BY PrepareStep DEF Kinds, Phases
<1>2. s2 \in Steps /\ s2.c.kind = "exit"
  <2> HIDE DEF s1
  <2>1. s1.c.id \in Nat
    BY <1>1 DEF Steps, State
  <2>2. QED
    BY <1>1, <2>1, SendStep
<1>3. s3 \in Steps /\ s3.c.kind = "exit" /\ s3.c.policy
  <2> HIDE DEF s2
  <2> QED BY <1>2, PolicyStep DEF Kinds
<1>4. StartLeaving(s) = [s3 EXCEPT !.c.deadline = "set"]
  BY DEF StartLeaving, SetDeadline
<1> HIDE DEF s3
<1>5. QED
  BY <1>3, <1>4 DEF Steps, State, Timed

LEMMA StartHomeStep ==
    ASSUME NEW s \in Steps
    PROVE  StartHome(s) \in Steps /\ Timed(StartHome(s).c)
<1> DEFINE s1 == PrepareTransition(s, "home", "home")
           s2 == Send(s1, "enter", s1.c.id, NoApp)
           s3 == [BeginPolicy(s2) EXCEPT !.c.gesture = FALSE]
<1>1. s1 \in Steps /\ s1.c.kind = "home"
  BY PrepareStep DEF Kinds, Phases
<1>2. s2 \in Steps /\ s2.c = s1.c
  <2> HIDE DEF s1
  <2>1. s1.c.id \in Nat
    BY <1>1 DEF Steps, State
  <2>2. QED
    BY <1>1, <2>1, SendStep
<1>3. s3 \in Steps /\ s3.c.kind = "home" /\ s3.c.policy
  <2> DEFINE begun == BeginPolicy(s2)
  <2> HIDE DEF s1, s2
  <2>1. begun \in Steps /\ begun.c.kind = "home" /\ begun.c.policy
    BY <1>1, <1>2, PolicyStep
  <2> HIDE DEF begun
  <2>2. [begun EXCEPT !.c.gesture = FALSE] \in Steps
    BY <2>1, FieldSteps
  <2>3. QED
    BY <2>1, <2>2 DEF begun, Steps, State
<1>4. StartHome(s) = SchedulePolicyCompletion(s3)
  BY DEF StartHome
<1> HIDE DEF s3
<1>5. QED
  BY <1>3, <1>4, ScheduleStep

LEMMA SettleSurfaceStep ==
    ASSUME NEW s \in Steps, NEW phase \in Phases
    PROVE  /\ SettleSurface(s, phase) \in Steps
           /\ Timed(s.c) => Timed(SettleSurface(s, phase).c)
<1> DEFINE s1 == [s EXCEPT !.c.phase = phase, !.c.gesture = FALSE,
                           !.told.scene = phase]
<1>1. s1 \in Steps /\ s1.c.policy = s.c.policy /\ s1.c.kind = s.c.kind
  BY DEF Steps, State, Told
<1>2. SettleSurface(s, phase) = SchedulePolicyCompletion(s1)
  BY DEF SettleSurface
<1> HIDE DEF s1
<1>3. s.c.policy \in BOOLEAN
  BY DEF Steps, State
<1>4. QED
  BY <1>1, <1>2, <1>3, ScheduleStep DEF Timed

LEMMA HandoffTargetStep ==
    ASSUME NEW s \in Steps, NEW p \in Apps
    PROVE  /\ HandoffTarget(s, p) \in Steps
           /\ Timed(s.c) => Timed(HandoffTarget(s, p).c)
<1> DEFINE same == ~s.c.unsuppressed /\ s.c.source = p
           named == [s EXCEPT !.c.source = p]
           leaving == IF s.c.kind = "exit" THEN named
                      ELSE BeginPolicy(PrepareTransition(named, "exit", "leaving"))
           sent == Send(leaving, IF same THEN "handoff" ELSE "adopt",
                        leaving.c.id, p)
           marked == [sent EXCEPT !.c.unsuppressed = ~same, !.told.target = TRUE]
           timed == SchedulePolicyCompletion(marked)
<1>0. p \in Apps \cup {NoApp} /\ NoApp \in Apps \cup {NoApp}
  OBVIOUS
<1>1. /\ named \in Steps /\ named.c.kind = s.c.kind
      /\ named.c.policy = s.c.policy /\ named.c.deadline = s.c.deadline
  BY FieldSteps DEF Steps, State
<1>2. CASE s.c.phase = "app" /\ s.c.kind = "none"
  <2> DEFINE known == [named EXCEPT !.c.unsuppressed = FALSE, !.clock = @ + 1]
  <2>1. known \in Steps /\ (Timed(s.c) => Timed(known.c)) /\ s.clock + 1 \in Nat
    <3> HIDE DEF named
    <3> DEFINE state == [named.c EXCEPT !.unsuppressed = FALSE]
    <3>1. s.clock + 1 \in Nat /\ named.clock + 1 \in Nat
      BY <1>1 DEF Steps
    <3>2. state \in State /\ (Timed(s.c) => Timed(state))
      BY <1>1 DEF Steps, State, Timed
    <3>3. known = [named EXCEPT !.c = state, !.clock = named.clock + 1]
      BY <1>1 DEF Steps, State
    <3> HIDE DEF state, known
    <3>4. QED
      BY <1>1, <3>1, <3>2, <3>3 DEF Steps
  <2>2. HandoffTarget(s, p) = Send(known, "adopt", s.clock + 1, p)
    BY <1>2 DEF HandoffTarget
  <2> HIDE DEF known
  <2>3. Send(known, "adopt", s.clock + 1, p) \in Steps
        /\ Send(known, "adopt", s.clock + 1, p).c = known.c
    BY <2>1, <1>0, SendStep
  <2>4. QED
    BY <2>1, <2>2, <2>3
<1>3. CASE ~(s.c.phase = "app" /\ s.c.kind = "none")
  <2>1. leaving \in Steps /\ leaving.c.kind = "exit"
        /\ (Timed(s.c) => leaving.c.policy)
    <3> HIDE DEF named
    <3>1. CASE s.c.kind = "exit"
      BY <1>1, <3>1 DEF Timed
    <3>2. CASE s.c.kind # "exit"
      <4> DEFINE begun == PrepareTransition(named, "exit", "leaving")
      <4>1. begun \in Steps /\ begun.c.kind = "exit"
        BY <1>1, PrepareStep DEF Kinds, Phases
      <4>2. leaving = BeginPolicy(begun)
        BY <3>2
      <4> HIDE DEF begun
      <4>3. QED
        BY <4>1, <4>2, PolicyStep
    <3>3. QED
      BY <3>1, <3>2
  <2>2. sent \in Steps /\ sent.c = leaving.c
    <3> HIDE DEF leaving
    <3>1. leaving.c.id \in Nat
      BY <2>1 DEF Steps, State
    <3>2. CASE same
      <4>1. sent = Send(leaving, "handoff", leaving.c.id, p)
        BY <3>2
      <4> HIDE DEF sent, same, named
      <4>2. QED
        BY <1>0, <2>1, <3>1, <4>1, SendStep
    <3>3. CASE ~same
      <4>1. sent = Send(leaving, "adopt", leaving.c.id, p)
        BY <3>3
      <4> HIDE DEF sent, same, named
      <4>2. QED
        BY <1>0, <2>1, <3>1, <4>1, SendStep
    <3>4. QED
      BY <3>2, <3>3
  <2>3. marked \in Steps /\ marked.c.kind = "exit"
        /\ (Timed(s.c) => marked.c.policy)
    <3> HIDE DEF leaving, sent
    <3> QED BY <2>1, <2>2 DEF Steps, State, Told
  <2>4. timed \in Steps /\ (Timed(s.c) => Timed(timed.c))
    <3> HIDE DEF marked
    <3> QED BY <2>3, ScheduleStep
  <2>5. HandoffTarget(s, p)
          = IF same THEN Send(timed, "complete", timed.c.id, NoApp) ELSE timed
    BY <1>3 DEF HandoffTarget, IsSource, SendComplete
  <2> HIDE DEF timed, same
  <2>6. timed.c.id \in Nat
    BY <2>4 DEF Steps, State
  <2>7. Send(timed, "complete", timed.c.id, NoApp) \in Steps
        /\ Send(timed, "complete", timed.c.id, NoApp).c = timed.c
    BY <1>0, <2>4, <2>6, SendStep
  <2>8. QED
    BY <2>4, <2>5, <2>7
<1>4. QED
  BY <1>2, <1>3

LEMMA CompleteToAppStep ==
    ASSUME NEW s \in Steps, NEW cancel \in BOOLEAN
    PROVE  /\ CompleteToApp(s, cancel) \in Steps
           /\ Timed(s.c) => Timed(CompleteToApp(s, cancel).c)
<1> DEFINE kind == IF cancel /\ s.c.gesture /\ s.c.kind = "entry"
                   THEN "exit" ELSE s.c.kind
           left == [s EXCEPT !.c.kind = kind, !.c.phase = "leaving"]
           timed == SchedulePolicyCompletion(left)
           done == IF s.c.id # 0 /\ kind = "exit"
                   THEN SendComplete(timed) ELSE s
<1>1. CompleteToApp(s, cancel) = [done EXCEPT !.c.gesture = FALSE]
  BY DEF CompleteToApp
<1>2. done \in Steps /\ (Timed(s.c) => Timed(done.c))
  <2>1. CASE s.c.id # 0 /\ kind = "exit"
    <3>1. left \in Steps /\ left.c.kind = "exit" /\ left.c.policy = s.c.policy
      BY <2>1 DEF Steps, State, Phases, Kinds
    <3>2. Timed(s.c) => s.c.policy
      BY <2>1 DEF Timed
    <3>3. timed \in Steps /\ (Timed(s.c) => Timed(timed.c))
      <4> HIDE DEF left
      <4> QED BY <3>1, <3>2, ScheduleStep
    <3>4. timed.c.id \in Nat
      BY <3>3 DEF Steps, State
    <3>5. done = Send(timed, "complete", timed.c.id, NoApp)
      BY <2>1 DEF SendComplete
    <3> HIDE DEF timed, done
    <3>6. QED
      BY <3>3, <3>4, <3>5, SendStep
  <2>2. CASE ~(s.c.id # 0 /\ kind = "exit")
    BY <2>2
  <2>3. QED
    BY <2>1, <2>2
<1> DEFINE state == [done.c EXCEPT !.gesture = FALSE]
<1> HIDE DEF done
<1>3. state \in State /\ (Timed(s.c) => Timed(state))
  BY <1>2 DEF Steps, State, Timed
<1>4. CompleteToApp(s, cancel) = [done EXCEPT !.c = state]
  BY <1>1, <1>2 DEF Steps, State
<1> HIDE DEF state
<1>5. QED
  BY <1>2, <1>3, <1>4 DEF Steps

-----------------------------------------------------------------------------
(* The actions of the log reader                                             *)

LEMMA PresentStep ==
    ASSUME TypeOK
    PROVE  Step \in Steps /\ Step.c = c
<1>1. <<>> \in Seq(Message)
  OBVIOUS
<1>2. QED
  BY <1>1 DEF TypeOK, Step, Steps

(* What a handler leaves when it is done with a line.                        *)
LEMMA DoneKeeps ==
    ASSUME TypeOK, NEW s \in Steps, Done(s)
    PROVE  TypeOK' /\ c' = s.c /\ UNCHANGED <<timer, stopping, main>>
<1>1. Idle \in Reader
  BY DEF Idle, Reader, NoLine
<1>2. QED
  BY <1>1 DEF TypeOK, Done, Becomes, Steps

LEMMA DecideKeeps ==
    ASSUME TypeOK, NEW next \in {"home", "leave", "enter", "cancel"}, Decide(next)
    PROVE  TypeOK' /\ UNCHANGED <<c, timer, stopping, main>>
<1>1. <<>> \in Seq(Message)
  OBVIOUS
<1>2. [reader EXCEPT !.at = "decided", !.next = next] \in Reader
  BY DEF TypeOK, Reader
<1>3. QED
  BY <1>1, <1>2 DEF TypeOK, Decide, Quiet

(* A handler runs under the event lock and leaves the coordinator well       *)
(* formed and timed, if it was.                                              *)
LEMMA HandlerKeeps ==
    ASSUME TypeOK, HandleEvent
    PROVE  /\ TypeOK' /\ (Timed(c) => Timed(c'))
           /\ EventLockHeld /\ UNCHANGED <<timer, stopping, main>>
<1>0. Step \in Steps /\ Step.c = c
  BY PresentStep
<1>1. CASE HandleTargetResumed
  <2>1. reader.line.app \in Apps
    BY <1>1 DEF HandleTargetResumed, Handles, TypeOK, Reader, LogLines, NoLine,
       Resumed, Line
  <2>2. QED
    BY <1>0, <1>1, <2>1, HandoffTargetStep, DoneKeeps
    DEF HandleTargetResumed, Handles, EventLockHeld
<1>2. CASE HandleLauncherResumed
  <2>1. reader.at = "checked"
    BY <1>2 DEF HandleLauncherResumed, Handles
  <2>2. CASE Done(Step)
    BY <1>0, <2>1, <2>2, DoneKeeps DEF EventLockHeld
  <2>3. CASE Done(SchedulePolicyCompletion([Step EXCEPT !.c.phase = "home"]))
    <3> DEFINE s == [Step EXCEPT !.c.phase = "home"]
    <3>1. s \in Steps
      BY <1>0, FieldSteps DEF Phases
    <3>2. s.c.policy = c.policy /\ s.c.kind = c.kind /\ c.policy \in BOOLEAN
      BY <1>0 DEF Steps, State
    <3> HIDE DEF s
    <3>3. Timed(c) => Timed(SchedulePolicyCompletion(s).c)
      BY <3>1, <3>2, ScheduleStep DEF Timed
    <3>4. Done(SchedulePolicyCompletion(s))
      BY <2>3 DEF s
    <3>5. QED
      BY <2>1, <3>1, <3>3, <3>4, ScheduleStep, DoneKeeps DEF EventLockHeld
  <2>4. CASE Decide("home")
    BY <2>1, <2>4, DecideKeeps DEF EventLockHeld
  <2>5. QED
    BY <1>2, <2>2, <2>3, <2>4 DEF HandleLauncherResumed
<1>3. CASE HandleOverviewToggle
  BY <1>3, DecideKeeps DEF HandleOverviewToggle, Handles, EventLockHeld
<1>4. CASE HandleEntry
  BY <1>0, <1>4, StartEntryStep, DoneKeeps
  DEF HandleEntry, Handles, EventLockHeld
<1>5. CASE HandleGestureToHome
  BY <1>0, <1>5, SettleSurfaceStep, DoneKeeps
  DEF HandleGestureToHome, Handles, EventLockHeld, Phases
<1>6. CASE HandleEnterOverview
  BY <1>0, <1>6, SettleSurfaceStep, DoneKeeps
  DEF HandleEnterOverview, Handles, EventLockHeld, Phases
<1>7. CASE HandleOverviewToHome
  BY <1>0, <1>7, StartHomeStep, DoneKeeps
  DEF HandleOverviewToHome, Handles, EventLockHeld
<1>8. CASE HandleExit
  BY <1>0, <1>8, StartLeavingStep, DoneKeeps
  DEF HandleExit, Handles, EventLockHeld
<1>9. CASE HandleExitComplete
  BY <1>0, <1>9, CompleteToAppStep, DoneKeeps
  DEF HandleExitComplete, Handles, EventLockHeld
<1>10. CASE HandleCancel
  <2>1. reader.at = "checked"
    BY <1>10 DEF HandleCancel, Handles
  <2>2. CASE Decide("cancel")
    BY <2>1, <2>2, DecideKeeps DEF EventLockHeld
  <2>3. CASE Done(Step)
    BY <1>0, <2>1, <2>3, DoneKeeps DEF EventLockHeld
  <2>4. QED
    BY <1>10, <2>2, <2>3 DEF HandleCancel
<1>11. CASE Act
  <2>1. reader.at = "decided"
    BY <1>11 DEF Act
  <2>2. CASE Done(StartHome(Step))
    BY <1>0, <2>1, <2>2, StartHomeStep, DoneKeeps DEF EventLockHeld
  <2>3. CASE Done(StartLeaving(Step))
    BY <1>0, <2>1, <2>3, StartLeavingStep, DoneKeeps DEF EventLockHeld
  <2>4. CASE Done(StartEntry(Step))
    BY <1>0, <2>1, <2>4, StartEntryStep, DoneKeeps DEF EventLockHeld
  <2>5. CASE Done(CompleteToApp(Step, TRUE))
    BY <1>0, <2>1, <2>5, CompleteToAppStep, DoneKeeps DEF EventLockHeld
  <2>6. QED
    BY <1>11, <2>2, <2>3, <2>4, <2>5 DEF Act
<1>12. QED
  BY <1>1, <1>2, <1>3, <1>4, <1>5, <1>6, <1>7, <1>8, <1>9, <1>10, <1>11
  DEF HandleEvent

-----------------------------------------------------------------------------
(* The invariant                                                             *)

(* Once main is past the barrier nobody holds the event lock, and nobody     *)
(* takes it again: the reader looks at stopping first.                       *)
BarrierHolds == /\ main # "waiting" => stopping
                /\ main \in {"joining", "exited"} => ~EventLockHeld

IInv == TypeOK /\ PolicyHasDeadline /\ BarrierHolds /\ NoTransitionAfterTeardown

LEMMA InitIInv == Init => IInv
<1> SUFFICES ASSUME Init PROVE IInv
  OBVIOUS
<1>1. PICK phase \in InitialPhases, source \in InitialSources :
        LET again == phase = "recents" /\ SourceEnabled /\ source # NoApp
            fresh == [c |-> FreshState(phase, source, IF again THEN 1 ELSE 0),
                      clock |-> IF again THEN 1 ELSE 0,
                      out |-> <<>>, told |-> NothingTold]
            s == IF again THEN Send(fresh, "enter", 1, NoApp) ELSE fresh
        IN  c = s.c /\ clock = s.clock /\ out = s.out /\ told = s.told
  BY DEF Init
<1> DEFINE again == phase = "recents" /\ SourceEnabled /\ source # NoApp
           n == IF again THEN 1 ELSE 0
           fresh == [c |-> FreshState(phase, source, n), clock |-> n,
                     out |-> <<>>, told |-> NothingTold]
           s == IF again THEN Send(fresh, "enter", 1, NoApp) ELSE fresh
<1>2. c = s.c /\ clock = s.clock /\ out = s.out /\ told = s.told
  BY <1>1
<1>3. FreshState(phase, source, n) \in State
  BY CoordinatorAssumption DEF FreshState, State, Phases, Kinds
<1>4. NothingTold \in Told
  BY DEF NothingTold, Told
<1>5. <<>> \in Seq(Message) /\ n \in Nat
  OBVIOUS
<1>6. fresh \in Steps /\ fresh.c = FreshState(phase, source, n)
  BY <1>3, <1>4, <1>5 DEF Steps
<1>7. s \in Steps /\ s.c = FreshState(phase, source, n)
  <2> HIDE DEF fresh, n
  <2>1. CASE again
    <3>1. s = Send(fresh, "enter", 1, NoApp)
      BY <2>1
    <3>2. QED
      BY <1>6, <3>1, SendStep
  <2>2. CASE ~again
    BY <1>6, <2>2
  <2>3. QED
    BY <2>1, <2>2
<1> HIDE DEF s
<1>8. TypeOK
  BY <1>2, <1>7 DEF Init, TypeOK, Steps, Idle, Reader, NoLine
<1>9. QED
  BY <1>2, <1>7, <1>8
  DEF Init, IInv, PolicyHasDeadline, BarrierHolds, NoTransitionAfterTeardown,
      FreshState, Idle, EventLockHeld

LEMMA NextIInv == IInv /\ [Next]_vars => IInv'
<1> SUFFICES ASSUME IInv, [Next]_vars PROVE IInv'
  OBVIOUS
<1> USE DEF IInv
<1>0. /\ <<>> \in Seq(Message)
      /\ PolicyHasDeadline <=> (main # "exited" => Timed(c))
      /\ PolicyHasDeadline' <=> (main' # "exited" => Timed(c'))
  BY DEF PolicyHasDeadline, Timed
<1>1. ASSUME NEW line \in LogLines, ReadLine(line) PROVE IInv'
  <2>1. [Idle EXCEPT !.at = "read", !.line = line] \in Reader
    BY DEF Idle, Reader, NoLine
  <2>2. TypeOK' /\ UNCHANGED <<c, stopping, main>> /\ ~EventLockHeld'
    BY <1>0, <1>1, <2>1 DEF ReadLine, Quiet, TypeOK, EventLockHeld, Idle
  <2>3. QED
    BY <2>2 DEF PolicyHasDeadline, BarrierHolds, NoTransitionAfterTeardown
<1>2. CASE CheckStopping
  <2>1. /\ Idle \in Reader
        /\ [reader EXCEPT !.at = "checked"] \in Reader
        /\ Idle.at = "idle"
    BY DEF TypeOK, Idle, Reader, NoLine
  <2>2. TypeOK' /\ UNCHANGED <<c, stopping, main>> /\ (stopping => ~EventLockHeld')
    BY <1>0, <1>2, <2>1 DEF CheckStopping, Quiet, TypeOK, EventLockHeld
  <2>3. QED
    BY <1>2, <2>2
    DEF CheckStopping, PolicyHasDeadline, BarrierHolds, NoTransitionAfterTeardown
<1>3. CASE HandleEvent
  <2>1. TypeOK' /\ (Timed(c) => Timed(c')) /\ EventLockHeld
        /\ UNCHANGED <<timer, stopping, main>>
    BY <1>3, HandlerKeeps
  <2>2. main \notin {"joining", "exited"}
    BY <2>1 DEF BarrierHolds
  <2>3. QED
    BY <1>0, <2>1, <2>2 DEF BarrierHolds, NoTransitionAfterTeardown
<1>4. CASE DeadlinePasses
  <2>1. c' \in State /\ (Timed(c) => Timed(c'))
    BY <1>4 DEF DeadlinePasses, TypeOK, State, Timed
  <2>2. TypeOK'
    BY <1>0, <1>4, <2>1 DEF DeadlinePasses, TypeOK
  <2>3. QED
    BY <1>0, <1>4, <2>1, <2>2
    DEF DeadlinePasses, BarrierHolds, NoTransitionAfterTeardown, EventLockHeld
<1>5. CASE PolicyTimer
  <2> DEFINE done == [c EXCEPT !.policy = FALSE]
  <2>1. done \in State /\ done.policy = FALSE
    BY DEF TypeOK, State
  <2>2. c' = Settled(done)
    BY <1>5 DEF PolicyTimer
  <2> HIDE DEF done
  <2>3. c' \in State /\ c'.policy = FALSE /\ Timed(c')
    BY <2>1, <2>2, SettledState DEF Timed
  <2>4. TypeOK'
    BY <1>0, <1>5, <2>3 DEF PolicyTimer, TypeOK
  <2>5. QED
    BY <1>0, <1>5, <2>3, <2>4
    DEF PolicyTimer, BarrierHolds, NoTransitionAfterTeardown, EventLockHeld
<1>6. CASE TimerEnds
  BY <1>0, <1>6
  DEF TimerEnds, Quiet, TypeOK, BarrierHolds, NoTransitionAfterTeardown,
      EventLockHeld
<1>7. CASE Terminate
  BY <1>0, <1>7
  DEF Terminate, Quiet, TypeOK, BarrierHolds, NoTransitionAfterTeardown,
      EventLockHeld
<1>8. CASE EventBarrier
  BY <1>0, <1>8
  DEF EventBarrier, Quiet, TypeOK, BarrierHolds, NoTransitionAfterTeardown,
      EventLockHeld
<1>9. CASE Teardown
  <2>1. c' \in State /\ c'.policy = FALSE
    BY <1>9 DEF Teardown, TypeOK, State
  <2>2. TypeOK'
    BY <1>0, <1>9, <2>1 DEF Teardown, TypeOK
  <2>3. QED
    BY <1>9, <2>1, <2>2
    DEF Teardown, PolicyHasDeadline, BarrierHolds, NoTransitionAfterTeardown,
        EventLockHeld
<1>10. CASE UNCHANGED vars
  BY <1>10
  DEF vars, TypeOK, PolicyHasDeadline, BarrierHolds, NoTransitionAfterTeardown,
      EventLockHeld
<1>11. QED
  BY <1>1, <1>2, <1>3, <1>4, <1>5, <1>6, <1>7, <1>8, <1>9, <1>10 DEF Next

LEMMA Invariance == Spec => []IInv
BY InitIInv, NextIInv, PTL DEF Spec

(* Every critical section leaves the coordinator well formed.                *)
THEOREM TypeCorrect == Spec => []TypeOK
BY Invariance, PTL DEF IInv

(* Whatever the order of log lines and of the timer, thread policies are     *)
(* applied exactly while a transaction is open and always with a deadline    *)
(* set (every handler of launcher_logwatch.c, and its policy timer).         *)
THEOREM PolicyAlwaysHasDeadline == Spec => []PolicyHasDeadline
BY Invariance, PTL DEF IInv

(* After main has torn down, no handler that had already passed the stopping *)
(* check and no line still to be read applies a policy again.                *)
THEOREM TeardownIsFinal == Spec => []NoTransitionAfterTeardown
BY Invariance, PTL DEF IInv

-----------------------------------------------------------------------------
(* How a transaction ends: an entry in the scene its surface lines           *)
(* confirmed, and one in which a target resumed with the source released.    *)
(* Neither depends on transition ids.                                        *)

(* A target that resumed leaves only an exit open, and its source is free or *)
(* on its way to be, from the moment the line was handled.                   *)
Freed(s) ==
    s.told.target => /\ s.c.kind \in {"none", "exit"}
                     /\ s.told.source # "suppressed"

(* Without a source the guard hears nothing.                                 *)
Unheard(s) == ~SourceEnabled => s.told.source = "free"

(* An open entry is in the scene its last surface line confirmed.            *)
Placed(s) ==
    s.c.kind = "entry" =>
       /\ s.told.scene # "entering"
       /\ s.c.phase = IF s.told.scene = "none" THEN "entering" ELSE s.told.scene

Staged(s) == Freed(s) /\ Unheard(s) /\ Placed(s)

(* An entry is replaced by nothing but an exit.                              *)
StaysEntry(s, r) == s.c.kind = "entry" => r.c.kind \in {"entry", "exit"}

-----------------------------------------------------------------------------
(* The parts critical sections are built from                                *)

(* What sending a command makes of the history: only a complete of the       *)
(* transition the guard is in releases, only an adopt frees at once.         *)
Sent(s, r, name, id) ==
    /\ r \in Steps /\ r.c = s.c
    /\ r.told.scene = s.told.scene /\ r.told.target = s.told.target
    /\ ~SourceEnabled => r.told = s.told
    /\ (SourceEnabled /\ name # "complete") => r.told.id = id
    /\ (SourceEnabled /\ name = "adopt") => r.told.source = "free"
    /\ name = "complete" => r.told.source \in {s.told.source, "releasing"}
    /\ (SourceEnabled /\ name = "complete" /\ id = s.told.id) =>
         r.told.source # "suppressed"

LEMMA SendReleases ==
    ASSUME NEW s \in Steps, NEW id \in Nat, NEW app \in Apps \cup {NoApp},
           NEW name \in {"enter", "handoff", "adopt", "complete"}
    PROVE  Sent(s, Send(s, name, id, app), name, id)
<1> DEFINE m == [name |-> name, id |-> id, app |-> app]
           h == Heard(s.told, m)
           r == Send(s, name, id, app)
<1>1. r \in Steps /\ r.c = s.c
  BY SendStep
<1>2. /\ h.scene = s.told.scene /\ h.target = s.told.target
      /\ name # "complete" => h.id = id
      /\ name = "adopt" => h.source = "free"
      /\ name = "complete" => h.source \in {s.told.source, "releasing"}
      /\ (name = "complete" /\ id = s.told.id) => h.source # "suppressed"
  BY DEF Heard, Steps, Told
<1> HIDE DEF h
<1>3. r.told = IF SourceEnabled THEN h ELSE s.told
  BY DEF Send, Steps, h
<1> HIDE DEF r
<1>4. Sent(s, r, name, id)
  <2>1. CASE SourceEnabled
    BY <1>1, <1>2, <1>3, <2>1 DEF Sent
  <2>2. CASE ~SourceEnabled
    BY <1>1, <1>3, <2>2 DEF Sent
  <2>3. QED
    BY <2>1, <2>2
<1>5. QED
  BY <1>4 DEF r

LEMMA PrepareClears ==
    ASSUME NEW s \in Steps, NEW kind \in Kinds, NEW phase \in Phases,
           NEW r, r = PrepareTransition(s, kind, phase)
    PROVE  /\ r \in Steps /\ r.c.kind = kind /\ r.c.phase = phase
           /\ r.c.policy = s.c.policy
           /\ r.told.source = s.told.source /\ r.told.scene = "none"
           /\ r.told.target <=> s.c.kind = kind /\ s.told.target
<1>1. r \in Steps /\ r.c.kind = kind /\ r.c.policy = s.c.policy
  BY PrepareStep
<1>2. /\ r.c.phase = phase /\ r.told.source = s.told.source
      /\ r.told.scene = "none"
      /\ r.told.target = IF s.c.kind # kind THEN FALSE ELSE s.told.target
  BY DEF PrepareTransition, Steps, State, Told
<1>3. s.told.target \in BOOLEAN
  BY DEF Steps, Told
<1>4. QED
  BY <1>1, <1>2, <1>3

LEMMA ScheduleTells ==
    ASSUME NEW s \in Steps, NEW r, r = SchedulePolicyCompletion(s)
    PROVE  /\ r \in Steps /\ r.told = s.told /\ r.c.id = s.c.id
           /\ r.c.kind \in {"none", s.c.kind}
           /\ s.c.policy => r.c.kind = s.c.kind /\ r.c.phase = s.c.phase
<1>1. r \in Steps
  BY ScheduleStep
<1>2. CASE s.c.policy
  BY <1>1, <1>2 DEF SchedulePolicyCompletion, SetDeadline, Steps, State
<1>3. CASE ~s.c.policy
  <2>1. r = [s EXCEPT !.c = Settled(s.c)]
    BY <1>3 DEF SchedulePolicyCompletion
  <2>2. Settled(s.c).kind = "none" /\ Settled(s.c).id = s.c.id
    BY DEF Settled, Steps, State
  <2>3. QED
    BY <1>1, <1>3, <2>1, <2>2 DEF Steps
<1>4. QED
  BY <1>2, <1>3

(* Steps that change neither kind, phase nor what the guard was told.        *)
Kept(s, r) == /\ r \in Steps /\ r.told = s.told
              /\ r.c.kind = s.c.kind /\ r.c.phase = s.c.phase /\ r.c.id = s.c.id

LEMMA FieldsKept ==
    ASSUME NEW s \in Steps
    PROVE  /\ Kept(s, BeginPolicy(s)) /\ Kept(s, SetDeadline(s))
           /\ Kept(s, [s EXCEPT !.c.unsuppressed = FALSE])
           /\ \A g \in BOOLEAN : Kept(s, [s EXCEPT !.c.gesture = g])
           /\ \A p \in Apps : Kept(s, [s EXCEPT !.c.source = p])
BY DEF Kept, BeginPolicy, SetDeadline, Steps, State

LEMMA KeptStaged ==
    ASSUME NEW s, NEW r, Kept(s, r)
    PROVE  Staged(s) <=> Staged(r)
BY DEF Kept, Staged, Freed, Unheard, Placed

-----------------------------------------------------------------------------
(* The critical sections                                                     *)

LEMMA StartEntryStaged ==
    ASSUME NEW s \in Steps, Staged(s)
    PROVE  Staged(StartEntry(s)) /\ StaysEntry(s, StartEntry(s))
<1>1. PICK s1 : s1 = [s EXCEPT !.c.unsuppressed = FALSE]
  OBVIOUS
<1>2. PICK s2 : s2 = PrepareTransition(s1, "entry", "entering")
  OBVIOUS
<1>3. PICK s3 : s3 = Send(s2, "enter", s2.c.id, NoApp)
  OBVIOUS
<1>4. PICK s4 : s4 = BeginPolicy(s3)
  OBVIOUS
<1>5. PICK s5 : s5 = SetDeadline(s4)
  OBVIOUS
<1>6. StartEntry(s) = [s5 EXCEPT !.c.gesture = TRUE]
  BY <1>1, <1>2, <1>3, <1>4, <1>5 DEF StartEntry
<1>7. Kept(s, s1)
  BY <1>1, FieldsKept
<1>8. /\ s2 \in Steps /\ s2.c.kind = "entry" /\ s2.c.phase = "entering"
      /\ s2.told.source = s.told.source /\ s2.told.scene = "none"
      /\ ~s2.told.target
  <2>1. s1 \in Steps /\ s1.told = s.told /\ s1.c.kind = s.c.kind
    BY <1>7 DEF Kept
  <2>2. s1.c.kind = "entry" => ~s1.told.target
    BY <2>1 DEF Staged, Freed
  <2>3. QED
    BY <1>2, <2>1, <2>2, PrepareClears DEF Kinds, Phases
<1>9. s2.c.id \in Nat /\ NoApp \in Apps \cup {NoApp}
  BY <1>8 DEF Steps, State
<1>10. /\ s3 \in Steps /\ s3.c = s2.c /\ s3.told.scene = "none" /\ ~s3.told.target
       /\ ~SourceEnabled => s3.told = s2.told
  <2>1. Sent(s2, s3, "enter", s2.c.id)
    BY <1>3, <1>8, <1>9, SendReleases
  <2>2. QED
    BY <1>8, <2>1 DEF Sent
<1>11. Staged(s3) /\ s3.c.kind = "entry"
  BY <1>8, <1>10 DEF Staged, Freed, Unheard, Placed
<1>12. Kept(s3, s4)
  BY <1>4, <1>10, FieldsKept
<1>13. Kept(s4, s5)
  <2>1. s4 \in Steps
    BY <1>12 DEF Kept
  <2>2. QED
    BY <1>5, <2>1, FieldsKept
<1>14. Kept(s5, StartEntry(s))
  <2>1. s5 \in Steps
    BY <1>13 DEF Kept
  <2>2. QED
    BY <1>6, <2>1, FieldsKept
<1>15. Staged(StartEntry(s))
  BY <1>11, <1>12, <1>13, <1>14, KeptStaged
<1>16. StartEntry(s).c.kind = "entry"
  BY <1>11, <1>12, <1>13, <1>14 DEF Kept
<1>17. QED
  BY <1>15, <1>16 DEF StaysEntry

LEMMA StartLeavingStaged ==
    ASSUME NEW s \in Steps, Staged(s)
    PROVE  Staged(StartLeaving(s)) /\ StaysEntry(s, StartLeaving(s))
<1>1. PICK s1 : s1 = PrepareTransition(s, "exit", "leaving")
  OBVIOUS
<1>2. PICK s2 : s2 = IF s.c.kind = "exit" THEN s
                     ELSE Send(s1, "enter", s1.c.id, NoApp)
  OBVIOUS
<1>3. PICK s3 : s3 = BeginPolicy(s2)
  OBVIOUS
<1>4. StartLeaving(s) = SetDeadline(s3)
  BY <1>1, <1>2, <1>3 DEF StartLeaving
<1>5. s2 \in Steps /\ Staged(s2) /\ s2.c.kind = "exit"
  <2>1. CASE s.c.kind = "exit"
    BY <1>2, <2>1
  <2>2. CASE s.c.kind # "exit"
    <3>1. /\ s1 \in Steps /\ s1.c.kind = "exit" /\ ~s1.told.target
          /\ s1.told.source = s.told.source
      BY <1>1, <2>2, PrepareClears DEF Kinds, Phases
    <3>2. s1.c.id \in Nat /\ NoApp \in Apps \cup {NoApp}
      BY <3>1 DEF Steps, State
    <3>3. s2 = Send(s1, "enter", s1.c.id, NoApp)
      BY <1>2, <2>2
    <3>4. /\ s2 \in Steps /\ s2.c = s1.c /\ ~s2.told.target
          /\ ~SourceEnabled => s2.told = s1.told
      <4>1. Sent(s1, s2, "enter", s1.c.id)
        BY <3>1, <3>2, <3>3, SendReleases
      <4>2. QED
        BY <3>1, <4>1 DEF Sent
    <3>5. QED
      BY <3>1, <3>4 DEF Staged, Freed, Unheard, Placed
  <2>3. QED
    BY <2>1, <2>2
<1>6. Kept(s2, s3)
  BY <1>3, <1>5, FieldsKept
<1>7. Kept(s3, StartLeaving(s))
  <2>1. s3 \in Steps
    BY <1>6 DEF Kept
  <2>2. QED
    BY <1>4, <2>1, FieldsKept
<1>8. Staged(StartLeaving(s))
  BY <1>5, <1>6, <1>7, KeptStaged
<1>9. StartLeaving(s).c.kind = "exit"
  BY <1>5, <1>6, <1>7 DEF Kept
<1>10. QED
  BY <1>8, <1>9 DEF StaysEntry

LEMMA StartHomeStaged ==
    ASSUME NEW s \in Steps, Staged(s)
    PROVE  Staged(StartHome(s)) /\ StartHome(s).c.kind = "home"
<1>1. PICK s1 : s1 = PrepareTransition(s, "home", "home")
  OBVIOUS
<1>2. PICK s2 : s2 = Send(s1, "enter", s1.c.id, NoApp)
  OBVIOUS
<1>3. PICK s3 : s3 = BeginPolicy(s2)
  OBVIOUS
<1>4. PICK s4 : s4 = [s3 EXCEPT !.c.gesture = FALSE]
  OBVIOUS
<1>5. StartHome(s) = SchedulePolicyCompletion(s4)
  BY <1>1, <1>2, <1>3, <1>4 DEF StartHome
<1>6. /\ s1 \in Steps /\ s1.c.kind = "home" /\ ~s1.told.target
      /\ s1.told.source = s.told.source
  <2>1. s.c.kind = "home" => ~s.told.target
    BY DEF Staged, Freed
  <2>2. QED
    BY <1>1, <2>1, PrepareClears DEF Kinds, Phases
<1>7. s1.c.id \in Nat /\ NoApp \in Apps \cup {NoApp}
  BY <1>6 DEF Steps, State
<1>8. /\ s2 \in Steps /\ s2.c = s1.c /\ ~s2.told.target
      /\ ~SourceEnabled => s2.told = s1.told
  <2>1. Sent(s1, s2, "enter", s1.c.id)
    BY <1>2, <1>6, <1>7, SendReleases
  <2>2. QED
    BY <1>6, <2>1 DEF Sent
<1>9. Staged(s2) /\ s2.c.kind = "home"
  BY <1>6, <1>8 DEF Staged, Freed, Unheard, Placed
<1>10. Kept(s2, s3) /\ s3 \in Steps /\ s3.c.policy
  BY <1>3, <1>8, FieldsKept, PolicyStep
<1>11. Kept(s3, s4) /\ s4.c.policy
  <2>1. Kept(s3, s4)
    BY <1>4, <1>10, FieldsKept
  <2>2. s4.c.policy
    BY <1>4, <1>10 DEF Steps, State
  <2>3. QED
    BY <2>1, <2>2
<1>12. Staged(s4) /\ s4.c.kind = "home" /\ s4 \in Steps
  BY <1>9, <1>10, <1>11, KeptStaged DEF Kept
<1>13. Kept(s4, StartHome(s))
  BY <1>5, <1>11, <1>12, ScheduleTells DEF Kept
<1>14. Staged(StartHome(s))
  BY <1>12, <1>13, KeptStaged
<1>15. StartHome(s).c.kind = "home"
  BY <1>12, <1>13 DEF Kept
<1>16. QED
  BY <1>14, <1>15

(* A surface line confirms a scene, of an open entry too.                    *)
LEMMA SettleSurfaceStaged ==
    ASSUME NEW s \in Steps, NEW phase \in Phases, phase # "entering",
           Staged(s), s.c.policy <=> s.c.kind # "none"
    PROVE  /\ Staged(SettleSurface(s, phase))
           /\ StaysEntry(s, SettleSurface(s, phase))
<1>1. PICK s1 : s1 = [s EXCEPT !.c.phase = phase, !.c.gesture = FALSE,
                               !.told.scene = phase]
  OBVIOUS
<1>2. PICK r : r = SchedulePolicyCompletion(s1)
  OBVIOUS
<1>3. SettleSurface(s, phase) = r
  BY <1>1, <1>2 DEF SettleSurface
<1>4. /\ s1 \in Steps /\ s1.c.kind = s.c.kind /\ s1.c.phase = phase
      /\ s1.c.policy = s.c.policy /\ s1.told.scene = phase
      /\ s1.told.source = s.told.source /\ s1.told.target = s.told.target
  BY <1>1 DEF Steps, State, Told
<1>5. /\ r.told = s1.told /\ r.c.kind \in {"none", s1.c.kind}
      /\ s1.c.policy => r.c.kind = s1.c.kind /\ r.c.phase = s1.c.phase
  BY <1>2, <1>4, ScheduleTells
<1>6. phase # "none"
  BY DEF Phases
<1>7. Staged(r) /\ StaysEntry(s, r)
  BY <1>4, <1>5, <1>6 DEF Staged, Freed, Unheard, Placed, StaysEntry
<1>8. QED
  BY <1>3, <1>7

(* An end line or a cancelled gesture makes an exit of the transaction, or   *)
(* leaves it as it is.                                                       *)
LEMMA CompleteToAppStaged ==
    ASSUME NEW s \in Steps, NEW cancel \in BOOLEAN, Staged(s),
           s.c.policy <=> s.c.kind # "none"
    PROVE  /\ Staged(CompleteToApp(s, cancel))
           /\ StaysEntry(s, CompleteToApp(s, cancel))
<1> DEFINE kind == IF cancel /\ s.c.gesture /\ s.c.kind = "entry"
                   THEN "exit" ELSE s.c.kind
<1>1. PICK left : left = [s EXCEPT !.c.kind = kind, !.c.phase = "leaving"]
  OBVIOUS
<1>2. PICK timed : timed = SchedulePolicyCompletion(left)
  OBVIOUS
<1>3. PICK done : done = IF s.c.id # 0 /\ kind = "exit"
                         THEN SendComplete(timed) ELSE s
  OBVIOUS
<1>4. CompleteToApp(s, cancel) = [done EXCEPT !.c.gesture = FALSE]
  BY <1>1, <1>2, <1>3 DEF CompleteToApp
<1>5. done \in Steps /\ Staged(done) /\ StaysEntry(s, done)
  <2>1. CASE s.c.id # 0 /\ kind = "exit"
    <3>1. /\ left \in Steps /\ left.c.kind = "exit" /\ left.told = s.told
          /\ left.c.policy = s.c.policy
      BY <1>1, <2>1 DEF Steps, State, Kinds, Phases
    <3>2. /\ timed \in Steps /\ timed.told = s.told
          /\ timed.c.kind \in {"none", "exit"}
          /\ s.c.policy => timed.c.kind = "exit"
      BY <1>2, <3>1, ScheduleTells
    <3>3. timed.c.id \in Nat /\ NoApp \in Apps \cup {NoApp}
      BY <3>2 DEF Steps, State
    <3>4. done = Send(timed, "complete", timed.c.id, NoApp)
      BY <1>3, <2>1 DEF SendComplete
    <3>5. /\ done \in Steps /\ done.c = timed.c
          /\ done.told.target = s.told.target
          /\ ~SourceEnabled => done.told = s.told
          /\ done.told.source \in {s.told.source, "releasing"}
      <4>1. Sent(timed, done, "complete", timed.c.id)
        BY <3>2, <3>3, <3>4, SendReleases
      <4>2. QED
        BY <3>2, <4>1 DEF Sent
    <3>6. StaysEntry(s, done)
      BY <3>2, <3>5 DEF StaysEntry
    <3>7. Staged(done)
      BY <3>2, <3>5 DEF Staged, Freed, Unheard, Placed
    <3>8. QED
      BY <3>5, <3>6, <3>7
  <2>2. CASE ~(s.c.id # 0 /\ kind = "exit")
    BY <1>3, <2>2 DEF StaysEntry
  <2>3. QED
    BY <2>1, <2>2
<1>6. Kept(done, CompleteToApp(s, cancel))
  BY <1>4, <1>5, FieldsKept
<1>7. QED
  BY <1>5, <1>6, KeptStaged DEF Kept, StaysEntry

(* A resumed target: its own source is handed the transition and completed,  *)
(* any other is replaced by the target, which is free.                       *)
LEMMA HandoffTargetStaged ==
    ASSUME NEW s \in Steps, NEW p \in Apps, Staged(s)
    PROVE  /\ Staged(HandoffTarget(s, p))
           /\ StaysEntry(s, HandoffTarget(s, p))
<1> DEFINE same == IsSource(s, p)
           named == [s EXCEPT !.c.source = p]
<1>1. named.clock = s.clock /\ s.clock \in Nat
  BY DEF Steps
<1>2. Kept(s, named) /\ p \in Apps \cup {NoApp} /\ NoApp \in Apps \cup {NoApp}
  BY FieldsKept
<1>3. CASE s.c.phase = "app" /\ s.c.kind = "none"
  <2> DEFINE known == [named EXCEPT !.c.unsuppressed = FALSE, !.clock = @ + 1]
             n == s.clock + 1
             r == Send(known, "adopt", n, p)
  <2>1. HandoffTarget(s, p) = r
    BY <1>3 DEF HandoffTarget
  <2>2. known = [named EXCEPT !.c = [named.c EXCEPT !.unsuppressed = FALSE],
                              !.clock = n]
    BY <1>1
  <2> HIDE DEF known, named
  <2>3. n \in Nat
    BY <1>1
  <2> HIDE DEF n
  <2>4. known \in Steps /\ known.told = s.told /\ known.c.kind = "none"
    <3> DEFINE state == [named.c EXCEPT !.unsuppressed = FALSE]
    <3>1. named \in Steps /\ named.told = s.told /\ named.c.kind = "none"
      BY <1>2, <1>3 DEF Kept
    <3>2. state \in State /\ state.kind = "none"
      BY <3>1 DEF Steps, State
    <3>3. known = [named EXCEPT !.c = state, !.clock = n]
      BY <2>2
    <3> HIDE DEF state
    <3>4. QED
      BY <2>3, <3>1, <3>2, <3>3 DEF Steps
  <2>5. /\ r.c = known.c /\ r.told.target = s.told.target
        /\ ~SourceEnabled => r.told = s.told
        /\ SourceEnabled => r.told.source = "free"
    <3>1. Sent(known, r, "adopt", n)
      BY <1>2, <2>3, <2>4, SendReleases
    <3> HIDE DEF r
    <3>2. QED
      BY <2>4, <3>1 DEF Sent
  <2> HIDE DEF r
  <2>6. Staged(r) /\ StaysEntry(s, r)
    BY <1>3, <2>4, <2>5 DEF Staged, Freed, Unheard, Placed, StaysEntry
  <2>7. QED
    BY <2>1, <2>6
<1>4. CASE ~(s.c.phase = "app" /\ s.c.kind = "none")
  <2> DEFINE leaving == IF s.c.kind = "exit" THEN named
                        ELSE BeginPolicy(PrepareTransition(named, "exit", "leaving"))
             sent == Send(leaving, IF same THEN "handoff" ELSE "adopt",
                          leaving.c.id, p)
             marked == [sent EXCEPT !.c.unsuppressed = ~same, !.told.target = TRUE]
             timed == SchedulePolicyCompletion(marked)
             r == IF same THEN SendComplete(timed) ELSE timed
  <2>1. HandoffTarget(s, p) = r
    BY <1>4 DEF HandoffTarget, named
  <2>2. leaving = IF s.c.kind = "exit" THEN named
                  ELSE BeginPolicy(PrepareTransition(named, "exit", "leaving"))
    OBVIOUS
  <2> HIDE DEF leaving
  <2>3. sent = Send(leaving, IF same THEN "handoff" ELSE "adopt",
                    leaving.c.id, p)
    OBVIOUS
  <2> HIDE DEF sent
  <2>4. marked = [sent EXCEPT !.c.unsuppressed = ~same, !.told.target = TRUE]
    OBVIOUS
  <2> HIDE DEF marked
  <2>5. timed = SchedulePolicyCompletion(marked)
    OBVIOUS
  <2> HIDE DEF timed
  <2>6. r = IF same THEN SendComplete(timed) ELSE timed
    OBVIOUS
  <2> HIDE DEF r, named
  <2>7. /\ leaving \in Steps /\ leaving.c.kind = "exit"
        /\ leaving.told.source = s.told.source
    <3>1. named \in Steps /\ named.told = s.told /\ named.c.kind = s.c.kind
      BY <1>2 DEF Kept
    <3>2. CASE s.c.kind = "exit"
      BY <2>2, <3>1, <3>2
    <3>3. CASE s.c.kind # "exit"
      <4>1. PICK begun : begun = PrepareTransition(named, "exit", "leaving")
        OBVIOUS
      <4>2. /\ begun \in Steps /\ begun.c.kind = "exit"
            /\ begun.told.source = s.told.source
        BY <3>1, <4>1, PrepareClears DEF Kinds, Phases
      <4>3. Kept(begun, BeginPolicy(begun))
        BY <4>2, FieldsKept
      <4>4. QED
        BY <2>2, <3>3, <4>1, <4>2, <4>3 DEF Kept
    <3>4. QED
      BY <3>2, <3>3
  <2>8. leaving.c.id \in Nat
    BY <2>7 DEF Steps, State
  <2>9. /\ sent \in Steps /\ sent.c = leaving.c
        /\ ~SourceEnabled => sent.told.source = s.told.source
        /\ SourceEnabled => sent.told.id = leaving.c.id
        /\ (SourceEnabled /\ ~same) => sent.told.source = "free"
    <3>1. PICK name : name = IF same THEN "handoff" ELSE "adopt"
      OBVIOUS
    <3>2. /\ name \in {"handoff", "adopt"} /\ (~same => name = "adopt")
          /\ name \in {"enter", "handoff", "adopt", "complete"}
      BY <3>1
    <3>3. sent = Send(leaving, name, leaving.c.id, p)
      BY <2>3, <3>1
    <3> HIDE DEF same
    <3>4. /\ sent \in Steps /\ sent.c = leaving.c
          /\ ~SourceEnabled => sent.told = leaving.told
          /\ SourceEnabled => sent.told.id = leaving.c.id
          /\ (SourceEnabled /\ name = "adopt") => sent.told.source = "free"
      <4>1. Sent(leaving, sent, name, leaving.c.id)
        BY <1>2, <2>7, <2>8, <3>2, <3>3, SendReleases
      <4>2. QED
        BY <3>2, <4>1 DEF Sent
    <3>5. QED
      BY <2>7, <3>2, <3>4
  <2>10. /\ marked \in Steps /\ marked.c.kind = "exit"
         /\ marked.c.id = leaving.c.id /\ marked.told.id = sent.told.id
         /\ marked.told.source = sent.told.source
    <3>1. same \in BOOLEAN
      BY DEF IsSource
    <3>2. PICK free : free = ~same
      OBVIOUS
    <3>3. free \in BOOLEAN
      BY <3>1, <3>2
    <3>4. marked = [sent EXCEPT !.c.unsuppressed = free, !.told.target = TRUE]
      BY <2>4, <3>2
    <3> HIDE DEF same
    <3>5. /\ sent \in Steps
          /\ marked = [sent EXCEPT !.c = [sent.c EXCEPT !.unsuppressed = free],
                                   !.told = [sent.told EXCEPT !.target = TRUE]]
      BY <2>9, <3>4 DEF Steps
    <3>6. PICK state : state = [sent.c EXCEPT !.unsuppressed = free]
      OBVIOUS
    <3>7. PICK history : history = [sent.told EXCEPT !.target = TRUE]
      OBVIOUS
    <3>8. state \in State /\ state.kind = sent.c.kind /\ state.id = sent.c.id
      BY <3>3, <3>5, <3>6 DEF Steps, State
    <3>9. /\ history \in Told /\ history.id = sent.told.id
          /\ history.source = sent.told.source
      BY <3>5, <3>7 DEF Steps, Told
    <3>10. marked = [sent EXCEPT !.c = state, !.told = history]
      BY <3>5, <3>6, <3>7
    <3>11. marked \in Steps /\ marked.c = state /\ marked.told = history
      BY <3>5, <3>8, <3>9, <3>10 DEF Steps
    <3>12. QED
      BY <2>7, <2>9, <3>8, <3>9, <3>11
  <2>11. /\ timed \in Steps /\ timed.told = marked.told /\ timed.c.id = marked.c.id
         /\ timed.c.kind \in {"none", "exit"}
         /\ marked.c.policy => timed.c.kind = "exit"
    BY <2>5, <2>10, ScheduleTells
  <2>12. s.c.kind = "entry" => timed.c.kind = "exit"
    <3>1. ASSUME s.c.kind = "entry" PROVE marked.c.policy
      <4>1. PICK begun : begun = PrepareTransition(named, "exit", "leaving")
        OBVIOUS
      <4>2. named \in Steps
        BY <1>2 DEF Kept
      <4>3. begun \in Steps
        BY <4>1, <4>2, PrepareClears DEF Kinds, Phases
      <4>4. leaving = BeginPolicy(begun)
        BY <2>2, <3>1, <4>1
      <4>5. leaving.c.policy
        BY <4>3, <4>4, PolicyStep
      <4>6. sent.c.policy
        BY <2>9, <4>5
      <4> HIDE DEF same
      <4>7. QED
        BY <2>4, <2>9, <4>6 DEF Steps, State
    <3>2. QED
      BY <2>11, <3>1
  <2>13. /\ r.c = timed.c
         /\ ~SourceEnabled => r.told.source = s.told.source
         /\ SourceEnabled => r.told.source # "suppressed"
    <3>1. CASE same
      <4>1. PICK id : id = timed.c.id
        OBVIOUS
      <4>2. r = Send(timed, "complete", id, NoApp)
        BY <2>6, <3>1, <4>1 DEF SendComplete
      <4> HIDE DEF same
      <4>3. timed \in Steps /\ id \in Nat
        BY <2>11, <4>1 DEF Steps, State
      <4>4. /\ r.c = timed.c
            /\ ~SourceEnabled => r.told = timed.told
            /\ (SourceEnabled /\ id = timed.told.id) => r.told.source # "suppressed"
        <5>1. Sent(timed, r, "complete", id)
          BY <1>2, <4>2, <4>3, SendReleases
        <5>2. QED
          BY <5>1 DEF Sent
      <4>5. QED
        BY <2>9, <2>10, <2>11, <4>1, <4>4
    <3>2. CASE ~same
      <4>1. r = timed
        BY <2>6, <3>2
      <4> HIDE DEF same
      <4>2. QED
        BY <2>9, <2>10, <2>11, <3>2, <4>1
    <3>3. QED
      BY <3>1, <3>2
  <2> HIDE DEF same
  <2>14. Staged(r)
    BY <2>11, <2>13 DEF Staged, Freed, Unheard, Placed
  <2>15. StaysEntry(s, r)
    BY <2>12, <2>13 DEF StaysEntry
  <2>16. QED
    BY <2>1, <2>14, <2>15
<1>5. QED
  BY <1>3, <1>4

-----------------------------------------------------------------------------
(* The actions                                                               *)

(* A handler that has decided to go home found no transaction open, and      *)
(* while it holds the event lock nobody else opens one.                      *)
DecidedHome == reader.at = "decided" /\ reader.next = "home" => c.kind = "none"

Scenes == Staged(Step) /\ DecidedHome

(* What a step makes of an open entry.                                       *)
EntryGoesOn ==
    c.kind = "entry" => \/ c'.kind \in {"entry", "exit"}
                        \/ c'.kind = "home" /\ reader.line.kind = "overviewToHome"

LEMMA DoneStaged ==
    ASSUME TypeOK, NEW s \in Steps, Staged(s), Done(s),
           \/ StaysEntry(Step, s)
           \/ s.c.kind = "home" /\ reader.line.kind = "overviewToHome"
           \/ c.kind # "entry"
    PROVE  Scenes' /\ EntryGoesOn
<1>1. /\ c' = s.c /\ told' = s.told /\ reader'.at = "idle"
      /\ Step.c = c
  BY DEF Done, Becomes, Idle, Step
<1>2. Staged(Step)'
  BY <1>1 DEF Staged, Freed, Unheard, Placed, Step
<1>3. QED
  BY <1>1, <1>2 DEF Scenes, DecidedHome, EntryGoesOn, StaysEntry

LEMMA DecideStaged ==
    ASSUME TypeOK, Scenes, NEW next \in {"home", "leave", "enter", "cancel"},
           Decide(next), next = "home" => c.kind = "none"
    PROVE  Scenes' /\ EntryGoesOn
<1>1. reader' = [reader EXCEPT !.at = "decided", !.next = next]
  BY DEF Decide
<1>2. reader'.next = next
  BY <1>1 DEF TypeOK, Reader
<1>3. UNCHANGED <<c, told>>
  BY DEF Decide, Quiet
<1>4. Staged(Step)'
  BY <1>3 DEF Scenes, Staged, Freed, Unheard, Placed, Step
<1>5. c.kind = "entry" => c'.kind = "entry"
  BY <1>3
<1>6. QED
  BY <1>2, <1>3, <1>4, <1>5 DEF Scenes, DecidedHome, EntryGoesOn

LEMMA HandlerStaged ==
    ASSUME TypeOK, Scenes, Timed(c), HandleEvent
    PROVE  Scenes' /\ EntryGoesOn
<1>0. /\ Step \in Steps /\ Step.c = c /\ Staged(Step)
      /\ Step.c.policy <=> Step.c.kind # "none"
  BY PresentStep DEF Scenes, Timed
<1>1. CASE HandleTargetResumed
  <2>1. reader.line.app \in Apps
    BY <1>1 DEF HandleTargetResumed, Handles, TypeOK, Reader, LogLines, NoLine,
       Resumed, Line
  <2>2. QED
    BY <1>0, <1>1, <2>1, HandoffTargetStaged, HandoffTargetStep, DoneStaged
    DEF HandleTargetResumed
<1>2. CASE HandleLauncherResumed
  <2>1. CASE Done(Step)
    BY <1>0, <2>1, DoneStaged DEF StaysEntry
  <2>2. CASE /\ ~Passing(c)
             /\ Done(SchedulePolicyCompletion([Step EXCEPT !.c.phase = "home"]))
    <3>1. PICK s : s = [Step EXCEPT !.c.phase = "home"]
      OBVIOUS
    <3>2. PICK r : r = SchedulePolicyCompletion(s)
      OBVIOUS
    <3>3. s \in Steps /\ s.told = told /\ s.c.kind = c.kind
      BY <1>0, <3>1 DEF Steps, State, Phases, Step
    <3>4. r \in Steps /\ r.told = told /\ r.c.kind \in {"none", c.kind}
      BY <3>2, <3>3, ScheduleTells
    <3>5. c.kind # "entry" /\ Step.told = told
      BY <2>2 DEF Passing, Step
    <3>6. Staged(r)
      BY <1>0, <3>4, <3>5 DEF Staged, Freed, Unheard, Placed
    <3>7. Done(r)
      BY <2>2, <3>1, <3>2
    <3>8. QED
      BY <3>4, <3>5, <3>6, <3>7, DoneStaged
  <2>3. CASE /\ ~Passing(c) /\ ~(c.kind = "home" \/ c.phase = "home")
             /\ Decide("home")
    <3>1. c.kind = "none"
      BY <2>3 DEF Passing, TypeOK, State, Kinds
    <3>2. QED
      BY <2>3, <3>1, DecideStaged
  <2>4. QED
    BY <1>2, <2>1, <2>2, <2>3 DEF HandleLauncherResumed
<1>3. CASE HandleOverviewToggle
  BY <1>3, DecideStaged DEF HandleOverviewToggle
<1>4. CASE HandleEntry
  BY <1>0, <1>4, StartEntryStaged, StartEntryStep, DoneStaged DEF HandleEntry
<1>5. CASE HandleGestureToHome
  BY <1>0, <1>5, SettleSurfaceStaged, SettleSurfaceStep, DoneStaged
  DEF HandleGestureToHome, Phases
<1>6. CASE HandleEnterOverview
  BY <1>0, <1>6, SettleSurfaceStaged, SettleSurfaceStep, DoneStaged
  DEF HandleEnterOverview, Phases
<1>7. CASE HandleOverviewToHome
  <2>1. Done(StartHome(Step)) /\ reader.line.kind = "overviewToHome"
    BY <1>7 DEF HandleOverviewToHome, Handles
  <2>2. QED
    BY <1>0, <2>1, StartHomeStaged, StartHomeStep, DoneStaged
<1>8. CASE HandleExit
  BY <1>0, <1>8, StartLeavingStaged, StartLeavingStep, DoneStaged
  DEF HandleExit
<1>9. CASE HandleExitComplete
  BY <1>0, <1>9, CompleteToAppStaged, CompleteToAppStep, DoneStaged
  DEF HandleExitComplete
<1>10. CASE HandleCancel
  <2>1. CASE Decide("cancel")
    BY <2>1, DecideStaged
  <2>2. CASE Done(Step)
    BY <1>0, <2>2, DoneStaged DEF StaysEntry
  <2>3. QED
    BY <1>10, <2>1, <2>2 DEF HandleCancel
<1>11. CASE Act
  <2>1. CASE reader.at = "decided" /\ reader.next = "home" /\ Done(StartHome(Step))
    <3>1. c.kind # "entry"
      BY <2>1 DEF Scenes, DecidedHome
    <3>2. QED
      BY <1>0, <2>1, <3>1, StartHomeStaged, StartHomeStep, DoneStaged
  <2>2. CASE Done(StartLeaving(Step))
    BY <1>0, <2>2, StartLeavingStaged, StartLeavingStep, DoneStaged
  <2>3. CASE Done(StartEntry(Step))
    BY <1>0, <2>3, StartEntryStaged, StartEntryStep, DoneStaged
  <2>4. CASE Done(CompleteToApp(Step, TRUE))
    BY <1>0, <2>4, CompleteToAppStaged, CompleteToAppStep, DoneStaged
  <2>5. QED
    BY <1>11, <2>1, <2>2, <2>3, <2>4 DEF Act
<1>12. QED
  BY <1>1, <1>2, <1>3, <1>4, <1>5, <1>6, <1>7, <1>8, <1>9, <1>10, <1>11
  DEF HandleEvent

-----------------------------------------------------------------------------
(* The invariant                                                             *)

LEMMA InitScenes == Init => Scenes
<1> SUFFICES ASSUME Init PROVE Scenes
  OBVIOUS
<1>1. PICK phase \in InitialPhases, source \in InitialSources :
        LET again == phase = "recents" /\ SourceEnabled /\ source # NoApp
            fresh == [c |-> FreshState(phase, source, IF again THEN 1 ELSE 0),
                      clock |-> IF again THEN 1 ELSE 0,
                      out |-> <<>>, told |-> NothingTold]
            s == IF again THEN Send(fresh, "enter", 1, NoApp) ELSE fresh
        IN  c = s.c /\ clock = s.clock /\ out = s.out /\ told = s.told
  BY DEF Init
<1> DEFINE again == phase = "recents" /\ SourceEnabled /\ source # NoApp
           n == IF again THEN 1 ELSE 0
           fresh == [c |-> FreshState(phase, source, n), clock |-> n,
                     out |-> <<>>, told |-> NothingTold]
           s == IF again THEN Send(fresh, "enter", 1, NoApp) ELSE fresh
<1>2. c = s.c /\ told = s.told
  BY <1>1
<1>3. /\ fresh.c.kind = "none" /\ ~fresh.told.target
      /\ fresh.told.source = "free"
  BY DEF FreshState, NothingTold
<1>4. fresh \in Steps
  <2>1. FreshState(phase, source, n) \in State
    BY CoordinatorAssumption DEF FreshState, State, Phases, Kinds
  <2>2. NothingTold \in Told
    BY DEF NothingTold, Told
  <2>3. <<>> \in Seq(Message) /\ n \in Nat
    OBVIOUS
  <2>4. QED
    BY <2>1, <2>2, <2>3 DEF Steps
<1>5. s.c.kind = "none" /\ ~s.told.target /\ (~SourceEnabled => s.told.source = "free")
  <2>1. CASE again
    <3>1. s = Send(fresh, "enter", 1, NoApp)
      BY <2>1
    <3> HIDE DEF s, fresh
    <3>2. Sent(fresh, s, "enter", 1)
      BY <1>4, <3>1, SendReleases
    <3>3. QED
      BY <1>3, <3>2 DEF Sent
  <2>2. CASE ~again
    BY <1>3, <2>2
  <2>3. QED
    BY <2>1, <2>2
<1> HIDE DEF s
<1>6. QED
  BY <1>2, <1>5
  DEF Init, Idle, Scenes, DecidedHome, Staged, Freed, Unheard, Placed, Step

(* What the other threads and the reader's own waiting leave of the scene.   *)
LEMMA OthersStaged ==
    ASSUME Scenes, UNCHANGED told, reader'.at # "decided" \/ UNCHANGED reader,
           c'.kind = c.kind, c'.phase = c.phase
    PROVE  Scenes' /\ EntryGoesOn
<1>1. Staged(Step)'
  BY DEF Scenes, Staged, Freed, Unheard, Placed, Step
<1>2. QED
  BY <1>1 DEF Scenes, DecidedHome, EntryGoesOn

(* An entry that ends, ends in the scene it is in.                           *)
EntryEnds ==
    c.kind = "entry" =>
       /\ c'.kind = "none" =>
            c'.phase = IF told.scene = "none" THEN "recents" ELSE told.scene
       /\ c'.kind = "home" => reader.line.kind = "overviewToHome"

LEMMA NextScenes ==
    ASSUME IInv, Scenes, Next
    PROVE  Scenes' /\ EntryEnds
<1>0. ASSUME EntryGoesOn PROVE EntryEnds
  BY <1>0 DEF EntryGoesOn, EntryEnds
<1>1. ASSUME NEW line \in LogLines, ReadLine(line) PROVE Scenes' /\ EntryGoesOn
  BY <1>1, OthersStaged DEF ReadLine, Quiet, Idle
<1>2. CASE CheckStopping
  <2>1. [reader EXCEPT !.at = "checked"].at = "checked" /\ Idle.at = "idle"
    BY DEF IInv, TypeOK, Reader, Idle
  <2>2. reader'.at # "decided" /\ UNCHANGED <<c, told>>
    BY <1>2, <2>1 DEF CheckStopping, Quiet
  <2>3. QED
    BY <1>0, <2>2, OthersStaged
<1>3. CASE HandleEvent
  <2>1. EventLockHeld
    BY <1>3, HandlerKeeps DEF IInv
  <2>2. Timed(c)
    BY <2>1 DEF IInv, BarrierHolds, PolicyHasDeadline, Timed
  <2>3. QED
    BY <1>0, <1>3, <2>2, HandlerStaged DEF IInv
<1>4. CASE DeadlinePasses
  <2>1. c'.kind = c.kind /\ c'.phase = c.phase
    BY <1>4 DEF DeadlinePasses, IInv, TypeOK, State
  <2>2. QED
    BY <1>0, <1>4, <2>1, OthersStaged DEF DeadlinePasses
<1>5. CASE PolicyTimer
  <2>1. PICK done : done = [c EXCEPT !.policy = FALSE]
    OBVIOUS
  <2>2. /\ done \in State /\ done.kind = c.kind /\ done.phase = c.phase
    BY <2>1 DEF IInv, TypeOK, State
  <2>3. c' = Settled(done) /\ UNCHANGED <<told, reader>>
    BY <1>5, <2>1 DEF PolicyTimer
  <2>4. /\ c'.kind = "none"
        /\ c.kind = "entry" =>
             c'.phase = IF c.phase = "entering" THEN "recents" ELSE c.phase
    BY <2>2, <2>3 DEF Settled, State
  <2>5. Staged(Step)'
    BY <2>3, <2>4 DEF Scenes, Staged, Freed, Unheard, Placed, Step
  <2>6. EntryEnds
    <3>1. ASSUME c.kind = "entry"
          PROVE  c'.phase = IF told.scene = "none" THEN "recents" ELSE told.scene
      <4>1. /\ told.scene # "entering"
            /\ c.phase = IF told.scene = "none" THEN "entering" ELSE told.scene
        BY <3>1 DEF Scenes, Staged, Placed, Step
      <4>2. QED
        BY <2>4, <3>1, <4>1
    <3>2. QED
      BY <2>4, <3>1 DEF EntryEnds
  <2>7. QED
    BY <2>4, <2>5, <2>6 DEF Scenes, DecidedHome
<1>6. CASE TimerEnds \/ Terminate \/ EventBarrier
  BY <1>0, <1>6, OthersStaged DEF TimerEnds, Terminate, EventBarrier, Quiet
<1>7. CASE Teardown
  <2>1. c'.kind = c.kind /\ c'.phase = c.phase
    BY <1>7 DEF Teardown, IInv, TypeOK, State
  <2>2. QED
    BY <1>0, <1>7, <2>1, OthersStaged DEF Teardown
<1>8. QED
  BY <1>0, <1>1, <1>2, <1>3, <1>4, <1>5, <1>6, <1>7 DEF Next

LEMMA ScenesInvariance == Spec => [](IInv /\ Scenes)
<1>1. IInv /\ Scenes /\ [Next]_vars => Scenes'
  <2>1. CASE UNCHANGED vars
    BY <2>1 DEF vars, Scenes, Staged, Freed, Unheard, Placed, DecidedHome, Step
  <2>2. QED
    BY <2>1, NextScenes
<1>2. QED
  BY <1>1, InitScenes, Invariance, PTL DEF Spec

(* Once a transaction in which a target resumed has settled in app, the      *)
(* guard has been told to release the source, whatever lines were missing,   *)
(* repeated or handled after the timer (handoff_target, complete_to_app).    *)
THEOREM ResumedTargetReleased == Spec => []ResumedTargetIsReleased
<1>1. IInv /\ Scenes => ResumedTargetIsReleased
  BY DEF Scenes, Staged, Freed, ResumedTargetIsReleased, Step
<1>2. QED
  BY <1>1, ScenesInvariance, PTL

(* An entry that ends, ends in the scene its last surface line confirmed, or *)
(* in recents; nothing but the overview-to-home line makes it a return to    *)
(* home, also when a handler decided on a state that has changed since.      *)
THEOREM EntrySettles == Spec => EntryEndsInScene
<1>1. IInv /\ Scenes /\ [Next]_vars =>
        [c.kind = "entry" =>
           /\ c'.kind = "none" =>
                c'.phase = IF told.scene = "none" THEN "recents" ELSE told.scene
           /\ c'.kind = "home" => reader.line.kind = "overviewToHome"]_vars
  BY NextScenes DEF EntryEnds
<1>2. QED
  BY <1>1, ScenesInvariance, PTL DEF Spec, EntryEndsInScene
=============================================================================
