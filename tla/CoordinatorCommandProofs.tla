---------------------- MODULE CoordinatorCommandProofs ----------------------
(***************************************************************************)
(* Proofs about the commands the coordinator sends: their transition ids    *)
(* and what they do to a target that was adopted.  Both properties speak of *)
(* a whole critical section, so the lemmas compare the step a handler takes *)
(* with the history t it started from.                                      *)
(***************************************************************************)
EXTENDS CoordinatorProofs, SequenceTheorems

(* What the guard was told and the open transaction agree: the last command  *)
(* that began a transition carried the transaction's id, no id is ahead of   *)
(* the clock, and a transaction whose target was adopted is an exit.         *)
Linked(s) ==
    /\ s.told.id <= s.clock /\ s.told.adopted <= s.clock
    /\ s.c.kind # "none" =>
         /\ s.c.id > 0
         /\ SourceEnabled => s.told.id = s.c.id
         /\ s.told.adopted = s.c.id => s.c.kind = "exit"

(* An exit whose target was adopted remembers it.                            *)
Remembers(s) ==
    s.c.kind = "exit" /\ s.told.adopted = s.c.id => s.c.unsuppressed

(* An exit whose target was adopted has freed its source.                    *)
Spares(s) ==
    s.c.kind = "exit" /\ s.told.adopted = s.c.id => s.told.source = "free"

Sound(s) == Linked(s) /\ Remembers(s) /\ Spares(s)

(* No command from here on carries a smaller id.                             *)
Floor(s) == IF s.told.id = 0 THEN s.clock ELSE s.told.id

(* The parts of the history the guard's own state depends on.                *)
Alike(t, u) == t.id = u.id /\ t.source = u.source

(* The history is what the commands queued since t told the guard: none, the *)
(* one of a handler, or a handoff and its completion.                        *)
Says(t, s) ==
    \/ s.out = <<>> /\ Alike(t.told, s.told)
    \/ \E m \in Message : s.out = <<m>> /\ Alike(Heard(t.told, m), s.told)
    \/ \E m, n \in Message :
          /\ s.out = <<m, n>> /\ n.name = "complete"
          /\ Alike(Heard(Heard(t.told, m), n), s.told)

(* The commands queued since t carry the id of the transition the guard was  *)
(* last told of, which it accepts, those that name a target name one, and    *)
(* none suppresses the target t had adopted.                                 *)
Accepted(t, s) ==
    /\ Says(t, s) /\ s.clock >= t.clock
    /\ \A i \in DOMAIN s.out :
        /\ s.out[i].id = s.told.id /\ s.out[i].id >= Floor(t)
        /\ s.out[i].name \in {"handoff", "adopt"} => s.out[i].app \in Apps
        /\ s.out[i].name = "handoff" => s.out[i].id # t.told.adopted

(* A step that sends nothing and opens no transaction.                       *)
Silent(s, r) ==
    /\ r \in Steps
    /\ r.told.id = s.told.id /\ r.told.adopted = s.told.adopted
    /\ r.told.source = s.told.source
    /\ r.out = s.out /\ r.clock = s.clock /\ r.c.id = s.c.id
    /\ \/ r.c.kind = "none"
       \/ r.c.kind = s.c.kind /\ r.c.unsuppressed = s.c.unsuppressed

LEMMA SilentKeeps ==
    ASSUME NEW s \in Steps, NEW r, NEW t, Silent(s, r)
    PROVE  /\ Sound(s) => Sound(r)
           /\ Accepted(t, s) => Accepted(t, r)
BY DEF Silent, Sound, Linked, Remembers, Spares, Accepted, Says, Alike

(* A step has said nothing yet.                                              *)
LEMMA StartAccepted ==
    ASSUME NEW s \in Steps, s.out = <<>>
    PROVE  Accepted(s, s)
BY DEF Accepted, Says, Alike, Steps

LEMMA ScheduleSilent ==
    ASSUME NEW s \in Steps
    PROVE  Silent(s, SchedulePolicyCompletion(s))
<1>1. SchedulePolicyCompletion(s) \in Steps
  BY ScheduleStep
<1>2. CASE s.c.policy
  BY <1>1, <1>2 DEF SchedulePolicyCompletion, SetDeadline, Silent, Steps, State
<1>3. CASE ~s.c.policy
  <2>1. SchedulePolicyCompletion(s) = [s EXCEPT !.c = Settled(s.c)]
    BY <1>3 DEF SchedulePolicyCompletion
  <2>2. Settled(s.c).kind = "none" /\ Settled(s.c).id = s.c.id
    BY DEF Settled, Steps, State
  <2>3. QED
    BY <1>1, <2>1, <2>2 DEF Silent, Steps
<1>4. QED
  BY <1>2, <1>3

(* What sending adds to the history.                                         *)
LEMMA SendTells ==
    ASSUME NEW s \in Steps, NEW id \in Nat, NEW app \in Apps \cup {NoApp},
           NEW name \in {"enter", "handoff", "adopt", "complete"}
    PROVE  /\ Send(s, name, id, app).told.id
                = IF SourceEnabled /\ name # "complete" THEN id ELSE s.told.id
           /\ Send(s, name, id, app).told.adopted
                = IF SourceEnabled /\ name = "adopt" THEN id ELSE s.told.adopted
           /\ SourceEnabled /\ name = "adopt"
                => Send(s, name, id, app).told.source = "free"
           /\ ~SourceEnabled \/ (name = "complete" /\ s.told.source = "free")
                => Send(s, name, id, app).told.source = s.told.source
<1> DEFINE m == [name |-> name, id |-> id, app |-> app]
<1>1. /\ Heard(s.told, m).id = IF name # "complete" THEN id ELSE s.told.id
      /\ Heard(s.told, m).adopted = IF name = "adopt" THEN id ELSE s.told.adopted
      /\ name = "adopt" => Heard(s.told, m).source = "free"
      /\ name = "complete" /\ s.told.source = "free" => Heard(s.told, m).source = "free"
  BY DEF Heard, Steps, Told
<1>2. Send(s, name, id, app)
        = IF SourceEnabled
          THEN [s EXCEPT !.out = Append(s.out, m), !.told = Heard(s.told, m)]
          ELSE s
  BY DEF Send
<1> HIDE DEF m
<1>3. QED
  BY <1>1, <1>2 DEF Steps

LEMMA AppendTwo ==
    ASSUME NEW S, NEW n \in S, NEW m \in S
    PROVE  Append(<<n>>, m) = <<n, m>>
<1>1. <<n>> \in Seq(S) /\ <<n, m>> \in Seq(S) /\ Append(<<n>>, m) \in Seq(S)
  OBVIOUS
<1>2. Len(Append(<<n>>, m)) = 2 /\ Len(<<n, m>>) = 2
  OBVIOUS
<1>3. \A i \in 1..2 : Append(<<n>>, m)[i] = <<n, m>>[i]
  OBVIOUS
<1>4. QED
  BY <1>1, <1>2, <1>3, SeqEqual

LEMMA HeardAlike ==
    ASSUME NEW t \in Told, NEW u \in Told, Alike(t, u), NEW m \in Message
    PROVE  Alike(Heard(t, m), Heard(u, m))
BY DEF Alike, Heard, Told, Message

LEMMA SendSays ==
    ASSUME NEW s \in Steps, NEW t \in Steps, Says(t, s), SourceEnabled,
           NEW m \in Message, NEW r \in Steps,
           m.name = "complete" \/ s.out = <<>>, Len(s.out) < 2,
           r.out = Append(s.out, m), Alike(Heard(s.told, m), r.told)
    PROVE  Says(t, r)
<1>0. t.told \in Told /\ s.told \in Told
  BY DEF Steps
<1>1. CASE s.out = <<>> /\ Alike(t.told, s.told)
  <2>1. Alike(Heard(t.told, m), r.told)
    BY <1>0, <1>1, HeardAlike DEF Alike
  <2>2. r.out = <<m>>
    BY <1>1
  <2>3. QED
    BY <2>1, <2>2 DEF Says
<1>2. ASSUME NEW n \in Message, s.out = <<n>>, Alike(Heard(t.told, n), s.told)
      PROVE  Says(t, r)
  <2>1. Heard(t.told, n) \in Told
    BY <1>0 DEF Heard, Told, Message
  <2>2. Alike(Heard(Heard(t.told, n), m), r.told)
    BY <1>0, <1>2, <2>1, HeardAlike DEF Alike
  <2>3. m.name = "complete"
    BY <1>2
  <2>4. r.out = <<n, m>>
    BY <1>2, AppendTwo
  <2>5. QED
    BY <2>2, <2>3, <2>4 DEF Says
<1>3. QED
  BY <1>1, <1>2 DEF Says

LEMMA SendAccepted ==
    ASSUME NEW s \in Steps, NEW id \in Nat, NEW app \in Apps \cup {NoApp},
           NEW name \in {"enter", "handoff", "adopt", "complete"}, NEW t \in Steps,
           Accepted(t, s),
           SourceEnabled => id >= Floor(t),
           name \in {"handoff", "adopt"} => app \in Apps,
           name = "handoff" => id # t.told.adopted,
           SourceEnabled /\ name = "complete" => id = s.told.id,
           name = "complete" \/ s.out = <<>>, Len(s.out) < 2
    PROVE  Accepted(t, Send(s, name, id, app))
<1> DEFINE m == [name |-> name, id |-> id, app |-> app]
           r == Send(s, name, id, app)
<1>1. CASE ~SourceEnabled
  BY <1>1 DEF Send
<1>2. CASE SourceEnabled
  <2>1. r.out = Append(s.out, m) /\ s.out \in Seq(Message)
    BY <1>2 DEF Send, Steps
  <2>2. r.told.id = id /\ r.clock = s.clock /\ r \in Steps
    <3>1. r.clock = s.clock /\ r \in Steps
      BY SendStep
    <3>2. r.told.id = IF SourceEnabled /\ name # "complete" THEN id ELSE s.told.id
      BY SendTells
    <3> HIDE DEF r
    <3>3. QED
      BY <1>2, <3>1, <3>2
  <2>3. m \in Message
    BY DEF Message
  <2>4. Alike(Heard(s.told, m), r.told)
    BY <1>2 DEF Send, Alike, Steps
  <2> HIDE DEF r
  <2>5. Says(t, r)
    BY <1>2, <2>1, <2>2, <2>3, <2>4, SendSays DEF Accepted
  <2>6. ASSUME NEW i \in DOMAIN r.out
        PROVE  /\ r.out[i].id = r.told.id /\ r.out[i].id >= Floor(t)
               /\ r.out[i].name \in {"handoff", "adopt"} => r.out[i].app \in Apps
               /\ r.out[i].name = "handoff" => r.out[i].id # t.told.adopted
    <3>1. i \in 1..(Len(s.out) + 1)
      BY <2>1, <2>6
    <3>2. CASE i = Len(s.out) + 1
      <4>1. r.out[i] = m
        BY <2>1, <3>2
      <4>2. QED
        BY <1>2, <2>2, <4>1
    <3>3. CASE i # Len(s.out) + 1
      <4>1. i \in DOMAIN s.out /\ r.out[i] = s.out[i]
        BY <2>1, <3>1, <3>3
      <4>2. name = "complete"
        BY <4>1
      <4>3. QED
        BY <1>2, <2>2, <4>1, <4>2 DEF Accepted
    <3>4. QED
      BY <3>2, <3>3
  <2>7. r.clock >= t.clock
    BY <2>2 DEF Accepted
  <2>8. QED
    BY <2>5, <2>6, <2>7 DEF Accepted, r
<1>3. QED
  BY <1>1, <1>2

(* What opening or joining a transaction of some kind leaves.                *)
Opened(s, r, kind) ==
    /\ r \in Steps
    /\ r.c.kind = kind /\ r.c.unsuppressed = s.c.unsuppressed
    /\ r.told.id = s.told.id /\ r.told.adopted = s.told.adopted
    /\ r.told.source = s.told.source
    /\ r.out = s.out /\ r.told.id <= r.clock /\ r.told.adopted <= r.clock
    /\ r.c.id > 0 /\ r.clock >= s.clock
    /\ SourceEnabled => r.c.id >= Floor(s) /\ r.c.id <= r.clock
    /\ r.told.adopted = r.c.id =>
         s.c.kind = kind /\ kind = "exit"

LEMMA PrepareOpens ==
    ASSUME NEW s \in Steps, Linked(s), NEW kind \in Kinds \ {"none"},
           NEW phase \in Phases
    PROVE  Opened(s, PrepareTransition(s, kind, phase), kind)
<1> DEFINE r == PrepareTransition(s, kind, phase)
           id == IF s.c.kind # kind THEN s.clock + 1 ELSE s.c.id
<1>1. r \in Steps /\ r.c.kind = kind
  BY PrepareStep
<1>2. /\ r.c.id = id /\ r.c.unsuppressed = s.c.unsuppressed
      /\ r.clock = IF s.c.kind # kind THEN s.clock + 1 ELSE s.clock
      /\ r.told.id = s.told.id /\ r.told.adopted = s.told.adopted
      /\ r.told.source = s.told.source /\ r.out = s.out
  BY DEF PrepareTransition, NextId, Steps, State, Told
<1>3. s.clock \in Nat /\ s.c.id \in Nat /\ s.told.id \in Nat /\ s.told.adopted \in Nat
  BY DEF Steps, State, Told
<1> HIDE DEF r
<1>4. QED
  BY <1>1, <1>2, <1>3 DEF Opened, Linked, Floor, r

(* A begun transition is announced by an enter.                              *)
LEMMA EnterLinks ==
    ASSUME NEW s \in Steps, NEW r, NEW kind \in Kinds \ {"none"},
           Opened(s, r, kind), ~(s.c.kind = "exit" /\ kind = "exit"), s.out = <<>>
    PROVE  LET sent == Send(r, "enter", r.c.id, NoApp)
           IN  /\ sent \in Steps /\ Sound(sent) /\ Accepted(s, sent)
               /\ sent.c.kind = kind
<1> DEFINE sent == Send(r, "enter", r.c.id, NoApp)
<1>1. r \in Steps /\ r.c.id \in Nat /\ r.clock \in Nat
  BY DEF Opened, Steps, State
<1>2. /\ sent \in Steps /\ sent.c = r.c /\ sent.clock = r.clock
  BY <1>1, SendStep
<1>3. /\ sent.told.id = IF SourceEnabled THEN r.c.id ELSE r.told.id
      /\ sent.told.adopted = r.told.adopted
  BY <1>1, SendTells
<1>4. Accepted(s, r)
  BY DEF Opened, Accepted, Says, Alike
<1>5. Accepted(s, sent)
  <2>1. SourceEnabled => r.c.id >= Floor(s)
    BY DEF Opened
  <2>2. r.out = <<>> /\ Len(r.out) < 2
    BY DEF Opened
  <2>3. QED
    BY <1>1, <1>4, <2>1, <2>2, SendAccepted
<1> HIDE DEF sent
<1>6. Sound(sent) /\ sent.c.kind = kind
  BY <1>1, <1>2, <1>3 DEF Opened, Sound, Linked, Remembers, Spares
<1>7. QED
  BY <1>2, <1>5, <1>6 DEF sent

(* Setting the policy, the deadline or a field of the scene is silent.       *)
LEMMA FieldsSilent ==
    ASSUME NEW s \in Steps
    PROVE  /\ Silent(s, BeginPolicy(s))
           /\ Silent(s, SetDeadline(s))
           /\ \A g \in BOOLEAN : Silent(s, [s EXCEPT !.c.gesture = g])
           /\ \A p \in Apps : Silent(s, [s EXCEPT !.c.source = p])
           /\ \A phase \in Phases : Silent(s, [s EXCEPT !.c.phase = phase])
BY DEF BeginPolicy, SetDeadline, Silent, Steps, State

-----------------------------------------------------------------------------
(* The critical sections                                                     *)

LEMMA StartEntryCommands ==
    ASSUME NEW s \in Steps, Sound(s), s.out = <<>>
    PROVE  Sound(StartEntry(s)) /\ Accepted(s, StartEntry(s))
<1> DEFINE s1 == [s EXCEPT !.c.unsuppressed = FALSE]
           s2 == PrepareTransition(s1, "entry", "entering")
           s3 == Send(s2, "enter", s2.c.id, NoApp)
           s4 == BeginPolicy(s3)
           s5 == SetDeadline(s4)
<1>1. /\ s1 \in Steps /\ Linked(s1) /\ s1.out = <<>>
      /\ s1.told = s.told /\ s1.clock = s.clock
  BY DEF Sound, Linked, Steps, State
<1> HIDE DEF s1
<1>2. Opened(s1, s2, "entry")
  BY <1>1, PrepareOpens DEF Kinds, Phases
<1> HIDE DEF s2
<1>3. s3 \in Steps /\ Sound(s3) /\ Accepted(s, s3)
  <2>1. s3 \in Steps /\ Sound(s3) /\ Accepted(s1, s3)
    BY <1>1, <1>2, EnterLinks DEF Kinds
  <2>2. QED
    BY <1>1, <2>1 DEF Accepted, Says, Floor
<1> HIDE DEF s3
<1>4. s4 \in Steps /\ Sound(s4) /\ Accepted(s, s4)
  BY <1>3, FieldsSilent, SilentKeeps, PolicyStep
<1> HIDE DEF s4
<1>5. s5 \in Steps /\ Sound(s5) /\ Accepted(s, s5)
  BY <1>4, FieldsSilent, SilentKeeps DEF Silent
<1>6. StartEntry(s) = [s5 EXCEPT !.c.gesture = TRUE]
  BY DEF StartEntry, s1, s2, s3, s4
<1> HIDE DEF s5
<1>7. QED
  BY <1>5, <1>6, FieldsSilent, SilentKeeps

LEMMA StartLeavingCommands ==
    ASSUME NEW s \in Steps, Sound(s), s.out = <<>>
    PROVE  Sound(StartLeaving(s)) /\ Accepted(s, StartLeaving(s))
<1> DEFINE s1 == PrepareTransition(s, "exit", "leaving")
           s2 == IF s.c.kind = "exit" THEN s ELSE Send(s1, "enter", s1.c.id, NoApp)
           s3 == BeginPolicy(s2)
<1>1. s2 \in Steps /\ Sound(s2) /\ Accepted(s, s2)
  <2>1. CASE s.c.kind = "exit"
    BY <2>1, StartAccepted
  <2>2. CASE s.c.kind # "exit"
    <3>1. Opened(s, s1, "exit")
      BY PrepareOpens DEF Kinds, Phases, Sound
    <3>2. s2 = Send(s1, "enter", s1.c.id, NoApp)
      BY <2>2
    <3> HIDE DEF s1, s2
    <3>3. QED
      BY <2>2, <3>1, <3>2, EnterLinks DEF Kinds
  <2>3. QED
    BY <2>1, <2>2
<1> HIDE DEF s2
<1>2. s3 \in Steps /\ Sound(s3) /\ Accepted(s, s3)
  BY <1>1, FieldsSilent, SilentKeeps, PolicyStep
<1>3. StartLeaving(s) = SetDeadline(s3)
  BY DEF StartLeaving, s2
<1> HIDE DEF s3
<1>4. QED
  BY <1>2, <1>3, FieldsSilent, SilentKeeps

LEMMA StartHomeCommands ==
    ASSUME NEW s \in Steps, Sound(s), s.out = <<>>
    PROVE  Sound(StartHome(s)) /\ Accepted(s, StartHome(s))
<1> DEFINE s1 == PrepareTransition(s, "home", "home")
           s2 == Send(s1, "enter", s1.c.id, NoApp)
           s3 == BeginPolicy(s2)
           s4 == [s3 EXCEPT !.c.gesture = FALSE]
<1>1. Opened(s, s1, "home")
  BY PrepareOpens DEF Kinds, Phases, Sound
<1> HIDE DEF s1
<1>2. s2 \in Steps /\ Sound(s2) /\ Accepted(s, s2)
  BY <1>1, EnterLinks DEF Kinds
<1> HIDE DEF s2
<1>3. s3 \in Steps /\ Sound(s3) /\ Accepted(s, s3)
  BY <1>2, FieldsSilent, SilentKeeps, PolicyStep
<1> HIDE DEF s3
<1>4. s4 \in Steps /\ Sound(s4) /\ Accepted(s, s4)
  BY <1>3, FieldsSilent, SilentKeeps DEF Silent
<1>5. StartHome(s) = SchedulePolicyCompletion(s4)
  BY DEF StartHome, s1, s2, s3
<1> HIDE DEF s4
<1>6. QED
  BY <1>4, <1>5, ScheduleSilent, SilentKeeps

LEMMA SettleSurfaceCommands ==
    ASSUME NEW s \in Steps, NEW phase \in Phases, Sound(s), s.out = <<>>
    PROVE  /\ Sound(SettleSurface(s, phase))
           /\ Accepted(s, SettleSurface(s, phase))
<1> DEFINE s1 == [s EXCEPT !.c.phase = phase, !.c.gesture = FALSE,
                           !.told.scene = phase]
<1>1. Silent(s, s1)
  BY DEF Silent, Steps, State, Told
<1>2. SettleSurface(s, phase) = SchedulePolicyCompletion(s1)
  BY DEF SettleSurface
<1> HIDE DEF s1
<1>3. s1 \in Steps /\ Sound(s1) /\ Accepted(s, s1)
  <2>1. Accepted(s, s)
    BY StartAccepted
  <2>2. QED
    BY <1>1, <2>1, SilentKeeps DEF Silent
<1>4. QED
  BY <1>2, <1>3, ScheduleSilent, SilentKeeps

LEMMA CompleteToAppCommands ==
    ASSUME NEW s \in Steps, NEW cancel \in BOOLEAN, Sound(s), s.out = <<>>
    PROVE  /\ Sound(CompleteToApp(s, cancel))
           /\ Accepted(s, CompleteToApp(s, cancel))
<1> DEFINE kind == IF cancel /\ s.c.gesture /\ s.c.kind = "entry"
                   THEN "exit" ELSE s.c.kind
           left == [s EXCEPT !.c.kind = kind, !.c.phase = "leaving"]
           timed == SchedulePolicyCompletion(left)
           done == IF s.c.id # 0 /\ kind = "exit" THEN SendComplete(timed) ELSE s
<1>1. done \in Steps /\ Sound(done) /\ Accepted(s, done)
  <2>1. CASE s.c.id # 0 /\ kind = "exit"
    <3>1. /\ left \in Steps /\ left.c.id = s.c.id /\ left.told = s.told
          /\ left.out = <<>> /\ left.clock = s.clock /\ left.c.kind = "exit"
          /\ left.c.unsuppressed = s.c.unsuppressed /\ s.c.kind \in {"entry", "exit"}
      BY <2>1 DEF Steps, State, Kinds, Phases
    <3>2. done = Send(timed, "complete", timed.c.id, NoApp)
      BY <2>1 DEF SendComplete
    <3> HIDE DEF left, done
    <3>3. Sound(left)
      BY <3>1 DEF Sound, Linked, Remembers, Spares
    <3>4. Silent(left, timed)
      BY <3>1, ScheduleSilent
    <3>5. /\ timed \in Steps /\ timed.c.id = s.c.id /\ timed.out = <<>>
          /\ Alike(s.told, timed.told) /\ timed.clock = s.clock /\ Sound(timed)
      BY <3>1, <3>3, <3>4, SilentKeeps DEF Silent, Alike
    <3>6. /\ timed.c.id \in Nat /\ s.told.id \in Nat /\ NoApp \in Apps \cup {NoApp}
          /\ s.clock \in Nat /\ Len(timed.out) < 2
      BY <3>5 DEF Steps, State, Told
    <3>7. SourceEnabled => timed.c.id = timed.told.id /\ timed.c.id >= Floor(s)
      BY <3>1, <3>5, <3>6 DEF Sound, Linked, Floor, Alike
    <3>8. Accepted(s, timed)
      BY <3>5, <3>6 DEF Accepted, Says
    <3> HIDE DEF timed
    <3>9. done \in Steps /\ done.c = timed.c /\ done.clock = timed.clock
      BY <3>2, <3>5, <3>6, SendStep
    <3>10. /\ done.told.id = timed.told.id /\ done.told.adopted = timed.told.adopted
           /\ timed.told.source = "free" => done.told.source = "free"
      BY <3>2, <3>5, <3>6, SendTells
    <3>11. Accepted(s, done)
      BY <3>2, <3>5, <3>6, <3>7, <3>8, SendAccepted
    <3>12. Sound(done)
      BY <3>5, <3>9, <3>10 DEF Sound, Linked, Remembers, Spares
    <3>13. QED
      BY <3>9, <3>11, <3>12
  <2>2. CASE ~(s.c.id # 0 /\ kind = "exit")
    BY <2>2, StartAccepted
  <2>3. QED
    BY <2>1, <2>2
<1>2. CompleteToApp(s, cancel) = [done EXCEPT !.c.gesture = FALSE]
  BY DEF CompleteToApp
<1> HIDE DEF done
<1>3. QED
  BY <1>1, <1>2, FieldsSilent, SilentKeeps

(* A resumed target: it is adopted, or, being the source, handed the         *)
(* transition and completed; never the latter once it was adopted.           *)
LEMMA HandoffTargetCommands ==
    ASSUME NEW s \in Steps, NEW p \in Apps, Sound(s), s.out = <<>>
    PROVE  /\ Sound(HandoffTarget(s, p))
           /\ Accepted(s, HandoffTarget(s, p))
<1> DEFINE same == ~s.c.unsuppressed /\ s.c.source = p
           named == [s EXCEPT !.c.source = p]
           leaving == IF s.c.kind = "exit" THEN named
                      ELSE BeginPolicy(PrepareTransition(named, "exit", "leaving"))
           sent == Send(leaving, IF same THEN "handoff" ELSE "adopt",
                        leaving.c.id, p)
           marked == [sent EXCEPT !.c.unsuppressed = ~same, !.told.target = TRUE]
           timed == SchedulePolicyCompletion(marked)
<1>0. /\ p \in Apps \cup {NoApp} /\ NoApp \in Apps \cup {NoApp}
      /\ s.told.id \in Nat /\ s.told.adopted \in Nat /\ s.clock \in Nat
      /\ s.c.id \in Nat /\ s.c.unsuppressed \in BOOLEAN
  BY DEF Steps, State, Told
<1>1. /\ named \in Steps /\ named.told = s.told /\ named.out = <<>>
      /\ named.clock = s.clock /\ named.c.kind = s.c.kind
      /\ named.c.id = s.c.id /\ named.c.unsuppressed = s.c.unsuppressed
  BY DEF Steps, State
<1>2. Sound(named)
  BY <1>1 DEF Sound, Linked, Remembers, Spares
<1>3. CASE s.c.phase = "app" /\ s.c.kind = "none"
  <2> DEFINE known == [named EXCEPT !.c.unsuppressed = FALSE, !.clock = @ + 1]
             r == Send(known, "adopt", s.clock + 1, p)
  <2>1. /\ known \in Steps /\ known.clock = s.clock + 1 /\ known.told = s.told
        /\ known.c.kind = "none" /\ known.out = <<>>
    <3> HIDE DEF named
    <3> DEFINE state == [named.c EXCEPT !.unsuppressed = FALSE]
    <3>1. s.clock + 1 \in Nat /\ named.clock + 1 = s.clock + 1
      BY <1>0, <1>1
    <3>2. state \in State /\ state.kind = "none"
      BY <1>1, <1>3 DEF Steps, State
    <3>3. known = [named EXCEPT !.c = state, !.clock = named.clock + 1]
      BY <1>1 DEF Steps, State
    <3> HIDE DEF state, known
    <3>4. QED
      BY <1>1, <3>1, <3>2, <3>3 DEF Steps
  <2>2. HandoffTarget(s, p) = r
    BY <1>3 DEF HandoffTarget
  <2> HIDE DEF known
  <2>3. /\ r.c = known.c /\ r.clock = known.clock
        /\ r.told.id = IF SourceEnabled THEN s.clock + 1 ELSE s.told.id
        /\ r.told.adopted = IF SourceEnabled THEN s.clock + 1 ELSE s.told.adopted
    <3>1. s.clock + 1 \in Nat
      BY <1>0
    <3>2. r.c = known.c /\ r.clock = known.clock
      BY <1>0, <2>1, <3>1, SendStep
    <3>3. /\ r.told.id = IF SourceEnabled THEN s.clock + 1 ELSE known.told.id
          /\ r.told.adopted = IF SourceEnabled THEN s.clock + 1
                              ELSE known.told.adopted
      BY <1>0, <2>1, <3>1, SendTells
    <3>4. QED
      BY <2>1, <3>2, <3>3
  <2>4. s.clock + 1 >= Floor(s) /\ s.clock + 1 \in Nat /\ Len(known.out) < 2
    BY <1>0, <2>1 DEF Sound, Linked, Floor
  <2>5. Accepted(s, known)
    BY <1>0, <2>1 DEF Accepted, Says, Alike
  <2>6. Accepted(s, r)
    BY <1>0, <2>1, <2>4, <2>5, SendAccepted
  <2> HIDE DEF r
  <2>7. Sound(r)
    BY <1>0, <2>1, <2>3 DEF Sound, Linked, Remembers, Spares
  <2>8. QED
    BY <2>2, <2>6, <2>7
<1>4. CASE ~(s.c.phase = "app" /\ s.c.kind = "none")
  <2>1. /\ leaving \in Steps /\ leaving.out = <<>> /\ leaving.c.kind = "exit"
        /\ leaving.told.id = s.told.id /\ leaving.told.adopted = s.told.adopted
        /\ leaving.told.source = s.told.source /\ leaving.clock >= s.clock
        /\ leaving.c.id > 0 /\ leaving.c.id \in Nat
        /\ s.told.id <= leaving.clock /\ s.told.adopted <= leaving.clock
        /\ (SourceEnabled => leaving.c.id >= Floor(s))
        /\ (SourceEnabled => leaving.c.id <= leaving.clock)
        /\ (s.told.adopted = leaving.c.id
               => s.c.unsuppressed /\ s.told.source = "free")
    <3> HIDE DEF named
    <3>1. CASE s.c.kind = "exit"
      <4>1. leaving = named
        BY <3>1
      <4>2. QED
        BY <1>0, <1>1, <3>1, <4>1
        DEF Sound, Linked, Remembers, Spares, Floor
    <3>2. CASE s.c.kind # "exit"
      <4> DEFINE begun == PrepareTransition(named, "exit", "leaving")
      <4>1. Opened(named, begun, "exit")
        BY <1>1, <1>2, PrepareOpens DEF Kinds, Phases, Sound
      <4>2. leaving = BeginPolicy(begun)
        BY <3>2
      <4> HIDE DEF begun, leaving
      <4>3. begun \in Steps
        BY <4>1 DEF Opened
      <4>4. /\ leaving \in Steps /\ leaving.c.kind = begun.c.kind
            /\ leaving.c.id = begun.c.id /\ leaving.told = begun.told
            /\ leaving.out = begun.out /\ leaving.clock = begun.clock
        <5>1. leaving \in Steps
          BY <4>2, <4>3, PolicyStep
        <5>2. leaving = [begun EXCEPT !.c = [begun.c EXCEPT !.policy = TRUE]]
          BY <4>2 DEF BeginPolicy
        <5>3. QED
          BY <4>3, <5>1, <5>2 DEF Steps, State
      <4>5. begun.c.id \in Nat
        BY <4>3 DEF Steps, State
      <4>6. QED
        BY <1>1, <3>2, <4>1, <4>4, <4>5 DEF Opened, Floor
    <3>3. QED
      BY <3>1, <3>2
  <2> HIDE DEF leaving, named
  <2>2. Accepted(s, leaving) /\ Len(leaving.out) < 2
    BY <2>1 DEF Accepted, Says, Alike
  <2>3. /\ sent \in Steps /\ sent.c = leaving.c /\ sent.clock = leaving.clock
        /\ Accepted(s, sent) /\ Len(sent.out) < 2
        /\ (SourceEnabled /\ ~same => sent.told.source = "free")
        /\ (~SourceEnabled => sent.told.source = s.told.source)
        /\ sent.told.id = (IF SourceEnabled THEN leaving.c.id ELSE s.told.id)
        /\ sent.told.adopted = (IF SourceEnabled /\ ~same THEN leaving.c.id
                                ELSE s.told.adopted)
    <3>0. Len(sent.out) < 2
      BY <2>1 DEF Send, Steps
    <3>1. CASE same
      <4>1. sent = Send(leaving, "handoff", leaving.c.id, p)
        BY <3>1
      <4>2. leaving.c.id # s.told.adopted
        BY <2>1, <3>1
      <4> HIDE DEF sent
      <4>3. Accepted(s, sent)
        BY <1>0, <2>1, <2>2, <4>1, <4>2, SendAccepted
      <4>4. /\ sent.told.id = (IF SourceEnabled THEN leaving.c.id ELSE s.told.id)
            /\ sent.told.adopted = s.told.adopted
            /\ ~SourceEnabled => sent.told.source = leaving.told.source
        BY <1>0, <2>1, <4>1, SendTells
      <4>5. QED
        BY <1>0, <2>1, <3>0, <3>1, <4>1, <4>3, <4>4, SendStep
    <3>2. CASE ~same
      <4>1. sent = Send(leaving, "adopt", leaving.c.id, p)
        BY <3>2
      <4> HIDE DEF sent
      <4>2. Accepted(s, sent)
        BY <1>0, <2>1, <2>2, <4>1, SendAccepted
      <4>3. /\ sent.told.id = (IF SourceEnabled THEN leaving.c.id ELSE s.told.id)
            /\ sent.told.adopted = (IF SourceEnabled THEN leaving.c.id
                                    ELSE s.told.adopted)
            /\ SourceEnabled => sent.told.source = "free"
            /\ ~SourceEnabled => sent.told.source = leaving.told.source
        BY <1>0, <2>1, <4>1, SendTells
      <4> HIDE DEF same
      <4>4. /\ leaving \in Steps /\ leaving.c.id \in Nat
            /\ "adopt" \in {"enter", "handoff", "adopt", "complete"}
        BY <2>1
      <4>5. sent \in Steps /\ sent.c = leaving.c /\ sent.clock = leaving.clock
        BY <1>0, <4>1, <4>4, SendStep
      <4>6. QED
        BY <2>1, <3>0, <3>2, <4>2, <4>3, <4>5
    <3>3. QED
      BY <3>1, <3>2
  <2> HIDE DEF sent
  <2>4. /\ marked \in Steps /\ marked.c.kind = "exit" /\ marked.c.id = leaving.c.id
        /\ marked.c.unsuppressed = ~same
        /\ marked.told.id = sent.told.id /\ marked.told.adopted = sent.told.adopted
        /\ marked.told.source = sent.told.source
        /\ marked.clock = sent.clock /\ marked.out = sent.out
    <3> HIDE DEF same
    <3>1. same \in BOOLEAN
      BY DEF same
    <3> DEFINE state == [sent.c EXCEPT !.unsuppressed = ~same]
               noted == [sent.told EXCEPT !.target = TRUE]
    <3>2. /\ state \in State /\ state.kind = "exit" /\ state.id = leaving.c.id
          /\ state.unsuppressed = ~same
      BY <2>1, <2>3, <3>1 DEF Steps, State
    <3>3. /\ noted \in Told /\ noted.id = sent.told.id
          /\ noted.adopted = sent.told.adopted /\ noted.source = sent.told.source
      BY <2>3 DEF Steps, Told
    <3>4. marked = [sent EXCEPT !.c = state, !.told = noted]
      OBVIOUS
    <3> HIDE DEF state, noted, marked
    <3>5. QED
      BY <2>3, <3>2, <3>3, <3>4 DEF Steps
  <2> HIDE DEF marked
  <2>5. Sound(marked)
    BY <1>0, <2>1, <2>3, <2>4 DEF Sound, Linked, Remembers, Spares
  <2>6. Accepted(s, marked)
    BY <2>3, <2>4 DEF Accepted, Says, Alike
  <2>7. Silent(marked, timed)
    BY <2>4, ScheduleSilent
  <2>8. timed \in Steps /\ Sound(timed) /\ Accepted(s, timed)
    BY <2>4, <2>5, <2>6, <2>7, SilentKeeps DEF Silent
  <2>9. /\ timed.c.id = leaving.c.id /\ timed.told.id = sent.told.id
        /\ timed.told.adopted = sent.told.adopted /\ timed.out = sent.out
    BY <2>4, <2>7 DEF Silent
  <2>10. HandoffTarget(s, p)
          = IF same THEN Send(timed, "complete", timed.c.id, NoApp) ELSE timed
    BY <1>4 DEF HandoffTarget, IsSource, SendComplete, timed, marked, sent,
       leaving, named
  <2> HIDE DEF timed
  <2> DEFINE r == Send(timed, "complete", timed.c.id, NoApp)
  <2>11. /\ r \in Steps /\ r.c = timed.c /\ r.clock = timed.clock
         /\ r.told.id = timed.told.id /\ r.told.adopted = timed.told.adopted
         /\ (timed.told.source = "free" => r.told.source = "free")
    <3>1. timed.c.id \in Nat
      BY <2>1, <2>9
    <3>2. r \in Steps /\ r.c = timed.c /\ r.clock = timed.clock
      BY <1>0, <2>8, <3>1, SendStep
    <3>3. /\ r.told.id = timed.told.id /\ r.told.adopted = timed.told.adopted
          /\ timed.told.source = "free" => r.told.source = "free"
      BY <1>0, <2>8, <3>1, SendTells
    <3>4. QED
      BY <3>2, <3>3
  <2>12. Accepted(s, r)
    <3>1. SourceEnabled => timed.c.id = timed.told.id
      BY <2>3, <2>9
    <3>2. timed.c.id \in Nat /\ Len(timed.out) < 2
      BY <2>1, <2>3, <2>9
    <3>3. SourceEnabled => timed.c.id >= Floor(s)
      BY <2>1, <2>9
    <3>4. QED
      BY <1>0, <2>8, <3>1, <3>2, <3>3, SendAccepted
  <2> HIDE DEF r
  <2>13. Sound(r)
    BY <2>8, <2>11 DEF Sound, Linked, Remembers, Spares
  <2>14. QED
    BY <2>8, <2>10, <2>12, <2>13 DEF r
<1>5. QED
  BY <1>3, <1>4

-----------------------------------------------------------------------------
(* The actions                                                               *)

Ordered == Sound(Step)

(* Where a critical section ends, with the commands it sent.                 *)
Taken == [c |-> c', clock |-> clock', out |-> out', told |-> told']

Commands == Accepted(Step, Taken)

LEMMA QuietOrdered ==
    ASSUME TypeOK, Ordered, Quiet
    PROVE  Ordered' /\ Commands
BY DEF TypeOK, Ordered, Quiet, Commands, Accepted, Says, Alike, Sound, Linked,
   Remembers, Spares, Step, Taken

LEMMA DoneOrdered ==
    ASSUME NEW s \in Steps, Sound(s), Accepted(Step, s), Done(s)
    PROVE  Ordered' /\ Commands
<1>1. c' = s.c /\ clock' = s.clock /\ out' = s.out /\ told' = s.told
  BY DEF Done, Becomes
<1>2. Ordered'
  BY <1>1 DEF Ordered, Sound, Linked, Remembers, Spares, Step
<1>3. Commands
  BY <1>1 DEF Commands, Accepted, Says, Taken
<1>4. QED
  BY <1>2, <1>3

LEMMA HandlerOrdered ==
    ASSUME TypeOK, Ordered, HandleEvent
    PROVE  Ordered' /\ Commands
<1>0. /\ Step \in Steps /\ Step.c = c /\ Step.told = told /\ Step.out = <<>>
      /\ Sound(Step) /\ Accepted(Step, Step)
  BY PresentStep, StartAccepted DEF Ordered, Step
<1>1. CASE HandleTargetResumed
  <2>1. reader.line.app \in Apps
    BY <1>1 DEF HandleTargetResumed, Handles, TypeOK, Reader, LogLines, NoLine,
       Resumed, Line
  <2>2. QED
    BY <1>0, <1>1, <2>1, HandoffTargetCommands, HandoffTargetStep, DoneOrdered
    DEF HandleTargetResumed
<1>2. CASE HandleLauncherResumed
  <2>1. CASE Done(Step)
    BY <1>0, <2>1, DoneOrdered
  <2>2. CASE Done(SchedulePolicyCompletion([Step EXCEPT !.c.phase = "home"]))
    <3> DEFINE s == [Step EXCEPT !.c.phase = "home"]
    <3>1. Silent(Step, s)
      BY <1>0, FieldsSilent DEF Phases
    <3> HIDE DEF s
    <3>2. s \in Steps /\ Sound(s) /\ Accepted(Step, s)
      BY <1>0, <3>1, SilentKeeps DEF Silent
    <3>3. Silent(s, SchedulePolicyCompletion(s))
      BY <3>2, ScheduleSilent
    <3>4. /\ SchedulePolicyCompletion(s) \in Steps
          /\ Sound(SchedulePolicyCompletion(s))
          /\ Accepted(Step, SchedulePolicyCompletion(s))
      BY <3>2, <3>3, SilentKeeps DEF Silent
    <3>5. Done(SchedulePolicyCompletion(s))
      BY <2>2 DEF s
    <3>6. QED
      BY <3>4, <3>5, DoneOrdered
  <2>3. CASE Decide("home")
    BY <2>3, QuietOrdered DEF Decide
  <2>4. QED
    BY <1>2, <2>1, <2>2, <2>3 DEF HandleLauncherResumed
<1>3. CASE HandleOverviewToggle
  BY <1>3, QuietOrdered DEF HandleOverviewToggle, Decide
<1>4. CASE HandleEntry
  BY <1>0, <1>4, StartEntryCommands, StartEntryStep, DoneOrdered DEF HandleEntry
<1>5. CASE HandleGestureToHome
  BY <1>0, <1>5, SettleSurfaceCommands, SettleSurfaceStep, DoneOrdered
  DEF HandleGestureToHome, Phases
<1>6. CASE HandleEnterOverview
  BY <1>0, <1>6, SettleSurfaceCommands, SettleSurfaceStep, DoneOrdered
  DEF HandleEnterOverview, Phases
<1>7. CASE HandleOverviewToHome
  BY <1>0, <1>7, StartHomeCommands, StartHomeStep, DoneOrdered
  DEF HandleOverviewToHome
<1>8. CASE HandleExit
  BY <1>0, <1>8, StartLeavingCommands, StartLeavingStep, DoneOrdered
  DEF HandleExit
<1>9. CASE HandleExitComplete
  BY <1>0, <1>9, CompleteToAppCommands, CompleteToAppStep, DoneOrdered
  DEF HandleExitComplete
<1>10. CASE HandleCancel
  <2>1. CASE Decide("cancel")
    BY <2>1, QuietOrdered DEF Decide
  <2>2. CASE Done(Step)
    BY <1>0, <2>2, DoneOrdered
  <2>3. QED
    BY <1>10, <2>1, <2>2 DEF HandleCancel
<1>11. CASE Act
  <2>1. CASE Done(StartHome(Step))
    BY <1>0, <2>1, StartHomeCommands, StartHomeStep, DoneOrdered
  <2>2. CASE Done(StartLeaving(Step))
    BY <1>0, <2>2, StartLeavingCommands, StartLeavingStep, DoneOrdered
  <2>3. CASE Done(StartEntry(Step))
    BY <1>0, <2>3, StartEntryCommands, StartEntryStep, DoneOrdered
  <2>4. CASE Done(CompleteToApp(Step, TRUE))
    BY <1>0, <2>4, CompleteToAppCommands, CompleteToAppStep, DoneOrdered
  <2>5. QED
    BY <1>11, <2>1, <2>2, <2>3, <2>4 DEF Act
<1>12. QED
  BY <1>1, <1>2, <1>3, <1>4, <1>5, <1>6, <1>7, <1>8, <1>9, <1>10, <1>11
  DEF HandleEvent

-----------------------------------------------------------------------------
(* The invariant                                                             *)

LEMMA InitOrdered == Init => Ordered
<1> SUFFICES ASSUME Init PROVE Ordered
  OBVIOUS
<1>1. PICK phase \in InitialPhases, source \in InitialSources :
        LET again == phase = "recents" /\ SourceEnabled /\ source # NoApp
            fresh == [c |-> FreshState(phase, source, IF again THEN 1 ELSE 0),
                      clock |-> IF again THEN 1 ELSE 0,
                      out |-> <<>>, told |-> NothingTold]
            s == IF again THEN Send(fresh, "enter", 1, NoApp) ELSE fresh
        IN  c = s.c /\ clock = s.clock /\ out = s.out /\ told = s.told
  BY DEF Init
<1> DEFINE again == phase = "recents" /\ SourceEnabled /\ source # NoApp
           n == IF again THEN 1 ELSE 0
           fresh == [c |-> FreshState(phase, source, n), clock |-> n,
                     out |-> <<>>, told |-> NothingTold]
           s == IF again THEN Send(fresh, "enter", 1, NoApp) ELSE fresh
<1>2. c = s.c /\ clock = s.clock /\ told = s.told
  BY <1>1
<1>3. /\ fresh.c.kind = "none" /\ fresh.clock = n
      /\ fresh.told.id = 0 /\ fresh.told.adopted = 0
  BY DEF FreshState, NothingTold
<1>4. fresh \in Steps
  <2>1. FreshState(phase, source, n) \in State
    BY CoordinatorAssumption DEF FreshState, State, Phases, Kinds
  <2>2. NothingTold \in Told
    BY DEF NothingTold, Told
  <2>3. <<>> \in Seq(Message) /\ n \in Nat
    OBVIOUS
  <2>4. QED
    BY <2>1, <2>2, <2>3 DEF Steps
<1>5. s.c.kind = "none" /\ s.told.id <= s.clock /\ s.told.adopted <= s.clock
  <2>1. CASE again
    <3>1. s = Send(fresh, "enter", 1, NoApp) /\ n = 1
      BY <2>1
    <3> HIDE DEF s, fresh
    <3>2. s.c = fresh.c /\ s.clock = fresh.clock
      BY <1>4, <3>1, SendStep
    <3>3. /\ s.told.id = IF SourceEnabled THEN 1 ELSE fresh.told.id
          /\ s.told.adopted = fresh.told.adopted
      BY <1>4, <3>1, SendTells
    <3>4. QED
      BY <1>3, <3>1, <3>2, <3>3
  <2>2. CASE ~again
    BY <1>3, <2>2
  <2>3. QED
    BY <2>1, <2>2
<1> HIDE DEF s
<1>6. QED
  BY <1>2, <1>5 DEF Ordered, Sound, Linked, Remembers, Spares, Step

LEMMA NextOrdered ==
    ASSUME TypeOK, Ordered, Next
    PROVE  Ordered' /\ Commands
<1>1. CASE Quiet
  BY <1>1, QuietOrdered
<1>2. CASE HandleEvent
  BY <1>2, HandlerOrdered
<1>3. ASSUME UNCHANGED <<clock, told>>, out' = <<>>, c'.id = c.id,
             c'.kind = "none" \/ (c'.kind = c.kind /\ c'.unsuppressed = c.unsuppressed)
      PROVE  Ordered' /\ Commands
  BY <1>3 DEF TypeOK, Ordered, Commands, Accepted, Says, Alike, Sound, Linked,
     Remembers, Spares, Step, Taken
<1>4. CASE DeadlinePasses
  <2>1. /\ UNCHANGED <<clock, told>> /\ out' = <<>>
        /\ c' = [c EXCEPT !.deadline = "reached"]
    BY <1>4 DEF DeadlinePasses
  <2>2. c'.id = c.id /\ c'.kind = c.kind /\ c'.unsuppressed = c.unsuppressed
    BY <2>1 DEF TypeOK, State
  <2>3. QED
    BY <1>3, <2>1, <2>2
<1>5. CASE PolicyTimer
  <2> DEFINE done == [c EXCEPT !.policy = FALSE]
  <2>1. UNCHANGED <<clock, told>> /\ out' = <<>> /\ c' = Settled(done)
    BY <1>5 DEF PolicyTimer
  <2>2. done \in State /\ done.id = c.id
    BY DEF TypeOK, State
  <2> HIDE DEF done
  <2>3. c'.id = c.id /\ c'.kind = "none"
    BY <2>1, <2>2 DEF Settled, State
  <2>4. QED
    BY <1>3, <2>1, <2>3
<1>6. CASE Teardown
  <2>1. /\ UNCHANGED <<clock, told>> /\ out' = <<>>
        /\ c' = [c EXCEPT !.policy = FALSE]
    BY <1>6 DEF Teardown
  <2>2. c'.id = c.id /\ c'.kind = c.kind /\ c'.unsuppressed = c.unsuppressed
    BY <2>1 DEF TypeOK, State
  <2>3. QED
    BY <1>3, <2>1, <2>2
<1>7. QED
  BY <1>1, <1>2, <1>4, <1>5, <1>6
  DEF Next, ReadLine, CheckStopping, TimerEnds, Terminate, EventBarrier

LEMMA OrderedInvariance == Spec => [](TypeOK /\ Ordered)
<1>1. TypeOK /\ Ordered /\ [Next]_vars => Ordered'
  <2>1. CASE UNCHANGED vars
    BY <2>1 DEF vars, Ordered, Sound, Linked, Remembers, Spares, Step
  <2>2. QED
    BY <2>1, NextOrdered
<1>2. QED
  BY <1>1, InitOrdered, TypeCorrect, PTL DEF Spec

(* No command carries an id the guard would refuse as old, and every         *)
(* complete the id of the transition the guard was last told of, whichever   *)
(* handlers and timers interleave (prepare_transition_locked, the send       *)
(* functions and launcher_coordinator_complete_to_app).                      *)
THEOREM GuardFollows == Spec => CommandsFollowTheGuard
<1>1. TypeOK /\ TypeOK' /\ Ordered /\ [Next]_vars =>
        [\A i \in DOMAIN out' :
            /\ out'[i].id >= told.id
            /\ out'[i].name = "complete" => out'[i].id = told'.id]_vars
  <2>1. ASSUME TypeOK, TypeOK', Commands, NEW i \in DOMAIN out'
        PROVE  out'[i].id >= told.id /\ out'[i].id = told'.id
    <3>1. /\ told.id \in Nat /\ told'.id \in Nat
          /\ told'.id = Taken.told.id /\ out' = Taken.out
      BY <2>1 DEF TypeOK, Told, Taken
    <3>2. out'[i].id >= Floor(Step) /\ out'[i].id = told'.id
      BY <2>1, <3>1 DEF Commands, Accepted, Floor, Step, TypeOK
    <3>3. told.id = 0 \/ Floor(Step) = told.id
      BY DEF Floor, Step
    <3>4. Floor(Step) \in Nat
      BY <2>1, <3>1 DEF Floor, Step, TypeOK
    <3>5. QED
      BY <3>1, <3>2, <3>3
  <2>2. QED
    BY <2>1, NextOrdered
<1>2. QED
  BY <1>1, OrderedInvariance, PTL DEF Spec, CommandsFollowTheGuard

(* A target the coordinator adopted is never handed off, that is suppressed, *)
(* later in the same transition (target_unsuppressed in handoff_target).     *)
THEOREM AdoptedTargetStaysFree == Spec => AdoptedStaysUnsuppressed
<1>1. TypeOK /\ Ordered /\ [Next]_vars =>
        [\A i \in DOMAIN out' :
            out'[i].name = "handoff" => out'[i].id # told.adopted]_vars
  BY NextOrdered DEF Commands, Accepted, Taken, Step
<1>2. QED
  BY <1>1, OrderedInvariance, PTL DEF Spec, AdoptedStaysUnsuppressed
=============================================================================
