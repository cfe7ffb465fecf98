----------------------- MODULE LauncherSchedulingProofs -----------------------
(***************************************************************************)
(* Proofs about the running system.  What the guard will find when it reads *)
(* its socket to the end is decided by the commands that are still in it,   *)
(* so the invariant relates the queue, the guard and what the coordinator   *)
(* told; the lemmas say what one more command at the end of the queue, or   *)
(* one less at its head, does to that relation.                             *)
(***************************************************************************)
EXTENDS LauncherScheduling, CoordinatorCommandProofs

Command == [name: {"enter", "handoff", "adopt", "complete", "arm", "reset-top"},
            id: Nat, app: Apps \cup {NoApp}]

(* A command that names an application names one.                            *)
Meant(m) == m.name \in {"handoff", "adopt", "arm"} => m.app \in Apps

Guards == [up: BOOLEAN, app: Apps \cup {NoApp}, active: BOOLEAN,
           accepted: Nat, pending: Nat]

(* Nothing is suppressed without a source.                                   *)
SystemTypes ==
    /\ socket \in Seq(Command) /\ \A i \in DOMAIN socket : Meant(socket[i])
    /\ g \in Guards
    /\ g.active => g.app # NoApp
    /\ saved \in Apps \cup {NoApp} /\ restarts \in Nat /\ missed \in BOOLEAN

-----------------------------------------------------------------------------
(* What the queue q holds for a guard G                                      *)

(* Ids never decrease from the guard to the coordinator.                     *)
Aged(q, low, high) ==
    /\ low <= high
    /\ \A i \in DOMAIN q :
          FromCoordinator(q[i]) => low <= q[i].id /\ q[i].id <= high
    /\ \A i, j \in DOMAIN q :
          i < j /\ FromCoordinator(q[i]) /\ FromCoordinator(q[j])
            => q[i].id <= q[j].id

(* A source is armed only right after a reset.                               *)
Armed(q, G) ==
    \A i \in DOMAIN q : q[i].name = "arm" =>
        IF i = 1 THEN G.accepted = 0 /\ ~G.active ELSE q[i - 1].name = "reset-top"

(* The commands that settle whether the guard suppresses and for which       *)
(* transition, whatever it did before.                                       *)
Decisive(m) == m.name \in {"enter", "handoff", "adopt", "reset-top"}

LastDecisive(q, i) ==
    /\ i \in DOMAIN q /\ Decisive(q[i])
    /\ \A j \in DOMAIN q : j > i => ~Decisive(q[j])

CompletedAfter(q, i, id) ==
    \E j \in DOMAIN q : j > i /\ q[j].name = "complete" /\ q[j].id = id

(* The last decisive command in the queue says what t says, and a completion *)
(* follows it exactly if t announced a release.                              *)
Decided(q, t) ==
    \A i \in DOMAIN q : LastDecisive(q, i) =>
        IF t.source = "free" THEN q[i].name \in {"adopt", "reset-top"}
        ELSE /\ q[i].name \in {"enter", "handoff"} /\ q[i].id = t.id
             /\ t.source = "releasing" <=> CompletedAfter(q, i, t.id)

(* Without one, the guard is already where t says, unless it found no        *)
(* process; a release is then under way in the guard or in the queue if t    *)
(* announced it, and nowhere otherwise.                                      *)
Undecided(q, G, miss, t) ==
    (\A i \in DOMAIN q : ~Decisive(q[i])) /\ G.active /\ ~miss =>
        /\ t.source # "free" /\ G.accepted = t.id
        /\ t.source = "releasing" =>
              G.pending = G.accepted \/ CompletedAfter(q, 0, t.id)
        /\ t.source = "suppressed" =>
              G.pending = 0 /\ ~CompletedAfter(q, 0, t.id)

(* The guard, once it has read q, knows what t says, by ids up to n.         *)
Sees(q, G, miss, t, n) ==
    /\ Aged(q, G.accepted, n) /\ Armed(q, G)
    /\ Decided(q, t) /\ Undecided(q, G, miss, t)

-----------------------------------------------------------------------------
(* One more command at the end                                               *)

LEMMA AppendAt ==
    ASSUME NEW q \in Seq(Command), NEW m \in Command
    PROVE  /\ Append(q, m) \in Seq(Command) /\ Len(q) \in Nat
           /\ DOMAIN q = 1..Len(q) /\ DOMAIN Append(q, m) = 1..(Len(q) + 1)
           /\ \A i \in 1..Len(q) : Append(q, m)[i] = q[i]
           /\ Append(q, m)[Len(q) + 1] = m
OBVIOUS

LEMMA AgedAppend ==
    ASSUME NEW q \in Seq(Command), NEW m \in Command, NEW low \in Nat,
           NEW n \in Nat, NEW high \in Nat, Aged(q, low, n), n <= high,
           FromCoordinator(m) => n <= m.id /\ m.id <= high
    PROVE  Aged(Append(q, m), low, high)
<1> DEFINE r == Append(q, m)
<1>1. /\ DOMAIN q = 1..Len(q) /\ DOMAIN r = 1..(Len(q) + 1) /\ Len(q) \in Nat
      /\ \A i \in 1..Len(q) : r[i] = q[i] /\ q[i].id \in Nat
      /\ r[Len(q) + 1] = m /\ m.id \in Nat
  <2>1. m.id \in Nat /\ \A i \in 1..Len(q) : q[i].id \in Nat
    <3>1. \A i \in 1..Len(q) : q[i] \in Command
      OBVIOUS
    <3>2. QED
      BY <3>1 DEF Command
  <2>2. QED
    BY <2>1, AppendAt
<1> HIDE DEF r
<1>2. ASSUME NEW i \in DOMAIN r, FromCoordinator(r[i])
      PROVE  low <= r[i].id /\ r[i].id <= high
  <2>1. CASE i = Len(q) + 1
    BY <1>1, <1>2, <2>1 DEF Aged
  <2>2. CASE i \in 1..Len(q)
    BY <1>1, <1>2, <2>2 DEF Aged
  <2>3. QED
    BY <1>1, <2>1, <2>2
<1>3. ASSUME NEW i \in DOMAIN r, NEW j \in DOMAIN r, i < j,
             FromCoordinator(r[i]), FromCoordinator(r[j])
      PROVE  r[i].id <= r[j].id
  <2>1. i \in 1..Len(q)
    BY <1>1, <1>3
  <2>2. CASE j = Len(q) + 1
    BY <1>1, <1>3, <2>1, <2>2 DEF Aged
  <2>3. CASE j \in 1..Len(q)
    BY <1>1, <1>3, <2>1, <2>3 DEF Aged
  <2>4. QED
    BY <1>1, <2>2, <2>3
<1>4. low <= high
  BY DEF Aged
<1>5. QED
  BY <1>2, <1>3, <1>4 DEF Aged, r

LEMMA ArmedAppend ==
    ASSUME NEW q \in Seq(Command), NEW m \in Command, NEW G \in Guards, Armed(q, G),
           m.name = "arm" =>
              IF q = <<>> THEN G.accepted = 0 /\ ~G.active
              ELSE q[Len(q)].name = "reset-top"
    PROVE  Armed(Append(q, m), G)
<1> DEFINE r == Append(q, m)
<1>1. /\ DOMAIN q = 1..Len(q) /\ DOMAIN r = 1..(Len(q) + 1) /\ Len(q) \in Nat
      /\ \A i \in 1..Len(q) : r[i] = q[i]
      /\ r[Len(q) + 1] = m /\ (q = <<>> <=> Len(q) = 0)
  BY AppendAt
<1> HIDE DEF r
<1>2. ASSUME NEW i \in DOMAIN r, r[i].name = "arm"
      PROVE  IF i = 1 THEN G.accepted = 0 /\ ~G.active
             ELSE r[i - 1].name = "reset-top"
  <2>1. CASE i = Len(q) + 1
    BY <1>1, <1>2, <2>1
  <2>2. CASE i \in 1..Len(q)
    <3>1. i # 1 => i - 1 \in 1..Len(q)
      BY <1>1, <2>2
    <3>2. QED
      BY <1>1, <1>2, <2>2, <3>1 DEF Armed
  <2>3. QED
    BY <1>1, <2>1, <2>2
<1>3. QED
  BY <1>2 DEF Armed, r

LEMMA DecisiveAppend ==
    ASSUME NEW q \in Seq(Command), NEW m \in Command
    PROVE  LET r == Append(q, m)
           IN  /\ Decisive(m) =>
                    /\ ~(\A i \in DOMAIN r : ~Decisive(r[i]))
                    /\ \A i \in DOMAIN r : LastDecisive(r, i)
                         => r[i] = m /\ \A id \in Nat : ~CompletedAfter(r, i, id)
               /\ ~Decisive(m) =>
                    /\ (\A i \in DOMAIN r : ~Decisive(r[i]))
                         => \A i \in DOMAIN q : ~Decisive(q[i])
                    /\ \A i \in DOMAIN r : LastDecisive(r, i)
                         => LastDecisive(q, i) /\ r[i] = q[i]
               /\ \A i \in Nat, id \in Nat : i <= Len(q) =>
                    (CompletedAfter(r, i, id)
                       <=> CompletedAfter(q, i, id) \/ (m.name = "complete" /\ m.id = id))
<1> DEFINE r == Append(q, m)
<1>1. /\ DOMAIN q = 1..Len(q) /\ DOMAIN r = 1..(Len(q) + 1) /\ Len(q) \in Nat
      /\ \A i \in 1..Len(q) : r[i] = q[i]
      /\ r[Len(q) + 1] = m
  BY AppendAt
<1> HIDE DEF r
<1>2. ASSUME Decisive(m), NEW i \in DOMAIN r, LastDecisive(r, i)
      PROVE  r[i] = m /\ \A id \in Nat : ~CompletedAfter(r, i, id)
  <2>1. i = Len(q) + 1
    BY <1>1, <1>2 DEF LastDecisive
  <2>2. QED
    BY <1>1, <2>1 DEF CompletedAfter
<1>3. ASSUME ~Decisive(m), NEW i \in DOMAIN r, LastDecisive(r, i)
      PROVE  LastDecisive(q, i) /\ r[i] = q[i]
  BY <1>1, <1>3 DEF LastDecisive
<1>4. ASSUME NEW i \in Nat, NEW id \in Nat, i <= Len(q),
             CompletedAfter(q, i, id) \/ (m.name = "complete" /\ m.id = id)
      PROVE  CompletedAfter(r, i, id)
  <2>1. CASE CompletedAfter(q, i, id)
    BY <1>1, <2>1 DEF CompletedAfter
  <2>2. CASE m.name = "complete" /\ m.id = id
    <3>1. Len(q) + 1 \in DOMAIN r /\ Len(q) + 1 > i
      BY <1>1, <1>4
    <3>2. QED
      BY <1>1, <2>2, <3>1 DEF CompletedAfter
  <2>3. QED
    BY <1>4, <2>1, <2>2
<1>5. Decisive(m) => ~(\A i \in DOMAIN r : ~Decisive(r[i]))
  BY <1>1
<1>6. ASSUME NEW i \in Nat, NEW id \in Nat, CompletedAfter(r, i, id)
      PROVE  CompletedAfter(q, i, id) \/ (m.name = "complete" /\ m.id = id)
  <2>1. PICK j \in DOMAIN r : j > i /\ r[j].name = "complete" /\ r[j].id = id
    BY <1>6 DEF CompletedAfter
  <2>2. CASE j = Len(q) + 1
    BY <1>1, <2>1, <2>2
  <2>3. CASE j \in 1..Len(q)
    BY <1>1, <2>1, <2>3 DEF CompletedAfter
  <2>4. QED
    BY <1>1, <2>2, <2>3
<1>7. (\A i \in DOMAIN r : ~Decisive(r[i])) => \A i \in DOMAIN q : ~Decisive(q[i])
  BY <1>1
<1>8. QED
  BY <1>2, <1>3, <1>4, <1>5, <1>6, <1>7 DEF r

(* A command of the coordinator that is heard.                               *)
LEMMA SeesAppend ==
    ASSUME NEW q \in Seq(Command), NEW G \in Guards, NEW miss \in BOOLEAN,
           NEW t \in Told, NEW u \in Told, NEW n \in Nat, NEW high \in Nat,
           Sees(q, G, miss, t, n), NEW m \in Message,
           Alike(Heard(t, m), u), n <= m.id, m.id <= high
    PROVE  Append(q, m) \in Seq(Command) /\ Sees(Append(q, m), G, miss, u, high)
<1> DEFINE r == Append(q, m)
<1>1. m \in Command
  BY DEF Message, Command
<1>2. /\ m.name \in {"enter", "handoff", "adopt", "complete"} /\ m.id \in Nat
      /\ t.id \in Nat /\ u.id \in Nat
      /\ t.source \in {"free", "suppressed", "releasing"}
      /\ Len(q) \in Nat /\ DOMAIN q = 1..Len(q)
      /\ G.accepted \in Nat
  BY DEF Message, Told, Guards
<1>3. Aged(r, G.accepted, high)
  <2>1. n <= high
    BY <1>2
  <2>2. QED
    BY <1>1, <1>2, <2>1, AgedAppend DEF Sees
<1>4. Armed(r, G)
  BY <1>1, <1>2, ArmedAppend DEF Sees
<1>5. /\ m.name = "adopt" => u.source = "free" /\ u.id = m.id
      /\ m.name \in {"enter", "handoff"} => u.source = "suppressed" /\ u.id = m.id
      /\ m.name = "complete" =>
           /\ u.id = t.id
           /\ u.source = IF t.source = "suppressed" /\ m.id = t.id
                         THEN "releasing" ELSE t.source
  BY <1>2 DEF Alike, Heard, Told
<1>6. /\ Decisive(m) =>
           /\ ~(\A i \in DOMAIN r : ~Decisive(r[i]))
           /\ \A i \in DOMAIN r : LastDecisive(r, i)
                => r[i] = m /\ \A id \in Nat : ~CompletedAfter(r, i, id)
      /\ ~Decisive(m) =>
           /\ (\A i \in DOMAIN r : ~Decisive(r[i]))
                => \A i \in DOMAIN q : ~Decisive(q[i])
           /\ \A i \in DOMAIN r : LastDecisive(r, i)
                => LastDecisive(q, i) /\ r[i] = q[i]
      /\ \A i \in Nat, id \in Nat : i <= Len(q) =>
           (CompletedAfter(r, i, id)
              <=> CompletedAfter(q, i, id) \/ (m.name = "complete" /\ m.id = id))
  BY <1>1, DecisiveAppend
<1> HIDE DEF r
<1>7. Decided(r, u)
  <2>1. ASSUME NEW i \in DOMAIN r, LastDecisive(r, i)
        PROVE  IF u.source = "free" THEN r[i].name \in {"adopt", "reset-top"}
               ELSE /\ r[i].name \in {"enter", "handoff"} /\ r[i].id = u.id
                    /\ u.source = "releasing" <=> CompletedAfter(r, i, u.id)
    <3>1. CASE Decisive(m)
      BY <1>2, <1>5, <1>6, <2>1, <3>1 DEF Decisive
    <3>2. CASE ~Decisive(m)
      <4>1. LastDecisive(q, i) /\ r[i] = q[i] /\ i \in DOMAIN q
        BY <1>6, <2>1, <3>2 DEF LastDecisive
      <4>2. i \in Nat /\ i <= Len(q)
        BY <1>2, <4>1
      <4>3. m.name = "complete"
        BY <1>2, <3>2 DEF Decisive
      <4>4. IF t.source = "free" THEN q[i].name \in {"adopt", "reset-top"}
            ELSE /\ q[i].name \in {"enter", "handoff"} /\ q[i].id = t.id
                 /\ t.source = "releasing" <=> CompletedAfter(q, i, t.id)
        BY <4>1 DEF Sees, Decided
      <4>5. CompletedAfter(r, i, t.id) <=> CompletedAfter(q, i, t.id) \/ m.id = t.id
        BY <1>2, <1>6, <4>2, <4>3
      <4>6. QED
        BY <1>2, <1>5, <4>1, <4>3, <4>4, <4>5
    <3>3. QED
      BY <3>1, <3>2
  <2>2. QED
    BY <2>1 DEF Decided
<1>8. Undecided(r, G, miss, u)
  <2>1. ASSUME \A i \in DOMAIN r : ~Decisive(r[i]), G.active, ~miss
        PROVE  /\ u.source # "free" /\ G.accepted = u.id
               /\ u.source = "releasing" =>
                    G.pending = G.accepted \/ CompletedAfter(r, 0, u.id)
               /\ u.source = "suppressed" =>
                    G.pending = 0 /\ ~CompletedAfter(r, 0, u.id)
    <3>1. ~Decisive(m) /\ \A i \in DOMAIN q : ~Decisive(q[i])
      BY <1>6, <2>1
    <3>2. m.name = "complete"
      BY <1>2, <3>1 DEF Decisive
    <3>3. /\ t.source # "free" /\ G.accepted = t.id
          /\ t.source = "releasing" =>
               G.pending = G.accepted \/ CompletedAfter(q, 0, t.id)
          /\ t.source = "suppressed" =>
               G.pending = 0 /\ ~CompletedAfter(q, 0, t.id)
      BY <2>1, <3>1 DEF Sees, Undecided
    <3>4. CompletedAfter(r, 0, t.id) <=> CompletedAfter(q, 0, t.id) \/ m.id = t.id
      BY <1>2, <1>6, <3>2
    <3>5. QED
      BY <1>2, <1>5, <3>2, <3>3, <3>4
  <2>2. QED
    BY <2>1 DEF Undecided
<1>9. r \in Seq(Command)
  BY <1>1, AppendAt DEF r
<1>10. QED
  BY <1>3, <1>4, <1>7, <1>8, <1>9 DEF Sees, r

(* The loop resets: nothing is told and nothing will be suppressed.          *)
LEMMA SeesReset ==
    ASSUME NEW q \in Seq(Command), NEW G \in Guards, NEW miss \in BOOLEAN,
           NEW t \in Told, NEW n \in Nat, NEW high \in Nat,
           Aged(q, G.accepted, n), Armed(q, G), n <= high, t.source = "free",
           NEW m \in Command, m.name = "reset-top"
    PROVE  Append(q, m) \in Seq(Command) /\ Sees(Append(q, m), G, miss, t, high)
<1> DEFINE r == Append(q, m)
<1>1. /\ ~(\A i \in DOMAIN r : ~Decisive(r[i]))
      /\ \A i \in DOMAIN r : LastDecisive(r, i) => r[i] = m
  BY DecisiveAppend DEF Decisive
<1>2. Aged(r, G.accepted, high)
  <2>1. G.accepted \in Nat /\ ~FromCoordinator(m)
    BY DEF Guards, FromCoordinator
  <2>2. QED
    BY <2>1, AgedAppend
<1>3. Armed(r, G)
  BY ArmedAppend
<1>4. r \in Seq(Command)
  BY AppendAt
<1> HIDE DEF r
<1>5. Decided(r, t) /\ Undecided(r, G, miss, t)
  BY <1>1 DEF Decided, Undecided
<1>6. QED
  BY <1>2, <1>3, <1>4, <1>5 DEF Sees, r

(* The shell arms a source after its reset, or a guard that was just started. *)
LEMMA SeesArm ==
    ASSUME NEW q \in Seq(Command), NEW G \in Guards, NEW miss \in BOOLEAN,
           NEW t \in Told, NEW n \in Nat,
           Sees(q, G, miss, t, n), t.source = "free",
           NEW m \in Command, m.name = "arm",
           IF q = <<>> THEN G.accepted = 0 /\ ~G.active
           ELSE q[Len(q)].name = "reset-top"
    PROVE  Append(q, m) \in Seq(Command) /\ Sees(Append(q, m), G, miss, t, n)
<1> DEFINE r == Append(q, m)
<1>1. /\ (\A i \in DOMAIN r : ~Decisive(r[i])) => \A i \in DOMAIN q : ~Decisive(q[i])
      /\ \A i \in DOMAIN r : LastDecisive(r, i)
           => LastDecisive(q, i) /\ r[i] = q[i]
  BY DecisiveAppend DEF Decisive
<1>2. Aged(r, G.accepted, n)
  <2>1. G.accepted \in Nat /\ ~FromCoordinator(m) /\ n <= n
    BY DEF Guards, FromCoordinator
  <2>2. QED
    BY <2>1, AgedAppend DEF Sees
<1>3. Armed(r, G)
  BY ArmedAppend DEF Sees
<1>4. r \in Seq(Command)
  BY AppendAt
<1> HIDE DEF r
<1>5. Decided(r, t)
  BY <1>1 DEF Sees, Decided, LastDecisive
<1>6. Undecided(r, G, miss, t)
  BY <1>1 DEF Sees, Undecided
<1>7. QED
  BY <1>2, <1>3, <1>4, <1>5, <1>6 DEF Sees, r

LEMMA SeesNothing ==
    ASSUME NEW q \in Seq(Command), q = <<>>, NEW G \in Guards,
           NEW miss \in BOOLEAN, NEW t \in Told, NEW n \in Nat,
           G.accepted = 0, ~G.active
    PROVE  Sees(q, G, miss, t, n)
BY DEF Guards, Sees, Aged, Armed, Decided, Undecided

-----------------------------------------------------------------------------
(* One command less at the head                                              *)

(* What reading m, in its turn, makes of a guard G: it ends up as the last   *)
(* decisive command says, or knows that it missed it.                        *)
Obeys(m, G, miss, H, miss2) ==
    /\ H \in Guards
    /\ (G.active => G.app # NoApp) => (H.active => H.app # NoApp)
    /\ \/ H.accepted \in {0, G.accepted}
       \/ FromCoordinator(m) /\ H.accepted = m.id
    /\ m.name = "reset-top" => H.accepted = 0 /\ ~H.active
    /\ H.active /\ ~miss2 =>
         IF Decisive(m)
         THEN m.name \in {"enter", "handoff"} /\ H.accepted = m.id /\ H.pending = 0
         ELSE /\ G.active /\ ~miss /\ H.accepted = G.accepted
              /\ H.pending = IF m.name = "complete" /\ m.id = G.accepted
                             THEN G.accepted ELSE G.pending

LEMMA TailAt ==
    ASSUME NEW q \in Seq(Command), q # <<>>
    PROVE  /\ Tail(q) \in Seq(Command) /\ Len(q) \in Nat \ {0}
           /\ Head(q) = q[1] /\ Head(q) \in Command
           /\ DOMAIN q = 1..Len(q) /\ DOMAIN Tail(q) = 1..(Len(q) - 1)
           /\ \A i \in 1..(Len(q) - 1) : i + 1 \in 1..Len(q) /\ Tail(q)[i] = q[i + 1]
           /\ \A i \in 1..Len(q) : q[i] \in Command /\ q[i].id \in Nat
<1>1. \A i \in 1..Len(q) : q[i] \in Command
  OBVIOUS
<1>2. \A i \in 1..Len(q) : q[i].id \in Nat
  BY <1>1 DEF Command
<1>3. /\ Tail(q) \in Seq(Command) /\ Len(q) \in Nat \ {0}
      /\ Head(q) = q[1] /\ Head(q) \in Command
      /\ DOMAIN q = 1..Len(q) /\ DOMAIN Tail(q) = 1..(Len(q) - 1)
      /\ \A i \in 1..(Len(q) - 1) : i + 1 \in 1..Len(q) /\ Tail(q)[i] = q[i + 1]
  OBVIOUS
<1>4. QED
  BY <1>1, <1>2, <1>3

LEMMA SeesTail ==
    ASSUME NEW q \in Seq(Command), q # <<>>, NEW G \in Guards, NEW H,
           NEW miss \in BOOLEAN, NEW miss2 \in BOOLEAN, NEW t \in Told, NEW n \in Nat,
           Sees(q, G, miss, t, n), Obeys(Head(q), G, miss, H, miss2)
    PROVE  Sees(Tail(q), H, miss2, t, n)
<1> DEFINE r == Tail(q)
           m == q[1]
<1>1. /\ Len(q) \in Nat \ {0} /\ Head(q) = m /\ 1 \in 1..Len(q)
      /\ DOMAIN q = 1..Len(q) /\ DOMAIN r = 1..(Len(q) - 1)
      /\ \A i \in 1..(Len(q) - 1) : i + 1 \in 1..Len(q) /\ r[i] = q[i + 1]
      /\ \A i \in 1..Len(q) : q[i].id \in Nat
  BY TailAt
<1> HIDE DEF r
<1>2. G.accepted \in Nat /\ H.accepted \in Nat /\ t.id \in Nat
  <2>1. H \in Guards
    BY DEF Obeys
  <2>2. QED
    BY <2>1 DEF Guards, Told
<1>3. Aged(r, H.accepted, n)
  <2>1. /\ G.accepted <= n
        /\ \A i \in 1..Len(q) : FromCoordinator(q[i]) =>
             G.accepted <= q[i].id /\ q[i].id <= n
        /\ \A i, j \in 1..Len(q) :
             i < j /\ FromCoordinator(q[i]) /\ FromCoordinator(q[j])
               => q[i].id <= q[j].id
    BY <1>1 DEF Sees, Aged
  <2>2. H.accepted \in {0, G.accepted} \/ (FromCoordinator(m) /\ H.accepted = m.id)
    BY <1>1 DEF Obeys
  <2>3. H.accepted <= n
    BY <1>1, <1>2, <2>1, <2>2
  <2>4. ASSUME NEW i \in DOMAIN r, FromCoordinator(r[i])
        PROVE  H.accepted <= r[i].id /\ r[i].id <= n
    <3>1. i + 1 \in 1..Len(q) /\ r[i] = q[i + 1] /\ 1 < i + 1 /\ q[i + 1].id \in Nat
      BY <1>1
    <3>2. G.accepted <= r[i].id /\ r[i].id <= n
      BY <2>1, <2>4, <3>1
    <3>3. FromCoordinator(m) => m.id <= r[i].id
      BY <1>1, <2>1, <2>4, <3>1
    <3>4. QED
      BY <1>2, <2>2, <3>1, <3>2, <3>3
  <2>5. ASSUME NEW i \in DOMAIN r, NEW j \in DOMAIN r, i < j,
               FromCoordinator(r[i]), FromCoordinator(r[j])
        PROVE  r[i].id <= r[j].id
    <3>1. /\ i + 1 \in 1..Len(q) /\ r[i] = q[i + 1] /\ i + 1 < j + 1
          /\ j + 1 \in 1..Len(q) /\ r[j] = q[j + 1]
      BY <1>1, <2>5
    <3>2. QED
      BY <2>1, <2>5, <3>1
  <2>6. QED
    BY <2>3, <2>4, <2>5 DEF Aged
<1>4. Armed(r, H)
  <2>1. ASSUME NEW i \in DOMAIN r, r[i].name = "arm"
        PROVE  IF i = 1 THEN H.accepted = 0 /\ ~H.active
               ELSE r[i - 1].name = "reset-top"
    <3>1. i + 1 \in 1..Len(q) /\ r[i] = q[i + 1] /\ i + 1 # 1 /\ (i + 1) - 1 = i
      BY <1>1
    <3>2. q[i].name = "reset-top"
      BY <1>1, <2>1, <3>1 DEF Sees, Armed
    <3>3. CASE i = 1
      BY <1>1, <3>2, <3>3 DEF Obeys
    <3>4. CASE i # 1
      <4>1. i - 1 \in 1..(Len(q) - 1) /\ (i - 1) + 1 = i
        BY <1>1, <3>4
      <4>2. r[i - 1] = q[i]
        BY <1>1, <4>1
      <4>3. QED
        BY <3>2, <3>4, <4>2
    <3>5. QED
      BY <3>3, <3>4
  <2>2. QED
    BY <2>1 DEF Armed
<1>5. ASSUME NEW i \in 0..(Len(q) - 1)
      PROVE  CompletedAfter(r, i, t.id) <=> CompletedAfter(q, i + 1, t.id)
  <2>1. ASSUME CompletedAfter(q, i + 1, t.id) PROVE CompletedAfter(r, i, t.id)
    <3>1. PICK j \in DOMAIN q : j > i + 1 /\ q[j].name = "complete" /\ q[j].id = t.id
      BY <2>1 DEF CompletedAfter
    <3>2. j - 1 \in 1..(Len(q) - 1) /\ j - 1 > i /\ (j - 1) + 1 = j
      BY <1>1, <3>1
    <3>3. r[j - 1] = q[j]
      BY <1>1, <3>2
    <3>4. QED
      BY <1>1, <3>1, <3>2, <3>3 DEF CompletedAfter
  <2>2. ASSUME CompletedAfter(r, i, t.id) PROVE CompletedAfter(q, i + 1, t.id)
    <3>1. PICK j \in DOMAIN r : j > i /\ r[j].name = "complete" /\ r[j].id = t.id
      BY <2>2 DEF CompletedAfter
    <3>2. j + 1 \in DOMAIN q /\ j + 1 > i + 1 /\ r[j] = q[j + 1]
      BY <1>1, <3>1
    <3>3. QED
      BY <3>1, <3>2 DEF CompletedAfter
  <2>3. QED
    BY <2>1, <2>2
<1>6. Decided(r, t)
  <2>1. ASSUME NEW i \in DOMAIN r, LastDecisive(r, i)
        PROVE  IF t.source = "free" THEN r[i].name \in {"adopt", "reset-top"}
               ELSE /\ r[i].name \in {"enter", "handoff"} /\ r[i].id = t.id
                    /\ t.source = "releasing" <=> CompletedAfter(r, i, t.id)
    <3>1. i + 1 \in 1..Len(q) /\ r[i] = q[i + 1]
      BY <1>1
    <3>2. ASSUME NEW j \in DOMAIN q, j > i + 1 PROVE ~Decisive(q[j])
      <4>1. j - 1 \in 1..(Len(q) - 1) /\ j - 1 > i /\ (j - 1) + 1 = j
        BY <1>1, <3>2
      <4>2. r[j - 1] = q[j]
        BY <1>1, <4>1
      <4>3. QED
        BY <1>1, <2>1, <4>1, <4>2 DEF LastDecisive
    <3>3. LastDecisive(q, i + 1)
      BY <1>1, <2>1, <3>1, <3>2 DEF LastDecisive
    <3>4. QED
      BY <1>1, <1>5, <3>1, <3>3 DEF Sees, Decided
  <2>2. QED
    BY <2>1 DEF Decided
<1>7. Undecided(r, H, miss2, t)
  <2> SUFFICES ASSUME \A i \in DOMAIN r : ~Decisive(r[i]), H.active, ~miss2
               PROVE  /\ t.source # "free" /\ H.accepted = t.id
                      /\ t.source = "releasing" =>
                           H.pending = H.accepted \/ CompletedAfter(r, 0, t.id)
                      /\ t.source = "suppressed" =>
                           H.pending = 0 /\ ~CompletedAfter(r, 0, t.id)
    BY DEF Undecided
  <2>1. ASSUME NEW j \in DOMAIN q, j > 1 PROVE ~Decisive(q[j]) /\ j - 1 \in DOMAIN r
                                               /\ r[j - 1] = q[j]
    <3>1. j - 1 \in 1..(Len(q) - 1) /\ (j - 1) + 1 = j
      BY <1>1, <2>1
    <3>2. QED
      BY <1>1, <3>1
  <2>2. CompletedAfter(r, 0, t.id) <=> CompletedAfter(q, 1, t.id)
    <3>1. 0 \in 0..(Len(q) - 1) /\ 0 + 1 = 1
      BY <1>1
    <3>2. QED
      BY <1>5, <3>1
  <2>3. CASE Decisive(m)
    <3>1. LastDecisive(q, 1)
      BY <1>1, <2>1, <2>3 DEF LastDecisive
    <3>2. m.name \in {"enter", "handoff"} /\ H.accepted = m.id /\ H.pending = 0
      BY <1>1, <2>3 DEF Obeys
    <3>3. IF t.source = "free" THEN m.name \in {"adopt", "reset-top"}
          ELSE /\ m.name \in {"enter", "handoff"} /\ m.id = t.id
               /\ t.source = "releasing" <=> CompletedAfter(q, 1, t.id)
      BY <1>1, <3>1 DEF Sees, Decided
    <3>4. QED
      BY <2>2, <3>2, <3>3
  <2>4. CASE ~Decisive(m)
    <3>1. /\ G.active /\ ~miss /\ H.accepted = G.accepted
          /\ H.pending = IF m.name = "complete" /\ m.id = G.accepted
                         THEN G.accepted ELSE G.pending
      BY <1>1, <2>4 DEF Obeys
    <3>2. \A j \in DOMAIN q : ~Decisive(q[j])
      BY <1>1, <2>1, <2>4
    <3>3. /\ t.source # "free" /\ G.accepted = t.id
          /\ t.source = "releasing" =>
               G.pending = G.accepted \/ CompletedAfter(q, 0, t.id)
          /\ t.source = "suppressed" =>
               G.pending = 0 /\ ~CompletedAfter(q, 0, t.id)
      BY <3>1, <3>2 DEF Sees, Undecided
    <3>4. CompletedAfter(q, 0, t.id) <=>
            CompletedAfter(r, 0, t.id) \/ (m.name = "complete" /\ m.id = t.id)
      <4>1. ASSUME CompletedAfter(q, 0, t.id)
            PROVE  CompletedAfter(q, 1, t.id) \/ (m.name = "complete" /\ m.id = t.id)
        <5>1. PICK j \in DOMAIN q : q[j].name = "complete" /\ q[j].id = t.id
          BY <4>1 DEF CompletedAfter
        <5>2. CASE j = 1
          BY <5>1, <5>2
        <5>3. CASE j > 1
          BY <5>1, <5>3 DEF CompletedAfter
        <5>4. QED
          BY <1>1, <5>2, <5>3
      <4>2. ASSUME CompletedAfter(q, 1, t.id) \/ (m.name = "complete" /\ m.id = t.id)
            PROVE  CompletedAfter(q, 0, t.id)
        BY <1>1, <4>2 DEF CompletedAfter
      <4>3. QED
        BY <2>2, <4>1, <4>2
    <3>5. QED
      BY <3>1, <3>3, <3>4
  <2>5. QED
    BY <2>3, <2>4
<1>8. QED
  BY <1>3, <1>4, <1>6, <1>7 DEF Sees, r

-----------------------------------------------------------------------------
(* The invariant and the guard's steps                                       *)

Tracked == g.up => Sees(socket, g, missed, told, Floor(Step))

(* What the guard reads is not stale, so an enter it ignores finds it        *)
(* without a source; a handoff or an adopt it ignores is missed.             *)
LEMMA ReceiveObeys ==
    ASSUME SystemTypes, Tracked, Receive
    PROVE  Obeys(Received, g, missed, g', missed') /\ missed' \in BOOLEAN
<1> DEFINE m == Received
<1>1. /\ g.up /\ m \in Command /\ m = socket[1] /\ 1 \in DOMAIN socket /\ Meant(m)
      /\ g \in Guards /\ missed \in BOOLEAN
  <2>1. g.up /\ socket # <<>>
    BY DEF Receive
  <2>2. QED
    BY <2>1, TailAt DEF SystemTypes, Received
<1>2. FromCoordinator(m) => g.accepted <= m.id
  BY <1>1 DEF Tracked, Sees, Aged
<1>3. /\ m.name \in {"enter", "handoff", "adopt", "complete", "arm", "reset-top"}
      /\ m.id \in Nat /\ m.app \in Apps \cup {NoApp} /\ g.accepted \in Nat
      /\ NoApp \notin Apps
  BY <1>1, CoordinatorAssumption DEF Command, Guards
<1>4. Follows(m) \/ Ignores(m)
  BY DEF Receive
<1> HIDE DEF m
<1>5. ASSUME Ignores(m) PROVE Obeys(m, g, missed, g', missed')
  <2>1. g' = g /\ missed' = (missed \/ m.name \in {"handoff", "adopt"})
    BY <1>5 DEF Ignores, Guard!NoEffect
  <2>2. \/ m.name \in {"handoff", "adopt", "arm"}
        \/ m.name = "enter" /\ (g.app = NoApp \/ m.id < g.accepted)
        \/ m.name = "complete" /\ ~(g.active /\ m.id = g.accepted)
    BY <1>5 DEF Ignores
  <2>3. m.name = "enter" => g.app = NoApp
    BY <1>2, <1>3, <2>2 DEF FromCoordinator
  <2>4. g.app = NoApp => ~g.active
    BY DEF SystemTypes
  <2>5. /\ g' \in Guards /\ g'.accepted = g.accepted /\ g'.active = g.active
        /\ g'.pending = g.pending /\ m.name # "reset-top"
    BY <1>1, <2>1, <2>2
  <2>6. (g.active => g.app # NoApp) => (g'.active => g'.app # NoApp)
    BY <2>1
  <2>7. ASSUME g'.active, ~missed'
        PROVE  /\ ~Decisive(m) /\ g.active /\ ~missed
               /\ ~(m.name = "complete" /\ m.id = g.accepted)
    BY <2>1, <2>2, <2>3, <2>4, <2>5, <2>7 DEF Decisive
  <2>8. QED
    BY <2>5, <2>6, <2>7 DEF Obeys
<1>6. ASSUME Follows(m) PROVE Obeys(m, g, missed, g', missed')
  <2>0. missed' = (missed /\ m.name \in {"complete", "arm"})
    BY <1>6 DEF Follows
  <2>1. CASE m.name = "enter"
    <3>1. Guard!Enter(m.id)
      BY <1>6, <2>1 DEF Follows
    <3>2. PICK active \in {TRUE, g.active} :
            g' = [g EXCEPT !.accepted = m.id, !.pending = 0, !.active = active]
      BY <3>1 DEF Guard!Enter, Guard!Follow
    <3>3. g.app # NoApp /\ active \in BOOLEAN
      BY <1>1, <3>1 DEF Guard!Enter, Guards
    <3>4. g' \in Guards /\ g'.accepted = m.id /\ g'.app = g.app /\ g'.pending = 0
      BY <1>1, <1>3, <3>2, <3>3 DEF Guards
    <3>5. QED
      BY <2>1, <3>3, <3>4 DEF Obeys, Decisive, FromCoordinator
  <2>2. CASE m.name = "handoff"
    <3>1. Guard!Handoff(m.id, m.app)
      BY <1>6, <2>2 DEF Follows
    <3>2. PICK active \in BOOLEAN :
            g' = [g EXCEPT !.accepted = m.id, !.pending = 0, !.app = m.app,
                           !.active = active]
      BY <3>1 DEF Guard!Handoff, Guard!Follow
    <3>3. g' \in Guards /\ g'.accepted = m.id /\ g'.app = m.app /\ g'.pending = 0
      BY <1>1, <1>3, <3>2 DEF Guards
    <3>4. m.app # NoApp
      BY <1>1, <1>3, <2>2 DEF Meant
    <3>5. QED
      BY <2>2, <3>3, <3>4 DEF Obeys, Decisive, FromCoordinator
  <2>3. CASE m.name = "adopt"
    <3>1. Guard!Adopt(m.id, m.app)
      BY <1>6, <2>3 DEF Follows
    <3>2. g' = [g EXCEPT !.accepted = m.id, !.pending = 0, !.app = m.app,
                         !.active = FALSE]
      BY <3>1 DEF Guard!Adopt, Guard!Follow
    <3>3. g' \in Guards /\ g'.accepted = m.id /\ g'.active = FALSE
      BY <1>1, <1>3, <3>2 DEF Guards
    <3>4. QED
      BY <2>3, <3>3 DEF Obeys, Decisive, FromCoordinator
  <2>4. CASE m.name = "complete"
    <3>1. Guard!Complete(m.id) /\ m.id = g.accepted
      BY <1>6, <2>4 DEF Follows, Guard!Complete
    <3>2. /\ g' \in Guards /\ g'.accepted = g.accepted /\ g'.app = g.app
          /\ g'.active = g.active /\ g'.pending = g.accepted
      BY <1>1, <1>3, <3>1 DEF Guard!Complete, Guards
    <3>3. QED
      BY <2>0, <2>4, <3>1, <3>2 DEF Obeys, Decisive
  <2>5. CASE m.name = "arm"
    <3>1. Guard!Arm(m.app)
      BY <1>6, <2>5 DEF Follows
    <3>2. /\ g' \in Guards /\ g'.accepted = g.accepted /\ g'.active = FALSE
      BY <1>1, <1>3, <3>1 DEF Guard!Arm, Guards
    <3>3. QED
      BY <2>5, <3>2 DEF Obeys
  <2>6. CASE m.name = "reset-top"
    <3>1. Guard!Reset
      BY <1>6, <2>6 DEF Follows
    <3>2. g.app = NoApp => g.active = FALSE
      BY <1>1 DEF SystemTypes, Guards
    <3>3. g' \in Guards /\ g'.accepted = 0 /\ g'.active = FALSE
      BY <1>1, <1>3, <3>1, <3>2 DEF Guard!Reset, Guard!Fresh, Guard!Down, Guards
    <3>4. QED
      BY <2>6, <3>3 DEF Obeys
  <2>7. QED
    BY <1>3, <2>1, <2>2, <2>3, <2>4, <2>5, <2>6
<1>7. missed' \in BOOLEAN
  BY <1>1, <1>4 DEF Follows, Ignores
<1>8. QED
  BY <1>4, <1>5, <1>6, <1>7 DEF m

LEMMA ReceiveTracked ==
    ASSUME TypeOK, SystemTypes, Tracked, Receive
    PROVE  SystemTypes' /\ Tracked'
<1>1. /\ g.up /\ socket # <<>> /\ socket' = Tail(socket)
      /\ UNCHANGED <<vars, saved, restarts>>
  BY DEF Receive
<1>2. Obeys(Head(socket), g, missed, g', missed') /\ missed' \in BOOLEAN
  BY ReceiveObeys DEF Received
<1>3. /\ Tail(socket) \in Seq(Command)
      /\ \A i \in DOMAIN Tail(socket) : Meant(Tail(socket)[i])
  BY <1>1, TailAt DEF SystemTypes
<1>4. SystemTypes'
  BY <1>1, <1>2, <1>3 DEF SystemTypes, Obeys
<1>5. told \in Told /\ Floor(Step) \in Nat /\ g \in Guards
  BY DEF TypeOK, Told, Floor, Step, SystemTypes
<1>6. Sees(Tail(socket), g', missed', told, Floor(Step))
  BY <1>1, <1>2, <1>5, SeesTail DEF Tracked, SystemTypes
<1>7. told' = told /\ Floor(Step)' = Floor(Step)
  BY <1>1 DEF vars, Floor, Step
<1>8. QED
  BY <1>1, <1>4, <1>6, <1>7 DEF Tracked

(* The guard's own steps end a suppression and never begin one.              *)
LEMMA GuardTracked ==
    ASSUME TypeOK, SystemTypes, Tracked, GuardCompletes \/ GuardLosesSource \/ GuardCrashes
    PROVE  SystemTypes' /\ Tracked'
<1>0. g \in Guards /\ (g.active => g.app # NoApp) /\ g.pending \in Nat
      /\ g.accepted \in Nat
  BY DEF SystemTypes, Guards
<1>1. CASE GuardCompletes
  <2>1. /\ g.up /\ g.pending # 0
        /\ g' = [g EXCEPT !.pending = 0,
                          !.active = IF g.pending = g.accepted THEN FALSE ELSE @]
        /\ UNCHANGED <<vars, socket, saved, restarts, missed>>
    BY <1>1 DEF GuardCompletes, Guard!Completes
  <2>2. /\ g' \in Guards /\ g'.accepted = g.accepted /\ g'.app = g.app
        /\ g'.active => g.active /\ g.pending # g.accepted
        /\ g'.pending = 0
    BY <1>0, <2>1 DEF Guards
  <2>3. SystemTypes' /\ told' = told /\ Floor(Step)' = Floor(Step)
    BY <1>0, <2>1, <2>2 DEF SystemTypes, vars, Floor, Step
  <2>4. Sees(socket, g', missed, told, Floor(Step))
    <3>1. Sees(socket, g, missed, told, Floor(Step))
      BY <2>1 DEF Tracked
    <3>2. Armed(socket, g')
      BY <2>2, <3>1 DEF Sees, Armed
    <3>3. Undecided(socket, g', missed, told)
      BY <2>2, <3>1 DEF Sees, Undecided
    <3>4. QED
      BY <2>2, <3>1, <3>2, <3>3 DEF Sees
  <2>5. QED
    BY <2>1, <2>3, <2>4 DEF Tracked
<1>2. CASE GuardLosesSource
  <2>1. /\ g.up /\ g.active
        /\ g' = [g EXCEPT !.app = NoApp, !.active = FALSE]
        /\ UNCHANGED <<vars, socket, saved, restarts, missed>>
    BY <1>2 DEF GuardLosesSource, Guard!SourceLost
  <2>2. g' \in Guards /\ g'.accepted = g.accepted /\ g'.active = FALSE
    BY <1>0, <2>1 DEF Guards
  <2>3. SystemTypes' /\ told' = told /\ Floor(Step)' = Floor(Step)
    BY <1>0, <2>1, <2>2 DEF SystemTypes, vars, Floor, Step
  <2>4. Sees(socket, g', missed, told, Floor(Step))
    <3>1. Sees(socket, g, missed, told, Floor(Step))
      BY <2>1 DEF Tracked
    <3>2. Armed(socket, g')
      BY <2>2, <3>1 DEF Sees, Armed
    <3>3. Undecided(socket, g', missed, told)
      BY <2>2 DEF Undecided
    <3>4. QED
      BY <2>2, <3>1, <3>2, <3>3 DEF Sees
  <2>5. QED
    BY <2>1, <2>3, <2>4 DEF Tracked
<1>3. CASE GuardCrashes
  <2>1. g' = Guard!Down /\ socket' = <<>> /\ UNCHANGED <<saved, restarts, missed>>
    BY <1>3 DEF GuardCrashes, Guard!Ends
  <2>2. g' \in Guards /\ g'.up = FALSE /\ g'.active = FALSE
    BY <2>1 DEF Guard!Down, Guards
  <2>3. QED
    BY <2>1, <2>2 DEF SystemTypes, Tracked
<1>4. QED
  BY <1>1, <1>2, <1>3

-----------------------------------------------------------------------------
(* The coordinator's steps                                                   *)

(* Commands that were accepted leave the socket as the history says.         *)
LEMMA CommandsTracked ==
    ASSUME TypeOK, TypeOK', SystemTypes, Tracked, Commands,
           Arrive(out'), UNCHANGED <<g, saved, restarts, missed>>
    PROVE  SystemTypes' /\ Tracked'
<1>1. /\ Step \in Steps /\ Taken \in Steps /\ Step.told = told /\ Taken.told = told'
      /\ Taken.out = out' /\ out' \in Seq(Message) /\ told \in Told /\ told' \in Told
      /\ told'.id \in Nat /\ clock \in Nat /\ clock' \in Nat
      /\ told.id \in Nat /\ Step.clock = clock /\ Taken.clock = clock'
  BY DEF TypeOK, Step, Taken, Steps, Told
<1> DEFINE n == Floor(Step)
           high == Floor(Taken)
<1>2. /\ n \in Nat /\ high \in Nat /\ Floor(Step)' = high
      /\ told'.id # 0 => high = told'.id
  BY <1>1 DEF Floor, Step, Taken
<1>3. /\ Says(Step, Taken) /\ Taken.clock >= Step.clock
      /\ \A i \in DOMAIN out' :
           /\ out'[i].id = told'.id /\ out'[i].id >= n
           /\ out'[i].name \in {"handoff", "adopt"} => out'[i].app \in Apps
  BY <1>1 DEF Commands, Accepted
<1>4. \A m \in Message : m \in Command /\ m.id \in Nat
  BY DEF Message, Command
<1>5. told'.id <= high
  BY <1>1, <1>2
<1> HIDE DEF n, high
<1>6. /\ socket \in Seq(Command) /\ g \in Guards /\ missed \in BOOLEAN
      /\ \A i \in DOMAIN socket : Meant(socket[i])
  BY DEF SystemTypes
<1>7. \A m \in Message :
         (m.name \in {"handoff", "adopt"} => m.app \in Apps) => Meant(m)
  BY DEF Message, Meant
<1>8. CASE ~g.up
  <2>1. socket' = <<>>
    BY <1>8 DEF Arrive
  <2>2. QED
    BY <1>8, <2>1 DEF SystemTypes, Tracked
<1>9. CASE g.up
  <2>1. socket' = socket \o out'
    BY <1>9 DEF Arrive
  <2>2. Sees(socket, g, missed, told, n)
    BY <1>9 DEF Tracked, n
  <2> SUFFICES /\ socket' \in Seq(Command)
               /\ \A i \in DOMAIN socket' : Meant(socket'[i])
               /\ Sees(socket', g, missed, told', high)
    BY <1>2 DEF SystemTypes, Tracked
  <2>3. CASE out' = <<>> /\ Alike(told, told')
    <3>1. socket' = socket
      BY <1>6, <2>1, <2>3
    <3>2. n <= high
      BY <1>1, <1>3, <2>3 DEF n, high, Floor, Alike
    <3>3. Aged(socket, g.accepted, high)
      <4>1. g.accepted \in Nat /\ \A i \in DOMAIN socket : socket[i].id \in Nat
        <5>1. \A i \in DOMAIN socket : socket[i] \in Command
          BY <1>6
        <5>2. QED
          BY <1>6, <5>1 DEF Guards, Command
      <4>2. QED
        BY <1>2, <2>2, <3>2, <4>1 DEF Sees, Aged
    <3>4. Sees(socket, g, missed, told', high)
      BY <2>2, <2>3, <3>3 DEF Sees, Decided, Undecided, Alike
    <3>5. QED
      BY <1>6, <3>1, <3>4
  <2>4. ASSUME NEW m \in Message, out' = <<m>>, Alike(Heard(told, m), told')
        PROVE  /\ socket' \in Seq(Command)
               /\ \A i \in DOMAIN socket' : Meant(socket'[i])
               /\ Sees(socket', g, missed, told', high)
    <3>1. socket' = Append(socket, m)
      BY <1>4, <1>6, <2>1, <2>4
    <3>2. m.id = told'.id /\ n <= m.id /\ Meant(m)
      BY <1>1, <1>2, <1>3, <1>7, <2>4
    <3>3. Sees(socket', g, missed, told', high) /\ socket' \in Seq(Command)
      BY <1>1, <1>2, <1>5, <1>6, <2>2, <2>4, <3>1, <3>2, SeesAppend
    <3>4. \A i \in DOMAIN socket' : Meant(socket'[i])
      BY <1>4, <1>6, <3>1, <3>2, AppendAt
    <3>5. QED
      BY <3>3, <3>4
  <2>5. ASSUME NEW m1 \in Message, NEW m2 \in Message, out' = <<m1, m2>>,
               m2.name = "complete", Alike(Heard(Heard(told, m1), m2), told')
        PROVE  /\ socket' \in Seq(Command)
               /\ \A i \in DOMAIN socket' : Meant(socket'[i])
               /\ Sees(socket', g, missed, told', high)
    <3> DEFINE q == Append(socket, m1)
               t == Heard(told, m1)
    <3>1. socket' = Append(q, m2)
      BY <1>4, <1>6, <2>1, <2>5
    <3>2. /\ m1.id = told'.id /\ m2.id = told'.id /\ n <= m1.id
          /\ Meant(m1) /\ Meant(m2)
      <4>1. 1 \in DOMAIN out' /\ 2 \in DOMAIN out' /\ out'[1] = m1 /\ out'[2] = m2
        BY <2>5
      <4>2. QED
        BY <1>1, <1>2, <1>3, <1>4, <1>7, <4>1
    <3>3. t \in Told /\ Alike(t, t)
      BY <1>1 DEF Heard, Told, Message, Alike
    <3>4. Sees(q, g, missed, t, m1.id) /\ q \in Seq(Command)
      BY <1>1, <1>2, <1>4, <1>6, <2>2, <2>5, <3>2, <3>3, SeesAppend
    <3>5. \A i \in DOMAIN q : Meant(q[i])
      BY <1>4, <1>6, <3>2, AppendAt
    <3> HIDE DEF q, t
    <3>6. Alike(Heard(t, m2), told')
      BY <2>5 DEF t
    <3>7. Sees(socket', g, missed, told', high) /\ socket' \in Seq(Command)
      BY <1>1, <1>2, <1>4, <1>5, <1>6, <2>5, <3>1, <3>2, <3>3, <3>4, <3>6, SeesAppend
    <3>8. \A i \in DOMAIN socket' : Meant(socket'[i])
      BY <1>4, <3>1, <3>2, <3>4, <3>5, AppendAt
    <3>9. QED
      BY <3>7, <3>8
  <2>6. QED
    BY <1>1, <1>3, <2>3, <2>4, <2>5 DEF Says
<1>10. QED
  BY <1>8, <1>9

-----------------------------------------------------------------------------
(* The end of one coordinator and the start of the next                      *)

(* A coordinator starts with no transaction, and has told the guard nothing  *)
(* or, over a reloaded recents scene, to suppress for the id it just took.   *)
Started(phase, app, n, again) ==
    LET fresh == [c |-> FreshState(phase, app, IF again THEN n + 1 ELSE 0),
                  clock |-> IF again THEN n + 1 ELSE n,
                  out |-> <<>>, told |-> NothingTold]
    IN  IF again THEN Send(fresh, "enter", n + 1, NoApp) ELSE fresh

(* What a coordinator that starts with the clock at k says, up to id high.   *)
Begins(sent, u, k, high) ==
    \/ sent = <<>> /\ u = NothingTold /\ high = k
    \/ \E m \in Message : /\ sent = <<m>> /\ m.name = "enter"
                          /\ k <= m.id /\ m.id = high
                          /\ Alike(Heard(NothingTold, m), u)

Starts(s, k) ==
    /\ s \in Steps /\ Sound(s)
    /\ s.c.kind = "none" /\ s.c.policy = FALSE /\ s.c.deadline = "none"
    /\ Begins(s.out, s.told, k, Floor(s))

LEMMA StartedStep ==
    ASSUME NEW phase \in Phases, NEW app \in Apps \cup {NoApp}, NEW n \in Nat,
           NEW again \in BOOLEAN, again => SourceEnabled
    PROVE  Starts(Started(phase, app, n, again), n)
<1> DEFINE id == IF again THEN n + 1 ELSE 0
           fresh == [c |-> FreshState(phase, app, id),
                     clock |-> IF again THEN n + 1 ELSE n,
                     out |-> <<>>, told |-> NothingTold]
           m == [name |-> "enter", id |-> n + 1, app |-> NoApp]
           s == Started(phase, app, n, again)
<1>1. /\ FreshState(phase, app, id) \in State
      /\ FreshState(phase, app, id).kind = "none"
      /\ FreshState(phase, app, id).policy = FALSE
      /\ FreshState(phase, app, id).deadline = "none"
  BY DEF FreshState, State, Phases, Kinds
<1>2. NothingTold \in Told /\ NothingTold.id = 0 /\ NothingTold.adopted = 0
  BY DEF NothingTold, Told
<1>3. fresh \in Steps /\ fresh.c = FreshState(phase, app, id)
  BY <1>1, <1>2 DEF Steps
<1>4. s = IF again THEN Send(fresh, "enter", n + 1, NoApp) ELSE fresh
  BY DEF Started
<1>5. m \in Message
  BY DEF Message
<1>6. /\ fresh.out = <<>> /\ fresh.told = NothingTold
      /\ fresh.clock = IF again THEN n + 1 ELSE n
  OBVIOUS
<1> HIDE DEF id, fresh, s
<1>7. CASE again
  <2>1. s = [fresh EXCEPT !.out = Append(fresh.out, m),
                          !.told = Heard(fresh.told, m)]
    BY <1>4, <1>7 DEF Send
  <2>2. s \in Steps /\ s.c = fresh.c /\ s.clock = n + 1
    <3>1. n + 1 \in Nat /\ NoApp \in Apps \cup {NoApp}
          /\ "enter" \in {"enter", "handoff", "adopt", "complete"}
          /\ s = Send(fresh, "enter", n + 1, NoApp)
      BY <1>4, <1>7
    <3>2. QED
      BY <1>3, <1>6, <1>7, <3>1, SendStep
  <2>3. s.told = Heard(NothingTold, m) /\ s.out = <<m>>
    BY <1>3, <1>5, <1>6, <2>1 DEF Steps
  <2>4. s.told.id = n + 1 /\ s.told.adopted = 0 /\ Alike(Heard(NothingTold, m), s.told)
    BY <1>2, <2>3 DEF Heard, Told, Alike
  <2>5. Sound(s)
    BY <1>1, <1>3, <2>2, <2>4 DEF Sound, Linked, Remembers, Spares
  <2>6. m.id = n + 1 /\ m.name = "enter"
    OBVIOUS
  <2>7. Floor(s) = n + 1 /\ n <= m.id
    BY <2>4, <2>6 DEF Floor
  <2> HIDE DEF m
  <2>8. Begins(s.out, s.told, n, Floor(s))
    BY <1>5, <2>3, <2>4, <2>6, <2>7 DEF Begins
  <2>9. QED
    BY <1>1, <1>3, <2>2, <2>5, <2>8 DEF s, Starts
<1>8. CASE ~again
  <2>1. s = fresh /\ s.c.kind = "none" /\ s.told.id = 0 /\ s.told.adopted = 0
        /\ s.clock = n
    BY <1>1, <1>2, <1>3, <1>4, <1>6, <1>8
  <2>2. Sound(s)
    BY <2>1 DEF Sound, Linked, Remembers, Spares
  <2>3. Begins(s.out, s.told, n, Floor(s))
    BY <1>2, <1>6, <2>1 DEF Begins, Floor
  <2>4. QED
    BY <1>1, <1>3, <2>1, <2>2, <2>3 DEF s, Starts
<1>9. QED
  BY <1>7, <1>8

LEMMA QueueAppends ==
    ASSUME NEW q \in Seq(Command), NEW x \in Command
    PROVE  q \o <<x, x>> = Append(Append(q, x), x) /\ q \o <<x>> = Append(q, x)
           /\ q \o <<>> = q
OBVIOUS

LEMMA ConcatFlat ==
    \A q, w, v \in Seq(Command) : q \o (w \o v) = (q \o w) \o v
<1>1. ASSUME NEW q \in Seq(Command), NEW w \in Seq(Command), NEW v \in Seq(Command)
      PROVE  q \o (w \o v) = (q \o w) \o v
  BY ConcatAssociative
<1>2. QED
  BY <1>1, Zenon

(* Four queues in a row, however they are put together.                      *)
Regroups(q, w, v, z) == q \o ((w \o v) \o z) = ((q \o w) \o v) \o z

LEMMA QueueConcats ==
    ASSUME NEW q \in Seq(Command), NEW w \in Seq(Command), NEW v \in Seq(Command),
           NEW z \in Seq(Command)
    PROVE  Regroups(q, w, v, z)
<1> DEFINE y == w \o v
<1>1. y \in Seq(Command)
  BY ConcatProperties
<1>2. q \o (w \o v) = (q \o w) \o v
  BY ConcatFlat, Zenon
<1>3. q \o (y \o z) = (q \o y) \o z
  <2> HIDE DEF y
  <2>1. QED
    BY <1>1, ConcatFlat, Zenon
<1>4. q \o ((w \o v) \o z) = ((q \o w) \o v) \o z
  BY <1>2, <1>3, Zenon
<1>5. QED
  BY <1>4 DEF Regroups

ArmOf(app) == IF app = NoApp THEN <<>> ELSE <<Shell("arm", app)>>

(* The shell arms the source it knows of, if any.                            *)
LEMMA ArmSees ==
    ASSUME NEW q \in Seq(Command), \A i \in DOMAIN q : Meant(q[i]),
           NEW G \in Guards, NEW miss \in BOOLEAN, NEW n \in Nat,
           Sees(q, G, miss, NothingTold, n), NEW app \in Apps \cup {NoApp},
           IF q = <<>> THEN G.accepted = 0 /\ ~G.active
           ELSE q[Len(q)].name = "reset-top"
    PROVE  LET r == q \o ArmOf(app)
           IN  /\ r \in Seq(Command) /\ \A i \in DOMAIN r : Meant(r[i])
               /\ Sees(r, G, miss, NothingTold, n)
<1> DEFINE r == q \o ArmOf(app)
           y == Shell("arm", app)
<1>1. y \in Command /\ y.name = "arm" /\ (app # NoApp => Meant(y))
  BY DEF Shell, Command, Meant
<1>2. NothingTold \in Told /\ NothingTold.source = "free"
  BY DEF NothingTold, Told
<1>3. CASE app = NoApp
  <2>1. r = q
    BY <1>3, QueueAppends DEF ArmOf
  <2>2. QED
    BY <2>1
<1>4. CASE app # NoApp
  <2>1. r = Append(q, y)
    BY <1>1, <1>4, QueueAppends DEF ArmOf
  <2> HIDE DEF r, y
  <2>2. r \in Seq(Command) /\ Sees(r, G, miss, NothingTold, n)
    BY <1>1, <1>2, <2>1, SeesArm
  <2>3. \A i \in DOMAIN r : Meant(r[i])
    BY <1>1, <1>4, <2>1, AppendAt
  <2>4. QED
    BY <2>2, <2>3 DEF r
<1>5. QED
  BY <1>3, <1>4

(* The coordinator enters the reloaded recents scene again, or says nothing. *)
LEMMA BeginSees ==
    ASSUME NEW q \in Seq(Command), \A i \in DOMAIN q : Meant(q[i]),
           NEW G \in Guards, NEW miss \in BOOLEAN, NEW k \in Nat,
           Sees(q, G, miss, NothingTold, k), NEW sent, NEW u \in Told,
           NEW high \in Nat, Begins(sent, u, k, high)
    PROVE  LET r == q \o sent
           IN  /\ r \in Seq(Command) /\ \A i \in DOMAIN r : Meant(r[i])
               /\ Sees(r, G, miss, u, high)
<1> DEFINE r == q \o sent
<1>1. CASE sent = <<>> /\ u = NothingTold /\ high = k
  <2>1. r = q
    BY <1>1
  <2>2. QED
    BY <1>1, <2>1
<1>2. ASSUME NEW m \in Message, sent = <<m>>, m.name = "enter",
             k <= m.id, m.id = high, Alike(Heard(NothingTold, m), u)
      PROVE  /\ r \in Seq(Command) /\ \A i \in DOMAIN r : Meant(r[i])
             /\ Sees(r, G, miss, u, high)
  <2>1. m \in Command /\ Meant(m) /\ m.id <= high
    BY <1>2 DEF Message, Command, Meant
  <2>2. r = Append(q, m)
    BY <1>2, <2>1
  <2>3. NothingTold \in Told
    BY DEF NothingTold, Told
  <2> HIDE DEF r
  <2>4. r \in Seq(Command) /\ Sees(r, G, miss, u, high)
    BY <1>2, <2>1, <2>2, <2>3, SeesAppend
  <2>5. \A i \in DOMAIN r : Meant(r[i])
    BY <2>1, <2>2, AppendAt
  <2>6. QED
    BY <2>4, <2>5
<1>3. QED
  BY <1>1, <1>2 DEF Begins

(* The resets of the loop, the source it arms and the first command of the   *)
(* new coordinator are queued behind what the old one left.                  *)
Opening(app, sent) == Resets \o ArmOf(app) \o sent

LEMMA RestartSees ==
    ASSUME NEW q \in Seq(Command), \A i \in DOMAIN q : Meant(q[i]),
           NEW G \in Guards, NEW miss \in BOOLEAN, NEW n \in Nat, NEW k \in Nat,
           Aged(q, G.accepted, n), Armed(q, G), n <= k,
           NEW app \in Apps \cup {NoApp}, NEW sent \in Seq(Command), NEW u \in Told,
           NEW high \in Nat, Begins(sent, u, k, high)
    PROVE  LET r == q \o Opening(app, sent)
           IN  /\ r \in Seq(Command) /\ \A i \in DOMAIN r : Meant(r[i])
               /\ Sees(r, G, miss, u, high)
<1> DEFINE arm == ArmOf(app)
           x == Shell("reset-top", NoApp)
           q1 == Append(q, x)
           q2 == Append(q1, x)
           q3 == q2 \o arm
           r == q \o Opening(app, sent)
<1>1. x \in Command /\ x.name = "reset-top" /\ Meant(x)
  BY DEF Shell, Command, Meant
<1>2. NothingTold \in Told /\ NothingTold.source = "free"
  BY DEF NothingTold, Told
<1>3. Resets = <<x, x>> /\ Resets \in Seq(Command) /\ arm \in Seq(Command)
  <2>1. Shell("arm", app) \in Command
    BY DEF Shell, Command
  <2>2. arm \in Seq(Command)
    BY <2>1 DEF ArmOf
  <2>3. QED
    BY <1>1, <2>2 DEF Resets
<1> HIDE DEF x
<1>4. q1 \in Seq(Command) /\ Sees(q1, G, miss, NothingTold, k)
      /\ \A i \in DOMAIN q1 : Meant(q1[i])
  <2>1. q1 \in Seq(Command) /\ Sees(q1, G, miss, NothingTold, k)
    BY <1>1, <1>2, SeesReset
  <2>2. \A i \in DOMAIN q1 : Meant(q1[i])
    BY <1>1, AppendAt
  <2>3. QED
    BY <2>1, <2>2
<1> HIDE DEF q1
<1>5. q2 \in Seq(Command) /\ Sees(q2, G, miss, NothingTold, k)
      /\ (\A i \in DOMAIN q2 : Meant(q2[i]))
      /\ q2 # <<>> /\ q2[Len(q2)].name = "reset-top"
  <2>1. q2 \in Seq(Command) /\ Sees(q2, G, miss, NothingTold, k)
    <3>1. Aged(q1, G.accepted, k) /\ Armed(q1, G) /\ k <= k
      BY <1>4 DEF Sees
    <3>2. QED
      BY <1>1, <1>2, <1>4, <3>1, SeesReset
  <2>2. \A i \in DOMAIN q2 : Meant(q2[i])
    BY <1>1, <1>4, AppendAt
  <2>3. q2 # <<>> /\ q2[Len(q2)].name = "reset-top"
    BY <1>1, <1>4
  <2>4. QED
    BY <2>1, <2>2, <2>3
<1>6. r = q3 \o sent
  <2> DEFINE w == <<x, x>>
  <2>1. r = q \o ((w \o arm) \o sent) /\ q3 = (q \o w) \o arm /\ w \in Seq(Command)
    <3>1. q \o w = Append(Append(q, x), x)
      BY <1>1, QueueAppends
    <3>2. QED
      BY <1>3, <3>1 DEF Opening, q1
  <2> HIDE DEF r, q3, arm, w
  <2>2. Regroups(q, w, arm, sent)
    BY <1>3, <2>1, QueueConcats
  <2>3. q \o ((w \o arm) \o sent) = ((q \o w) \o arm) \o sent
    BY <2>2, Zenon DEF Regroups
  <2>4. QED
    BY <2>1, <2>3, Zenon
<1> HIDE DEF q2, r
<1>7. q3 \in Seq(Command) /\ Sees(q3, G, miss, NothingTold, k)
      /\ \A i \in DOMAIN q3 : Meant(q3[i])
  BY <1>5, ArmSees
<1> HIDE DEF q3
<1>8. QED
  BY <1>6, <1>7, BeginSees DEF r

LEMMA RestartTracked ==
    ASSUME TypeOK, Ordered, SystemTypes, Tracked, RestartCoordinator
    PROVE  IInv' /\ Ordered' /\ SystemTypes' /\ Tracked'
<1>1. PICK app \in Bootstrapped, focused \in BOOLEAN :
         LET phase == InitialPhase(focused, app)
             again == phase = "recents" /\ SourceEnabled
             id == IF again THEN clock + 1 ELSE 0
             s == [c |-> FreshState(phase, app, id), clock |-> clock,
                   out |-> <<>>, told |-> NothingTold]
             started == IF again THEN Send([s EXCEPT !.clock = id], "enter", id, NoApp)
                        ELSE s
             arm == IF app = NoApp THEN <<>> ELSE <<Shell("arm", app)>>
         IN  /\ Becomes(started)
             /\ Arrive(Resets \o arm \o started.out)
             /\ saved' = app
  BY DEF RestartCoordinator
<1> DEFINE phase == InitialPhase(focused, app)
           again == phase = "recents" /\ SourceEnabled
           started == Started(phase, app, clock, again)
           arm == IF app = NoApp THEN <<>> ELSE <<Shell("arm", app)>>
<1>2. /\ app \in Apps \cup {NoApp} /\ phase \in Phases /\ clock \in Nat
      /\ again \in BOOLEAN /\ (again => SourceEnabled)
      /\ told \in Told /\ told.id \in Nat /\ Step.clock = clock /\ Step.told = told
  <2>1. app \in Apps \cup {NoApp}
    BY DEF Bootstrapped, Snapshot, SystemTypes, Guards
  <2>2. phase \in Phases
    BY DEF InitialPhase, Phases
  <2>3. clock \in Nat /\ told \in Told /\ told.id \in Nat
    BY DEF TypeOK, Told
  <2>4. QED
    BY <2>1, <2>2, <2>3 DEF Step
<1>3. /\ Becomes(started) /\ Arrive(Resets \o arm \o started.out) /\ saved' = app
  <2>1. started = IF again
                  THEN Send([c |-> FreshState(phase, app, clock + 1),
                             clock |-> clock + 1, out |-> <<>>, told |-> NothingTold],
                            "enter", clock + 1, NoApp)
                  ELSE [c |-> FreshState(phase, app, 0), clock |-> clock,
                        out |-> <<>>, told |-> NothingTold]
    BY DEF Started
  <2> DEFINE old == [c |-> FreshState(phase, app, IF again THEN clock + 1 ELSE 0),
                     clock |-> clock, out |-> <<>>, told |-> NothingTold]
             id == IF again THEN clock + 1 ELSE 0
             next == IF again THEN Send([old EXCEPT !.clock = id], "enter", id, NoApp)
                     ELSE old
  <2>2. Becomes(next) /\ Arrive(Resets \o arm \o next.out) /\ saved' = app
    BY <1>1
  <2>3. next = started
    BY <2>1
  <2> HIDE DEF next, started
  <2>4. QED
    BY <2>2, <2>3
<1>4. UNCHANGED <<g, missed>> /\ restarts' = restarts + 1
      /\ reader' = Idle /\ timer' = TRUE /\ stopping' = FALSE /\ main' = "waiting"
  BY DEF RestartCoordinator
<1> DEFINE s == started
<1>5. Starts(s, clock)
  <2> HIDE DEF again, phase
  <2>1. QED
    BY <1>2, StartedStep, Zenon
<1> HIDE DEF s, started, again, phase
<1>6. c' = s.c /\ clock' = s.clock /\ out' = s.out /\ told' = s.told
  BY <1>3 DEF Becomes, s
<1>7. Idle \in Reader /\ Idle.at = "idle"
  BY DEF Idle, Reader, NoLine
<1>8. TypeOK'
  BY <1>4, <1>5, <1>6, <1>7 DEF TypeOK, Steps, Starts
<1>9. IInv'
  BY <1>4, <1>5, <1>6, <1>7, <1>8
  DEF IInv, PolicyHasDeadline, BarrierHolds, NoTransitionAfterTeardown, EventLockHeld,
      Starts
<1>10. Ordered'
  BY <1>5, <1>6 DEF Ordered, Sound, Linked, Remembers, Spares, Step, Starts
<1> DEFINE high == Floor(s)
           sent == s.out
           u == s.told
<1>11. /\ high \in Nat /\ Floor(Step)' = high /\ u \in Told
       /\ sent \in Seq(Command) /\ Begins(sent, u, clock, high)
  <2>1. u \in Told /\ u.id \in Nat /\ s.clock \in Nat /\ sent \in Seq(Message)
    BY <1>5 DEF Steps, Told, Starts
  <2>2. \A m \in Message : m \in Command
    BY DEF Message, Command
  <2>3. sent \in Seq(Command)
    BY <2>1, <2>2
  <2>4. Floor(Step)' = high
    BY <1>6 DEF Floor, Step
  <2>5. QED
    BY <1>5, <2>1, <2>3, <2>4 DEF Floor, Starts
<1> HIDE DEF high, sent, u
<1>12. CASE ~g.up
  <2>1. socket' = <<>>
    BY <1>3, <1>12 DEF Arrive
  <2>2. QED
    BY <1>2, <1>3, <1>4, <1>9, <1>10, <1>12, <2>1 DEF SystemTypes, Tracked
<1>13. CASE g.up
  <2> DEFINE q == socket \o Opening(app, sent)
  <2>1. socket' = q
    BY <1>3, <1>13 DEF Arrive, Opening, ArmOf, s, sent
  <2>2. /\ socket \in Seq(Command) /\ g \in Guards /\ missed \in BOOLEAN
        /\ \A i \in DOMAIN socket : Meant(socket[i])
    BY DEF SystemTypes
  <2>3. PICK n \in Nat : /\ Aged(socket, g.accepted, n) /\ n <= clock
                         /\ Armed(socket, g)
    <3>1. Floor(Step) \in Nat /\ Floor(Step) <= clock
      BY <1>2 DEF Floor, Ordered, Sound, Linked
    <3>2. QED
      BY <1>13, <3>1 DEF Tracked, Sees
  <2>4. /\ q \in Seq(Command) /\ \A i \in DOMAIN q : Meant(q[i])
        /\ Sees(q, g, missed, u, high)
    BY <1>2, <1>11, <2>2, <2>3, RestartSees
  <2> HIDE DEF q
  <2>5. SystemTypes'
    BY <1>2, <1>3, <1>4, <2>1, <2>4 DEF SystemTypes
  <2>6. Tracked'
    BY <1>4, <1>6, <1>11, <2>1, <2>4 DEF Tracked, u
  <2>7. QED
    BY <1>9, <1>10, <2>5, <2>6
<1>14. QED
  BY <1>12, <1>13

-----------------------------------------------------------------------------
(* The invariant                                                             *)

(* What a guard that was just started finds in its socket.                   *)
Finds(r, G, miss, u, high) ==
    /\ r \in Seq(Command) /\ \A i \in DOMAIN r : Meant(r[i])
    /\ Sees(r, G, miss, u, high)

LEMMA OpeningSees ==
    ASSUME NEW G \in Guards, G.accepted = 0, ~G.active, NEW miss \in BOOLEAN,
           NEW app \in Apps \cup {NoApp}, NEW sent, NEW u \in Told,
           NEW high \in Nat, Begins(sent, u, 0, high)
    PROVE  Finds(ArmOf(app) \o sent, G, miss, u, high)
<1> DEFINE q == ArmOf(app)
<1>1. NothingTold \in Told
  BY DEF NothingTold, Told
<1>2. PICK e \in Seq(Command) : e = <<>>
  <2>1. <<>> \in Seq(Command)
    OBVIOUS
  <2>2. QED
    BY <2>1, Zenon
<1>3. \A i \in DOMAIN e : Meant(e[i])
  BY <1>2
<1>4. Sees(e, G, miss, NothingTold, 0)
  <2>1. 0 \in Nat
    OBVIOUS
  <2>2. QED
    BY <1>1, <1>2, <2>1, SeesNothing, Zenon
<1>5. IF e = <<>> THEN G.accepted = 0 /\ ~G.active ELSE e[Len(e)].name = "reset-top"
  BY <1>2
<1>6. q = e \o ArmOf(app)
  <2>1. Shell("arm", app) \in Command
    BY DEF Shell, Command
  <2>2. QED
    BY <1>2, <2>1 DEF ArmOf
<1> HIDE DEF q
<1>7. q \in Seq(Command) /\ Sees(q, G, miss, NothingTold, 0)
      /\ \A i \in DOMAIN q : Meant(q[i])
  BY <1>3, <1>4, <1>5, <1>6, ArmSees
<1>8. Finds(q \o sent, G, miss, u, high)
  BY <1>7, BeginSees DEF Finds
<1>9. QED
  BY <1>8 DEF q

LEMMA InitTracked == SystemInit => IInv /\ Ordered /\ SystemTypes /\ Tracked
<1> SUFFICES ASSUME SystemInit PROVE IInv /\ Ordered /\ SystemTypes /\ Tracked
  OBVIOUS
<1>1. Init /\ IInv /\ Ordered
  BY InitIInv, InitOrdered DEF SystemInit
<1>2. PICK phase \in InitialPhases, source \in InitialSources :
        LET again == phase = "recents" /\ SourceEnabled /\ source # NoApp
            fresh == [c |-> FreshState(phase, source, IF again THEN 1 ELSE 0),
                      clock |-> IF again THEN 1 ELSE 0,
                      out |-> <<>>, told |-> NothingTold]
            s == IF again THEN Send(fresh, "enter", 1, NoApp) ELSE fresh
        IN  c = s.c /\ clock = s.clock /\ out = s.out /\ told = s.told
  BY <1>1 DEF Init
<1> DEFINE again == phase = "recents" /\ SourceEnabled /\ source # NoApp
           s == Started(phase, source, 0, again)
<1>3. /\ phase \in Phases /\ source \in Apps \cup {NoApp}
      /\ again \in BOOLEAN /\ (again => SourceEnabled) /\ 0 \in Nat
  BY CoordinatorAssumption DEF Phases
<1>4. c = s.c /\ clock = s.clock /\ out = s.out /\ told = s.told
  BY <1>2 DEF Started
<1>5. Starts(s, 0)
  <2> HIDE DEF again
  <2>1. QED
    BY <1>3, StartedStep, Zenon
<1> HIDE DEF s, again
<1>6. c.source \in Apps \cup {NoApp} /\ told \in Told /\ out \in Seq(Message)
      /\ told.id \in Nat /\ clock \in Nat
  BY <1>1 DEF IInv, TypeOK, State, Told
<1>7. /\ Floor(Step) \in Nat /\ Begins(out, told, 0, Floor(Step))
  BY <1>4, <1>5, <1>6 DEF Starts, Floor, Step
<1>8. /\ g \in Guards /\ g.accepted = 0 /\ ~g.active /\ missed = FALSE
      /\ saved = c.source /\ restarts = 0 /\ (g.active => g.app # NoApp)
  BY DEF SystemInit, Guard!Init, Guard!Fresh, Guard!Down, Guards
<1> DEFINE r == ArmOf(c.source) \o out
           high == Floor(Step)
<1>9. socket = r
  BY DEF SystemInit, ArmOf
<1>10. Finds(r, g, missed, told, high)
  <2>1. PICK G \in Guards, miss \in BOOLEAN :
          G = g /\ miss = missed /\ G.accepted = 0 /\ ~G.active
    BY <1>8
  <2>2. PICK app \in Apps \cup {NoApp}, u \in Told, n \in Nat :
          app = c.source /\ u = told /\ n = high
    BY <1>6, <1>7
  <2> HIDE DEF high
  <2>3. Begins(out, u, 0, n)
    BY <1>7, <2>2 DEF high
  <2>4. Finds(ArmOf(app) \o out, G, miss, u, n)
    BY <2>1, <2>2, <2>3, OpeningSees
  <2>5. QED
    BY <2>1, <2>2, <2>4
<1> HIDE DEF r, high
<1>11. /\ r \in Seq(Command) /\ \A i \in DOMAIN r : Meant(r[i])
       /\ Sees(r, g, missed, told, high)
  BY <1>10 DEF Finds
<1>12. SystemTypes
  BY <1>6, <1>8, <1>9, <1>11 DEF SystemTypes
<1>13. Tracked
  BY <1>8, <1>9, <1>11 DEF Tracked, high
<1>14. QED
  BY <1>1, <1>12, <1>13

(* Every step of the system is a step of the coordinator, of the guard, or   *)
(* the start of the next coordinator.                                        *)
SystemInv == IInv /\ Ordered /\ SystemTypes /\ Tracked

LEMMA NextTracked == SystemInv /\ [SystemNext]_allVars => SystemInv'
<1> SUFFICES ASSUME SystemInv, [SystemNext]_allVars PROVE SystemInv'
  OBVIOUS
<1>1. IInv /\ TypeOK /\ Ordered /\ SystemTypes /\ Tracked
  BY DEF SystemInv, IInv
<1>2. ASSUME UNCHANGED vars
      PROVE  IInv' /\ Ordered'
  <2>1. IInv'
    BY <1>1, <1>2, NextIInv
  <2>2. Ordered'
    BY <1>1, <1>2 DEF vars, Ordered, Sound, Linked, Remembers, Spares, Step
  <2>3. QED
    BY <2>1, <2>2
<1>3. CASE ReadLines \/ Runs
  <2>1. Next /\ Arrive(out') /\ UNCHANGED <<g, saved, restarts, missed>>
    BY <1>3 DEF ReadLines, Runs, CoordinatorSteps, Next
  <2>2. IInv' /\ TypeOK'
    BY <1>1, <2>1, NextIInv DEF IInv
  <2>3. Ordered' /\ Commands
    BY <1>1, <2>1, NextOrdered
  <2>4. SystemTypes' /\ Tracked'
    BY <1>1, <2>1, <2>2, <2>3, CommandsTracked
  <2>5. QED
    BY <2>2, <2>3, <2>4 DEF SystemInv
<1>4. CASE RestartCoordinator
  BY <1>1, <1>4, RestartTracked DEF SystemInv
<1>5. CASE Receive
  <2>1. UNCHANGED vars
    BY <1>5 DEF Receive
  <2>2. QED
    BY <1>1, <1>2, <1>5, <2>1, ReceiveTracked DEF SystemInv
<1>6. CASE GuardCompletes \/ GuardLosesSource \/ GuardCrashes
  <2>1. UNCHANGED vars
    BY <1>6 DEF GuardCompletes, GuardLosesSource, GuardCrashes
  <2>2. QED
    BY <1>1, <1>2, <1>6, <2>1, GuardTracked DEF SystemInv
<1>7. CASE UNCHANGED allVars
  <2>1. UNCHANGED vars /\ UNCHANGED <<socket, g, saved, restarts, missed>>
    BY <1>7 DEF allVars
  <2>2. SystemTypes'
    BY <1>1, <2>1 DEF SystemTypes
  <2>3. Tracked'
    BY <1>1, <2>1 DEF Tracked, Floor, Step, vars
  <2>4. QED
    BY <1>2, <2>1, <2>2, <2>3 DEF SystemInv
<1>8. QED
  BY <1>3, <1>4, <1>5, <1>6, <1>7 DEF SystemNext

LEMMA SystemInvariance == SystemSpec => []SystemInv
<1>1. SystemInit => SystemInv
  BY InitTracked DEF SystemInv
<1>2. QED
  BY <1>1, NextTracked, PTL DEF SystemSpec

-----------------------------------------------------------------------------
(* The theorems                                                              *)

(* Whatever waited in the socket when a coordinator was replaced, the guard  *)
(* refuses no command as stale and is found reset when a source is armed     *)
(* (handle_minor, handle_handoff, handle_adopt and arm_source of the guard,  *)
(* the reset and bootstrap of service.sh between two coordinators).          *)
THEOREM CommandsAreAccepted == SystemSpec => []NothingIsRefused
<1>1. SystemInv => NothingIsRefused
  <2> SUFFICES ASSUME SystemInv, g.up, socket # <<>>
               PROVE  /\ FromCoordinator(Received) => Received.id >= g.accepted
                      /\ Received.name = "arm" => g.accepted = 0 /\ ~g.active
    BY DEF NothingIsRefused
  <2>1. Aged(socket, g.accepted, Floor(Step)) /\ Armed(socket, g)
    BY DEF SystemInv, Tracked, Sees
  <2>2. Received = socket[1] /\ 1 \in DOMAIN socket /\ socket[1].id \in Nat
    BY TailAt DEF SystemInv, SystemTypes, Received
  <2>3. g.accepted \in Nat
    BY DEF SystemInv, SystemTypes, Guards
  <2>4. Received.name = "arm" => g.accepted = 0 /\ ~g.active
    BY <2>1, <2>2 DEF Armed
  <2>5. FromCoordinator(Received) => Received.id >= g.accepted
    BY <2>1, <2>2, <2>3 DEF Aged
  <2>6. QED
    BY <2>4, <2>5
<1>2. QED
  BY <1>1, SystemInvariance, PTL

(* A guard that has read all its commands and suppresses does so because the *)
(* coordinator told it to and believes it, and a release the coordinator     *)
(* announced is under way (the send functions of launcher_coordinator.c      *)
(* against handle_minor, handle_handoff, handle_adopt and complete_minor).   *)
THEOREM GuardIsKnown == SystemSpec => []SuppressionIsKnown
<1>1. SystemInv => SuppressionIsKnown
  <2> SUFFICES ASSUME SystemInv, g.up, g.active, socket = <<>>, ~missed
               PROVE  /\ told.source # "free"
                      /\ told.source = "releasing" => g.pending = g.accepted
    BY DEF SuppressionIsKnown
  <2>1. Undecided(<<>>, g, missed, told)
    BY DEF SystemInv, Tracked, Sees
  <2>2. DOMAIN <<>> = {}
    OBVIOUS
  <2>3. ~CompletedAfter(<<>>, 0, told.id)
    BY <2>2 DEF CompletedAfter
  <2>4. QED
    BY <2>1, <2>2, <2>3 DEF Undecided
<1>2. QED
  BY <1>1, SystemInvariance, PTL

(* The target adopted for an exit is not suppressed once the guard has read  *)
(* the commands it was sent, in whatever state a failed step left the guard  *)
(* (send_adopt_for_target_locked, handle_adopt).                             *)
THEOREM AdoptedTargetIsFree == SystemSpec => []TargetIsFree
<1>1. SystemInv => TargetIsFree
  <2> SUFFICES ASSUME SystemInv, g.up, socket = <<>>, ~missed, c.kind = "exit",
                      told.adopted = c.id, g.active
               PROVE  FALSE
    BY DEF TargetIsFree
  <2>1. told.source = "free"
    BY DEF SystemInv, Ordered, Sound, Spares, Step
  <2>2. Undecided(<<>>, g, missed, told)
    BY DEF SystemInv, Tracked, Sees
  <2>3. DOMAIN <<>> = {}
    OBVIOUS
  <2>4. QED
    BY <2>1, <2>2, <2>3 DEF Undecided
<1>2. QED
  BY <1>1, SystemInvariance, PTL

(* No completion timer is left running in a guard whose source is to stay    *)
(* suppressed, whichever releases were announced before (begin_transition    *)
(* and adopt_package cancel it, schedule_completion sets it).                *)
THEOREM NoStaleRelease == SystemSpec => []WantedStaysSuppressed
<1>1. SystemInv => WantedStaysSuppressed
  <2> SUFFICES ASSUME SystemInv, g.up, g.active, socket = <<>>, ~missed,
                      told.source = "suppressed"
               PROVE  g.pending = 0
    BY DEF WantedStaysSuppressed
  <2>1. Undecided(<<>>, g, missed, told)
    BY DEF SystemInv, Tracked, Sees
  <2>2. DOMAIN <<>> = {}
    OBVIOUS
  <2>3. QED
    BY <2>1, <2>2 DEF Undecided
<1>2. QED
  BY <1>1, SystemInvariance, PTL

(* A coordinator started by the service loop keeps the promises of the first *)
(* one: boost policies only with a deadline that ends them, and none once    *)
(* its main thread has torn them down, whatever its predecessor left behind  *)
(* (launcher_logwatch_main, coordinator.sh).                                 *)
THEOREM EveryCoordinatorIsBounded ==
    SystemSpec => [](TypeOK /\ PolicyHasDeadline /\ NoTransitionAfterTeardown)
<1>1. SystemInv => TypeOK /\ PolicyHasDeadline /\ NoTransitionAfterTeardown
  BY DEF SystemInv, IInv
<1>2. QED
  BY <1>1, SystemInvariance, PTL
=============================================================================
