------------------------ MODULE ClientUpdaterProofs ------------------------
(***************************************************************************)
(* The updater, for any users, handles, ranges and requests and any number  *)
(* of moves.  What is said of ghosts holds for passes that overlap, what is *)
(* said of views and intervals for passes that do not (OneAtATime): with    *)
(* two passes at a time it does not hold.                                   *)
(***************************************************************************)
EXTENDS ClientUpdater, FiniteSetTheorems, WellFoundedInduction, TLAPS

USE ClientUpdaterAssumption

-----------------------------------------------------------------------------
(* What adjust_time computes.  LastTimeFrom is a recursive function over a  *)
(* sequence of users: that it exists, and what its values are, is shown by  *)
(* induction, which follows from the order of the numbers being             *)
(* well-founded.                                                            *)

\* Induction, for a set of numbers.
LEMMA Induction ==
  ASSUME NEW S, 0 \in S, \A n \in Nat : n \in S => n + 1 \in S
  PROVE  \A n \in Nat : n \in S
<1> SUFFICES ASSUME NEW m \in Nat, m \notin S PROVE FALSE
  OBVIOUS
<1> DEFINE T == Nat \ S
           R == OpToRel(<, Nat)
<1>1. IsWellFoundedOn(R, Nat)
  BY NatLessThanWellFounded
<1>2. T \subseteq Nat /\ T # {}
  OBVIOUS
<1>3. PICK n \in T : \A k \in T : <<k, n>> \notin R
  <2> HIDE DEF T, R
  <2> QED  BY <1>1, <1>2, WFMin
<1>4. n \in Nat /\ n # 0 /\ n - 1 \in T
  OBVIOUS
<1>5. <<n - 1, n>> \in R
  BY <1>4 DEF OpToRel
<1> QED
  BY <1>3, <1>4, <1>5

\* The intervals that a user may be given.
Times == Intervals \cup {DEFAULT}

\* lastTime is the default or what somebody asked for (client_manager.cpp:6-14).
LEMMA LastTimeType ==
  ASSUME NEW v, NEW m \in Nat, NEW s, Len(s) = m,
         \A n \in 1..m : Requested(s[n], v) \in Intervals
  PROVE  LastTimeFrom(DEFAULT, s, v) \in Times
\* f computes lastTime for the first n users.
<1> DEFINE Step(last, n) == IF n = 0 THEN DEFAULT
                            ELSE IF last[n - 1] = DEFAULT \/ Requested(s[n], v) < last[n - 1]
                                 THEN Requested(s[n], v) ELSE last[n - 1]
           Fits(f, n) == f = [i \in 0..n |-> Step(f, i)]
           Upto       == {n \in Nat : n <= m => \E f \in [0..n -> Times] : Fits(f, n)}
<1>1. 0 \in Upto
  <2> DEFINE f == [i \in 0..0 |-> DEFAULT]
  <2>1. f \in [0..0 -> Times] /\ Fits(f, 0)
    BY DEF Times
  <2> QED
    BY <2>1
<1>2. ASSUME NEW n \in Nat, n \in Upto, n + 1 <= m
      PROVE  \E f \in [0..n + 1 -> Times] : Fits(f, n + 1)
  <2>1. PICK g \in [0..n -> Times] : Fits(g, n)
    BY <1>2
  <2> DEFINE f == [i \in 0..n + 1 |-> IF i = n + 1 THEN Step(g, n + 1) ELSE g[i]]
  <2>2. Step(g, n + 1) \in Times
    BY <1>2 DEF Times
  <2>3. f \in [0..n + 1 -> Times]
    BY <2>2
  <2>4. ASSUME NEW i \in 0..n + 1
        PROVE  f[i] = Step(f, i)
    <3>1. CASE i = n + 1
      BY <3>1
    <3>2. CASE i # n + 1
      <4>1. i \in 0..n /\ f[i] = g[i] /\ (i # 0 => f[i - 1] = g[i - 1])
        BY <3>2
      <4>2. g[i] = Step(g, i)
        <5> HIDE DEF Step
        <5> QED BY <2>1, <4>1
      <4> HIDE DEF f
      <4> QED
        BY <4>1, <4>2
    <3> QED
      BY <3>1, <3>2
  <2>5. Fits(f, n + 1)
    <3>1. f = [i \in 0..n + 1 |-> f[i]]
      OBVIOUS
    <3> HIDE DEF f, Step
    <3> QED
      BY <2>4, <3>1
  <2> HIDE DEF f, Fits
  <2> QED
    BY <2>3, <2>5
<1>3. \A n \in Nat : n \in Upto => n + 1 \in Upto
  <2> HIDE DEF Fits
  <2> QED
    BY <1>2
<1>4. PICK f \in [0..m -> Times] : Fits(f, m)
  <2>1. m \in Upto
    <3> HIDE DEF Upto
    <3> QED BY <1>1, <1>3, Induction
  <2> QED BY <2>1
<1> DEFINE last == CHOOSE g : g = [i \in 0..m |-> Step(g, i)]
<1>5. last = [i \in 0..m |-> Step(last, i)]
  <2> HIDE DEF Step
  <2> QED BY <1>4
<1>6. \A n \in Nat : n <= m => last[n] \in Times
  <2> DEFINE S == {n \in Nat : n <= m => last[n] \in Times}
  <2>0. \A n \in 0..m : last[n] = Step(last, n)
    <3> HIDE DEF Step, last
    <3> QED BY <1>5, Zenon
  <2> HIDE DEF last
  <2>1. 0 \in S
    BY <2>0 DEF Times
  <2>2. \A n \in Nat : n \in S => n + 1 \in S
    <3> SUFFICES ASSUME NEW n \in Nat, n \in S, n + 1 <= m PROVE last[n + 1] \in Times
      OBVIOUS
    <3> QED BY <2>0 DEF Times
  <2> HIDE DEF S
  <2>3. \A n \in Nat : n \in S
    BY <2>1, <2>2, Induction
  <2> QED BY <2>3 DEF S
<1>7. LastTimeFrom(DEFAULT, s, v) = last[m]
  BY DEF LastTimeFrom
<1> QED
  BY <1>6, <1>7

LEMMA LastTimesTypes ==
  ASSUME TypeOK, NEW v \in Users
  PROVE  LastTimes(v) \subseteq Times
<1> SUFFICES ASSUME NEW s \in SetToSeqs(local_users[v])
             PROVE  LastTimeFrom(DEFAULT, s, v) \in Times
  BY DEF LastTimes
<1>1. local_users[v] \subseteq Users
  BY DEF TypeOK, StateOK
<1> DEFINE m == Cardinality(local_users[v])
<1>2. m \in Nat
  BY <1>1, FS_Subset, FS_CardinalityType
<1>3. s \in [1..m -> local_users[v]]
  BY DEF SetToSeqs
<1>4. Len(s) = m
  <2> HIDE DEF m
  <2> QED BY <1>2, <1>3
<1>5. \A o \in Users : Requested(o, v) \in Intervals
  BY DEF TypeOK, StateOK, Requested, Types
<1>6. \A n \in 1..m : Requested(s[n], v) \in Intervals
  BY <1>1, <1>3, <1>5
<1> HIDE DEF m
<1> QED
  BY <1>2, <1>4, <1>6, LastTimeType

-----------------------------------------------------------------------------
(* Types.  The state and the record of the pass that takes the step: the    *)
(* record of each successor is written out before its type is shown.        *)

TypesKept == StateOK' /\ pass' \in [Workers -> PassRecords] /\ \A w \in Workers : PassOK(w)'

LEMMA InitTypes == Init => TypeOK
<1> SUFFICES ASSUME Init PROVE TypeOK
  OBVIOUS
<1>1. StateOK
  BY DEF Init, StateOK
<1>2. Idle \in PassRecords
  BY DEF Idle, PassRecords, Phases, Jobs
<1>3. pass \in [Workers -> PassRecords]
  BY <1>2 DEF Init
<1>4. \A w \in Workers : PassOK(w)
  BY DEF Init, PassOK, Idle, Busy
<1> QED
  BY <1>1, <1>3, <1>4 DEF TypeOK

LEMMA OthersTypes ==
  ASSUME TypeOK, NEW u \in Users, Place(u) \/ Move(u) \/ ChangeCycle(u)
  PROVE  TypesKept
<1>1. ASSUME Place(u) PROVE StateOK'
  BY <1>1 DEF TypeOK, StateOK, Place
<1>2. ASSUME Place(u), NEW w \in Workers PROVE PassOK(w)'
  BY <1>2 DEF TypeOK, StateOK, Place, PassOK, Busy
<1>3. ASSUME Move(u) PROVE StateOK'
  BY <1>3 DEF TypeOK, StateOK, Move
<1>4. ASSUME ChangeCycle(u) PROVE StateOK'
  BY <1>4 DEF TypeOK, StateOK, ChangeCycle
<1>5. ASSUME Move(u) \/ ChangeCycle(u), NEW w \in Workers PROVE PassOK(w)'
  BY <1>5 DEF TypeOK, StateOK, Move, ChangeCycle, PassOK, Busy
<1> QED
  BY <1>1, <1>2, <1>3, <1>4, <1>5 DEF TypesKept, Place, Move, ChangeCycle, TypeOK

\* What a step makes of a pass is a pass.
LEMMA BecomesPass ==
  ASSUME TypeOK, NEW w \in Workers, NEW r \in PassRecords,
         pass' = [pass EXCEPT ![w] = r], PassOK(w)',
         UNCHANGED <<clients_, placed>>
  PROVE  /\ pass' \in [Workers -> PassRecords]
         /\ \A x \in Workers : PassOK(x)'
<1>1. \A x \in Workers \ {w} : PassOK(x)'
  BY DEF TypeOK, PassOK, Busy
<1> QED
  BY <1>1 DEF TypeOK

LEMMA BeginPhaseTypes == ASSUME TypeOK, NEW w \in Workers, BeginPhase(w) PROVE TypesKept
<1>1. PICK next, T : /\ next = NextPhase[pass[w].phase]
                     /\ T = IF next \in {"local", "update"} THEN clients_ ELSE {}
  OBVIOUS
<1> DEFINE r == [pass[w] EXCEPT !.phase = next, !.locked = TRUE, !.todo = T]
<1>2. /\ pass' = [pass EXCEPT ![w] = r] /\ ~pass[w].locked
      /\ UNCHANGED <<clients_, placed>>
  BY <1>1 DEF BeginPhase, users
<1>3. StateOK'
  BY DEF TypeOK, StateOK, BeginPhase, users
<1>4. /\ pass[w] \in PassRecords /\ T \in SUBSET clients_ /\ T \in SUBSET Users
      /\ PassOK(w)
  BY <1>1 DEF TypeOK, StateOK
<1>5. next \in Phases /\ next # "idle"
  BY <1>1, <1>2, <1>4 DEF PassRecords, Phases, NextPhase, PassOK
<1>6. r \in PassRecords
  BY <1>4, <1>5, Zenon DEF PassRecords
<1>7. /\ pass'[w].phase = next /\ pass'[w].locked = TRUE /\ pass'[w].todo = T
      /\ pass'[w].others = pass[w].others /\ pass'[w].job = pass[w].job
      /\ pass'[w].other = pass[w].other /\ pass'[w].user = pass[w].user
  BY <1>2, <1>4 DEF TypeOK, PassRecords
<1>8. PassOK(w)'
  BY <1>1, <1>2, <1>4, <1>5, <1>7 DEF PassOK, Busy
<1> QED
  BY <1>2, <1>3, <1>6, <1>8, BecomesPass DEF TypesKept

LEMMA EndPhaseTypes == ASSUME TypeOK, NEW w \in Workers, EndPhase(w) PROVE TypesKept
<1>1. StateOK'
  BY DEF TypeOK, StateOK, EndPhase, users
<1>2. UNCHANGED <<clients_, placed>>
  BY DEF EndPhase, users
<1>3. pass[w] \in PassRecords /\ PassOK(w) /\ ~Busy(w) /\ pass[w].todo = {}
  BY DEF TypeOK, EndPhase
<1>4. CASE pass[w].phase = "reset"
  <2>1. pass' = [pass EXCEPT ![w] = Idle]
    BY <1>4 DEF EndPhase
  <2>2. Idle \in PassRecords
    BY DEF Idle, PassRecords, Phases, Jobs
  <2>3. pass'[w] = Idle
    BY <2>1 DEF TypeOK
  <2>4. PassOK(w)'
    BY <2>3 DEF PassOK, Busy, Idle
  <2> QED
    BY <1>1, <1>2, <2>1, <2>2, <2>4, BecomesPass DEF TypesKept
<1>5. CASE pass[w].phase # "reset"
  <2> DEFINE r == [pass[w] EXCEPT !.locked = FALSE, !.user = NoUser, !.at = 0]
  <2>1. pass' = [pass EXCEPT ![w] = r]
    BY <1>5 DEF EndPhase
  <2>2. 0 \in Int /\ NoUser \in Users \cup {NoUser}
    OBVIOUS
  <2>3. r \in PassRecords
    BY <1>3, <2>2, Zenon DEF PassRecords
  <2>4. /\ pass'[w].phase = pass[w].phase /\ pass'[w].locked = FALSE /\ pass'[w].todo = {}
        /\ pass'[w].others = {} /\ pass'[w].job = "none" /\ pass'[w].other = pass[w].other
    BY <1>3, <2>1 DEF TypeOK, PassRecords, Busy
  <2>5. PassOK(w)'
    BY <1>3, <1>5, <2>4 DEF PassOK, Busy
  <2> QED
    BY <1>1, <1>2, <2>1, <2>3, <2>5, BecomesPass DEF TypesKept
<1> QED
  BY <1>4, <1>5

LEMMA VisitUserTypes == ASSUME TypeOK, NEW w \in Workers, VisitUser(w) PROVE TypesKept
<1>1. StateOK' /\ UNCHANGED <<clients_, placed>>
  BY DEF TypeOK, StateOK, VisitUser, users
<1>2. PICK u \in pass[w].todo :
        pass' = [pass EXCEPT ![w].user = u, ![w].at = location[u], ![w].todo = @ \ {u},
                             ![w].others = OthersOf(u, pass[w].phase)]
  BY DEF VisitUser
<1>3. PICK i, T, V : i = location[u] /\ T = pass[w].todo \ {u} /\ V = OthersOf(u, pass[w].phase)
  OBVIOUS
<1> DEFINE r == [pass[w] EXCEPT !.user = u, !.at = i, !.todo = T, !.others = V]
<1>4. pass' = [pass EXCEPT ![w] = r]
  BY <1>2, <1>3
<1>5. pass[w] \in PassRecords /\ PassOK(w) /\ ~Busy(w) /\ pass[w].locked
  BY DEF TypeOK, VisitUser
<1>6. /\ u \in clients_ /\ u \in Users \cup {NoUser} /\ i \in Int
      /\ T \subseteq clients_ /\ T \in SUBSET Users
  BY <1>3, <1>5 DEF TypeOK, StateOK, PassOK
<1>7. V \in SUBSET Users /\ V \subseteq IF pass[w].phase = "local" THEN clients_ \ {u} ELSE placed
  BY <1>3, <1>6 DEF OthersOf, TypeOK, StateOK
<1>8. r \in PassRecords
  BY <1>5, <1>6, <1>7, Zenon DEF PassRecords
<1>9. /\ pass'[w].phase = pass[w].phase /\ pass'[w].locked = pass[w].locked /\ pass'[w].todo = T
      /\ pass'[w].others = V /\ pass'[w].job = pass[w].job /\ pass'[w].other = pass[w].other
      /\ pass'[w].user = u
  BY <1>4, <1>5 DEF TypeOK, PassRecords
<1>10. /\ pass[w].phase \in {"local", "update"} /\ pass[w].job = "none" /\ pass[w].other = NoUser
  BY <1>5 DEF PassOK, Busy
<1>11. PassOK(w)'
  BY <1>1, <1>5, <1>6, <1>7, <1>9, <1>10 DEF PassOK, Busy
<1> QED
  BY <1>1, <1>4, <1>8, <1>11, BecomesPass DEF TypesKept

LEMMA JobAboutType ==
  ASSUME TypeOK, NEW w \in Workers, NEW v \in pass[w].others
  PROVE  /\ JobAbout(w, v) \in {"none", "retime", "hide"}
         /\ JobAbout(w, v) = "hide" => pass[w].phase # "update"
<1>1. CASE pass[w].phase = "update"
  BY <1>1 DEF JobAbout
<1>2. CASE pass[w].phase # "update"
  BY <1>2 DEF JobAbout
<1> QED
  BY <1>1, <1>2

LEMMA ExamineTypes == ASSUME TypeOK, NEW w \in Workers, Examine(w) PROVE TypesKept
<1>1. StateOK' /\ UNCHANGED <<clients_, placed>>
  BY DEF TypeOK, StateOK, Examine, users
<1>2. /\ pass[w] \in PassRecords /\ PassOK(w) /\ pass[w].job = "none" /\ pass[w].other = NoUser
  BY DEF TypeOK, Examine, At, PassOK
<1>3. PICK v \in pass[w].others :
       \/ /\ JobAbout(w, v) # "none"
          /\ pass' = [pass EXCEPT ![w].job = JobAbout(w, v), ![w].other = v]
       \/ /\ JobAbout(w, v) = "none"
          /\ pass' = [pass EXCEPT ![w].others = @ \ {v}]
  BY DEF Examine
<1>4. /\ pass[w].phase \in {"local", "update"} /\ pass[w].locked /\ pass[w].user \in clients_
      /\ v \in Users
  BY <1>2 DEF PassOK, Busy, PassRecords
<1>5. CASE JobAbout(w, v) # "none"
  <2>1. PICK job \in {"retime", "hide"} : job = JobAbout(w, v)
    BY <1>5, JobAboutType
  <2>2. job \in Jobs
    BY DEF Jobs
  <2> DEFINE r == [pass[w] EXCEPT !.job = job, !.other = v]
  <2>3. pass' = [pass EXCEPT ![w] = r]
    BY <1>3, <1>5, <2>1
  <2>4. r \in PassRecords
    BY <1>2, <1>4, <2>2, Zenon DEF PassRecords
  <2>5. /\ pass'[w].phase = pass[w].phase /\ pass'[w].locked = pass[w].locked
        /\ pass'[w].todo = pass[w].todo /\ pass'[w].user = pass[w].user
        /\ pass'[w].others = pass[w].others /\ pass'[w].job = job /\ pass'[w].other = v
    BY <1>2, <2>3 DEF TypeOK, PassRecords
  <2>6. job = "hide" => pass[w].phase = "local"
    BY <1>4, <2>1, JobAboutType
  <2>7. PassOK(w)'
    BY <1>1, <1>2, <1>4, <2>5, <2>6 DEF PassOK, Busy
  <2> QED
    BY <1>1, <2>3, <2>4, <2>7, BecomesPass DEF TypesKept
<1>6. CASE JobAbout(w, v) = "none"
  <2>1. PICK V : V = pass[w].others \ {v}
    OBVIOUS
  <2>2. V \in SUBSET Users /\ V \subseteq pass[w].others
    BY <1>2, <2>1 DEF PassRecords
  <2> DEFINE r == [pass[w] EXCEPT !.others = V]
  <2>3. pass' = [pass EXCEPT ![w] = r]
    BY <1>3, <1>6, <2>1
  <2>4. r \in PassRecords
    BY <1>2, <2>2, Zenon DEF PassRecords
  <2>5. /\ pass'[w].phase = pass[w].phase /\ pass'[w].locked = pass[w].locked
        /\ pass'[w].todo = pass[w].todo /\ pass'[w].user = pass[w].user
        /\ pass'[w].others = V /\ pass'[w].job = "none" /\ pass'[w].other = NoUser
    BY <1>2, <2>3 DEF TypeOK, PassRecords
  <2>6. PassOK(w)'
    BY <1>1, <1>2, <1>4, <2>2, <2>5 DEF PassOK, Busy
  <2> QED
    BY <1>1, <2>3, <2>4, <2>6, BecomesPass DEF TypesKept
<1> QED
  BY <1>5, <1>6

-----------------------------------------------------------------------------
(* The jobs.                                                                *)

LEMMA DoTypes ==
  ASSUME TypeOK, NEW w \in Workers, pass[w].job # "none",
         NEW job \in Jobs \ {"none", "retime", "tell", "tell_adjusted"},
         Do(w, job), pass[w].phase = "local", UNCHANGED <<clients_, placed>>
  PROVE  pass' \in [Workers -> PassRecords] /\ \A x \in Workers : PassOK(x)'
<1> DEFINE r == [pass[w] EXCEPT !.job = job]
<1>1. pass' = [pass EXCEPT ![w] = r]
  BY DEF Do
<1>2. pass[w] \in PassRecords /\ PassOK(w)
  BY DEF TypeOK
<1>3. r \in PassRecords
  BY <1>2, Zenon DEF PassRecords
<1>4. /\ pass'[w].phase = pass[w].phase /\ pass'[w].locked = pass[w].locked
      /\ pass'[w].todo = pass[w].todo /\ pass'[w].user = pass[w].user
      /\ pass'[w].others = pass[w].others /\ pass'[w].job = job /\ pass'[w].other = pass[w].other
  BY <1>1, <1>2 DEF TypeOK, PassRecords
<1>5. PassOK(w)'
  BY <1>2, <1>4 DEF PassOK, Busy
<1> QED
  BY <1>1, <1>3, <1>5, BecomesPass

LEMMA DoTellTypes ==
  ASSUME TypeOK, NEW w \in Workers, pass[w].job # "none",
         NEW job \in {"tell", "tell_adjusted"}, NEW i \in Times,
         DoTell(w, job, i), job = "tell_adjusted" => pass[w].phase = "local",
         UNCHANGED <<clients_, placed>>
  PROVE  pass' \in [Workers -> PassRecords] /\ \A x \in Workers : PassOK(x)'
<1> DEFINE r == [pass[w] EXCEPT !.job = job, !.interval = i]
<1>1. pass' = [pass EXCEPT ![w] = r]
  BY DEF DoTell
<1>2. pass[w] \in PassRecords /\ PassOK(w) /\ i \in Int /\ job \in Jobs
  BY DEF TypeOK, Times, Jobs
<1>3. r \in PassRecords
  BY <1>2, Zenon DEF PassRecords
<1>4. /\ pass'[w].phase = pass[w].phase /\ pass'[w].locked = pass[w].locked
      /\ pass'[w].todo = pass[w].todo /\ pass'[w].user = pass[w].user
      /\ pass'[w].others = pass[w].others /\ pass'[w].job = job /\ pass'[w].other = pass[w].other
      /\ pass'[w].interval = i
  BY <1>1, <1>2 DEF TypeOK, PassRecords
<1>5. PassOK(w)'
  BY <1>2, <1>4 DEF PassOK, Busy, Times
<1> QED
  BY <1>1, <1>3, <1>5, BecomesPass

LEMMA DoneTypes ==
  ASSUME TypeOK, NEW w \in Workers, pass[w].job # "none", Done(w), UNCHANGED <<clients_, placed>>
  PROVE  pass' \in [Workers -> PassRecords] /\ \A x \in Workers : PassOK(x)'
<1>0. PICK V : V = pass[w].others \ {pass[w].other}
  OBVIOUS
<1> DEFINE r == [pass[w] EXCEPT !.job = "none", !.other = NoUser, !.others = V, !.interval = 0]
<1>1. pass' = [pass EXCEPT ![w] = r]
  BY <1>0 DEF Done
<1>2. /\ pass[w] \in PassRecords /\ PassOK(w) /\ V \in SUBSET Users /\ V \subseteq pass[w].others
      /\ 0 \in Int /\ NoUser \in Users \cup {NoUser} /\ "none" \in Jobs
  BY <1>0 DEF TypeOK, PassRecords, Jobs
<1>3. r \in PassRecords
  BY <1>2, Zenon DEF PassRecords
<1>4. /\ pass'[w].phase = pass[w].phase /\ pass'[w].locked = pass[w].locked
      /\ pass'[w].todo = pass[w].todo /\ pass'[w].user = pass[w].user
      /\ pass'[w].others = V /\ pass'[w].job = "none" /\ pass'[w].other = NoUser
  BY <1>1, <1>2 DEF TypeOK, PassRecords
<1>5. PassOK(w)'
  BY <1>2, <1>4 DEF PassOK, Busy
<1> QED
  BY <1>1, <1>3, <1>5, BecomesPass

LEMMA AfterRetimeTypes ==
  ASSUME TypeOK, NEW w \in Workers, pass[w].job # "none", AfterRetime(w),
         UNCHANGED <<clients_, placed>>
  PROVE  pass' \in [Workers -> PassRecords] /\ \A x \in Workers : PassOK(x)'
  BY DoTypes, DoneTypes DEF AfterRetime, Jobs

\* The users that a pass works on.
LEMMA InHandTypes ==
  ASSUME TypeOK, NEW w \in Workers, pass[w].job # "none"
  PROVE  /\ pass[w].user \in clients_ /\ pass[w].user \in Users
         /\ pass[w].other \in placed /\ pass[w].other \in Users
         /\ pass[w].phase = "local" => pass[w].other \in clients_ \ {pass[w].user}
         /\ pass[w].phase \in {"local", "update"} /\ pass[w].locked
  BY DEF TypeOK, StateOK, PassOK, Busy

LEMMA RetimeTypes == ASSUME TypeOK, NEW w \in Workers, Retime(w) PROVE TypesKept
<1>1. /\ pass[w].job # "none" /\ UNCHANGED <<clients_, placed>>
      /\ pass[w].user \in Users /\ pass[w].other \in Users
  BY InHandTypes DEF Retime, At, users
<1>2. PICK i : i = Requested(pass[w].user, pass[w].other)
  OBVIOUS
<1>3. i \in Intervals /\ i \in Times
  BY <1>1, <1>2 DEF Requested, Types, TypeOK, StateOK, Times
<1>4. StateOK'
  BY <1>1, <1>2, <1>3 DEF TypeOK, StateOK, Retime, users
<1>5. pass' \in [Workers -> PassRecords] /\ \A x \in Workers : PassOK(x)'
  BY <1>1, <1>2, <1>3, DoTellTypes, AfterRetimeTypes DEF Retime
<1> QED
  BY <1>4, <1>5 DEF TypesKept

LEMMA SendTimeChangeTypes ==
  ASSUME TypeOK, NEW v \in Users, NEW i \in Times, SendTimeChange(v, i),
         UNCHANGED <<users, updateInterval, local_users, view>>
  PROVE  StateOK'
<1> PICK c \in clients_ : /\ told' = [told EXCEPT ![c] = i]
                          /\ strayed' = IF c = v THEN strayed \ {c} ELSE strayed \cup {c}
  BY DEF SendTimeChange
<1> QED
  BY DEF TypeOK, StateOK, users, Times

LEMMA TellTypes == ASSUME TypeOK, NEW w \in Workers, Tell(w) PROVE TypesKept
<1>1. /\ pass[w].job # "none" /\ UNCHANGED <<clients_, placed>>
      /\ pass[w].other \in Users /\ pass[w].interval \in Times
  BY InHandTypes DEF Tell, At, users, TypeOK, PassOK, Times
<1> QED
  BY <1>1, SendTimeChangeTypes, AfterRetimeTypes DEF TypesKept, Tell

LEMMA ShowTypes == ASSUME TypeOK, NEW w \in Workers, Show(w) PROVE TypesKept
<1>1. /\ pass[w].job = "show" /\ pass[w].phase = "local" /\ UNCHANGED <<clients_, placed>>
      /\ pass[w].user \in Users /\ pass[w].other \in placed
  BY InHandTypes DEF Show, At, users, TypeOK, PassOK
<1>2. StateOK'
  BY <1>1 DEF TypeOK, StateOK, Show, users
<1> QED
  BY <1>1, <1>2, DoTypes DEF TypesKept, Show, Jobs

LEMMA EmplaceTypes == ASSUME TypeOK, NEW w \in Workers, Emplace(w) PROVE TypesKept
<1>1. /\ pass[w].job = "emplace" /\ UNCHANGED <<clients_, placed>>
      /\ pass[w].user \in Users /\ pass[w].other \in placed
  BY InHandTypes DEF Emplace, At, users, TypeOK, PassOK
<1>2. StateOK'
  BY <1>1 DEF TypeOK, StateOK, Emplace, users
<1> QED
  BY <1>1, <1>2, DoneTypes DEF TypesKept, Emplace

LEMMA HideTypes == ASSUME TypeOK, NEW w \in Workers, Hide(w) PROVE TypesKept
<1>1. /\ pass[w].job = "hide" /\ pass[w].phase = "local" /\ UNCHANGED <<clients_, placed>>
      /\ pass[w].user \in Users
  BY InHandTypes DEF Hide, At, users, TypeOK, PassOK
<1>2. StateOK'
  BY <1>1 DEF TypeOK, StateOK, Hide, users
<1> QED
  BY <1>1, <1>2, DoTypes DEF TypesKept, Hide, Jobs

LEMMA EraseTypes == ASSUME TypeOK, NEW w \in Workers, Erase(w) PROVE TypesKept
<1>1. /\ pass[w].job = "erase" /\ pass[w].phase = "local" /\ UNCHANGED <<clients_, placed>>
      /\ pass[w].user \in Users
  BY InHandTypes DEF Erase, At, users, TypeOK, PassOK
<1>2. StateOK'
  BY <1>1 DEF TypeOK, StateOK, Erase, users
<1> QED
  BY <1>1, <1>2, DoTypes DEF TypesKept, Erase, Jobs

LEMMA AdjustTypes == ASSUME TypeOK, NEW w \in Workers, Adjust(w) PROVE TypesKept
<1>1. /\ pass[w].job = "adjust" /\ pass[w].phase = "local" /\ UNCHANGED <<clients_, placed>>
      /\ pass[w].other \in Users
  BY InHandTypes DEF Adjust, At, users, TypeOK, PassOK
<1>2. PICK last \in LastTimes(pass[w].other) :
       \/ /\ last # updateInterval[pass[w].other]
          /\ updateInterval' = [updateInterval EXCEPT ![pass[w].other] = last]
          /\ DoTell(w, "tell_adjusted", last)
       \/ /\ last = updateInterval[pass[w].other]
          /\ Done(w) /\ UNCHANGED updateInterval
  BY DEF Adjust
<1>3. last \in Times
  BY <1>1, LastTimesTypes
<1>4. StateOK'
  BY <1>1, <1>2, <1>3 DEF TypeOK, StateOK, Adjust, users, Times
<1>5. pass' \in [Workers -> PassRecords] /\ \A x \in Workers : PassOK(x)'
  BY <1>1, <1>2, <1>3, DoTellTypes, DoneTypes
<1> QED
  BY <1>4, <1>5 DEF TypesKept

LEMMA TellAdjustedTypes == ASSUME TypeOK, NEW w \in Workers, TellAdjusted(w) PROVE TypesKept
<1>1. /\ pass[w].job # "none" /\ UNCHANGED <<clients_, placed>>
      /\ pass[w].other \in Users /\ pass[w].interval \in Times
  BY InHandTypes DEF TellAdjusted, At, users, TypeOK, PassOK, Times
<1> QED
  BY <1>1, SendTimeChangeTypes, DoneTypes DEF TypesKept, TellAdjusted

LEMMA TypesPreserved == TypeOK /\ [Next]_vars => TypeOK'
<1> SUFFICES ASSUME TypeOK, [Next]_vars PROVE TypesKept
  BY DEF TypesKept, TypeOK
<1>1. CASE UNCHANGED vars
  BY <1>1 DEF TypesKept, TypeOK, StateOK, PassOK, Busy, vars, users
<1>2. ASSUME NEW w \in Workers, PassStep(w) PROVE TypesKept
  BY <1>2, BeginPhaseTypes, EndPhaseTypes, VisitUserTypes, ExamineTypes, RetimeTypes, TellTypes,
     ShowTypes, EmplaceTypes, HideTypes, EraseTypes, AdjustTypes, TellAdjustedTypes DEF PassStep
<1> QED
  BY <1>1, <1>2, OthersTypes DEF Next

\* The state is well-typed and the records of the passes say what belongs together: a pass
\* works on users that are connected, under the lock of its phase, and does one of the jobs
\* of that phase (client_updater.cpp:29-107).
THEOREM TypeCorrect == Spec => []TypeOK
  BY InitTypes, TypesPreserved, PTL DEF Spec

-----------------------------------------------------------------------------
(* Ghosts.                                                                  *)

\* No client is told to create a user that has lost its entry, however many passes overlap:
\* whom a pass examines is in clients_, and stays there until the phase ends, because a
\* placement waits for client_mutex_ (client_manager.h:59, :100; client_updater.cpp:74-86).
THEOREM NoGhostIsShown == Spec => NoNewGhosts
<1>1. ASSUME TypeOK, [Next]_vars, NEW u \in Users
      PROVE  view'[u] \cap Ghosts' \subseteq view[u]
  <2>1. CASE \E w \in Workers : Show(w)
    <3> PICK w \in Workers : Show(w)
      BY <2>1
    <3>1. pass[w].other \in clients_ /\ pass[w].user \in Users /\ UNCHANGED <<clients_, placed>>
      BY <1>1, InHandTypes DEF TypeOK, PassOK, Show, At, users
    <3>2. view' = [view EXCEPT ![pass[w].user] = @ \cup {pass[w].other}]
      BY DEF Show
    <3> QED
      BY <1>1, <3>1, <3>2 DEF Ghosts, TypeOK, StateOK
  <2>2. CASE \E w \in Workers : Hide(w)
    BY <1>1, <2>2 DEF Hide, TypeOK, StateOK
  <2>3. CASE UNCHANGED view
    BY <2>3
  <2> QED
    BY <1>1, <2>1, <2>2, <2>3
    DEF Next, vars, PassStep, Place, Move, ChangeCycle, BeginPhase, EndPhase, VisitUser, Examine,
        Retime, Tell, Emplace, Erase, Adjust, TellAdjusted
<1>2. TypeOK /\ [Next]_vars => [\A u \in Users : view'[u] \cap Ghosts' \subseteq view[u]]_vars
  BY <1>1
<1> QED
  BY <1>2, TypeCorrect, PTL DEF Spec, NoNewGhosts

-----------------------------------------------------------------------------
(* What clients show, by passes that do not overlap.                        *)

OneAtATime == \A w, x \in Workers : w = x

\* What a pass has found out about the other user stays true until it has acted on it.
Known(w) == pass[w].other \in local_users[pass[w].user]
Shown(w) == pass[w].other \in view[pass[w].user]

JobOK(w) ==
  /\ pass[w].phase = "local" /\ pass[w].job \in {"retime", "tell"} => ~Known(w) /\ ~Shown(w)
  /\ pass[w].job = "show"    => ~Known(w) /\ ~Shown(w)
  /\ pass[w].job = "emplace" => ~Known(w) /\ Shown(w)
  /\ pass[w].job = "hide"    => Known(w) /\ Shown(w)
  /\ pass[w].job = "erase"   => Known(w) /\ ~Shown(w)

\* The packet about v is sent, and local_users of u is yet to follow.
Between(w, u, v) == pass[w].user = u /\ pass[w].other = v /\ pass[w].job \in {"emplace", "erase"}

Agree == \A u, v \in Users :
           (v \in view[u] <=> v \in local_users[u]) \/ \E w \in Workers : Between(w, u, v)

ViewInv == TypeOK /\ Agree /\ \A w \in Workers : JobOK(w)

ViewKept == Agree' /\ \A w \in Workers : JobOK(w)'

LEMMA OnlyPass ==
  ASSUME OneAtATime, NEW w \in Workers
  PROVE  Workers = {w}
  BY DEF OneAtATime

\* What other threads do in the meantime touches neither.
LEMMA ViewByOthers ==
  ASSUME ViewInv, NEW u \in Users, Place(u) \/ Move(u) \/ ChangeCycle(u)
  PROVE  ViewKept
  BY DEF ViewInv, Agree, JobOK, Known, Shown, Between, ViewKept, Place, Move, ChangeCycle

\* A step of the pass that is not about to emplace or to erase.
LEMMA ViewByLooking ==
  ASSUME OneAtATime, ViewInv, NEW w \in Workers, UNCHANGED <<local_users, view>>,
         pass[w].job \notin {"emplace", "erase"}, JobOK(w)'
  PROVE  ViewKept
  BY OnlyPass DEF ViewInv, Agree, Between, ViewKept

\* Between the jobs nothing is in hand.
LEMMA SkeletonRests ==
  ASSUME TypeOK, NEW w \in Workers, BeginPhase(w) \/ EndPhase(w) \/ VisitUser(w)
  PROVE  pass[w].job = "none" /\ pass'[w].job = "none"
<1>1. pass[w] \in PassRecords /\ PassOK(w) /\ pass[w].job = "none"
  BY DEF TypeOK, BeginPhase, EndPhase, VisitUser, PassOK, Busy
<1>2. pass'[w].job = "none"
  <2>1. CASE EndPhase(w) /\ pass[w].phase = "reset"
    BY <1>1, <2>1 DEF TypeOK, EndPhase, Idle
  <2>2. CASE EndPhase(w) /\ pass[w].phase # "reset"
    BY <1>1, <2>2 DEF TypeOK, PassRecords, EndPhase
  <2>3. CASE BeginPhase(w)
    BY <1>1, <2>3 DEF TypeOK, PassRecords, BeginPhase
  <2>4. CASE VisitUser(w)
    <3> PICK u \in pass[w].todo :
          pass' = [pass EXCEPT ![w].user = u, ![w].at = location[u], ![w].todo = @ \ {u},
                               ![w].others = OthersOf(u, pass[w].phase)]
      BY <2>4 DEF VisitUser
    <3> QED
      BY <1>1 DEF TypeOK, PassRecords
  <2> QED
    BY <2>1, <2>2, <2>3, <2>4
<1> QED
  BY <1>1, <1>2

LEMMA ViewBySkeleton ==
  ASSUME OneAtATime, ViewInv, NEW w \in Workers, BeginPhase(w) \/ EndPhase(w) \/ VisitUser(w)
  PROVE  ViewKept
<1>1. pass[w].job = "none" /\ pass'[w].job = "none"
  BY SkeletonRests DEF ViewInv
<1>2. UNCHANGED <<local_users, view>>
  BY DEF BeginPhase, EndPhase, VisitUser
<1> QED
  BY <1>1, <1>2, ViewByLooking DEF JobOK

LEMMA ViewByExamining ==
  ASSUME OneAtATime, ViewInv, NEW w \in Workers, Examine(w)
  PROVE  ViewKept
<1>1. /\ pass[w] \in PassRecords /\ PassOK(w) /\ pass[w].job = "none"
      /\ UNCHANGED <<local_users, view>>
  BY DEF ViewInv, TypeOK, Examine, At
<1>2. PICK v \in pass[w].others :
       \/ /\ JobAbout(w, v) # "none"
          /\ pass' = [pass EXCEPT ![w].job = JobAbout(w, v), ![w].other = v]
       \/ /\ JobAbout(w, v) = "none"
          /\ pass' = [pass EXCEPT ![w].others = @ \ {v}]
  BY DEF Examine
<1>3. pass[w].user \in Users /\ v \in Users
  BY <1>1 DEF PassOK, PassRecords, Busy, ViewInv, TypeOK, StateOK
<1>4. v \in view[pass[w].user] <=> v \in local_users[pass[w].user]
  BY <1>1, <1>3, OnlyPass DEF ViewInv, Agree, Between
<1>5. CASE pass[w].phase = "local" /\ JobAbout(w, v) = "retime"
  <2>1. v \notin local_users[pass[w].user]
    BY <1>5 DEF JobAbout
  <2>2. pass'[w].job = "retime" /\ pass'[w].user = pass[w].user /\ pass'[w].other = v
    BY <1>1, <1>2, <1>5 DEF ViewInv, TypeOK, PassRecords
  <2>3. JobOK(w)'
    BY <1>1, <1>4, <2>1, <2>2 DEF JobOK, Known, Shown
  <2> QED
    BY <1>1, <2>3, ViewByLooking
<1>6. CASE JobAbout(w, v) = "hide"
  <2>1. v \in local_users[pass[w].user]
    BY <1>6 DEF JobAbout
  <2>2. pass'[w].job = "hide" /\ pass'[w].user = pass[w].user /\ pass'[w].other = v
    BY <1>1, <1>2, <1>6 DEF ViewInv, TypeOK, PassRecords
  <2>3. JobOK(w)'
    BY <1>1, <1>4, <2>1, <2>2 DEF JobOK, Known, Shown
  <2> QED
    BY <1>1, <2>3, ViewByLooking
<1>7. CASE JobAbout(w, v) = "none"
  <2>1. pass'[w].job = "none"
    BY <1>1, <1>2, <1>7 DEF ViewInv, TypeOK, PassRecords
  <2> QED
    BY <1>1, <2>1, ViewByLooking DEF JobOK
<1>8. CASE pass[w].phase # "local" /\ JobAbout(w, v) = "retime"
  <2>1. pass'[w].job = "retime" /\ pass'[w].phase # "local"
    BY <1>1, <1>2, <1>8 DEF ViewInv, TypeOK, PassRecords
  <2> QED
    BY <1>1, <2>1, ViewByLooking DEF JobOK
<1> QED
  BY <1>5, <1>6, <1>7, <1>8, JobAboutType DEF ViewInv

\* What becomes of the record of a pass by the end of a step of a job.
LEMMA JobFields ==
  ASSUME TypeOK, NEW w \in Workers
  PROVE  /\ \A job \in Jobs : Do(w, job) =>
              /\ pass'[w].job = job /\ pass'[w].user = pass[w].user
              /\ pass'[w].other = pass[w].other /\ pass'[w].phase = pass[w].phase
         /\ \A job \in Jobs, i \in Int : DoTell(w, job, i) =>
              /\ pass'[w].job = job /\ pass'[w].user = pass[w].user
              /\ pass'[w].other = pass[w].other /\ pass'[w].phase = pass[w].phase
              /\ pass'[w].interval = i
         /\ Done(w) => pass'[w].job = "none"
<1>1. pass[w] \in PassRecords /\ pass \in [Workers -> PassRecords]
  BY DEF TypeOK
<1> QED
  BY <1>1 DEF PassRecords, Do, DoTell, Done

LEMMA ViewByTiming ==
  ASSUME OneAtATime, ViewInv, NEW w \in Workers,
         Retime(w) \/ Tell(w) \/ Adjust(w) \/ TellAdjusted(w)
  PROVE  ViewKept
<1>1. /\ UNCHANGED <<local_users, view>>
      /\ pass[w].job \in {"retime", "tell", "adjust", "tell_adjusted"}
  BY DEF Retime, Tell, Adjust, TellAdjusted, At
<1>2. JobOK(w)'
  <2>1. CASE pass'[w].job \in {"none", "tell_adjusted"}
    BY <2>1 DEF JobOK
  <2>2. CASE AfterRetime(w) /\ (Retime(w) \/ Tell(w))
    BY <2>2, <1>1, JobFields DEF AfterRetime, JobOK, Known, Shown, ViewInv, Retime, Tell, At, Jobs
  <2>3. CASE Retime(w) /\ DoTell(w, "tell", Requested(pass[w].user, pass[w].other))
    <3>1. pass'[w].job = "tell" /\ pass'[w].user = pass[w].user
          /\ pass'[w].other = pass[w].other /\ pass'[w].phase = pass[w].phase
      BY <2>3 DEF DoTell, ViewInv, TypeOK, PassRecords
    <3> QED
      BY <2>3, <3>1 DEF JobOK, Known, Shown, ViewInv, Retime, At
  <2>4. CASE Adjust(w) \/ TellAdjusted(w)
    <3>1. \/ \E i : DoTell(w, "tell_adjusted", i)
          \/ Done(w)
      BY <2>4 DEF Adjust, TellAdjusted
    <3>2. pass'[w].job \in {"none", "tell_adjusted"}
      BY <3>1 DEF DoTell, Done, ViewInv, TypeOK, PassRecords
    <3> QED
      BY <2>1, <3>2
  <2> QED
    BY <2>2, <2>3, <2>4 DEF Retime, Tell
<1> QED
  BY <1>1, <1>2, ViewByLooking

LEMMA ViewByJobs ==
  ASSUME OneAtATime, ViewInv, NEW w \in Workers, Show(w) \/ Emplace(w) \/ Hide(w) \/ Erase(w)
  PROVE  ViewKept
<1>1. /\ pass[w].user \in Users /\ pass[w].other \in Users /\ Workers = {w}
      /\ view \in [Users -> SUBSET Users] /\ local_users \in [Users -> SUBSET Users]
  BY InHandTypes, OnlyPass DEF ViewInv, TypeOK, StateOK, Show, Emplace, Hide, Erase, At
<1>2. CASE Show(w)
  <2>1. pass'[w].job = "emplace" /\ pass'[w].user = pass[w].user /\ pass'[w].other = pass[w].other
    BY <1>2, JobFields DEF Show, Jobs, ViewInv
  <2> QED
    BY <1>1, <1>2, <2>1 DEF ViewKept, ViewInv, Agree, Between, JobOK, Known, Shown, Show, At
<1>3. CASE Emplace(w)
  <2>1. pass'[w].job = "none"
    BY <1>3, JobFields DEF Emplace, ViewInv
  <2> QED
    BY <1>1, <1>3, <2>1 DEF ViewKept, ViewInv, Agree, Between, JobOK, Known, Shown, Emplace, At
<1>4. CASE Hide(w)
  <2>1. pass'[w].job = "erase" /\ pass'[w].user = pass[w].user /\ pass'[w].other = pass[w].other
    BY <1>4, JobFields DEF Hide, Jobs, ViewInv
  <2> QED
    BY <1>1, <1>4, <2>1 DEF ViewKept, ViewInv, Agree, Between, JobOK, Known, Shown, Hide, At
<1>5. CASE Erase(w)
  <2>1. pass'[w].job = "adjust"
    BY <1>5, JobFields DEF Erase, Jobs, ViewInv
  <2> QED
    BY <1>1, <1>5, <2>1 DEF ViewKept, ViewInv, Agree, Between, JobOK, Known, Shown, Erase, At
<1> QED
  BY <1>2, <1>3, <1>4, <1>5

LEMMA ViewPreserved == OneAtATime /\ ViewInv /\ [Next]_vars => ViewInv'
<1> SUFFICES ASSUME OneAtATime, ViewInv, [Next]_vars PROVE ViewKept
  BY TypesPreserved DEF ViewInv, ViewKept
<1>1. CASE UNCHANGED vars
  BY <1>1 DEF ViewInv, ViewKept, Agree, Between, JobOK, Known, Shown, vars
<1> QED
  BY <1>1, ViewByOthers, ViewBySkeleton, ViewByExamining, ViewByTiming, ViewByJobs
  DEF Next, PassStep

LEMMA ViewInvariant == ASSUME OneAtATime PROVE Spec => []ViewInv
<1>1. Init => ViewInv
  BY InitTypes DEF Init, ViewInv, Agree, JobOK, Idle
<1> QED
  BY <1>1, ViewPreserved, PTL DEF Spec

\* What a client shows is what local_users says, but for the pair in hand: contains_user, the
\* packet and local_users are separate steps, but nobody else changes either while a pass is
\* between them (client_updater.cpp:80-100).
THEOREM ViewsInStep == ASSUME OneAtATime PROVE Spec => []ViewsAgree
<1>1. ViewInv => ViewsAgree
  BY DEF ViewInv, TypeOK, StateOK, Agree, Between, ViewsAgree, InHand
<1> QED
  BY <1>1, ViewInvariant, PTL

\* No client is told to create whom it shows or to delete whom it does not: what contains_user
\* said still holds when the packet is sent (client_updater.cpp:80-96).
THEOREM NewsOnce == ASSUME OneAtATime PROVE Spec => []NoRepeatedNews
<1>1. ViewInv => NoRepeatedNews
  BY DEF ViewInv, JobOK, Known, Shown, NoRepeatedNews, At
<1> QED
  BY <1>1, ViewInvariant, PTL

-----------------------------------------------------------------------------
(* The interval that a client was told, and the one that the server has.    *)

Telling(w) == pass[w].job \in {"tell", "tell_adjusted"}
Right(v)   == told[v] = updateInterval[v]

\* Whoever is not there yet has the default; an interval that is on its way is the one set.
TimeOK ==
  /\ \A v \in Users \ placed : told[v] = DEFAULT /\ updateInterval[v] = DEFAULT
  /\ \A v \in clients_ \ strayed : Right(v) \/ \E w \in Workers : Telling(w) /\ pass[w].other = v
  /\ \A w \in Workers : Telling(w) => pass[w].interval = updateInterval[pass[w].other]

TimeInv == TypeOK /\ TimeOK

LEMMA TimeByOthers ==
  ASSUME OneAtATime, TimeInv, NEW u \in Users, Place(u) \/ Move(u) \/ ChangeCycle(u)
  PROVE  TimeOK'
<1>1. CASE Place(u)
  <2>1. \A w \in Workers : ~Telling(w)
    BY <1>1 DEF TimeInv, TimeOK, TypeOK, PassOK, Busy, Place, Telling
  <2>2. u \in Users \ placed /\ strayed \subseteq placed /\ clients_ \subseteq placed
    BY <1>1 DEF TimeInv, TimeOK, TypeOK, StateOK, Place
  <2> QED
    BY <1>1, <2>1, <2>2 DEF TimeInv, TimeOK, Telling, Right, Place
<1>2. CASE Move(u) \/ ChangeCycle(u)
  BY <1>2 DEF TimeInv, TimeOK, Telling, Right, Move, ChangeCycle
<1> QED
  BY <1>1, <1>2

\* A step that neither sets nor tells an interval.
LEMMA TimeStays ==
  ASSUME OneAtATime, TimeInv, NEW w \in Workers, ~Telling(w), ~Telling(w)',
         UNCHANGED <<clients_, placed, updateInterval, told, strayed>>
  PROVE  TimeOK'
  BY OnlyPass DEF TimeInv, TimeOK, Right

\* An interval is set, and is about to be sent.
LEMMA TimeSet ==
  ASSUME OneAtATime, TimeInv, NEW w \in Workers, pass[w].job # "none", ~Telling(w),
         NEW job \in {"tell", "tell_adjusted"}, NEW i \in Times, DoTell(w, job, i),
         updateInterval' = [updateInterval EXCEPT ![pass[w].other] = i],
         UNCHANGED <<users, told, strayed>>
  PROVE  TimeOK'
<1>1. /\ pass[w].other \in placed /\ pass[w].other \in Users /\ Workers = {w}
      /\ updateInterval \in [Users -> Times] /\ clients_ \subseteq Users
  BY InHandTypes, OnlyPass DEF TimeInv, TimeOK, TypeOK, StateOK, Times
<1>2. pass'[w].job = job /\ pass'[w].other = pass[w].other /\ pass'[w].interval = i
  BY DEF DoTell, TimeInv, TimeOK, TypeOK, PassRecords
<1> QED
  BY <1>1, <1>2 DEF TimeInv, TimeOK, Telling, Right, users

\* It is sent, to the user it was set for or to another one on the same handle.
LEMMA TimeTold ==
  ASSUME OneAtATime, TimeInv, NEW w \in Workers, Telling(w), ~Telling(w)',
         SendTimeChange(pass[w].other, pass[w].interval),
         UNCHANGED <<users, updateInterval>>
  PROVE  TimeOK'
<1>1. PICK c \in clients_ :
        /\ socket[c] = socket[pass[w].other]
        /\ told' = [told EXCEPT ![c] = pass[w].interval]
        /\ strayed' = IF c = pass[w].other THEN strayed \ {c} ELSE strayed \cup {c}
  BY DEF SendTimeChange
<1>2. /\ pass[w].other \in Users /\ Workers = {w} /\ told \in [Users -> Times]
      /\ c \in placed /\ clients_ \subseteq Users /\ clients_ \subseteq placed
      /\ \A u, v \in clients_ : socket[u] = socket[v] => u = v
  BY InHandTypes, OnlyPass DEF TimeInv, TimeOK, TypeOK, StateOK, Times, Telling
<1>3. \A v \in Users \ placed : told'[v] = DEFAULT /\ updateInterval[v] = DEFAULT
  BY <1>1, <1>2 DEF TimeInv, TimeOK
<1>4. pass[w].interval = updateInterval[pass[w].other]
  BY DEF TimeInv, TimeOK
<1>5. ASSUME NEW v \in clients_ \ strayed'
      PROVE  told'[v] = updateInterval[v]
  BY <1>1, <1>2, <1>4 DEF TimeInv, TimeOK, Right
<1> QED
  BY <1>2, <1>3, <1>5 DEF TimeOK, Right, users

LEMMA TimePreserved == OneAtATime /\ TimeInv /\ [Next]_vars => TimeInv'
<1> SUFFICES ASSUME OneAtATime, TimeInv, [Next]_vars PROVE TimeOK'
  BY TypesPreserved DEF TimeInv, TimeOK
<1>1. CASE UNCHANGED vars
  BY <1>1 DEF TimeInv, TimeOK, Telling, Right, vars, users
<1>2. ASSUME NEW w \in Workers, PassStep(w) PROVE TimeOK'
  <2>0. pass[w] \in PassRecords /\ PassOK(w)
    BY DEF TimeInv, TimeOK, TypeOK
  <2>1. CASE BeginPhase(w) \/ EndPhase(w) \/ VisitUser(w)
    <3>1. ~Telling(w) /\ ~Telling(w)'
      BY <2>0, <2>1, SkeletonRests DEF TimeInv, TimeOK, Telling
    <3> QED
      BY <2>1, <3>1, TimeStays DEF BeginPhase, EndPhase, VisitUser, users
  <2>2. CASE Examine(w)
    <3>1. ~Telling(w)
      BY <2>2 DEF Examine, At, Telling
    <3>2. pass'[w].job \in {"none", "retime", "hide"}
      BY <2>0, <2>2, JobAboutType DEF Examine, At, TimeInv, TimeOK, TypeOK, PassRecords
    <3> QED
      BY <2>2, <3>1, <3>2, TimeStays DEF Examine, Telling, users
  <2>3. CASE Show(w) \/ Emplace(w) \/ Hide(w) \/ Erase(w)
    <3>1. ~Telling(w) /\ ~Telling(w)'
      BY <2>3, JobFields DEF Show, Emplace, Hide, Erase, At, Telling, Jobs, TimeInv, TimeOK
    <3> QED
      BY <2>3, <3>1, TimeStays DEF Show, Emplace, Hide, Erase, users
  <2>4. CASE Retime(w)
    <3>1. /\ pass[w].job # "none" /\ ~Telling(w) /\ UNCHANGED <<users, told, strayed>>
          /\ pass[w].user \in Users /\ pass[w].other \in Users
      BY <2>4, InHandTypes DEF Retime, At, Telling, TimeInv, TimeOK
    <3>2. PICK i : i = Requested(pass[w].user, pass[w].other)
      OBVIOUS
    <3>3. i \in Times
      BY <3>1, <3>2 DEF Requested, Types, TimeInv, TimeOK, TypeOK, StateOK, Times
    <3>4. CASE /\ updateInterval' = [updateInterval EXCEPT ![pass[w].other] = i]
               /\ DoTell(w, "tell", i)
      BY <3>1, <3>3, <3>4, TimeSet
    <3>5. CASE AfterRetime(w) /\ UNCHANGED updateInterval
      <4>1. ~Telling(w)'
        BY <3>5, JobFields DEF AfterRetime, Telling, Jobs, TimeInv, TimeOK
      <4> QED
        BY <3>1, <3>5, <4>1, TimeStays DEF users
    <3> QED
      BY <2>4, <3>2, <3>4, <3>5 DEF Retime
  <2>5. CASE Adjust(w)
    <3>1. /\ pass[w].job # "none" /\ ~Telling(w) /\ UNCHANGED <<users, told, strayed>>
          /\ pass[w].other \in Users
      BY <2>5, InHandTypes DEF Adjust, At, Telling, TimeInv, TimeOK
    <3>2. PICK last \in LastTimes(pass[w].other) :
            \/ /\ updateInterval' = [updateInterval EXCEPT ![pass[w].other] = last]
               /\ DoTell(w, "tell_adjusted", last)
            \/ Done(w) /\ UNCHANGED updateInterval
      BY <2>5 DEF Adjust
    <3>3. last \in Times
      BY <3>1, LastTimesTypes DEF TimeInv, TimeOK
    <3>4. CASE Done(w) /\ UNCHANGED updateInterval
      <4>1. ~Telling(w)'
        BY <3>4, JobFields DEF Telling, TimeInv, TimeOK
      <4> QED
        BY <3>1, <3>4, <4>1, TimeStays DEF users
    <3> QED
      BY <3>1, <3>2, <3>3, <3>4, TimeSet
  <2>6. CASE Tell(w) \/ TellAdjusted(w)
    <3>1. Telling(w) /\ ~Telling(w)'
      BY <2>6, JobFields DEF Tell, TellAdjusted, At, AfterRetime, Telling, Jobs, TimeInv, TimeOK
    <3> QED
      BY <2>6, <3>1, TimeTold DEF Tell, TellAdjusted
  <2> QED
    BY <1>2, <2>1, <2>2, <2>3, <2>4, <2>5, <2>6 DEF PassStep
<1> QED
  BY <1>1, <1>2, TimeByOthers DEF Next

\* The server counts on no interval that a client was not told, except for the one that is
\* about to be sent and for clients on a handle that a ghost had before: every
\* setUpdateInterval is followed by its send_time_change, and no second pass sets another
\* one in between (client_updater.cpp:82-85, :230-239; client_manager.cpp:16-19).
THEOREM Told == ASSUME OneAtATime PROVE Spec => []IntervalsTold
<1>1. Init => TimeInv
  BY InitTypes DEF Init, TimeInv, TimeOK, Telling, Right, Idle
<1>2. TimeInv => IntervalsTold
  BY DEF TimeInv, TimeOK, IntervalsTold, Telling, Right
<1> QED
  BY <1>1, <1>2, TimePreserved, PTL DEF Spec
=============================================================================
