------------------------ MODULE PositionFeedProofs -------------------------
(***************************************************************************)
(* Positions, for any users, intervals, length of the day and contents of   *)
(* uninitialized memory: types, how close updates come, and how old a       *)
(* position gets.                                                           *)
(***************************************************************************)
EXTENDS PositionFeed, TLAPS

-----------------------------------------------------------------------------
(* Times of day. *)

LEMMA TimesOfDay ==
  ASSUME NEW n \in Nat
  PROVE  n % Day \in 0..Day - 1 /\ n = Day * (n \div Day) + (n % Day) /\ n \div Day \in Nat
  BY PositionFeedAssumption, SMT

LEMMA SameDay ==
  ASSUME NEW n \in Nat, n < Day
  PROVE  n % Day = n
  BY PositionFeedAssumption, SMT

\* Of two reports, the stamps differ by no more than the reports are apart: midnight in between
\* only makes the difference less, or negative.
LEMMA NotLater ==
  ASSUME NEW m \in Nat, NEW n \in Nat, m <= n
  PROVE  (n % Day) - (m % Day) <= n - m
<1>1. PICK d \in Nat, q \in Nat, r \in Nat : d = Day /\ q = m \div Day /\ r = n \div Day /\ d > 0
  <2>1. Day \in Nat /\ Day > 0
    BY PositionFeedAssumption
  <2>2. m \div Day \in Nat /\ n \div Day \in Nat
    BY TimesOfDay
  <2> QED
    BY <2>1, <2>2
<1>2. PICK a \in Nat, b \in Nat : a = m % Day /\ b = n % Day /\ a < d /\ b < d
  BY <1>1, TimesOfDay
<1>3. m = d * q + a /\ n = d * r + b
  BY <1>1, <1>2, TimesOfDay
<1>4. d * q \in Nat /\ d * r \in Nat
  BY SMT
<1>5. q <= r
  <2>1. SUFFICES ASSUME r + 1 <= q PROVE FALSE
    BY SMT
  <2>2. PICK k \in Nat : q = r + 1 + k
    <3>1. q - (r + 1) \in Nat
      BY <2>1
    <3> QED
      BY <3>1
  <2>3. d * q = d * r + d + d * k /\ d * k \in Nat
    BY <2>2, SMT
  <2> QED
    BY <1>2, <1>3, <1>4, <2>3
<1>6. PICK k \in Nat : r = q + k
  <2>1. r - q \in Nat
    BY <1>5
  <2> QED
    BY <2>1
<1>7. d * r = d * q + d * k /\ d * k \in Nat
  BY <1>6, SMT
<1> QED
  BY <1>2, <1>3, <1>4, <1>7

LEMMA Clock ==
  ASSUME TypeOK
  PROVE  now \in Nat /\ TimeOfDay \in 0..Day - 1 /\ TimeOfDay \in Stamps
<1>1. now \in Nat
  BY PositionFeedAssumption DEF TypeOK
<1> QED
  BY <1>1, TimesOfDay DEF TimeOfDay, Stamps

-----------------------------------------------------------------------------
(* Types.  A report is never older than the clock, which makes the times of *)
(* reports natural numbers.                                                 *)

Young == \A u \in Users : reportAge[u] <= now

LEMMA Types == Spec => [](TypeOK /\ Young)
<1> USE DEF Young
<1>1. Init => TypeOK /\ Young
  <2> SUFFICES ASSUME Init PROVE TypeOK /\ Young
    OBVIOUS
  <2>1. now \in Begin..Horizon /\ now \in Nat /\ Cap \in Nat /\ Day - 1 \in Nat
    BY PositionFeedAssumption DEF Init, Cap
  <2>2. 0 \in Stamps /\ last \in [Pairs -> Stamps]
    BY <2>1, PositionFeedAssumption DEF Init, Stamps
  <2>3. last_position_update \in [Users -> Stamps]
    BY DEF Init, Stamps
  <2>4. reportAge \in [Users -> Nat] /\ \A u \in Users : reportAge[u] <= UpdateInterval[u]
    BY PositionFeedAssumption DEF Init
  <2>5. heldAge \in [Pairs -> 0..Cap] /\ sentAge \in [Pairs -> 0..Cap]
    BY <2>1 DEF Init
  <2> QED
    BY <2>1, <2>2, <2>3, <2>4, <2>5 DEF Init, TypeOK
<1>2. TypeOK /\ Young /\ [Next]_vars => TypeOK' /\ Young'
  <2> SUFFICES ASSUME TypeOK, Young, [Next]_vars PROVE TypeOK' /\ Young'
    OBVIOUS
  <2>0. /\ now \in Nat /\ Horizon \in Nat /\ now <= Horizon /\ Cap \in Nat /\ Horizon < Cap
        /\ \A u \in Users : reportAge[u] \in 0..Cap
    BY PositionFeedAssumption DEF TypeOK, Cap
  <2>1. CASE Tick
    <3>1. now' \in Begin..Horizon /\ now' = now + 1
      BY <2>1, <2>0, PositionFeedAssumption DEF Tick, TypeOK
    <3>2. reportAge' \in [Users -> Nat] /\ \A u \in Users : reportAge'[u] <= UpdateInterval[u]
      BY <2>1, PositionFeedAssumption DEF Tick, TypeOK
    <3>3. Young'
      BY <2>0, <2>1, <3>1 DEF Tick, TypeOK
    <3>4. \A n \in 0..Cap : Older(n) \in 0..Cap
      BY <2>0 DEF Older
    <3>5. heldAge' \in [Pairs -> 0..Cap] /\ sentAge' \in [Pairs -> 0..Cap]
      BY <2>1, <3>4 DEF Tick, TypeOK
    <3> QED
      BY <2>1, <3>1, <3>2, <3>3, <3>5 DEF Tick, TypeOK
  <2>2. ASSUME NEW u \in Users, Report(u) PROVE TypeOK' /\ Young'
    <3>1. TimeOfDay \in Stamps
      BY Clock
    <3>2. reportAge' \in [Users -> Nat] /\ \A x \in Users : reportAge'[x] <= UpdateInterval[x]
      <4>1. \A x \in Users : 0 <= UpdateInterval[x]
        BY PositionFeedAssumption
      <4>2. reportAge' = [reportAge EXCEPT ![u] = 0] /\ 0 \in Nat
        BY <2>2 DEF Report
      <4> QED
        BY <4>1, <4>2 DEF TypeOK
    <3>3. Young'
      BY <2>0, <2>2 DEF Report, TypeOK
    <3> QED
      BY <2>2, <3>1, <3>2, <3>3 DEF Report, TypeOK
  <2>3. ASSUME NEW p \in Pairs, Look(p) PROVE TypeOK' /\ Young'
    <3>1. p[2] \in Users
      BY PositionFeedAssumption
    <3> QED
      BY <2>3, <3>1 DEF Look, TypeOK, clock
  <2>4. ASSUME Leave, pair # NoPair, last' \in [Pairs -> Stamps], heldAge' \in [Pairs -> 0..Cap],
               sentAge' \in [Pairs -> 0..Cap]
        PROVE  TypeOK' /\ Young'
    <3>1. 0 \in Stamps
      BY PositionFeedAssumption DEF Stamps
    <3> QED
      BY <2>4, <3>1 DEF Leave, TypeOK
  <2>5. ASSUME Record, pair # NoPair, heldAge' \in [Pairs -> 0..Cap], sentAge' \in [Pairs -> 0..Cap]
        PROVE  TypeOK' /\ Young'
    <3>1. last' \in [Pairs -> Stamps] /\ Leave
      BY <2>5 DEF Record, TypeOK
    <3> QED
      BY <2>4, <2>5, <3>1
  <2>6. ASSUME NEW to \in Users, NEW about \in Users, SendPosUpdate(to, about)
        PROVE  heldAge' \in [Pairs -> 0..Cap]
    BY <2>0, <2>6 DEF SendPosUpdate, TypeOK
  <2>7. pair # NoPair => pair \in Pairs /\ pair[1] \in Users /\ pair[2] \in Users
    BY PositionFeedAssumption DEF TypeOK
  <2>8. CASE UpdateUser
    BY <2>0, <2>5, <2>6, <2>7, <2>8 DEF UpdateUser, TypeOK
  <2>9. CASE UpdateOther
    BY <2>5, <2>6, <2>7, <2>9 DEF UpdateOther, TypeOK
  <2>10. CASE LeaveAlone
    BY <2>4, <2>10 DEF LeaveAlone, TypeOK
  <2>11. CASE UNCHANGED vars
    BY <2>11 DEF vars, clock, TypeOK
  <2> QED
    BY <2>1, <2>2, <2>3, <2>8, <2>9, <2>10, <2>11 DEF Next
<1> QED
  BY <1>1, <1>2, PTL DEF Spec

\* The variables keep their types, whatever the stamps of users that have not reported: what a pair
\* records is a time of day or such a stamp (client_updater.cpp:126, :149), and clients in time are
\* never further behind than their interval.
THEOREM TypeCorrect == Spec => []TypeOK
  BY Types, PTL

LEMMA StampsAreNat == Stamps \subseteq Nat
<1>1. 0..Day - 1 \subseteq Nat
  BY PositionFeedAssumption
<1> QED
  BY <1>1, PositionFeedAssumption DEF Stamps

LEMMA PairUsers ==
  ASSUME NEW p \in Pairs
  PROVE  /\ p[1] \in Users /\ p[2] \in Users /\ p # NoPair
         /\ Requested[p[1]] \in Nat /\ UpdateInterval[p[2]] \in Nat \ {0}
         /\ UpdateInterval[p[2]] <= Requested[p[1]]
<1>1. p \in Users \X Users
  BY PositionFeedAssumption
<1>2. p # NoPair
  BY <1>1 DEF NoPair
<1> QED
  BY <1>1, <1>2, PositionFeedAssumption

-----------------------------------------------------------------------------
(* The stamp recorded for a pair is that of a report.  Since the update was *)
(* sent, at most the time has passed that Timely says: the position was as  *)
(* old as the other's interval lets it get, if at all.  A pair records a    *)
(* stamp that is none, from before the other's first report, only on its    *)
(* first visits, when no update has been in range.                          *)

\* The stamp of u is that of its last report.
Real(u) == last_position_update[u] = (now - reportAge[u]) % Day

\* s is the stamp of a report of p[2], made no more than its interval before an update `age` ago.
OfReport(p, s, age) ==
  \E t \in Nat : t <= now /\ now <= t + age + UpdateInterval[p[2]] /\ s = t % Day

Timely(p) ==
  /\ sentAge[p] < Cap => Real(p[2]) /\ OfReport(p, last[p], sentAge[p])
  /\ Real(p[2]) \/ (last[p] \in {0, last_position_update[p[2]]} /\ sentAge[p] = Cap)
  /\ pair = p => \/ Real(p[2]) /\ OfReport(p, stamp, 0)
                 \/ /\ last[p] \in {0, stamp} /\ sentAge[p] = Cap
                    /\ Real(p[2]) \/ stamp = last_position_update[p[2]]

AllTimely == \A p \in Pairs : ~updateRequired[p[1]] => Timely(p)

LEMMA TimelyKept ==
  ASSUME TypeOK, Young, [Next]_vars, NEW p \in Pairs, ~updateRequired[p[1]], Timely(p)
  PROVE  Timely(p)'
<1>0. /\ p[1] \in Users /\ p[2] \in Users /\ p # NoPair /\ UpdateInterval[p[2]] \in Nat
      /\ now \in Nat /\ sentAge[p] \in 0..Cap /\ Cap \in Nat /\ 0 < Cap
      /\ reportAge[p[2]] \in 0..now /\ reportAge[p[2]] <= UpdateInterval[p[2]]
  <2>1. p[1] \in Users /\ p[2] \in Users /\ p # NoPair /\ UpdateInterval[p[2]] \in Nat
    BY PairUsers
  <2>2. now \in Nat /\ Cap \in Nat /\ 0 < Cap
    BY Clock, PositionFeedAssumption DEF Cap
  <2> QED
    BY <2>1, <2>2 DEF TypeOK, Young
<1>1. CASE Tick
  <2>1. /\ now' = now + 1 /\ reportAge'[p[2]] = reportAge[p[2]] + 1 /\ pair' = NoPair
        /\ sentAge'[p] = Older(sentAge[p]) /\ UNCHANGED <<last, last_position_update>>
    BY <1>0, <1>1 DEF Tick
  <2>2. Real(p[2])' <=> Real(p[2])
    <3>1. now' - reportAge'[p[2]] = now - reportAge[p[2]]
      BY <1>0, <2>1
    <3> QED
      BY <2>1, <3>1 DEF Real
  <2>3. /\ sentAge[p] < Cap => sentAge'[p] = sentAge[p] + 1
        /\ sentAge[p] = Cap => sentAge'[p] = Cap
    BY <1>0, <2>1 DEF Older
  <2>4. ASSUME sentAge'[p] < Cap' PROVE Real(p[2])' /\ OfReport(p, last[p], sentAge[p])'
    <3>1. sentAge[p] < Cap /\ sentAge'[p] = sentAge[p] + 1
      BY <1>0, <2>3, <2>4 DEF Cap
    <3>2. PICK t \in Nat :
            t <= now /\ now <= t + sentAge[p] + UpdateInterval[p[2]] /\ last[p] = t % Day
      BY <3>1 DEF Timely, OfReport
    <3>3. t <= now' /\ now' <= t + sentAge'[p] + UpdateInterval[p[2]] /\ last'[p] = t % Day
      BY <1>0, <2>1, <3>1, <3>2
    <3> QED
      BY <2>2, <3>1, <3>3 DEF Timely, OfReport
  <2> QED
    BY <1>0, <2>1, <2>2, <2>3, <2>4 DEF Timely, Cap
<1>2. ASSUME NEW u \in Users, Report(u) PROVE Timely(p)'
  <2>1. UNCHANGED <<now, sentAge, last, pair, stamp>>
    BY <1>2 DEF Report
  <2>2. CASE u = p[2]
    <3>1. last_position_update'[p[2]] = now % Day /\ reportAge'[p[2]] = 0
      BY <1>0, <1>2, <2>2 DEF Report, TimeOfDay, TypeOK
    <3>2. now - 0 = now
      BY <1>0
    <3>3. Real(p[2])'
      BY <2>1, <3>1, <3>2 DEF Real
    <3> QED
      BY <2>1, <3>3 DEF Timely, OfReport, Cap
  <2>3. CASE u # p[2]
    <3>1. /\ last_position_update'[p[2]] = last_position_update[p[2]]
          /\ reportAge'[p[2]] = reportAge[p[2]]
      BY <1>0, <1>2, <2>3 DEF Report, TypeOK
    <3>2. Real(p[2])' <=> Real(p[2])
      BY <2>1, <3>1 DEF Real
    <3> QED
      BY <2>1, <3>1, <3>2 DEF Timely, OfReport, Cap
  <2> QED
    BY <2>2, <2>3
<1>3. ASSUME NEW q \in Pairs, Look(q) PROVE Timely(p)'
  <2>1. /\ UNCHANGED <<now, reportAge, sentAge, last, last_position_update>> /\ pair' = q
        /\ stamp' = last_position_update[q[2]]
    BY <1>3 DEF Look, clock
  <2>2. Real(p[2])' <=> Real(p[2])
    BY <2>1 DEF Real
  <2>3. ASSUME Real(p[2]) PROVE OfReport(p, last_position_update[p[2]], 0)
    <3>1. PICK t \in Nat : t = now - reportAge[p[2]]
      BY <1>0
    <3>2. t <= now /\ now <= t + 0 + UpdateInterval[p[2]]
      BY <1>0, <3>1
    <3> QED
      BY <2>3, <3>1, <3>2 DEF OfReport, Real
  <2> QED
    BY <2>1, <2>2, <2>3 DEF Timely, OfReport, Cap
<1>4. ASSUME pair # p, UNCHANGED <<now, reportAge, last_position_update>>, pair' = NoPair,
             last'[p] = last[p], sentAge'[p] = sentAge[p]
      PROVE  Timely(p)'
  <2>1. Real(p[2])' <=> Real(p[2])
    BY <1>4 DEF Real
  <2> QED
    BY <1>0, <1>4, <2>1 DEF Timely, OfReport, Cap
<1>5. CASE UpdateUser
  <2>1. /\ UNCHANGED <<now, reportAge, last_position_update>> /\ pair' = NoPair
        /\ last' = [last EXCEPT ![pair] = stamp] /\ sentAge' = [sentAge EXCEPT ![pair] = 0]
    BY <1>5 DEF UpdateUser, Record, Leave
  <2>2. CASE pair # p
    BY <1>4, <2>1, <2>2 DEF TypeOK
  <2>3. CASE pair = p
    <3>1. last[p] # 0 /\ stamp # last[p]
      BY <1>5, <2>3 DEF UpdateUser, News
    <3>2. Real(p[2]) /\ OfReport(p, stamp, 0)
      BY <2>3, <3>1 DEF Timely
    <3>3. last'[p] = stamp /\ sentAge'[p] = 0
      BY <2>1, <2>3 DEF TypeOK
    <3>4. Real(p[2])' /\ OfReport(p, last[p], sentAge[p])'
      BY <2>1, <3>2, <3>3 DEF Real, OfReport
    <3> QED
      BY <1>0, <2>1, <3>4 DEF Timely
  <2> QED
    BY <2>2, <2>3
<1>6. CASE UpdateOther
  <2>1. /\ UNCHANGED <<now, reportAge, last_position_update, sentAge>> /\ pair' = NoPair
        /\ last' = [last EXCEPT ![pair] = stamp]
    BY <1>6 DEF UpdateOther, Record, Leave
  <2>2. CASE pair # p
    BY <1>4, <2>1, <2>2 DEF TypeOK
  <2>3. CASE pair = p
    <3>1. last'[p] = stamp
      BY <2>1, <2>3 DEF TypeOK
    <3>2. Real(p[2])' <=> Real(p[2])
      BY <2>1 DEF Real
    <3>3. ASSUME OfReport(p, stamp, 0) PROVE OfReport(p, last[p], sentAge[p])'
      <4>1. PICK t \in Nat : t <= now /\ now <= t + 0 + UpdateInterval[p[2]] /\ stamp = t % Day
        BY <3>3 DEF OfReport
      <4>2. now <= t + sentAge[p] + UpdateInterval[p[2]]
        BY <1>0, <4>1
      <4> QED
        BY <2>1, <3>1, <4>1, <4>2 DEF OfReport
    <3> QED
      BY <1>0, <2>1, <2>3, <3>1, <3>2, <3>3 DEF Timely, Cap
  <2> QED
    BY <2>2, <2>3
<1>7. CASE LeaveAlone
  <2>1. UNCHANGED <<now, reportAge, last_position_update, sentAge, last>> /\ pair' = NoPair
    BY <1>7 DEF LeaveAlone, Leave
  <2>2. Real(p[2])' <=> Real(p[2])
    BY <2>1 DEF Real
  <2> QED
    BY <1>0, <2>1, <2>2 DEF Timely, OfReport, Cap
<1>8. CASE UNCHANGED vars
  <2>1. UNCHANGED <<now, reportAge, last_position_update, sentAge, last, pair, stamp>>
    BY <1>8 DEF vars, clock
  <2>2. Real(p[2])' <=> Real(p[2])
    BY <2>1 DEF Real
  <2> QED
    BY <2>1, <2>2 DEF Timely, OfReport, Cap
<1> QED
  BY <1>1, <1>2, <1>3, <1>5, <1>6, <1>7, <1>8 DEF Next

LEMMA TimelyInvariant == Spec => []AllTimely
<1>1. Init => AllTimely
  <2> SUFFICES ASSUME Init, NEW p \in Pairs PROVE Timely(p)
    BY DEF AllTimely
  <2>1. last[p] = 0 /\ sentAge[p] = Cap /\ pair = NoPair /\ p # NoPair /\ ~(Cap < Cap)
    <3>1. Cap \in Nat
      BY PositionFeedAssumption DEF Cap
    <3> QED
      BY <3>1, PairUsers DEF Init
  <2> QED
    BY <2>1 DEF Timely
<1>2. TypeOK /\ Young /\ AllTimely /\ [Next]_vars => AllTimely'
  <2> SUFFICES ASSUME TypeOK, Young, AllTimely, [Next]_vars, NEW p \in Pairs, ~updateRequired'[p[1]]
               PROVE  Timely(p)'
    BY DEF AllTimely
  <2>1. UNCHANGED updateRequired
    BY DEF Next, Tick, Report, Look, UpdateUser, UpdateOther, LeaveAlone, Record, Leave, vars
  <2> QED
    BY <2>1, TimelyKept DEF AllTimely
<1> QED
  BY <1>1, <1>2, Types, PTL DEF Spec

\* Updates of a pair that are in range are never closer than minTime (client_updater.cpp:144-148).
\* The code compares with the stamp of the position that it sent, which may be older than the
\* update by the other's interval, and counts in times of day: an interval that begins before
\* midnight looks shorter, never longer (NotLater).
THEOREM UpdatesPaced == Spec => Paced
<1> DEFINE P == \A p \in Pairs :
                  sentAge'[p] < sentAge[p] /\ ~updateRequired[p[1]] => sentAge[p] >= MinTime(p)
<1>1. TypeOK /\ AllTimely /\ [Next]_vars => [P]_sentAge
  <2> SUFFICES ASSUME TypeOK, AllTimely, [Next]_vars, NEW p \in Pairs,
                      sentAge'[p] < sentAge[p], ~updateRequired[p[1]]
               PROVE  sentAge[p] >= MinTime(p)
    OBVIOUS
  <2>0. /\ Requested[p[1]] \in Nat /\ UpdateInterval[p[2]] \in Nat /\ now \in Nat
        /\ TimeOfDay \in 0..Day - 1 /\ sentAge[p] \in 0..Cap /\ Cap \in Nat /\ Day <= Cap
        /\ Day \in Nat
    <3>1. now \in Nat /\ TimeOfDay \in 0..Day - 1 /\ sentAge[p] \in 0..Cap
      BY Clock DEF TypeOK
    <3>2. Cap \in Nat /\ Day <= Cap /\ Day \in Nat
      BY PositionFeedAssumption DEF Cap
    <3> QED
      BY <3>1, <3>2, PairUsers
  <2>1. UpdateUser /\ pair = p
    <3>1. \A n \in 0..Cap : ~(Older(n) < n)
      BY <2>0 DEF Older
    <3>2. ~Tick
      BY <2>0, <3>1 DEF Tick
    <3>3. ~(sentAge' = sentAge)
      BY <2>0
    <3>4. UpdateUser
      BY <3>2, <3>3 DEF Next, Report, Look, UpdateOther, LeaveAlone, vars, clock
    <3> QED
      BY <2>0, <3>4 DEF UpdateUser, TypeOK
  <2>2. TimeOfDay - last[p] >= Requested[p[1]]
    BY <2>1 DEF UpdateUser, News, Interval
  <2>3. last[p] \in Nat
    BY StampsAreNat DEF TypeOK
  <2>4. CASE sentAge[p] = Cap
    BY <2>0, <2>2, <2>3, <2>4 DEF MinTime
  <2>5. CASE sentAge[p] # Cap
    <3>1. Timely(p) /\ sentAge[p] < Cap
      BY <2>0, <2>5 DEF AllTimely
    <3>2. PICK t \in Nat :
            t <= now /\ now <= t + sentAge[p] + UpdateInterval[p[2]] /\ last[p] = t % Day
      BY <3>1 DEF Timely, OfReport
    <3>3. TimeOfDay - last[p] <= now - t
      BY <2>0, <3>2, NotLater DEF TimeOfDay
    <3> QED
      BY <2>0, <2>2, <2>3, <3>2, <3>3 DEF MinTime
  <2> QED
    BY <2>4, <2>5
<1> QED
  BY <1>1, Types, TimelyInvariant, PTL DEF Spec, Paced

-----------------------------------------------------------------------------
(* How old the positions are that clients hold.  As long as the stamp of a  *)
(* pair is not ahead of the clock, the clock has not passed midnight: by    *)
(* then the pair has a stamp from before it.  That needs that a user's      *)
(* first interval ends before midnight (SettledByMidnight): a first report  *)
(* at midnight is stamped 0, which the code reads as `no attributes yet'.   *)

SettledByMidnight == \A p \in Pairs : Begin + UpdateInterval[p[2]] + 1 < Day

OnTime(p) == last[p] <= TimeOfDay
\* The passes that p may have missed: none once this one has dealt with it.
Due(p) == IF p \in visited /\ pair # p THEN 0 ELSE 1

\* u has reported, since the beginning.
Reported(u) == last_position_update[u] = now - reportAge[u] /\ reportAge[u] < now - Begin

\* The other of p may not have reported yet, or just now.
Early(p, e) == now - Begin <= UpdateInterval[p[2]] + e

\* What the pair has recorded and the stamp that the pass has read, while nothing is reported.
Known(p) ==
  \/ Reported(p[2])
  \/ reportAge[p[2]] = now - Begin /\ last[p] \in {0, last_position_update[p[2]]}

StampKnown(p) ==
  \/ /\ Reported(p[2])
     /\ Begin < stamp /\ stamp <= now /\ now - stamp <= UpdateInterval[p[2]]
  \/ /\ Early(p, 0) /\ last[p] \in {0, stamp}
     /\ Reported(p[2]) \/ stamp = last_position_update[p[2]]

\* The position held is at most an interval older than the recorded stamp says; and that was of
\* use within the interval requested, or no stamp of a report is recorded yet.
Served(p) ==
  /\ last[p] = 0 => Early(p, Due(p))
  /\ updateRequired[p[1]] => heldAge[p] <= UpdateInterval[p[2]] + Due(p)
  /\ ~updateRequired[p[1]] =>
       /\ heldAge[p] <= now - last[p] + UpdateInterval[p[2]] + 1
       /\ now - last[p] <= Requested[p[1]] + Due(p) \/ Early(p, Due(p))

Fed(p) ==
  /\ Begin <= now /\ now < Day
  /\ reportAge[p[2]] <= heldAge[p] /\ heldAge[p] <= now - Begin
  /\ Known(p) /\ (pair = p => StampKnown(p)) /\ Served(p)

LEMMA PairNumbers ==
  ASSUME TypeOK, NEW p \in Pairs
  PROVE  /\ p[1] \in Users /\ p[2] \in Users /\ p # NoPair /\ p[1] # p[2]
         /\ Requested[p[1]] \in Nat /\ UpdateInterval[p[2]] \in Nat \ {0}
         /\ UpdateInterval[p[2]] <= Requested[p[1]]
         /\ now \in Nat /\ Begin \in Nat /\ Day \in Nat /\ now < Cap /\ Cap \in Nat
         /\ reportAge[p[2]] \in Nat /\ reportAge[p[2]] <= UpdateInterval[p[2]]
         /\ heldAge[p] \in Nat /\ last[p] \in Nat /\ stamp \in Nat
         /\ last_position_update[p[2]] \in Nat /\ updateRequired[p[1]] \in BOOLEAN
         /\ Due(p) \in {0, 1} /\ heldAge[p] \in 0..Cap
<1>1. /\ p[1] \in Users /\ p[2] \in Users /\ p # NoPair
      /\ Requested[p[1]] \in Nat /\ UpdateInterval[p[2]] \in Nat \ {0}
      /\ UpdateInterval[p[2]] <= Requested[p[1]]
  BY PairUsers
<1>2. p[1] # p[2]
  BY PositionFeedAssumption
<1>3. now \in Nat /\ Begin \in Nat /\ Day \in Nat /\ now < Cap /\ Cap \in Nat
  <2>1. now \in Begin..Horizon /\ Begin \in Nat /\ Horizon \in Nat /\ Day \in Nat \ {0}
    BY PositionFeedAssumption DEF TypeOK
  <2> QED
    BY <2>1 DEF Cap
<1>4. /\ last[p] \in Stamps /\ stamp \in Stamps /\ last_position_update[p[2]] \in Stamps
      /\ updateRequired[p[1]] \in BOOLEAN /\ heldAge[p] \in 0..Cap
      /\ reportAge[p[2]] \in Nat /\ reportAge[p[2]] <= UpdateInterval[p[2]]
  BY <1>1 DEF TypeOK
<1>5. last[p] \in Nat /\ stamp \in Nat /\ last_position_update[p[2]] \in Nat
  BY <1>4, StampsAreNat
<1>6. heldAge[p] \in Nat
  BY <1>3, <1>4
<1>7. Due(p) \in {0, 1}
  BY DEF Due
<1> QED
  BY <1>1, <1>2, <1>3, <1>4, <1>5, <1>6, <1>7

LEMMA FedKept ==
  ASSUME TypeOK, SettledByMidnight, [Next]_vars, NEW p \in Pairs, OnTime(p), OnTime(p)', Fed(p)
  PROVE  Fed(p)'
<1> DEFINE u == p[2]  ui == UpdateInterval[p[2]]  r == Requested[p[1]]
<1>0. /\ p[1] \in Users /\ p[2] \in Users /\ p # NoPair /\ p[1] # p[2]
      /\ r \in Nat /\ ui \in Nat \ {0} /\ ui <= r
      /\ now \in Nat /\ Begin \in Nat /\ Day \in Nat /\ now < Cap /\ Cap \in Nat
      /\ reportAge[p[2]] \in Nat /\ reportAge[p[2]] <= ui
      /\ heldAge[p] \in Nat /\ last[p] \in Nat /\ stamp \in Nat
      /\ last_position_update[p[2]] \in Nat /\ updateRequired[p[1]] \in BOOLEAN
      /\ Due(p) \in {0, 1} /\ Begin + ui + 1 < Day
  BY PairNumbers DEF SettledByMidnight
<1>1. TimeOfDay = now /\ last[p] <= now
  BY <1>0, SameDay DEF Fed, TimeOfDay, OnTime
<1>2. CASE Tick
  <2>1. /\ now' = now + 1 /\ visited = Pairs /\ pair = NoPair /\ pair' = NoPair
        /\ reportAge'[p[2]] = reportAge[p[2]] + 1 /\ heldAge'[p] = Older(heldAge[p])
        /\ UNCHANGED <<updateRequired, last_position_update, last, stamp>>
        /\ visited' = {}
    BY <1>0, <1>2 DEF Tick
  <2>2. Due(p) = 0 /\ Due(p)' = 1
    BY <1>0, <2>1 DEF Due
  <2>3. heldAge'[p] = heldAge[p] + 1
    BY <1>0, <2>1 DEF Older, Fed
  <2>4. now' < Day
    <3>1. SUFFICES ASSUME now' = Day PROVE FALSE
      BY <1>0, <2>1 DEF Fed
    <3>2. TimeOfDay' = 0
      BY <1>0, <3>1, SMT DEF TimeOfDay
    <3>3. last[p] = 0
      BY <1>0, <2>1, <3>2 DEF OnTime
    <3>4. now - Begin <= ui
      BY <1>0, <2>2, <3>3 DEF Fed, Served, Early
    <3> QED
      BY <1>0, <2>1, <3>1, <3>4
  <2>5. Reported(p[2]) => Reported(p[2])'
    BY <1>0, <2>1 DEF Reported
  <2>6. Known(p)'
    BY <1>0, <2>1, <2>5 DEF Fed, Known
  <2>7. Served(p)'
    BY <1>0, <2>1, <2>2, <2>3 DEF Fed, Served, Early
  <2> QED
    BY <1>0, <2>1, <2>3, <2>4, <2>6, <2>7 DEF Fed
<1>3. ASSUME NEW v \in Users, Report(v) PROVE Fed(p)'
  <2>1. UNCHANGED <<now, updateRequired, last, visited, pair, stamp, heldAge>>
    BY <1>3 DEF Report
  <2>2. Due(p)' = Due(p) /\ (Served(p) => Served(p)')
    BY <2>1 DEF Due, Served, Early
  <2>3. CASE v = p[2]
    <3>1. last_position_update'[p[2]] = now /\ reportAge'[p[2]] = 0 /\ 0 < reportAge[p[2]]
      BY <1>0, <1>1, <1>3, <2>3 DEF Report, TypeOK
    <3>2. Reported(p[2])'
      BY <1>0, <2>1, <3>1 DEF Fed, Reported
    <3>3. pair = p => StampKnown(p)'
      BY <2>1, <3>2 DEF Fed, StampKnown, Early
    <3> QED
      BY <1>0, <2>1, <2>2, <3>1, <3>2, <3>3 DEF Fed, Known
  <2>4. CASE v # p[2]
    <3>1. /\ last_position_update'[p[2]] = last_position_update[p[2]]
          /\ reportAge'[p[2]] = reportAge[p[2]]
      BY <1>0, <1>3, <2>4 DEF Report, TypeOK
    <3>2. Reported(p[2])' <=> Reported(p[2])
      BY <2>1, <3>1 DEF Reported
    <3> QED
      BY <2>1, <2>2, <3>1, <3>2 DEF Fed, Known, StampKnown, Early
  <2> QED
    BY <2>3, <2>4
<1>4. ASSUME NEW q \in Pairs, Look(q) PROVE Fed(p)'
  <2>1. /\ UNCHANGED <<now, reportAge, updateRequired, last_position_update, last, heldAge>>
        /\ pair = NoPair /\ pair' = q /\ q \notin visited
        /\ stamp' = last_position_update[q[2]] /\ visited' = visited \cup {q}
    BY <1>4 DEF Look, clock
  <2>2. Due(p)' = Due(p)
    BY <1>0, <2>1 DEF Due
  <2>3. Reported(p[2])' <=> Reported(p[2])
    BY <2>1 DEF Reported
  <2>4. q = p => StampKnown(p)'
    BY <1>0, <2>1, <2>3 DEF Fed, Known, StampKnown, Reported, Early
  <2>5. Served(p)'
    BY <2>1, <2>2 DEF Fed, Served, Early
  <2> QED
    BY <2>1, <2>3, <2>4, <2>5 DEF Fed, Known
<1>5. ASSUME pair # p, UNCHANGED <<now, reportAge, updateRequired, last_position_update, visited>>,
             pair' = NoPair, last'[p] = last[p], heldAge'[p] \in {heldAge[p], reportAge[p[2]]}
      PROVE  Fed(p)'
  <2>1. Due(p)' = Due(p)
    BY <1>0, <1>5 DEF Due
  <2>2. Reported(p[2])' <=> Reported(p[2])
    BY <1>5 DEF Reported
  <2>3. reportAge[p[2]] <= heldAge'[p] /\ heldAge'[p] <= heldAge[p] /\ heldAge'[p] \in Nat
    BY <1>0, <1>5 DEF Fed
  <2>4. Served(p)'
    BY <1>0, <1>5, <2>1, <2>3 DEF Fed, Served, Early
  <2> QED
    BY <1>0, <1>5, <2>2, <2>3, <2>4 DEF Fed, Known
<1>6. ASSUME pair = p, UNCHANGED <<now, reportAge, updateRequired, last_position_update, visited>>,
             pair' = NoPair, last'[p] = stamp \/ last'[p] = last[p],
             heldAge'[p] \in {heldAge[p], reportAge[p[2]]},
             Due(p)' = 0 => Served(p)'
      PROVE  Fed(p)'
  <2>1. Due(p)' = 0
    BY <1>0, <1>6 DEF Due, TypeOK
  <2>2. Reported(p[2])' <=> Reported(p[2])
    BY <1>6 DEF Reported
  <2>3. reportAge[p[2]] <= heldAge'[p] /\ heldAge'[p] <= heldAge[p] /\ heldAge'[p] \in Nat
    BY <1>0, <1>6 DEF Fed
  <2>4. Known(p)'
    BY <1>6, <2>2 DEF Fed, Known, StampKnown
  <2> QED
    BY <1>0, <1>6, <2>1, <2>3, <2>4 DEF Fed
<1>7. ASSUME NEW q \in Pairs, SendPosUpdate(q[1], q[2])
      PROVE  heldAge'[p] \in {heldAge[p], reportAge[p[2]]}
  BY <1>7 DEF SendPosUpdate, TypeOK
<1>8. ASSUME NEW q \in Pairs, SendPosUpdate(q[2], q[1])
      PROVE  heldAge'[p] \in {heldAge[p], reportAge[p[2]]}
  BY <1>8 DEF SendPosUpdate, TypeOK
<1>9. pair # NoPair => pair \in Pairs
  BY DEF TypeOK
<1>10. CASE UpdateUser
  <2>1. /\ UNCHANGED <<now, reportAge, updateRequired, last_position_update, visited>>
        /\ pair' = NoPair /\ pair # NoPair /\ last' = [last EXCEPT ![pair] = stamp]
        /\ SendPosUpdate(pair[1], pair[2])
        /\ updateRequired[pair[1]] \/ (last[pair] # 0 /\ News /\ InRange)
    BY <1>10 DEF UpdateUser, Record, Leave
  <2>2. heldAge'[p] \in {heldAge[p], reportAge[p[2]]}
    BY <1>7, <1>9, <2>1
  <2>3. CASE pair # p
    <3>1. last'[p] = last[p]
      BY <2>1, <2>3 DEF TypeOK
    <3> QED
      BY <1>5, <2>1, <2>2, <2>3, <3>1
  <2>4. CASE pair = p
    <3>1. last'[p] = stamp
      BY <2>1, <2>4 DEF TypeOK
    <3>2. heldAge'[p] = reportAge[p[2]]
      <4>1. <<p[1], p[2]>> = p
        BY PositionFeedAssumption
      <4> QED
        BY <2>1, <2>4, <4>1 DEF SendPosUpdate, TypeOK
    <3>3. stamp <= now
      BY <1>0, <1>1, <2>1, <3>1 DEF OnTime, TimeOfDay
    <3>4. ASSUME Due(p)' = 0 PROVE Served(p)'
      <4>1. StampKnown(p)
        BY <2>4 DEF Fed
      <4>2. stamp = 0 => Early(p, 0)
        BY <1>0, <4>1 DEF StampKnown
      <4>3. ASSUME ~updateRequired[p[1]]
            PROVE  now - stamp <= r
        <5>1. last[p] # 0 /\ stamp # last[p]
          BY <2>1, <2>4, <4>3 DEF News
        <5>2. now - stamp <= ui
          BY <4>1, <5>1 DEF StampKnown
        <5> QED
          BY <1>0, <5>2
      <4> QED
        BY <1>0, <2>1, <3>1, <3>2, <3>3, <3>4, <4>2, <4>3 DEF Served, Early
    <3> QED
      BY <1>6, <2>1, <2>2, <2>4, <3>1, <3>4
  <2> QED
    BY <2>3, <2>4
<1>11. CASE UpdateOther
  <2>1. /\ UNCHANGED <<now, reportAge, updateRequired, last_position_update, visited>>
        /\ pair' = NoPair /\ pair # NoPair /\ last' = [last EXCEPT ![pair] = stamp]
        /\ SendPosUpdate(pair[2], pair[1]) /\ ~updateRequired[pair[1]]
        /\ last[pair] = 0 \/ (News /\ Interval > MaxTime(pair))
    BY <1>11 DEF UpdateOther, Record, Leave
  <2>2. heldAge'[p] \in {heldAge[p], reportAge[p[2]]}
    BY <1>8, <1>9, <2>1
  <2>3. CASE pair # p
    <3>1. last'[p] = last[p]
      BY <2>1, <2>3 DEF TypeOK
    <3> QED
      BY <1>5, <2>1, <2>2, <2>3, <3>1
  <2>4. CASE pair = p
    <3>1. last'[p] = stamp
      BY <2>1, <2>4 DEF TypeOK
    <3>2. heldAge'[p] \in Nat /\ heldAge'[p] <= heldAge[p]
      BY <1>0, <2>2 DEF Fed
    <3>3. stamp <= now
      BY <1>0, <1>1, <2>1, <3>1 DEF OnTime, TimeOfDay
    <3>4. Early(p, 1)
      <4>1. CASE last[p] = 0
        BY <1>0, <4>1 DEF Fed, Served, Early
      <4>2. CASE last[p] # 0
        <5>1. now - last[p] > r + ui
          BY <1>1, <2>1, <2>4, <4>2 DEF Interval, MaxTime
        <5>2. now - last[p] <= r + Due(p) \/ Early(p, Due(p))
          BY <2>1, <2>4 DEF Fed, Served
        <5> QED
          BY <1>0, <5>1, <5>2 DEF Early
      <4> QED
        BY <4>1, <4>2
    <3>5. ASSUME Due(p)' = 0 PROVE Served(p)'
      <4>1. StampKnown(p)
        BY <2>4 DEF Fed
      <4>2. stamp = 0 => Early(p, 0)
        BY <1>0, <4>1 DEF StampKnown
      <4>3. now - stamp <= r \/ Early(p, 0)
        BY <1>0, <4>1 DEF StampKnown
      <4>4. heldAge'[p] <= ui + 1
        BY <1>0, <3>2, <3>4 DEF Fed, Early
      <4> QED
        BY <1>0, <2>1, <2>4, <3>1, <3>2, <3>3, <3>5, <4>2, <4>3, <4>4 DEF Served, Early
    <3> QED
      BY <1>6, <2>1, <2>2, <2>4, <3>1, <3>5
  <2> QED
    BY <2>3, <2>4
<1>12. CASE LeaveAlone
  <2>1. /\ UNCHANGED <<now, reportAge, updateRequired, last_position_update, visited>>
        /\ pair' = NoPair /\ pair # NoPair /\ UNCHANGED <<last, heldAge>>
        /\ ~updateRequired[pair[1]] /\ last[pair] # 0
        /\ ~(News /\ (InRange \/ Interval > MaxTime(pair)))
    BY <1>12 DEF LeaveAlone, Leave
  <2>2. CASE pair # p
    BY <1>5, <2>1, <2>2
  <2>3. CASE pair = p
    <3>1. ASSUME Due(p)' = 0 PROVE Served(p)'
      <4>1. now - last[p] <= r \/ Early(p, 0)
        <5>1. CASE stamp = last[p]
          BY <1>0, <2>3, <5>1 DEF Fed, StampKnown
        <5>2. CASE stamp # last[p]
          BY <1>0, <1>1, <2>1, <2>3, <5>2 DEF News, InRange, Interval, MinTime, MaxTime
        <5> QED
          BY <5>1, <5>2
      <4> QED
        BY <1>0, <2>1, <2>3, <3>1, <4>1 DEF Fed, Served, Early
    <3> QED
      BY <1>6, <2>1, <2>3, <3>1
  <2> QED
    BY <2>2, <2>3
<1>13. CASE UNCHANGED vars
  BY <1>13 DEF vars, clock, Fed, Known, Reported, StampKnown, Served, Due, Early
<1> QED
  BY <1>2, <1>3, <1>4, <1>10, <1>11, <1>12, <1>13 DEF Next

\* No client holds a position older than what it asked for, the other's interval and two passes
\* (maxTime, client_updater.cpp:145), as long as the stamp recorded for the pair is not ahead of
\* the clock.  First and overdue updates go to the other of the two and yet are recorded
\* (client_updater.cpp:149, :155-169): Served says that they come only while the position of the
\* handshake is still fresh enough.
THEOREM ServedInTime ==
  ASSUME SettledByMidnight
  PROVE  Spec => FreshUnlessAhead
<1>1. ASSUME NEW p \in Pairs PROVE Spec => ([]OnTime(p) => []Fresh(p))
  <2>1. Init => Fed(p)
    <3> SUFFICES ASSUME Init PROVE Fed(p)
      OBVIOUS
    <3>1. /\ now = Begin /\ pair = NoPair /\ p # NoPair /\ Begin \in Nat /\ Day \in Nat
          /\ p[2] \in Users /\ UpdateInterval[p[2]] \in Nat /\ Requested[p[1]] \in Nat
          /\ last[p] = 0 /\ heldAge[p] = 0 /\ reportAge[p[2]] = 0 /\ visited = {}
          /\ Begin + UpdateInterval[p[2]] + 1 < Day
      BY PairUsers, PositionFeedAssumption DEF Init, SettledByMidnight
    <3>2. Due(p) = 1
      BY <3>1 DEF Due
    <3> QED
      BY <3>1, <3>2 DEF Fed, Known, Served, Early
  <2>2. TypeOK /\ OnTime(p) /\ OnTime(p)' /\ Fed(p) /\ [Next]_vars => Fed(p)'
    BY FedKept
  <2>3. TypeOK /\ Fed(p) => Fresh(p)
    <3> SUFFICES ASSUME TypeOK, Fed(p) PROVE Fresh(p)
      OBVIOUS
    <3> QED
      BY PairNumbers DEF Fed, Served, Early, Fresh, MaxTime
  <2> QED
    BY <2>1, <2>2, <2>3, Types, PTL DEF Spec
<1> QED
  BY <1>1 DEF FreshUnlessAhead, OnTime
=============================================================================
