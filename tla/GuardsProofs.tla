---------------------------- MODULE GuardsProofs ----------------------------
(***************************************************************************)
(* Theorems about the three guards of MCGuards, each about the              *)
(* specification of its own component: RateLimits (part 1), CircuitBreaker  *)
(* (part 2) and ResourceScheduler (part 3).                                 *)
(***************************************************************************)
EXTENDS MCGuards, FiniteSetTheorems, TLAPS

-----------------------------------------------------------------------------
(* 1. RateLimits, for every finite set of processes, every set of calls and *)
(* every limit.  The bounds are not inductive: a process between its check  *)
(* and its increment has spent a part of the limit that no counter shows    *)
(* yet.  The invariant counts those processes, each at the places where its *)
(* part is still to be added.                                               *)

Labels == {"idle", "daily", "charge", "gap", "count_hour", "count_day", "granted",
           "posted"}

At(places) == Cardinality({p \in Procs : pc[p] \in places})

P == Cardinality(Procs)

HourPassed == {"daily", "charge", "gap", "count_hour"}
DayPassed == {"gap", "count_hour", "count_day"}
GapPassed == {"count_hour", "count_day", "granted"}

\* A process about to charge has a call that is charged, and that the limit
\* lets through once at least.
ChargeShape ==
    \A p \in Procs : pc[p] = "charge" => call \in Charged /\ UNITS[call] <= LIMIT[call]

HourAccounted == call \in HourlyLimited => hourly + At(HourPassed) <= LIMIT[call] + Others

DayAccounted == call \in DailyLimited => daily + At(DayPassed) <= LIMIT[call] + Others

QuotaAccounted ==
    call \in Charged =>
        quota + UNITS[call] * At({"charge"}) <= LIMIT[call] + Others * UNITS[call]

HourThrough == call \in HourlyLimited => through + At({"count_day"}) <= hourly + P

DayThrough == call \in DailyLimited => through <= daily

QuotaThrough ==
    call \in Charged =>
        UNITS[call] * (through + At(DayPassed)) <= quota + UNITS[call] * P

BurstAccounted ==
    call \in Gapped =>
        /\ burst + At(GapPassed) <= P + unrecorded
        /\ ~recent => burst <= At({"posted"}) + unrecorded

LimitsInv ==
    /\ TypeOK
    /\ ChargeShape
    /\ HourAccounted /\ DayAccounted /\ QuotaAccounted
    /\ HourThrough /\ DayThrough /\ QuotaThrough
    /\ BurstAccounted

-----------------------------------------------------------------------------
\* A multiple grows with its factor.
LEMMA TimesMonotone ==
  ASSUME NEW u \in Nat, NEW a \in Nat, NEW b \in Nat, a <= b
  PROVE  u * a \in Nat /\ u * a <= u * b
  <1>1. PICK d \in Nat : b = a + d
    <2>1. b - a \in Nat /\ b = a + (b - a)
      OBVIOUS
    <2> QED  BY <2>1
  <1>2. u * b = u * a + u * d
    BY <1>1
  <1>3. u * a \in Nat /\ u * d \in Nat
    OBVIOUS
  <1> QED  BY <1>2, <1>3

\* One factor more is one multiple more.
LEMMA TimesNext ==
  ASSUME NEW u \in Nat, NEW a \in Nat
  PROVE  u * (a + 1) = u * a + u
  OBVIOUS

\* There is at least one process.
LEMMA SomeProcess == P \in Nat /\ P >= 1 /\ Others = P - 1 /\ Others \in Nat
  <1>1. P \in Nat /\ (P = 0 <=> Procs = {})
    BY FS_CardinalityType, FS_EmptySet, ProcsAssumption DEF P
  <1> QED  BY <1>1, ProcsAssumption DEF P, Others

\* Processes at some places are never more than there are.
LEMMA Counted ==
  ASSUME NEW places
  PROVE  At(places) \in Nat /\ At(places) <= P
  <1>1. {p \in Procs : pc[p] \in places} \subseteq Procs
    OBVIOUS
  <1> QED  BY <1>1, FS_Subset, FS_CardinalityType, ProcsAssumption DEF At, P

\* Nor are they after a step.
LEMMA CountedNext ==
  ASSUME NEW places
  PROVE  At(places)' \in Nat /\ At(places)' <= P
  <1>1. {p \in Procs : pc'[p] \in places} \subseteq Procs
    OBVIOUS
  <1> QED  BY <1>1, FS_Subset, FS_CardinalityType, ProcsAssumption DEF At, P

\* What one statement moves: the processes at some places become one more, one
\* less, or stay as many.
LEMMA Moved ==
  ASSUME TypeOK, NEW p \in Procs, NEW label \in Labels, Goto(p, label), NEW places
  PROVE  /\ (pc[p] \in places <=> label \in places) => At(places)' = At(places)
         /\ pc[p] \notin places /\ label \in places => At(places)' = At(places) + 1
         /\ pc[p] \in places /\ label \notin places => At(places)' = At(places) - 1
  <1> DEFINE S == {q \in Procs : pc[q] \in places}
             T == {q \in Procs : pc'[q] \in places}
  <1>1. pc'[p] = label /\ \A q \in Procs \ {p} : pc'[q] = pc[q]
    BY DEF TypeOK, Goto
  <1>2. IsFiniteSet(S) /\ IsFiniteSet(T)
    BY FS_Subset, ProcsAssumption
  <1>3. At(places) = Cardinality(S) /\ At(places)' = Cardinality(T)
    BY DEF At
  <1>4. ASSUME pc[p] \in places <=> label \in places PROVE At(places)' = At(places)
    <2>1. S = T
      BY <1>1, <1>4
    <2> QED  BY <2>1, <1>3
  <1>5. ASSUME pc[p] \notin places, label \in places PROVE At(places)' = At(places) + 1
    <2>1. T = S \cup {p} /\ p \notin S
      BY <1>1, <1>5
    <2> HIDE DEF S, T
    <2> QED  BY <2>1, <1>2, <1>3, FS_AddElement
  <1>6. ASSUME pc[p] \in places, label \notin places PROVE At(places)' = At(places) - 1
    <2>1. T = S \ {p} /\ p \in S
      BY <1>1, <1>6
    <2> HIDE DEF S, T
    <2> QED  BY <2>1, <1>2, <1>3, FS_RemoveElement
  <1> QED  BY <1>4, <1>5, <1>6

\* Nobody is past the gap and has posted.
LEMMA PastGap == At(GapPassed)' + At({"posted"})' <= P
  <1> DEFINE S == {p \in Procs : pc'[p] \in GapPassed}
             T == {p \in Procs : pc'[p] \in {"posted"}}
  <1>1. S \cap T = {} /\ S \cup T \subseteq Procs
    BY DEF GapPassed
  <1>2. IsFiniteSet(S) /\ IsFiniteSet(T)
    BY FS_Subset, ProcsAssumption
  <1>3. At(GapPassed)' = Cardinality(S) /\ At({"posted"})' = Cardinality(T)
    BY DEF At
  <1> HIDE DEF S, T
  <1>4. Cardinality(S \cup T) = Cardinality(S) + Cardinality(T)
    <2>1. Cardinality(S \cap T) = 0
      BY <1>1, FS_EmptySet
    <2>2. Cardinality(S \cup T) = Cardinality(S) + Cardinality(T) - Cardinality(S \cap T)
      BY <1>2, FS_Union
    <2> QED  BY <2>1, <2>2, <1>2, FS_CardinalityType
  <1>5. Cardinality(S \cup T) <= P
    BY <1>1, FS_Subset, ProcsAssumption DEF P
  <1> QED  BY <1>3, <1>4, <1>5

\* No call has limits of two kinds.
LEMMA OneLimit ==
  ASSUME NEW c \in Calls
  PROVE  /\ c \in HourlyLimited => c \notin DailyLimited /\ c \notin Charged
         /\ c \in DailyLimited => c \notin Charged
  BY DEF HourlyLimited, DailyLimited, Charged

\* What the steps below take from the assumptions.
LEMMA Numbers ==
  ASSUME TypeOK
  PROVE  /\ hourly \in Nat /\ daily \in Nat /\ quota \in Nat
         /\ through \in Nat /\ burst \in Nat /\ unrecorded \in Nat
         /\ LIMIT[call] \in Nat /\ LIMIT[call] >= 1
         /\ UNITS[call] \in Nat /\ UNITS[call] >= 1
  BY LimitAssumption DEF TypeOK

-----------------------------------------------------------------------------
\* The initial states satisfy the invariant.
LEMMA InitLimits == Init => LimitsInv
  <1> SUFFICES ASSUME Init PROVE LimitsInv
    OBVIOUS
  <1>1. TypeOK
    BY DEF Init, TypeOK
  <1>2. ASSUME NEW places, "idle" \notin places PROVE At(places) = 0
    <2>1. {p \in Procs : pc[p] \in places} = {}
      BY <1>2 DEF Init
    <2> QED  BY <2>1, FS_EmptySet DEF At
  <1>3. /\ At(HourPassed) = 0 /\ At(DayPassed) = 0 /\ At({"charge"}) = 0
        /\ At({"count_day"}) = 0 /\ At(GapPassed) = 0 /\ At({"posted"}) = 0
    BY <1>2 DEF HourPassed, DayPassed, GapPassed
  <1>4. ChargeShape
    BY DEF Init, ChargeShape
  <1>5. HourAccounted /\ DayAccounted /\ HourThrough /\ DayThrough /\ BurstAccounted
    BY <1>1, <1>3, Numbers, SomeProcess
       DEF Init, HourAccounted, DayAccounted, HourThrough, DayThrough, BurstAccounted
  <1>6. QuotaAccounted
    <2>1. UNITS[call] * 0 = 0 /\ Others * UNITS[call] \in Nat
      BY <1>1, Numbers, SomeProcess
    <2> QED  BY <1>1, <1>3, <2>1, Numbers DEF Init, QuotaAccounted
  <1>7. QuotaThrough
    <2>1. UNITS[call] * 0 = 0 /\ UNITS[call] * P \in Nat
      BY <1>1, Numbers, SomeProcess
    <2> QED  BY <1>1, <1>3, <2>1, Numbers DEF Init, QuotaThrough
  <1> QED  BY <1>1, <1>4, <1>5, <1>6, <1>7 DEF LimitsInv

\* Where every process stands after a statement of p.
LEMMA Places ==
  ASSUME TypeOK, NEW p \in Procs, NEW label \in Labels, Goto(p, label)
  PROVE  /\ pc' \in [Procs -> Labels]
         /\ pc'[p] = label /\ \A q \in Procs \ {p} : pc'[q] = pc[q]
  BY DEF TypeOK, Goto, Labels

\* The units of the processes about to charge, when they become no more.
LEMMA QuotaKept ==
  ASSUME TypeOK, QuotaAccounted, UNCHANGED <<call, quota>>,
         At({"charge"})' <= At({"charge"})
  PROVE  QuotaAccounted'
  <1>1. UNITS[call] * At({"charge"})' <= UNITS[call] * At({"charge"})
    BY TimesMonotone, Counted, CountedNext, Numbers
  <1>2. UNITS[call] * At({"charge"})' \in Nat /\ UNITS[call] * At({"charge"}) \in Nat
    BY TimesMonotone, Counted, CountedNext, Numbers
  <1> QED  BY <1>1, <1>2, Numbers, SomeProcess DEF QuotaAccounted

\* The calls past the charge and the calls let through, when they become no more.
LEMMA QuotaThroughKept ==
  ASSUME TypeOK, TypeOK', QuotaThrough, UNCHANGED <<call, quota>>,
         through' + At(DayPassed)' <= through + At(DayPassed)
  PROVE  QuotaThrough'
  <1>1. through + At(DayPassed) \in Nat /\ through' + At(DayPassed)' \in Nat
    BY Counted, CountedNext, Numbers DEF TypeOK
  <1>2. UNITS[call] * (through' + At(DayPassed)') <= UNITS[call] * (through + At(DayPassed))
    BY <1>1, TimesMonotone, Numbers
  <1>3. /\ UNITS[call] * (through' + At(DayPassed)') \in Nat
        /\ UNITS[call] * (through + At(DayPassed)) \in Nat
        /\ UNITS[call] * P \in Nat
    BY <1>1, TimesMonotone, Numbers, SomeProcess
  <1> QED  BY <1>2, <1>3, Numbers DEF QuotaThrough

\* A process that gets past the hourly check.
LEMMA HourCheck ==
  ASSUME LimitsInv, NEW p \in Procs, CheckHourly(p)
  PROVE  LimitsInv'
  <1>a. /\ TypeOK /\ ChargeShape /\ HourAccounted /\ DayAccounted /\ QuotaAccounted
        /\ HourThrough /\ DayThrough /\ QuotaThrough /\ BurstAccounted
    BY DEF LimitsInv
  <1> DEFINE refused == call \in HourlyLimited /\ Exceeds(hourly, 1)
             label == IF refused THEN "idle" ELSE "daily"
  <1>b. /\ pc[p] = "idle" /\ label \in Labels /\ Goto(p, label)
        /\ UNCHANGED <<call, counters, recent, history>>
    BY DEF CheckHourly, Labels
  <1>1. TypeOK'
    BY <1>a, <1>b, Places DEF TypeOK, counters, history, Labels
  <1>2. ChargeShape'
    BY <1>a, <1>b, Places DEF ChargeShape
  <1>3. /\ At(DayPassed)' = At(DayPassed) /\ At({"charge"})' = At({"charge"})
        /\ At({"count_day"})' = At({"count_day"}) /\ At(GapPassed)' = At(GapPassed)
    BY <1>a, <1>b, Moved DEF DayPassed, GapPassed
  <1>4. /\ refused => At(HourPassed)' = At(HourPassed)
        /\ ~refused => At(HourPassed)' = At(HourPassed) + 1
    BY <1>a, <1>b, Moved DEF HourPassed
  <1>5. HourAccounted'
    BY <1>a, <1>b, <1>4, Counted, CountedNext, Numbers, SomeProcess
       DEF HourAccounted, Exceeds, counters
  <1>e. At({"posted"})' = At({"posted"})
    BY <1>a, <1>b, Moved
  <1>6. DayAccounted' /\ HourThrough' /\ DayThrough' /\ BurstAccounted'
    BY <1>a, <1>b, <1>e, <1>3 DEF DayAccounted, HourThrough, DayThrough, BurstAccounted,
                            counters, history, Others, P
  <1>7. QuotaAccounted' /\ QuotaThrough'
    BY <1>a, <1>b, <1>1, <1>3, Counted, Numbers, QuotaKept, QuotaThroughKept
       DEF counters, history
  <1> QED  BY <1>1, <1>2, <1>5, <1>6, <1>7 DEF LimitsInv

\* A process that gets past the daily check, by one of its three ways.
LEMMA DayCheck ==
  ASSUME LimitsInv, NEW p \in Procs, CheckDaily(p)
  PROVE  LimitsInv'
  <1>a. /\ TypeOK /\ ChargeShape /\ HourAccounted /\ DayAccounted /\ QuotaAccounted
        /\ HourThrough /\ DayThrough /\ QuotaThrough /\ BurstAccounted
    BY DEF LimitsInv
  <1>b. pc[p] = "daily" /\ UNCHANGED <<call, counters, recent, history>>
    BY DEF CheckDaily
  <1>c. PICK label \in {"idle", "gap", "charge"} :
          /\ Goto(p, label)
          /\ label = "gap" /\ call \in DailyLimited => ~Exceeds(daily, 1)
          /\ label = "gap" => call \notin Charged
          /\ label = "charge" => call \in Charged /\ ~Exceeds(quota, UNITS[call])
    BY <1>a, OneLimit DEF CheckDaily, TypeOK
  <1>d. label \in Labels
    BY DEF Labels
  <1>1. TypeOK'
    BY <1>a, <1>b, <1>c, <1>d, Places DEF TypeOK, counters, history, Labels
  <1>2. ChargeShape'
    BY <1>a, <1>b, <1>c, <1>d, Places, Numbers DEF ChargeShape, Exceeds
  <1>3. /\ At({"count_day"})' = At({"count_day"}) /\ At(GapPassed)' = At(GapPassed)
        /\ At(HourPassed)' <= At(HourPassed)
    BY <1>a, <1>b, <1>c, <1>d, Moved, Counted DEF HourPassed, GapPassed
  <1>4. /\ label = "gap" => At(DayPassed)' = At(DayPassed) + 1
        /\ label # "gap" => At(DayPassed)' = At(DayPassed)
    BY <1>a, <1>b, <1>c, <1>d, Moved DEF DayPassed
  <1>5. /\ label = "charge" => At({"charge"})' = At({"charge"}) + 1
        /\ label # "charge" => At({"charge"})' = At({"charge"})
    BY <1>a, <1>b, <1>c, <1>d, Moved
  <1>e. At({"posted"})' = At({"posted"})
    BY <1>a, <1>b, <1>c, <1>d, Moved
  <1>6. HourAccounted' /\ HourThrough' /\ DayThrough' /\ BurstAccounted'
    BY <1>a, <1>b, <1>e, <1>3, Counted, CountedNext, Numbers, SomeProcess
        DEF HourAccounted, HourThrough, DayThrough, BurstAccounted, counters, history,
            Others, P
  <1>7. DayAccounted'
    BY <1>a, <1>b, <1>c, <1>4, Counted, CountedNext, Numbers, SomeProcess
       DEF DayAccounted, Exceeds, counters
  <1>8. QuotaAccounted'
    <2>1. CASE label = "charge"
      <3>1. quota + UNITS[call] <= LIMIT[call]
        BY <2>1, <1>a, <1>c, Numbers DEF Exceeds
      <3>2. /\ UNITS[call] * At({"charge"})' <= UNITS[call] * P
            /\ UNITS[call] * At({"charge"})' \in Nat
        BY <1>a, CountedNext, TimesMonotone, Numbers, SomeProcess
      <3>3. UNITS[call] * P = Others * UNITS[call] + UNITS[call]
        BY <1>a, Numbers, SomeProcess, TimesNext
      <3>4. Others * UNITS[call] \in Nat
        BY <1>a, Numbers, SomeProcess
      <3> QED  BY <1>a, <1>b, <3>1, <3>2, <3>3, <3>4, Numbers
               DEF QuotaAccounted, counters, Others
    <2>2. CASE label # "charge"
      BY <2>2, <1>a, <1>b, <1>5, Counted, QuotaKept DEF counters
    <2> QED  BY <2>1, <2>2
  <1>9. QuotaThrough'
    <2>1. CASE label = "gap"
      BY <2>1, <1>b, <1>c DEF QuotaThrough
    <2>2. CASE label # "gap"
      BY <2>2, <1>a, <1>b, <1>1, <1>4, Counted, Numbers, QuotaThroughKept
      DEF counters, history
    <2> QED  BY <2>1, <2>2
  <1> QED  BY <1>1, <1>2, <1>6, <1>7, <1>8, <1>9 DEF LimitsInv

\* A process that charges the quota: its units move into the counter.
LEMMA ChargeStep ==
  ASSUME LimitsInv, NEW p \in Procs, Charge(p)
  PROVE  LimitsInv'
  <1>a. /\ TypeOK /\ ChargeShape /\ HourAccounted /\ DayAccounted /\ QuotaAccounted
        /\ HourThrough /\ DayThrough /\ QuotaThrough /\ BurstAccounted
    BY DEF LimitsInv
  <1>b. /\ pc[p] = "charge" /\ Goto(p, "gap") /\ "gap" \in Labels
        /\ quota' = quota + UNITS[call]
        /\ UNCHANGED <<call, hourly, daily, recent, history>>
        /\ call \in Charged
    BY <1>a DEF Charge, ChargeShape, Labels
  <1>1. TypeOK'
    BY <1>a, <1>b, Places, Numbers DEF TypeOK, history, Labels
  <1>2. ChargeShape'
    BY <1>a, <1>b, Places DEF ChargeShape
  <1>3. /\ At(HourPassed)' = At(HourPassed) /\ At({"count_day"})' = At({"count_day"})
        /\ At(GapPassed)' = At(GapPassed)
    BY <1>a, <1>b, Moved DEF HourPassed, GapPassed
  <1>4. At({"charge"})' = At({"charge"}) - 1
    BY <1>a, <1>b, Moved
  <1>5. At(DayPassed)' = At(DayPassed) + 1
    BY <1>a, <1>b, Moved DEF DayPassed
  <1>6. call \in Calls /\ call \notin HourlyLimited /\ call \notin DailyLimited
    BY <1>a, <1>b, OneLimit DEF TypeOK
  <1>e. At({"posted"})' = At({"posted"})
    BY <1>a, <1>b, Moved
  <1>7. HourAccounted' /\ DayAccounted' /\ HourThrough' /\ DayThrough' /\ BurstAccounted'
    BY <1>a, <1>b, <1>e, <1>3, <1>6
       DEF HourAccounted, DayAccounted, HourThrough, DayThrough, BurstAccounted, history, P
  <1>8. QuotaAccounted'
    <2>1. At({"charge"})' \in Nat /\ At({"charge"}) = At({"charge"})' + 1
      BY <1>4, Counted, CountedNext
    <2>2. UNITS[call] * At({"charge"}) = UNITS[call] * At({"charge"})' + UNITS[call]
      BY <2>1, <1>a, Numbers, TimesNext
    <2>3. UNITS[call] * At({"charge"})' \in Nat /\ Others * UNITS[call] \in Nat
      BY <2>1, <1>a, Numbers, SomeProcess
    <2> QED  BY <2>2, <2>3, <1>a, <1>b, Numbers DEF QuotaAccounted, Others
  <1>9. QuotaThrough'
    <2>1. /\ through + At(DayPassed) \in Nat
          /\ through' + At(DayPassed)' = (through + At(DayPassed)) + 1
      BY <1>a, <1>b, <1>5, Counted, Numbers DEF history
    <2>2. UNITS[call] * (through' + At(DayPassed)')
            = UNITS[call] * (through + At(DayPassed)) + UNITS[call]
      BY <2>1, <1>a, Numbers, TimesNext
    <2>3. UNITS[call] * (through + At(DayPassed)) \in Nat /\ UNITS[call] * P \in Nat
      BY <2>1, <1>a, Numbers, SomeProcess
    <2> QED  BY <2>2, <2>3, <1>a, <1>b, Numbers DEF QuotaThrough, P
  <1> QED  BY <1>1, <1>2, <1>7, <1>8, <1>9 DEF LimitsInv

\* A process that gets past the gap.
LEMMA GapCheck ==
  ASSUME LimitsInv, NEW p \in Procs, CheckPostGap(p)
  PROVE  LimitsInv'
  <1>a. /\ TypeOK /\ ChargeShape /\ HourAccounted /\ DayAccounted /\ QuotaAccounted
        /\ HourThrough /\ DayThrough /\ QuotaThrough /\ BurstAccounted
    BY DEF LimitsInv
  <1> DEFINE refused == call \in Gapped /\ recent
             label == IF refused THEN "idle" ELSE "count_hour"
  <1>b. /\ pc[p] = "gap" /\ label \in Labels /\ Goto(p, label)
        /\ UNCHANGED <<call, counters, recent, history>>
    BY DEF CheckPostGap, Labels
  <1>1. TypeOK'
    BY <1>a, <1>b, Places DEF TypeOK, counters, history, Labels
  <1>2. ChargeShape'
    BY <1>a, <1>b, Places DEF ChargeShape
  <1>3. At({"count_day"})' = At({"count_day"}) /\ At({"charge"})' = At({"charge"})
    BY <1>a, <1>b, Moved
  <1>4. At(HourPassed)' <= At(HourPassed) /\ At(DayPassed)' <= At(DayPassed)
    BY <1>a, <1>b, Moved, Counted DEF HourPassed, DayPassed
  <1>5. refused => At(GapPassed)' = At(GapPassed)
    BY <1>a, <1>b, Moved DEF GapPassed
  <1>6. HourAccounted' /\ DayAccounted'
    BY <1>a, <1>b, <1>4, Counted, CountedNext, Numbers, SomeProcess
       DEF HourAccounted, DayAccounted, counters, Others
  <1>7. HourThrough' /\ DayThrough'
    BY <1>a, <1>b, <1>3 DEF HourThrough, DayThrough, counters, history, P
  <1>e. At({"posted"})' = At({"posted"})
    BY <1>a, <1>b, Moved
  <1>8. BurstAccounted'
    <2>1. CASE refused
      BY <1>a, <1>b, <1>e, <1>5, <2>1 DEF BurstAccounted, history, P
    <2>2. CASE ~refused
      <3>1. At(GapPassed)' + At({"posted"})' <= P
        BY <1>b, <2>2, PastGap
      <3> QED  BY <1>a, <1>b, <1>e, <3>1, <2>2, Counted, CountedNext, Numbers, SomeProcess
               DEF BurstAccounted, history, P
    <2> QED  BY <2>1, <2>2
  <1>9. QuotaAccounted' /\ QuotaThrough'
    BY <1>a, <1>b, <1>1, <1>3, <1>4, Counted, CountedNext, Numbers, QuotaKept, QuotaThroughKept
       DEF counters, history
  <1> QED  BY <1>1, <1>2, <1>6, <1>7, <1>8, <1>9 DEF LimitsInv

\* The first increment.
LEMMA HourCount ==
  ASSUME LimitsInv, NEW p \in Procs, CountHour(p)
  PROVE  LimitsInv'
  <1>a. /\ TypeOK /\ ChargeShape /\ HourAccounted /\ DayAccounted /\ QuotaAccounted
        /\ HourThrough /\ DayThrough /\ QuotaThrough /\ BurstAccounted
    BY DEF LimitsInv
  <1>b. /\ pc[p] = "count_hour" /\ Goto(p, "count_day") /\ "count_day" \in Labels
        /\ hourly' = hourly + 1
        /\ UNCHANGED <<call, daily, quota, recent, history>>
    BY DEF CountHour, Labels
  <1>1. TypeOK'
    BY <1>a, <1>b, Places DEF TypeOK, history, Labels
  <1>2. ChargeShape'
    BY <1>a, <1>b, Places DEF ChargeShape
  <1>3. /\ At(DayPassed)' = At(DayPassed) /\ At(GapPassed)' = At(GapPassed)
        /\ At({"charge"})' = At({"charge"})
    BY <1>a, <1>b, Moved DEF DayPassed, GapPassed
  <1>4. At(HourPassed)' = At(HourPassed) - 1
    BY <1>a, <1>b, Moved DEF HourPassed
  <1>5. At({"count_day"})' = At({"count_day"}) + 1
    BY <1>a, <1>b, Moved
  <1>6. HourAccounted'
    BY <1>a, <1>b, <1>4, Counted, CountedNext, Numbers, SomeProcess
    DEF HourAccounted, Others
  <1>7. HourThrough'
    BY <1>a, <1>b, <1>5, Counted, CountedNext, Numbers, SomeProcess
    DEF HourThrough, history, P
  <1>e. At({"posted"})' = At({"posted"})
    BY <1>a, <1>b, Moved
  <1>8. DayAccounted' /\ DayThrough' /\ BurstAccounted'
    BY <1>a, <1>b, <1>e, <1>3 DEF DayAccounted, DayThrough, BurstAccounted, history, Others, P
  <1>9. QuotaAccounted' /\ QuotaThrough'
    BY <1>a, <1>b, <1>1, <1>3, Counted, Numbers, QuotaKept, QuotaThroughKept DEF history
  <1> QED  BY <1>1, <1>2, <1>6, <1>7, <1>8, <1>9 DEF LimitsInv

\* The second increment, which lets the call through.
LEMMA DayCount ==
  ASSUME LimitsInv, NEW p \in Procs, CountDay(p)
  PROVE  LimitsInv'
  <1>a. /\ TypeOK /\ ChargeShape /\ HourAccounted /\ DayAccounted /\ QuotaAccounted
        /\ HourThrough /\ DayThrough /\ QuotaThrough /\ BurstAccounted
    BY DEF LimitsInv
  <1>b. /\ pc[p] = "count_day" /\ Goto(p, "granted") /\ "granted" \in Labels
        /\ daily' = daily + 1 /\ through' = through + 1
        /\ UNCHANGED <<call, hourly, quota, recent, burst, unrecorded>>
    BY DEF CountDay, Labels
  <1>1. TypeOK'
    BY <1>a, <1>b, Places DEF TypeOK, Labels
  <1>2. ChargeShape'
    BY <1>a, <1>b, Places DEF ChargeShape
  <1>3. /\ At(HourPassed)' = At(HourPassed) /\ At(GapPassed)' = At(GapPassed)
        /\ At({"charge"})' = At({"charge"})
    BY <1>a, <1>b, Moved DEF HourPassed, GapPassed
  <1>4. At(DayPassed)' = At(DayPassed) - 1 /\ At({"count_day"})' = At({"count_day"}) - 1
    BY <1>a, <1>b, Moved DEF DayPassed
  <1>e. At({"posted"})' = At({"posted"})
    BY <1>a, <1>b, Moved
  <1>5. HourAccounted' /\ BurstAccounted'
    BY <1>a, <1>b, <1>e, <1>3 DEF HourAccounted, BurstAccounted, Others, P
  <1>6. DayAccounted'
    BY <1>a, <1>b, <1>4, Counted, CountedNext, Numbers, SomeProcess DEF DayAccounted, Others
  <1>7. HourThrough' /\ DayThrough'
    BY <1>a, <1>b, <1>4, Counted, CountedNext, Numbers, SomeProcess
    DEF HourThrough, DayThrough, P
  <1>8. through' + At(DayPassed)' <= through + At(DayPassed)
    BY <1>a, <1>b, <1>4, Counted, Numbers
  <1>9. QuotaAccounted' /\ QuotaThrough'
    BY <1>a, <1>b, <1>1, <1>3, <1>8, Counted, Numbers, QuotaKept, QuotaThroughKept
  <1> QED  BY <1>1, <1>2, <1>5, <1>6, <1>7, <1>9 DEF LimitsInv

\* The caller posts.
LEMMA PostStep ==
  ASSUME LimitsInv, NEW p \in Procs, Post(p)
  PROVE  LimitsInv'
  <1>a. /\ TypeOK /\ ChargeShape /\ HourAccounted /\ DayAccounted /\ QuotaAccounted
        /\ HourThrough /\ DayThrough /\ QuotaThrough /\ BurstAccounted
    BY DEF LimitsInv
  <1>b. /\ pc[p] = "granted" /\ Goto(p, "posted") /\ "posted" \in Labels
        /\ burst' = burst + 1
        /\ UNCHANGED <<call, counters, recent, through, unrecorded>>
    BY DEF Post, Labels
  <1>1. TypeOK'
    BY <1>a, <1>b, Places, Numbers DEF TypeOK, counters, history, Labels
  <1>2. ChargeShape'
    BY <1>a, <1>b, Places DEF ChargeShape
  <1>3. /\ At(HourPassed)' = At(HourPassed) /\ At(DayPassed)' = At(DayPassed)
        /\ At({"charge"})' = At({"charge"}) /\ At({"count_day"})' = At({"count_day"})
    BY <1>a, <1>b, Moved DEF HourPassed, DayPassed
  <1>5. HourAccounted' /\ DayAccounted' /\ HourThrough' /\ DayThrough'
    BY <1>a, <1>b, <1>3 DEF HourAccounted, DayAccounted, HourThrough, DayThrough,
                            counters, history, Others, P
  <1>4. /\ At(GapPassed)' = At(GapPassed) - 1
        /\ At({"posted"})' = At({"posted"}) + 1
    BY <1>a, <1>b, Moved DEF GapPassed
  <1>6. BurstAccounted'
    BY <1>a, <1>b, <1>4, Counted, CountedNext, Numbers, SomeProcess
    DEF BurstAccounted, history, P
  <1>7. QuotaAccounted' /\ QuotaThrough'
    BY <1>a, <1>b, <1>1, <1>3, Counted, Numbers, QuotaKept, QuotaThroughKept
    DEF counters, history
  <1> QED  BY <1>1, <1>2, <1>5, <1>6, <1>7 DEF LimitsInv

\* The post is put on record.
LEMMA RecordStep ==
  ASSUME LimitsInv, NEW p \in Procs, Record(p)
  PROVE  LimitsInv'
  <1>a. /\ TypeOK /\ ChargeShape /\ HourAccounted /\ DayAccounted /\ QuotaAccounted
        /\ HourThrough /\ DayThrough /\ QuotaThrough /\ BurstAccounted
    BY DEF LimitsInv
  <1>b. /\ pc[p] = "posted" /\ Goto(p, "idle") /\ "idle" \in Labels
        /\ recent' = TRUE
        /\ UNCHANGED <<call, counters, history>>
    BY DEF Record, Labels
  <1>1. TypeOK'
    BY <1>a, <1>b, Places, Numbers DEF TypeOK, counters, history, Labels
  <1>2. ChargeShape'
    BY <1>a, <1>b, Places DEF ChargeShape
  <1>3. /\ At(HourPassed)' = At(HourPassed) /\ At(DayPassed)' = At(DayPassed)
        /\ At({"charge"})' = At({"charge"}) /\ At({"count_day"})' = At({"count_day"})
    BY <1>a, <1>b, Moved DEF HourPassed, DayPassed
  <1>5. HourAccounted' /\ DayAccounted' /\ HourThrough' /\ DayThrough'
    BY <1>a, <1>b, <1>3 DEF HourAccounted, DayAccounted, HourThrough, DayThrough,
                            counters, history, Others, P
  <1>4. At(GapPassed)' = At(GapPassed)
    BY <1>a, <1>b, Moved DEF GapPassed
  <1>6. BurstAccounted'
    BY <1>a, <1>b, <1>4, Counted, CountedNext, Numbers, SomeProcess
    DEF BurstAccounted, history, P
  <1>7. QuotaAccounted' /\ QuotaThrough'
    BY <1>a, <1>b, <1>1, <1>3, Counted, Numbers, QuotaKept, QuotaThroughKept
    DEF counters, history
  <1> QED  BY <1>1, <1>2, <1>5, <1>6, <1>7 DEF LimitsInv

\* The post stays without a record.
LEMMA LeaveStep ==
  ASSUME LimitsInv, NEW p \in Procs, LeaveUnrecorded(p)
  PROVE  LimitsInv'
  <1>a. /\ TypeOK /\ ChargeShape /\ HourAccounted /\ DayAccounted /\ QuotaAccounted
        /\ HourThrough /\ DayThrough /\ QuotaThrough /\ BurstAccounted
    BY DEF LimitsInv
  <1>b. /\ pc[p] = "posted" /\ Goto(p, "idle") /\ "idle" \in Labels
        /\ unrecorded' = unrecorded + 1
        /\ UNCHANGED <<call, counters, recent, through, burst>>
    BY DEF LeaveUnrecorded, Labels
  <1>1. TypeOK'
    BY <1>a, <1>b, Places, Numbers DEF TypeOK, counters, history, Labels
  <1>2. ChargeShape'
    BY <1>a, <1>b, Places DEF ChargeShape
  <1>3. /\ At(HourPassed)' = At(HourPassed) /\ At(DayPassed)' = At(DayPassed)
        /\ At({"charge"})' = At({"charge"}) /\ At({"count_day"})' = At({"count_day"})
    BY <1>a, <1>b, Moved DEF HourPassed, DayPassed
  <1>5. HourAccounted' /\ DayAccounted' /\ HourThrough' /\ DayThrough'
    BY <1>a, <1>b, <1>3 DEF HourAccounted, DayAccounted, HourThrough, DayThrough,
                            counters, history, Others, P
  <1>4. /\ At(GapPassed)' = At(GapPassed)
        /\ At({"posted"})' = At({"posted"}) - 1
    BY <1>a, <1>b, Moved DEF GapPassed
  <1>6. BurstAccounted'
    BY <1>a, <1>b, <1>4, Counted, CountedNext, Numbers, SomeProcess
    DEF BurstAccounted, history, P
  <1>7. QuotaAccounted' /\ QuotaThrough'
    BY <1>a, <1>b, <1>1, <1>3, Counted, Numbers, QuotaKept, QuotaThroughKept
    DEF counters, history
  <1> QED  BY <1>1, <1>2, <1>5, <1>6, <1>7 DEF LimitsInv

\* A process that goes away, wherever it is.
LEMMA AbortStep ==
  ASSUME LimitsInv, NEW p \in Procs, Abort(p)
  PROVE  LimitsInv'
  <1>a. /\ TypeOK /\ ChargeShape /\ HourAccounted /\ DayAccounted /\ QuotaAccounted
        /\ HourThrough /\ DayThrough /\ QuotaThrough /\ BurstAccounted
    BY DEF LimitsInv
  <1>b. /\ pc[p] # "posted" /\ Goto(p, "idle") /\ "idle" \in Labels
        /\ UNCHANGED <<call, counters, recent, history>>
    BY DEF Abort, Labels
  <1>1. TypeOK'
    BY <1>a, <1>b, Places DEF TypeOK, counters, history, Labels
  <1>2. ChargeShape'
    BY <1>a, <1>b, Places DEF ChargeShape
  <1>3. ASSUME NEW places, "idle" \notin places PROVE At(places)' <= At(places)
    BY <1>a, <1>b, <1>3, Moved, Counted
  <1>4. /\ At(HourPassed)' <= At(HourPassed) /\ At(DayPassed)' <= At(DayPassed)
        /\ At({"charge"})' <= At({"charge"}) /\ At({"count_day"})' <= At({"count_day"})
        /\ At(GapPassed)' <= At(GapPassed)
    BY <1>3 DEF HourPassed, DayPassed, GapPassed
  <1>c. At({"posted"})' = At({"posted"})
    BY <1>a, <1>b, Moved
  <1>5. HourAccounted' /\ DayAccounted'
    BY <1>a, <1>b, <1>4, Counted, CountedNext, Numbers, SomeProcess
       DEF HourAccounted, DayAccounted, counters, Others
  <1>6. HourThrough' /\ DayThrough' /\ BurstAccounted'
    BY <1>a, <1>b, <1>c, <1>4, Counted, CountedNext, Numbers, SomeProcess
       DEF HourThrough, DayThrough, BurstAccounted, counters, history, P
  <1>7. through' + At(DayPassed)' <= through + At(DayPassed)
    BY <1>a, <1>b, <1>4, Counted, CountedNext, Numbers DEF history
  <1>8. QuotaAccounted' /\ QuotaThrough'
    BY <1>a, <1>b, <1>1, <1>4, <1>7, QuotaKept, QuotaThroughKept DEF counters
  <1> QED  BY <1>1, <1>2, <1>5, <1>6, <1>8 DEF LimitsInv

\* A step that moves no process.
LEMMA Standing ==
  ASSUME UNCHANGED pc, NEW places
  PROVE  At(places)' = At(places)
  BY DEF At

\* The hourly rows go: who is past the check may still add its part.
LEMMA HourReset ==
  ASSUME LimitsInv, ResetHourly
  PROVE  LimitsInv'
  <1>a. /\ TypeOK /\ ChargeShape /\ HourAccounted /\ DayAccounted /\ QuotaAccounted
        /\ HourThrough /\ DayThrough /\ QuotaThrough /\ BurstAccounted
    BY DEF LimitsInv
  <1>b. /\ hourly' = 0 /\ UNCHANGED <<call, daily, quota, recent, pc, burst, unrecorded>>
        /\ call \in HourlyLimited => through' = 0
        /\ call \notin HourlyLimited => through' = through
    BY DEF ResetHourly
  <1>c. ASSUME NEW places PROVE At(places)' = At(places)
    BY <1>b, Standing
  <1>d. call \in Calls
    BY <1>a DEF TypeOK
  <1>1. TypeOK'
    BY <1>a, <1>b DEF TypeOK
  <1>2. ChargeShape'
    BY <1>a, <1>b DEF ChargeShape
  <1>3. HourAccounted' /\ HourThrough'
    BY <1>a, <1>b, Counted, CountedNext, Numbers, SomeProcess
    DEF HourAccounted, HourThrough, P, Others
  <1>4. DayAccounted' /\ DayThrough' /\ BurstAccounted'
    BY <1>a, <1>b, <1>c, <1>d, OneLimit
    DEF DayAccounted, DayThrough, BurstAccounted, P, Others
  <1>5. QuotaAccounted'
    BY <1>a, <1>b, <1>c, Counted, QuotaKept
  <1>6. QuotaThrough'
    BY <1>a, <1>b, <1>c, <1>d, OneLimit DEF QuotaThrough, P
  <1> QED  BY <1>1, <1>2, <1>3, <1>4, <1>5, <1>6 DEF LimitsInv

\* The daily rows go.
LEMMA DayReset ==
  ASSUME LimitsInv, ResetDaily
  PROVE  LimitsInv'
  <1>a. /\ TypeOK /\ ChargeShape /\ HourAccounted /\ DayAccounted /\ QuotaAccounted
        /\ HourThrough /\ DayThrough /\ QuotaThrough /\ BurstAccounted
    BY DEF LimitsInv
  <1>b. /\ daily' = 0 /\ quota' = 0 /\ UNCHANGED <<call, hourly, recent, pc, burst, unrecorded>>
        /\ call \in HourlyLimited => through' = through
        /\ call \notin HourlyLimited => through' = 0
    BY DEF ResetDaily
  <1>c. ASSUME NEW places PROVE At(places)' = At(places)
    BY <1>b, Standing
  <1>d. call \in Calls
    BY <1>a DEF TypeOK
  <1>1. TypeOK'
    BY <1>a, <1>b DEF TypeOK
  <1>2. ChargeShape'
    BY <1>a, <1>b DEF ChargeShape
  <1>3. HourAccounted' /\ HourThrough' /\ BurstAccounted'
    BY <1>a, <1>b, <1>c DEF HourAccounted, HourThrough, BurstAccounted, P, Others
  <1>4. DayAccounted' /\ DayThrough'
    BY <1>a, <1>b, <1>d, OneLimit, CountedNext, Numbers, SomeProcess
       DEF DayAccounted, DayThrough, P, Others
  <1>5. QuotaAccounted'
    <2>1. SUFFICES ASSUME call \in Charged
                   PROVE  UNITS[call] * At({"charge"}) <= LIMIT[call] + Others * UNITS[call]
      BY <1>b, <1>c, Counted, Numbers, <1>a DEF QuotaAccounted, Others
    <2>2. Others * UNITS[call] \in Nat
      BY <1>a, Numbers, SomeProcess
    <2>3. CASE \E p \in Procs : pc[p] = "charge"
      <3>1. UNITS[call] <= LIMIT[call]
        BY <2>3, <1>a DEF ChargeShape
      <3>2. /\ UNITS[call] * At({"charge"}) <= UNITS[call] * P
            /\ UNITS[call] * At({"charge"}) \in Nat
        BY <1>a, Counted, TimesMonotone, Numbers, SomeProcess
      <3>3. UNITS[call] * P = Others * UNITS[call] + UNITS[call]
        BY <1>a, Numbers, SomeProcess, TimesNext
      <3> QED  BY <3>1, <3>2, <3>3, <2>2, <1>a, Numbers
    <2>4. CASE ~\E p \in Procs : pc[p] = "charge"
      <3>1. {p \in Procs : pc[p] \in {"charge"}} = {}
        BY <2>4
      <3>2. At({"charge"}) = 0
        BY <3>1, FS_EmptySet DEF At
      <3>3. UNITS[call] * 0 = 0
        BY <1>a, Numbers
      <3> QED  BY <3>2, <3>3, <2>2, <1>a, Numbers
    <2> QED  BY <2>3, <2>4
  <1>6. QuotaThrough'
    <2>1. SUFFICES ASSUME call \in Charged
                   PROVE  UNITS[call] * At(DayPassed) <= UNITS[call] * P
      BY <1>a, <1>b, <1>c, <1>d, OneLimit, Counted, Numbers, SomeProcess DEF QuotaThrough, P
    <2> QED  BY <1>a, Counted, TimesMonotone, Numbers, SomeProcess
  <1> QED  BY <1>1, <1>2, <1>3, <1>4, <1>5, <1>6 DEF LimitsInv

\* The gap is over: whoever is past its check may still post, but only once.
LEMMA GapOver ==
  ASSUME LimitsInv, GapPasses
  PROVE  LimitsInv'
  <1>a. /\ TypeOK /\ ChargeShape /\ HourAccounted /\ DayAccounted /\ QuotaAccounted
        /\ HourThrough /\ DayThrough /\ QuotaThrough /\ BurstAccounted
    BY DEF LimitsInv
  <1>b. recent' = FALSE /\ burst' = 0 /\ unrecorded' = 0 /\ UNCHANGED <<call, counters, pc, through>>
    BY DEF GapPasses
  <1>c. ASSUME NEW places PROVE At(places)' = At(places)
    BY <1>b, Standing
  <1>1. TypeOK'
    BY <1>a, <1>b DEF TypeOK, counters
  <1>2. ChargeShape'
    BY <1>a, <1>b DEF ChargeShape
  <1>3. HourAccounted' /\ DayAccounted' /\ HourThrough' /\ DayThrough'
    BY <1>a, <1>b, <1>c DEF HourAccounted, DayAccounted, HourThrough, DayThrough,
                            counters, P, Others
  <1>4. BurstAccounted'
    BY <1>b, CountedNext, SomeProcess DEF BurstAccounted, P
  <1>5. QuotaAccounted' /\ QuotaThrough'
    BY <1>a, <1>b, <1>c DEF QuotaAccounted, QuotaThrough, counters, P, Others
  <1> QED  BY <1>1, <1>2, <1>3, <1>4, <1>5 DEF LimitsInv

\* Every step keeps the invariant.
LEMMA NextLimits == LimitsInv /\ [Next]_vars => LimitsInv'
  <1> SUFFICES ASSUME LimitsInv, [Next]_vars PROVE LimitsInv'
    OBVIOUS
  <1>1. ASSUME NEW p \in Procs, CheckStep(p) PROVE LimitsInv'
    BY <1>1, HourCheck, DayCheck, ChargeStep, GapCheck DEF CheckStep
  <1>2. ASSUME NEW p \in Procs, CountStep(p) PROVE LimitsInv'
    BY <1>2, HourCount, DayCount DEF CountStep
  <1>6. ASSUME NEW p \in Procs, UseStep(p) PROVE LimitsInv'
    BY <1>6, PostStep, RecordStep, LeaveStep DEF UseStep
  <1>3. ASSUME NEW p \in Procs, Abort(p) PROVE LimitsInv'
    BY <1>3, AbortStep
  <1>4. CASE ResetHourly \/ ResetDaily \/ GapPasses
    BY <1>4, HourReset, DayReset, GapOver
  <1>5. CASE UNCHANGED vars
    BY <1>5 DEF vars, counters, history, LimitsInv, TypeOK, ChargeShape, HourAccounted,
                DayAccounted, QuotaAccounted, HourThrough, DayThrough, QuotaThrough,
                BurstAccounted, At, P, Others
  <1> QED  BY <1>1, <1>2, <1>3, <1>4, <1>5, <1>6 DEF Next

\* The limits invariant holds in every reachable state: counters and histories
\* account for the processes between a check and what it permits.
THEOREM LimitsAccounted == Spec => []LimitsInv
  BY InitLimits, NextLimits, PTL DEF Spec

\* The variables of the manager keep their types.
THEOREM LimitsTypeCorrect == Spec => []TypeOK
  <1>1. LimitsInv => TypeOK
    BY DEF LimitsInv
  <1> QED  BY <1>1, LimitsAccounted, PTL

\* However many processes call check_and_increment at once, a counter passes its
\* limit by at most one call of each of the others.
THEOREM OverrunIsBounded == Spec => []OverrunBounded
  <1>1. LimitsInv => OverrunBounded
    <2> SUFFICES ASSUME LimitsInv PROVE OverrunBounded
      OBVIOUS
    <2>1. TypeOK /\ HourAccounted /\ DayAccounted /\ QuotaAccounted
      BY DEF LimitsInv
    <2>2. UNITS[call] * At({"charge"}) \in Nat /\ Others * UNITS[call] \in Nat
      BY <2>1, Numbers, Counted, SomeProcess
    <2> QED  BY <2>1, <2>2, Numbers, Counted, SomeProcess
             DEF OverrunBounded, HourAccounted, DayAccounted, QuotaAccounted
  <1> QED  BY <1>1, LimitsAccounted, PTL

\* Between two resets the platform is sent no more than the limit, one call of
\* each other process, and one of each process whose increment the reset wiped out.
THEOREM ThroughIsBounded == Spec => []ThroughBounded
  <1>1. LimitsInv => ThroughBounded
    <2> SUFFICES ASSUME LimitsInv PROVE ThroughBounded
      OBVIOUS
    <2>1. /\ TypeOK /\ HourAccounted /\ DayAccounted /\ QuotaAccounted
          /\ HourThrough /\ DayThrough /\ QuotaThrough
      BY DEF LimitsInv
    <2>2. /\ call \in HourlyLimited => through <= LIMIT[call] + Others + Cardinality(Procs)
          /\ call \in DailyLimited => through <= LIMIT[call] + Others
      BY <2>1, Numbers, Counted, SomeProcess
         DEF HourAccounted, DayAccounted, HourThrough, DayThrough, P
    <2>3. ASSUME call \in Charged
          PROVE  through * UNITS[call]
                   <= LIMIT[call] + (Others + Cardinality(Procs)) * UNITS[call]
      <3>1. quota <= LIMIT[call] + Others * UNITS[call]
        <4>1. UNITS[call] * At({"charge"}) \in Nat /\ Others * UNITS[call] \in Nat
          BY <2>1, Numbers, Counted, SomeProcess
        <4> QED  BY <4>1, <2>1, <2>3, Numbers DEF QuotaAccounted
      <3>2. UNITS[call] * through <= UNITS[call] * (through + At(DayPassed))
        BY <2>1, Numbers, Counted, TimesMonotone
      <3>3. /\ UNITS[call] * through \in Nat /\ UNITS[call] * P \in Nat
            /\ UNITS[call] * (through + At(DayPassed)) \in Nat
            /\ Others * UNITS[call] \in Nat
        BY <2>1, Numbers, Counted, SomeProcess
      <3>4. UNITS[call] * through <= LIMIT[call] + Others * UNITS[call] + UNITS[call] * P
        BY <3>1, <3>2, <3>3, <2>1, <2>3, Numbers DEF QuotaThrough
      <3>5. /\ through * UNITS[call] = UNITS[call] * through
            /\ (Others + P) * UNITS[call] = Others * UNITS[call] + UNITS[call] * P
        BY <2>1, Numbers, SomeProcess
      <3> QED  BY <3>3, <3>4, <3>5, <2>1, Numbers DEF P
    <2> QED  BY <2>2, <2>3 DEF ThroughBounded
  <1> QED  BY <1>1, LimitsAccounted, PTL

\* Posts without a full gap in between are at most one of each process and one for each
\* record that was never written.
THEOREM BurstIsBounded == Spec => []BurstBounded
  <1>1. LimitsInv => BurstBounded
    <2> SUFFICES ASSUME LimitsInv PROVE BurstBounded
      OBVIOUS
    <2>1. TypeOK /\ BurstAccounted
      BY DEF LimitsInv
    <2> QED  BY <2>1, Numbers, Counted, SomeProcess DEF BurstBounded, BurstAccounted, P
  <1> QED  BY <1>1, LimitsAccounted, PTL

-----------------------------------------------------------------------------
(* 2. CircuitBreaker, for every number of processes, threshold and timeout. *)
(* QuietInv is what ThresholdBlocks rests on: the count in a process's own  *)
(* cache is never behind its streak, so the streak opened the cached        *)
(* circuit, and nobody else can close that.                                 *)

QuietInv ==
    \A p \in Procs :
        /\ streak[p] > 0 => cache[p] # None /\ cache[p].count >= streak[p]
        /\ quiet[p] > 0 => /\ cache[p] # None
                           /\ cache[p].state = "OPEN"
                           /\ cache[p].until # None
                           /\ cache[p].until >= quiet[p]

Timed(c) == c # None => (c.state = "OPEN" => c.until # None)

DeadlineInv == Timed(row) /\ \A p \in Procs : Timed(cache[p])

BreakerInv == Breaker!TypeOK /\ DeadlineInv /\ QuietInv

-----------------------------------------------------------------------------
\* The records the code writes are circuits.
LEMMA CircuitFacts ==
  /\ Breaker!Closed \in Breaker!Circuit /\ Breaker!Closed # None
  /\ None \notin Breaker!Circuit /\ None \notin Nat
  /\ Breaker!Closed.state = "CLOSED" /\ Breaker!Closed.count = 0
  BY NoneAssumption, BreakerAssumption DEF Breaker!Closed, Breaker!Circuit, Breaker!States

\* record_failure makes a circuit of a circuit, one with a deadline if open, and
\* never forgets a failure.
LEMMA FailureFacts ==
  ASSUME NEW c \in Breaker!Circuit
  PROVE  /\ Breaker!AfterFailure(c) \in Breaker!Circuit
         /\ Timed(Breaker!AfterFailure(c))
         /\ Breaker!AfterFailure(c).count = Breaker!Bump(c.count)
         /\ Breaker!Bump(c.count) = FAILURE_THRESHOLD =>
               Breaker!AfterFailure(c).state = "OPEN" /\ Breaker!AfterFailure(c).until = TIMEOUT
         /\ c.count <= Breaker!Bump(c.count)
  <1>1. c.count \in 0..FAILURE_THRESHOLD /\ Breaker!Bump(c.count) \in 0..FAILURE_THRESHOLD
    BY BreakerAssumption DEF Breaker!Circuit, Breaker!Bump
  <1>2. TIMEOUT \in 0..TIMEOUT /\ TIMEOUT # None
    BY BreakerAssumption, CircuitFacts
  <1>3. CASE c.state = "HALF_OPEN" \/ Breaker!Bump(c.count) = FAILURE_THRESHOLD
    BY <1>1, <1>2, <1>3, CircuitFacts, BreakerAssumption
    DEF Breaker!AfterFailure, Breaker!Circuit, Breaker!States, Timed, Breaker!Bump
  <1>4. CASE ~(c.state = "HALF_OPEN" \/ Breaker!Bump(c.count) = FAILURE_THRESHOLD)
    BY <1>1, <1>4, CircuitFacts, BreakerAssumption
    DEF Breaker!AfterFailure, Breaker!Circuit, Breaker!States, Timed, Breaker!Bump
  <1> QED  BY <1>3, <1>4

\* Half-opening changes the state alone.
LEMMA HalfOpenFacts ==
  ASSUME NEW c \in Breaker!Circuit \cup {None}
  PROVE  /\ Breaker!HalfOpen(c) \in Breaker!Circuit \cup {None}
         /\ Timed(Breaker!HalfOpen(c))
         /\ c # None => Breaker!HalfOpen(c) # None /\ Breaker!HalfOpen(c).count = c.count
  BY CircuitFacts DEF Breaker!HalfOpen, Breaker!Circuit, Breaker!States, Timed

\* So does a tick with the deadline.
LEMMA OlderFacts ==
  ASSUME NEW c \in Breaker!Circuit \cup {None}
  PROVE  /\ Breaker!Older(c) \in Breaker!Circuit \cup {None}
         /\ Timed(c) => Timed(Breaker!Older(c))
         /\ c # None => /\ Breaker!Older(c) # None
                        /\ Breaker!Older(c).count = c.count
                        /\ Breaker!Older(c).state = c.state
                        /\ c.until # None => Breaker!Older(c).until # None
                                             /\ Breaker!Older(c).until = Breaker!Less(c.until)
  <1>1. \A n \in 0..TIMEOUT : Breaker!Less(n) \in 0..TIMEOUT /\ Breaker!Less(n) # None
    BY BreakerAssumption, CircuitFacts DEF Breaker!Less
  <1> QED  BY <1>1, CircuitFacts DEF Breaker!Older, Breaker!Circuit, Timed

\* What a process works with is a circuit.
LEMMA ViewFacts ==
  ASSUME Breaker!TypeOK, NEW p \in Procs
  PROVE  /\ Breaker!View(p) \in Breaker!Circuit
         /\ cache[p] # None => Breaker!View(p) = cache[p]
  BY CircuitFacts DEF Breaker!View, Breaker!TypeOK

\* The initial states satisfy the invariant.
LEMMA InitBreaker == Breaker!Init => BreakerInv
  BY CircuitFacts, BreakerAssumption
  DEF Breaker!Init, BreakerInv, Breaker!TypeOK, DeadlineInv, Timed, QuietInv

\* The counters of requests in flight.
LEMMA ReturnFacts ==
  ASSUME Breaker!TypeOK, NEW p \in Procs, Breaker!Return(p)
  PROVE  /\ normal' \in [Procs -> 0..MaxInFlight]
         /\ tests' \in [Procs -> 0..MaxInFlight]
         /\ \A q \in Procs : normal'[q] + tests'[q] <= normal[q] + tests[q]
  BY BreakerAssumption DEF Breaker!TypeOK, Breaker!Return

\* A process that forgets its streak claims nothing.
LEMMA ForgetFacts ==
  ASSUME BreakerInv, NEW p \in Procs, Breaker!Forget(p),
         \A q \in Procs \ {p} : cache'[q] = cache[q]
  PROVE  /\ streak' \in [Procs -> 0..FAILURE_THRESHOLD]
         /\ quiet' \in [Procs -> 0..TIMEOUT]
         /\ QuietInv'
  BY BreakerAssumption DEF BreakerInv, Breaker!TypeOK, QuietInv, Breaker!Forget

\* A write by p: the row and the cache of p.
LEMMA WriteFacts ==
  ASSUME BreakerInv, NEW p \in Procs, NEW c \in Breaker!Circuit, Timed(c), Breaker!Write(p, c)
  PROVE  /\ row' \in Breaker!Circuit \cup {None}
         /\ cache' \in [Procs -> Breaker!Circuit \cup {None}]
         /\ cache'[p] = c
         /\ \A q \in Procs \ {p} : cache'[q] = cache[q]
         /\ DeadlineInv'
  BY CircuitFacts DEF BreakerInv, Breaker!TypeOK, DeadlineInv, Timed, Breaker!Write

\* Half-opening by p.
LEMMA WriteHalfOpenFacts ==
  ASSUME BreakerInv, NEW p \in Procs, Breaker!WriteHalfOpen(p)
  PROVE  /\ row' \in Breaker!Circuit \cup {None}
         /\ cache' \in [Procs -> Breaker!Circuit \cup {None}]
         /\ cache'[p] = Breaker!HalfOpen(cache[p])
         /\ \A q \in Procs \ {p} : cache'[q] = cache[q]
         /\ DeadlineInv'
  <1>1. row \in Breaker!Circuit \cup {None} /\ cache \in [Procs -> Breaker!Circuit \cup {None}]
    BY DEF BreakerInv, Breaker!TypeOK
  <1>2. Breaker!HalfOpen(row) \in Breaker!Circuit \cup {None}
        /\ Breaker!HalfOpen(cache[p]) \in Breaker!Circuit \cup {None}
        /\ Timed(Breaker!HalfOpen(row)) /\ Timed(Breaker!HalfOpen(cache[p]))
    BY <1>1, HalfOpenFacts
  <1>3. row' = Breaker!HalfOpen(row) /\ cache' = [cache EXCEPT ![p] = Breaker!HalfOpen(cache[p])]
    BY DEF Breaker!WriteHalfOpen
  <1>4. DeadlineInv'
    BY <1>1, <1>2, <1>3 DEF BreakerInv, DeadlineInv, Timed
  <1> QED  BY <1>1, <1>2, <1>3, <1>4

\* Every step keeps the invariant.
LEMMA NextBreaker == BreakerInv /\ [Breaker!Next]_Breaker!vars => BreakerInv'
  <1> SUFFICES ASSUME BreakerInv, [Breaker!Next]_Breaker!vars PROVE BreakerInv'
    OBVIOUS
  <1>a. Breaker!TypeOK /\ DeadlineInv /\ QuietInv
    BY DEF BreakerInv
  <1>1. ASSUME NEW p \in Procs, Breaker!Load(p) PROVE BreakerInv'
    <2>1. Breaker!TypeOK'
      BY <1>1, <1>a, CircuitFacts DEF Breaker!TypeOK, Breaker!Load
    <2>2. DeadlineInv'
      BY <1>1, <1>a, CircuitFacts DEF Breaker!TypeOK, DeadlineInv, Timed, Breaker!Load
    <2>3. QuietInv'
      BY <1>1, <1>a DEF Breaker!TypeOK, QuietInv, Breaker!Load
    <2> QED  BY <2>1, <2>2, <2>3 DEF BreakerInv
  <1>2. ASSUME NEW p \in Procs, Breaker!AllowRequest(p) PROVE BreakerInv'
    <2>1. UNCHANGED <<streak, quiet>>
      BY <1>2 DEF Breaker!AllowRequest
    <2>2. normal' \in [Procs -> 0..MaxInFlight] /\ tests' \in [Procs -> 0..MaxInFlight]
      BY <1>2, <1>a, BreakerAssumption
      DEF Breaker!TypeOK, Breaker!AllowRequest, Breaker!AllowNormal, Breaker!AllowTest
    <2>3. UNCHANGED <<row, cache>> \/ (Breaker!Elapsed(Breaker!View(p)) /\ Breaker!WriteHalfOpen(p))
      BY <1>2
      DEF Breaker!AllowRequest, Breaker!AllowNormal, Breaker!AllowTest, Breaker!WriteFails
    <2>4. CASE UNCHANGED <<row, cache>>
      BY <2>1, <2>2, <2>4, <1>a DEF BreakerInv, Breaker!TypeOK, DeadlineInv, Timed, QuietInv
    <2>5. CASE Breaker!Elapsed(Breaker!View(p)) /\ Breaker!WriteHalfOpen(p)
      <3>1. cache[p] # None /\ cache[p].until = 0
        BY <2>5, CircuitFacts DEF Breaker!Elapsed, Breaker!View
      <3>2. /\ row' \in Breaker!Circuit \cup {None}
            /\ cache' \in [Procs -> Breaker!Circuit \cup {None}]
            /\ cache'[p] = Breaker!HalfOpen(cache[p])
            /\ \A q \in Procs \ {p} : cache'[q] = cache[q]
            /\ DeadlineInv'
        BY <2>5, WriteHalfOpenFacts
      <3>3. Breaker!TypeOK'
        BY <2>1, <2>2, <3>2, <1>a DEF Breaker!TypeOK
      <3>4. quiet[p] = 0 /\ cache[p] \in Breaker!Circuit
        BY <3>1, <1>a, BreakerAssumption DEF Breaker!TypeOK, QuietInv
      <3>5. QuietInv'
        BY <2>1, <3>1, <3>2, <3>4, <1>a, HalfOpenFacts DEF QuietInv
      <3> QED  BY <3>2, <3>3, <3>5 DEF BreakerInv
    <2> QED  BY <2>3, <2>4, <2>5
  <1>3. ASSUME NEW p \in Procs, Breaker!RecordSuccess(p) PROVE BreakerInv'
    <2>1. Breaker!Return(p) /\ Breaker!Forget(p)
      BY <1>3 DEF Breaker!RecordSuccess
    <2>2. /\ row' \in Breaker!Circuit \cup {None}
          /\ cache' \in [Procs -> Breaker!Circuit \cup {None}]
          /\ \A q \in Procs \ {p} : cache'[q] = cache[q]
          /\ DeadlineInv'
      <3>1. CASE Breaker!Write(p, Breaker!Closed)
        BY <3>1, WriteFacts, CircuitFacts DEF Timed
      <3>2. CASE Breaker!WriteFails
        BY <3>2, <1>a DEF Breaker!WriteFails, Breaker!TypeOK, DeadlineInv, Timed
      <3>3. CASE Breaker!WriteHalfOpen(p)
        BY <3>3, WriteHalfOpenFacts
      <3> QED  BY <1>3, <3>1, <3>2, <3>3 DEF Breaker!RecordSuccess
    <2> QED  BY <2>1, <2>2, <1>a, ReturnFacts, ForgetFacts DEF BreakerInv, Breaker!TypeOK
  <1>4. ASSUME NEW p \in Procs, Breaker!RecordFailure(p) PROVE BreakerInv'
    <2>1. normal' \in [Procs -> 0..MaxInFlight] /\ tests' \in [Procs -> 0..MaxInFlight]
      BY <1>4, <1>a, ReturnFacts DEF Breaker!RecordFailure
    <2>2. CASE Breaker!WriteFails /\ UNCHANGED <<streak, quiet>>
      BY <2>1, <2>2, <1>a
      DEF BreakerInv, Breaker!WriteFails, Breaker!TypeOK, DeadlineInv, Timed, QuietInv
    <2>3. CASE /\ Breaker!Write(p, Breaker!AfterFailure(Breaker!View(p)))
               /\ streak' = [streak EXCEPT ![p] = Breaker!Bump(@)]
               /\ quiet' = [quiet EXCEPT ![p] =
                               IF streak'[p] = FAILURE_THRESHOLD THEN TIMEOUT ELSE 0]
      <3> DEFINE v == Breaker!View(p)
                 c == Breaker!AfterFailure(v)
      <3>1. v \in Breaker!Circuit /\ (cache[p] # None => v = cache[p])
        BY <1>a, ViewFacts
      <3>2. /\ c \in Breaker!Circuit /\ Timed(c) /\ c.count = Breaker!Bump(v.count)
            /\ Breaker!Bump(v.count) = FAILURE_THRESHOLD => c.state = "OPEN" /\ c.until = TIMEOUT
        BY <3>1, FailureFacts
      <3>3. /\ row' \in Breaker!Circuit \cup {None}
            /\ cache' \in [Procs -> Breaker!Circuit \cup {None}]
            /\ cache'[p] = c
            /\ \A q \in Procs \ {p} : cache'[q] = cache[q]
            /\ DeadlineInv'
        BY <2>3, <3>2, WriteFacts
      <3>4. /\ streak[p] \in 0..FAILURE_THRESHOLD /\ streak'[p] = Breaker!Bump(streak[p])
            /\ streak' \in [Procs -> 0..FAILURE_THRESHOLD]
            /\ quiet' \in [Procs -> 0..TIMEOUT]
            /\ \A q \in Procs \ {p} : streak'[q] = streak[q] /\ quiet'[q] = quiet[q]
            /\ quiet'[p] = IF streak'[p] = FAILURE_THRESHOLD THEN TIMEOUT ELSE 0
        BY <2>3, <1>a, BreakerAssumption DEF Breaker!TypeOK, Breaker!Bump
      <3>5. v.count \in 0..FAILURE_THRESHOLD /\ v.count >= streak[p]
        BY <3>1, <3>4, <1>a, BreakerAssumption DEF QuietInv, Breaker!Circuit
      <3>6. Breaker!Bump(v.count) >= Breaker!Bump(streak[p])
            /\ (Breaker!Bump(streak[p]) = FAILURE_THRESHOLD =>
                   Breaker!Bump(v.count) = FAILURE_THRESHOLD)
        BY <3>4, <3>5, BreakerAssumption DEF Breaker!Bump
      <3>7. c # None /\ TIMEOUT # None
        BY <3>2, CircuitFacts, BreakerAssumption
      <3>8. QuietInv'
        <4>1. ASSUME NEW q \in Procs, q # p
              PROVE  /\ streak'[q] > 0 => cache'[q] # None /\ cache'[q].count >= streak'[q]
                     /\ quiet'[q] > 0 => /\ cache'[q] # None
                                         /\ cache'[q].state = "OPEN"
                                         /\ cache'[q].until # None
                                         /\ cache'[q].until >= quiet'[q]
          BY <4>1, <3>3, <3>4, <1>a DEF QuietInv
        <4>2. /\ streak'[p] > 0 => cache'[p] # None /\ cache'[p].count >= streak'[p]
              /\ quiet'[p] > 0 => /\ cache'[p] # None
                                  /\ cache'[p].state = "OPEN"
                                  /\ cache'[p].until # None
                                  /\ cache'[p].until >= quiet'[p]
          BY <3>2, <3>3, <3>4, <3>6, <3>7, BreakerAssumption
        <4> QED  BY <4>1, <4>2 DEF QuietInv
      <3>9. Breaker!TypeOK'
        BY <2>1, <3>3, <3>4 DEF Breaker!TypeOK
      <3> QED  BY <3>3, <3>8, <3>9 DEF BreakerInv
    <2> QED  BY <1>4, <2>2, <2>3 DEF Breaker!RecordFailure
  <1>5. ASSUME NEW p \in Procs, Breaker!ResetCircuit(p) PROVE BreakerInv'
    <2>1. Breaker!Forget(p) /\ UNCHANGED <<normal, tests>>
      BY <1>5 DEF Breaker!ResetCircuit
    <2>2. /\ row' \in Breaker!Circuit \cup {None}
          /\ cache' \in [Procs -> Breaker!Circuit \cup {None}]
          /\ \A q \in Procs \ {p} : cache'[q] = cache[q]
          /\ DeadlineInv'
      BY <1>5, WriteFacts, CircuitFacts DEF Breaker!ResetCircuit, Timed
    <2> QED  BY <2>1, <2>2, <1>a, ForgetFacts DEF BreakerInv, Breaker!TypeOK
  <1>6. ASSUME NEW p \in Procs, Breaker!ResetAll(p) \/ Breaker!Restart(p) PROVE BreakerInv'
    <2>1. /\ Breaker!Forget(p)
          /\ row' \in {row, Breaker!Closed, None}
          /\ cache' = [cache EXCEPT ![p] = None]
          /\ normal' \in [Procs -> 0..MaxInFlight] /\ tests' \in [Procs -> 0..MaxInFlight]
      BY <1>6, <1>a, BreakerAssumption DEF Breaker!ResetAll, Breaker!Restart, Breaker!TypeOK
    <2>2. DeadlineInv'
      BY <2>1, <1>a, CircuitFacts DEF DeadlineInv, Timed, Breaker!TypeOK
    <2>3. QuietInv' /\ Breaker!TypeOK'
      BY <2>1, <1>a, CircuitFacts, ForgetFacts DEF BreakerInv, Breaker!TypeOK
    <2> QED  BY <2>2, <2>3 DEF BreakerInv
  <1>7. CASE Breaker!Tick
    <2>1. row' = Breaker!Older(row) /\ cache' = [p \in Procs |-> Breaker!Older(cache[p])]
          /\ quiet' = [p \in Procs |-> Breaker!Less(quiet[p])] /\ UNCHANGED <<normal, tests, streak>>
      BY <1>7 DEF Breaker!Tick
    <2>2. Breaker!TypeOK'
      BY <2>1, <1>a, OlderFacts, BreakerAssumption DEF Breaker!TypeOK, Breaker!Less
    <2>3. DeadlineInv'
      BY <2>1, <1>a, OlderFacts DEF Breaker!TypeOK, DeadlineInv
    <2>4. ASSUME NEW p \in Procs, cache[p] # None
          PROVE  /\ cache'[p] # None /\ cache'[p].count = cache[p].count
                 /\ cache'[p].state = cache[p].state
                 /\ cache[p].until # None => cache'[p].until # None
                                             /\ cache'[p].until = Breaker!Less(cache[p].until)
      BY <2>1, <2>4, <1>a, OlderFacts DEF Breaker!TypeOK
    <2>5. QuietInv'
      <3> SUFFICES ASSUME NEW p \in Procs
                   PROVE  /\ streak'[p] > 0 => cache'[p] # None /\ cache'[p].count >= streak'[p]
                          /\ quiet'[p] > 0 => /\ cache'[p] # None
                                              /\ cache'[p].state = "OPEN"
                                              /\ cache'[p].until # None
                                              /\ cache'[p].until >= quiet'[p]
        BY DEF QuietInv
      <3>1. streak'[p] > 0 => cache'[p] # None /\ cache'[p].count >= streak'[p]
        BY <2>1, <2>4, <1>a DEF QuietInv
      <3>2. ASSUME quiet'[p] > 0
            PROVE  /\ cache'[p] # None /\ cache'[p].state = "OPEN"
                   /\ cache'[p].until # None /\ cache'[p].until >= quiet'[p]
        <4>1. quiet[p] \in Nat /\ quiet[p] > 0 /\ quiet'[p] = quiet[p] - 1
          BY <3>2, <2>1, <1>a, BreakerAssumption DEF Breaker!TypeOK, Breaker!Less
        <4>2. /\ cache[p] # None /\ cache[p] \in Breaker!Circuit
              /\ cache[p].state = "OPEN" /\ cache[p].until # None
              /\ cache[p].until >= quiet[p]
          BY <4>1, <1>a DEF QuietInv, Breaker!TypeOK
        <4>3. cache[p].until \in Nat
          BY <4>2, BreakerAssumption DEF Breaker!Circuit
        <4>4. Breaker!Less(cache[p].until) >= quiet'[p]
          BY <4>1, <4>2, <4>3 DEF Breaker!Less
        <4> QED  BY <2>4, <4>2, <4>4
      <3> QED  BY <3>1, <3>2
    <2> QED  BY <2>2, <2>3, <2>5 DEF BreakerInv
  <1>8. CASE UNCHANGED Breaker!vars
    BY <1>8, <1>a DEF BreakerInv, Breaker!vars, Breaker!TypeOK, DeadlineInv, Timed, QuietInv
  <1> QED  BY <1>1, <1>2, <1>3, <1>4, <1>5, <1>6, <1>7, <1>8
           DEF Breaker!Next, Breaker!Step, Breaker!Reply

\* A process whose streak is still fresh sends nothing.
LEMMA QuietSendsNothing ==
  ASSUME BreakerInv, [Breaker!Next]_Breaker!vars, NEW p \in Procs, quiet[p] > 0
  PROVE  normal'[p] + tests'[p] <= normal[p] + tests[p]
  <1>a. Breaker!TypeOK /\ QuietInv
    BY DEF BreakerInv
  <1>b. normal[p] \in Nat /\ tests[p] \in Nat
    BY <1>a, BreakerAssumption DEF Breaker!TypeOK
  <1>1. ASSUME NEW q \in Procs, Breaker!AllowRequest(q)
        PROVE  normal'[p] = normal[p] /\ tests'[p] = tests[p]
    <2>1. CASE q = p
      <3>1. /\ Breaker!View(p) = cache[p] /\ cache[p].state = "OPEN"
            /\ cache[p].until # None /\ cache[p].until >= quiet[p]
            /\ cache[p] \in Breaker!Circuit /\ quiet[p] \in Nat
        BY <1>a, BreakerAssumption DEF QuietInv, Breaker!View, Breaker!TypeOK
      <3>2. cache[p].until # 0
        BY <3>1, BreakerAssumption DEF Breaker!Circuit
      <3> QED  BY <2>1, <1>1, <3>1, <3>2
               DEF Breaker!AllowRequest, Breaker!AllowNormal, Breaker!AllowTest,
                   Breaker!Elapsed
    <2>2. CASE q # p
      BY <2>2, <1>1, <1>a
      DEF Breaker!AllowRequest, Breaker!AllowNormal, Breaker!AllowTest, Breaker!TypeOK
    <2> QED  BY <2>1, <2>2
  <1>2. ASSUME NEW q \in Procs, Breaker!RecordSuccess(q) \/ Breaker!RecordFailure(q)
        PROVE  normal'[p] + tests'[p] <= normal[p] + tests[p]
    BY <1>2, <1>a, ReturnFacts DEF Breaker!RecordSuccess, Breaker!RecordFailure
  <1>3. ASSUME NEW q \in Procs,
               Breaker!Load(q) \/ Breaker!ResetCircuit(q) \/ Breaker!ResetAll(q) \/ Breaker!Tick
        PROVE  normal' = normal /\ tests' = tests
    BY <1>3 DEF Breaker!Load, Breaker!ResetCircuit, Breaker!ResetAll, Breaker!Tick
  <1>4. ASSUME NEW q \in Procs, Breaker!Restart(q)
        PROVE  normal'[p] \in {0, normal[p]} /\ tests'[p] \in {0, tests[p]}
    BY <1>4, <1>a DEF Breaker!Restart, Breaker!TypeOK
  <1>5. CASE UNCHANGED Breaker!vars
    BY <1>5, <1>b DEF Breaker!vars
  <1>6. CASE Breaker!Tick
    BY <1>6, <1>b DEF Breaker!Tick
  <1> QED  BY <1>b, <1>1, <1>2, <1>3, <1>4, <1>5, <1>6
           DEF Breaker!Next, Breaker!Step, Breaker!Reply

-----------------------------------------------------------------------------
\* Type correctness.
THEOREM BreakerTypeCorrect == Breaker!Spec => []Breaker!TypeOK
  <1>1. BreakerInv => Breaker!TypeOK
    BY DEF BreakerInv
  <1> QED  BY <1>1, InitBreaker, NextBreaker, PTL DEF Breaker!Spec

\* An open circuit has a deadline, in the table and in every cache.
THEOREM OpenAlwaysHasDeadline == Breaker!Spec => []Breaker!OpenHasDeadline
  <1>1. BreakerInv => Breaker!OpenHasDeadline
    BY DEF BreakerInv, DeadlineInv, Timed, Breaker!OpenHasDeadline
  <1> QED  BY <1>1, InitBreaker, NextBreaker, PTL DEF Breaker!Spec

\* A process with FAILURE_THRESHOLD failures on record leaves the platform alone
\* for TIMEOUT, for any number of processes overwriting the row.
THEOREM ThresholdAlwaysBlocks == Breaker!Spec => ThresholdBlocks
  <1>1. BreakerInv /\ [Breaker!Next]_Breaker!vars
            => [\A p \in Procs :
                   quiet[p] > 0 => normal'[p] + tests'[p] <= normal[p] + tests[p]]_Breaker!vars
    BY QuietSendsNothing
  <1> QED  BY <1>1, InitBreaker, NextBreaker, PTL
    DEF Breaker!Spec, ThresholdBlocks, Breaker!ThresholdBlocks

-----------------------------------------------------------------------------
(* 3. ResourceScheduler, for every finite set of threads and every limit.   *)
(* The bound on video assemblies is not an invariant one can prove by       *)
(* itself: it follows from the accounting of the semaphore, which is        *)
(* inductive with the little that ThreadShape says of the threads.          *)

SchedulerTypes ==
    /\ active \subseteq [id : Nat, type : JobTypes]
    /\ permits \in Nat
    /\ counter \in Nat
    /\ shutdown \in BOOLEAN
    /\ place \in [Threads -> Scheduler!Labels]
    /\ caller \in [Threads -> {"none", "acquire", "wait"}]
    /\ job \in [Threads -> JobTypes \cup {None}]
    /\ slot \in [Threads -> Nat \cup {None}]
    /\ polls \in [Threads -> Nat]

\* What the place of a thread says of its locals.
ThreadShape ==
    \A t \in Threads :
        /\ place[t] # "idle" => job[t] \in JobTypes
        /\ place[t] \in {"permit", "popped"} => Scheduler!Exclusive(job[t])
        /\ place[t] = "running" => slot[t] \in Nat /\ slot[t] <= counter

SchedulerInv ==
    SchedulerTypes /\ ThreadShape /\ Scheduler!PermitsAccounted /\ Scheduler!SlotsMirrorJobs

Owns(t) == Scheduler!Exclusive(job[t]) /\ place[t] \in {"register", "running", "popped"}

Slot(t) == [id |-> slot[t], type |-> job[t]]

-----------------------------------------------------------------------------
\* The component counts as this module does.
LEMMA SchedulerCardinality == \A S : Scheduler!Cardinality(S) = Cardinality(S)
  BY DEF Scheduler!Cardinality, Cardinality

\* The owners are finitely many.
LEMMA OwnersFinite ==
  /\ IsFiniteSet(Scheduler!Owners) /\ Cardinality(Scheduler!Owners) \in Nat
  /\ Scheduler!Owners \subseteq Threads
  BY FS_Subset, FS_CardinalityType, SchedulerAssumption DEF Scheduler!Owners

\* A step of t after which t owns a permit if and only if it owned one before
\* leaves the set of owners alone.
LEMMA OwnersKept ==
  ASSUME NEW t \in Threads, SchedulerTypes, SchedulerTypes', Owns(t)' <=> Owns(t),
         \A u \in Threads \ {t} : place'[u] = place[u] /\ job'[u] = job[u]
  PROVE  Scheduler!Owners' = Scheduler!Owners
  BY DEF Scheduler!Owners, Owns

\* The registry mirrors the running threads.
LEMMA SlotsKept ==
  ASSUME NEW t \in Threads, SchedulerTypes, SchedulerTypes', Scheduler!SlotsMirrorJobs,
         place[t] # "running", place'[t] # "running",
         UNCHANGED <<active, slot>>,
         \A u \in Threads \ {t} : place'[u] = place[u] /\ job'[u] = job[u]
  PROVE  Scheduler!SlotsMirrorJobs'
  BY DEF Scheduler!SlotsMirrorJobs

\* The initial states satisfy the invariant.
LEMMA InitScheduler == Scheduler!Init => SchedulerInv
  <1> SUFFICES ASSUME Scheduler!Init PROVE SchedulerInv
    OBVIOUS
  <1>1. SchedulerTypes
    BY SchedulerAssumption DEF Scheduler!Init, SchedulerTypes, Scheduler!Labels
  <1>2. ThreadShape
    BY DEF Scheduler!Init, ThreadShape
  <1>3. Scheduler!PermitsAccounted
    <2>1. Scheduler!Owners = {}
      BY DEF Scheduler!Init, Scheduler!Owners
    <2> QED  BY <2>1, FS_EmptySet, SchedulerAssumption, SchedulerCardinality
             DEF Scheduler!Init, Scheduler!PermitsAccounted
  <1>4. Scheduler!SlotsMirrorJobs
    BY DEF Scheduler!Init, Scheduler!SlotsMirrorJobs
  <1> QED  BY <1>1, <1>2, <1>3, <1>4 DEF SchedulerInv

\* A step that neither registers a slot, nor releases one, nor moves a permit:
\* the thread is at a place that owns nothing before and after.
LEMMA QuietStep ==
  ASSUME SchedulerInv, NEW t \in Threads, SchedulerTypes', ThreadShape',
         place[t] \in {"idle", "poll", "exclusive", "conflicts", "measure", "permit"},
         \/ place'[t] \in {"idle", "poll", "exclusive", "conflicts", "measure", "permit"}
         \/ place'[t] = "register" /\ ~Scheduler!Exclusive(job'[t]),
         UNCHANGED <<active, permits, slot>>,
         \A u \in Threads \ {t} : place'[u] = place[u] /\ job'[u] = job[u]
  PROVE  SchedulerInv'
  <1>1. Scheduler!Owners' = Scheduler!Owners
    BY OwnersKept DEF SchedulerInv, Owns
  <1>2. Scheduler!PermitsAccounted'
    BY <1>1 DEF SchedulerInv, Scheduler!PermitsAccounted
  <1>3. Scheduler!SlotsMirrorJobs'
    BY SlotsKept DEF SchedulerInv
  <1> QED  BY <1>2, <1>3 DEF SchedulerInv

\* Every step keeps the invariant.
LEMMA NextScheduler == SchedulerInv /\ [Scheduler!Next]_Scheduler!vars => SchedulerInv'
  <1> SUFFICES ASSUME SchedulerInv, [Scheduler!Next]_Scheduler!vars PROVE SchedulerInv'
    OBVIOUS
  <1>a. SchedulerTypes /\ ThreadShape
        /\ Scheduler!PermitsAccounted /\ Scheduler!SlotsMirrorJobs
    BY DEF SchedulerInv
  <1>b. MaxPolls \in Nat
    BY SchedulerAssumption
  <1>1. ASSUME NEW t \in Threads, Scheduler!Acquire(t) PROVE SchedulerInv'
    <2>1. SchedulerTypes' /\ ThreadShape'
      BY <1>1, <1>a
      DEF SchedulerTypes, ThreadShape, Scheduler!Labels, Scheduler!Acquire, Scheduler!Goto
    <2> QED  BY <2>1, <1>1, <1>a, QuietStep
             DEF Scheduler!Acquire, Scheduler!Goto, SchedulerTypes
  <1>2. ASSUME NEW t \in Threads, Scheduler!WaitForResources(t) PROVE SchedulerInv'
    <2>1. SchedulerTypes' /\ ThreadShape'
      BY <1>2, <1>a, <1>b
      DEF SchedulerTypes, ThreadShape, Scheduler!Labels, Scheduler!WaitForResources,
          Scheduler!Goto
    <2> QED  BY <2>1, <1>2, <1>a, QuietStep
             DEF Scheduler!WaitForResources, Scheduler!Goto, SchedulerTypes
  <1>3. ASSUME NEW t \in Threads, Scheduler!Poll(t) PROVE SchedulerInv'
    <2>1. SchedulerTypes' /\ ThreadShape'
      <3>1. CASE polls[t] = 0 \/ shutdown
        BY <3>1, <1>3, <1>a
        DEF SchedulerTypes, ThreadShape, Scheduler!Labels, Scheduler!Poll, Scheduler!Leave,
            Scheduler!Goto
      <3>2. CASE ~(polls[t] = 0 \/ shutdown)
        BY <3>2, <1>3, <1>a
        DEF SchedulerTypes, ThreadShape, Scheduler!Labels, Scheduler!Poll, Scheduler!Goto
      <3> QED  BY <3>1, <3>2
    <2> QED  BY <2>1, <1>3, <1>a, QuietStep
             DEF Scheduler!Poll, Scheduler!Leave, Scheduler!Goto, SchedulerTypes
  <1>4. ASSUME NEW t \in Threads, Scheduler!CheckExclusive(t) PROVE SchedulerInv'
    <2>1. SchedulerTypes' /\ ThreadShape'
      BY <1>4, <1>a
      DEF SchedulerTypes, ThreadShape, Scheduler!Labels, Scheduler!CheckExclusive,
          Scheduler!Refuse, Scheduler!Proceed, Scheduler!Leave, Scheduler!Goto
    <2> QED  BY <2>1, <1>4, <1>a, QuietStep
            
              DEF Scheduler!CheckExclusive, Scheduler!Refuse, Scheduler!Proceed,
                  Scheduler!Leave, Scheduler!Goto, SchedulerTypes
  <1>5. ASSUME NEW t \in Threads, Scheduler!CheckConflicts(t) PROVE SchedulerInv'
    <2>1. SchedulerTypes' /\ ThreadShape'
      BY <1>5, <1>a
      DEF SchedulerTypes, ThreadShape, Scheduler!Labels, Scheduler!CheckConflicts,
          Scheduler!Refuse, Scheduler!Proceed, Scheduler!Leave, Scheduler!Goto
    <2> QED  BY <2>1, <1>5, <1>a, QuietStep
            
              DEF Scheduler!CheckConflicts, Scheduler!Refuse, Scheduler!Proceed,
                  Scheduler!Leave, Scheduler!Goto, SchedulerTypes
  <1>6. ASSUME NEW t \in Threads, Scheduler!Measure(t) PROVE SchedulerInv'
    <2>1. SchedulerTypes' /\ ThreadShape'
      BY <1>6, <1>a
      DEF SchedulerTypes, ThreadShape, Scheduler!Labels, Scheduler!Measure,
          Scheduler!Refuse, Scheduler!Proceed, Scheduler!Leave, Scheduler!Goto
    <2> QED  BY <2>1, <1>6, <1>a, QuietStep
            
              DEF Scheduler!Measure, Scheduler!Refuse, Scheduler!Proceed, Scheduler!Leave,
                  Scheduler!Goto, SchedulerTypes
  <1>7. ASSUME NEW t \in Threads, Scheduler!TakePermit(t) PROVE SchedulerInv'
    <2>1. CASE permits > 0
      <3>1. SchedulerTypes' /\ ThreadShape'
        BY <2>1, <1>7, <1>a
        DEF SchedulerTypes, ThreadShape, Scheduler!Labels, Scheduler!TakePermit,
            Scheduler!Proceed, Scheduler!Goto
      <3>2. Scheduler!Owners' = Scheduler!Owners \cup {t} /\ t \notin Scheduler!Owners
        BY <2>1, <1>7, <1>a
        DEF Scheduler!TakePermit, Scheduler!Proceed, Scheduler!Goto, SchedulerTypes,
            ThreadShape, Scheduler!Owners
      <3>3. Cardinality(Scheduler!Owners') = Cardinality(Scheduler!Owners) + 1
        BY <3>2, OwnersFinite, FS_AddElement
      <3>4. Scheduler!PermitsAccounted'
        BY <2>1, <1>7, <1>a, <3>3, OwnersFinite, SchedulerCardinality
        DEF Scheduler!PermitsAccounted, Scheduler!TakePermit, SchedulerTypes
      <3>5. Scheduler!SlotsMirrorJobs'
        BY <2>1, <1>7, <1>a, <3>1, SlotsKept
        DEF Scheduler!TakePermit, Scheduler!Proceed, Scheduler!Goto, SchedulerTypes
      <3> QED  BY <3>1, <3>4, <3>5 DEF SchedulerInv
    <2>2. CASE ~(permits > 0)
      <3>1. SchedulerTypes' /\ ThreadShape'
        BY <2>2, <1>7, <1>a
        DEF SchedulerTypes, ThreadShape, Scheduler!Labels, Scheduler!TakePermit,
            Scheduler!Leave, Scheduler!Goto
      <3> QED  BY <2>2, <3>1, <1>7, <1>a, QuietStep
               DEF Scheduler!TakePermit, Scheduler!Leave, Scheduler!Goto, SchedulerTypes
    <2> QED  BY <2>1, <2>2
  <1>8. ASSUME NEW t \in Threads, Scheduler!Register(t) PROVE SchedulerInv'
    <2>1. SchedulerTypes' /\ ThreadShape'
      BY <1>8, <1>a
      DEF SchedulerTypes, ThreadShape, Scheduler!Labels, Scheduler!Register, Scheduler!Goto
    <2>2. Scheduler!Owners' = Scheduler!Owners
      BY <2>1, <1>8, <1>a, OwnersKept
      DEF Scheduler!Register, Scheduler!Goto, SchedulerTypes, Owns
    <2>3. Scheduler!PermitsAccounted'
      BY <2>2, <1>8, <1>a DEF Scheduler!PermitsAccounted, Scheduler!Register
    <2>4. Scheduler!SlotsMirrorJobs'
      <3>1. /\ active' = active \cup {Slot(t)'}
            /\ place[t] # "running" /\ place'[t] = "running" /\ slot'[t] = counter + 1
            /\ \A u \in Threads \ {t} :
                  place'[u] = place[u] /\ job'[u] = job[u] /\ slot'[u] = slot[u]
        BY <1>8, <1>a DEF Scheduler!Register, Scheduler!Goto, SchedulerTypes, Slot
      <3>2. active = {Slot(u) : u \in {v \in Threads : place[v] = "running"}}
        BY <1>a DEF Scheduler!SlotsMirrorJobs, Slot
      <3>3. \A u \in Threads \ {t} : Slot(u)' = Slot(u)
        BY <3>1 DEF Slot
      <3>4. {v \in Threads : place'[v] = "running"} =
                {v \in Threads : place[v] = "running"} \cup {t}
        BY <3>1
      <3>5. active' = {Slot(u)' : u \in {v \in Threads : place'[v] = "running"}}
        BY <3>1, <3>2, <3>3, <3>4
      <3>6. \A u \in Threads \ {t} : place[u] = "running" => slot[u] # counter + 1
        BY <1>a DEF ThreadShape, SchedulerTypes
      <3>7. \A u, v \in Threads :
               place'[u] = "running" /\ place'[v] = "running" /\ slot'[u] = slot'[v] => u = v
        BY <3>1, <3>6, <1>a DEF Scheduler!SlotsMirrorJobs
      <3> QED  BY <3>5, <3>7 DEF Scheduler!SlotsMirrorJobs, Slot
    <2> QED  BY <2>1, <2>3, <2>4 DEF SchedulerInv
  <1>9. ASSUME NEW t \in Threads, Scheduler!PopSlot(t) PROVE SchedulerInv'
    <2>1. SchedulerTypes' /\ ThreadShape'
      BY <1>9, <1>a
      DEF SchedulerTypes, ThreadShape, Scheduler!Labels, Scheduler!PopSlot,
          Scheduler!Proceed, Scheduler!Leave, Scheduler!Goto
    <2>2. Scheduler!Owners' = Scheduler!Owners
      BY <2>1, <1>9, <1>a, OwnersKept
      DEF Scheduler!PopSlot, Scheduler!Proceed, Scheduler!Leave, Scheduler!Goto,
          SchedulerTypes, Owns
    <2>3. Scheduler!PermitsAccounted'
      BY <2>2, <1>9, <1>a DEF Scheduler!PermitsAccounted, Scheduler!PopSlot
    <2>4. Scheduler!SlotsMirrorJobs'
      <3>1. /\ active' = {a \in active : a.id # slot[t]}
            /\ place[t] = "running" /\ place'[t] # "running"
            /\ \A u \in Threads \ {t} :
                  place'[u] = place[u] /\ job'[u] = job[u] /\ slot'[u] = slot[u]
        BY <1>9, <1>a
        DEF Scheduler!PopSlot, Scheduler!Proceed, Scheduler!Leave, Scheduler!Goto,
            SchedulerTypes
      <3>2. active = {Slot(u) : u \in {v \in Threads : place[v] = "running"}}
        BY <1>a DEF Scheduler!SlotsMirrorJobs, Slot
      <3>3. \A u \in Threads \ {t} : Slot(u)' = Slot(u)
        BY <3>1 DEF Slot
      <3>4. {v \in Threads : place'[v] = "running"} =
                {v \in Threads : place[v] = "running"} \ {t}
        BY <3>1
      <3>5. \A u \in Threads : place[u] = "running" =>
               (Slot(u).id # slot[t] <=> u # t)
        BY <3>1, <1>a DEF Scheduler!SlotsMirrorJobs, Slot
      <3>6. active' = {Slot(u)' : u \in {v \in Threads : place'[v] = "running"}}
        BY <3>1, <3>2, <3>3, <3>4, <3>5
      <3>7. \A u, v \in Threads :
               place'[u] = "running" /\ place'[v] = "running" /\ slot'[u] = slot'[v] => u = v
        BY <3>1, <1>a DEF Scheduler!SlotsMirrorJobs
      <3> QED  BY <3>6, <3>7 DEF Scheduler!SlotsMirrorJobs, Slot
    <2> QED  BY <2>1, <2>3, <2>4 DEF SchedulerInv
  <1>10. ASSUME NEW t \in Threads, Scheduler!ReturnPermit(t) PROVE SchedulerInv'
    <2>1. SchedulerTypes' /\ ThreadShape'
      BY <1>10, <1>a
      DEF SchedulerTypes, ThreadShape, Scheduler!Labels, Scheduler!ReturnPermit,
          Scheduler!Leave, Scheduler!Goto
    <2>2. Scheduler!Owners' = Scheduler!Owners \ {t} /\ t \in Scheduler!Owners
      BY <1>10, <1>a
      DEF Scheduler!ReturnPermit, Scheduler!Leave, Scheduler!Goto, SchedulerTypes,
          ThreadShape, Scheduler!Owners
    <2>3. Cardinality(Scheduler!Owners') = Cardinality(Scheduler!Owners) - 1
      BY <2>2, OwnersFinite, FS_RemoveElement
    <2>4. Scheduler!PermitsAccounted'
      BY <1>10, <1>a, <2>3, OwnersFinite, SchedulerCardinality
      DEF Scheduler!PermitsAccounted, Scheduler!ReturnPermit, SchedulerTypes
    <2>5. Scheduler!SlotsMirrorJobs'
      BY <1>10, <1>a, <2>1, SlotsKept
      DEF Scheduler!ReturnPermit, Scheduler!Leave, Scheduler!Goto, SchedulerTypes
    <2> QED  BY <2>1, <2>4, <2>5 DEF SchedulerInv
  <1>11. CASE Scheduler!Signal \/ UNCHANGED Scheduler!vars
    BY <1>11, <1>a
   
     DEF SchedulerInv, SchedulerTypes, ThreadShape, Scheduler!PermitsAccounted,
         Scheduler!Owners, Scheduler!SlotsMirrorJobs, Scheduler!Signal, Scheduler!vars
  <1> QED
    BY <1>1, <1>2, <1>3, <1>4, <1>5, <1>6, <1>7, <1>8, <1>9, <1>10, <1>11
   
     DEF Scheduler!Next, Scheduler!Step, Scheduler!CanStartStep, Scheduler!AcquireStep,
         Scheduler!ReleaseStep

-----------------------------------------------------------------------------
\* What the invariant gives.
LEMMA SchedulerInvImplies ==
  SchedulerInv => /\ Scheduler!TypeOK /\ Scheduler!AssembliesBounded
                  /\ Scheduler!PermitsAccounted /\ Scheduler!SlotsMirrorJobs
  <1> SUFFICES ASSUME SchedulerInv
               PROVE  Scheduler!TypeOK /\ Scheduler!AssembliesBounded
    BY DEF SchedulerInv
  <1>1. permits \in Nat /\ permits + Cardinality(Scheduler!Owners) = MaxAssembly
    BY SchedulerCardinality DEF SchedulerInv, SchedulerTypes, Scheduler!PermitsAccounted
  <1>2. Scheduler!TypeOK
    BY <1>1, OwnersFinite, SchedulerAssumption
    DEF SchedulerInv, SchedulerTypes, Scheduler!TypeOK
  <1>3. Scheduler!AssembliesBounded
    <2>1. Scheduler!Running("video_assembly") \subseteq Scheduler!Owners
      BY DEF Scheduler!Running, Scheduler!Owners, Scheduler!Exclusive
    <2>2. Cardinality(Scheduler!Running("video_assembly")) <= Cardinality(Scheduler!Owners)
          /\ Cardinality(Scheduler!Running("video_assembly")) \in Nat
      BY <2>1, OwnersFinite, FS_Subset, FS_CardinalityType
    <2> QED
      BY <2>2, <1>1, OwnersFinite, SchedulerAssumption, SchedulerCardinality
      DEF Scheduler!AssembliesBounded
  <1> QED  BY <1>2, <1>3

\* Type correctness, the semaphore's limit included.
THEOREM SchedulerTypeCorrect == Scheduler!Spec => []Scheduler!TypeOK
  BY InitScheduler, NextScheduler, SchedulerInvImplies, PTL DEF Scheduler!Spec

\* At most MaxAssembly threads assemble a video, for any number of threads,
\* although the test and the registration are not one critical section.
THEOREM AssembliesAlwaysBounded == Scheduler!Spec => []AssembliesBounded
  BY InitScheduler, NextScheduler, SchedulerInvImplies, PTL
  DEF Scheduler!Spec, AssembliesBounded

\* No permit is ever lost or made up.
THEOREM PermitsAlwaysAccounted == Scheduler!Spec => []PermitsAccounted
  BY InitScheduler, NextScheduler, SchedulerInvImplies, PTL
  DEF Scheduler!Spec, PermitsAccounted

\* The registry always mirrors the jobs that run.
THEOREM SlotsAlwaysMirror == Scheduler!Spec => []Scheduler!SlotsMirrorJobs
  BY InitScheduler, NextScheduler, SchedulerInvImplies, PTL DEF Scheduler!Spec
=============================================================================
