-------------------------- MODULE ContentSupplyProofs --------------------------
(***************************************************************************)
(* Proofs about ContentSupply, for any number of processes, topics, rows    *)
(* and attempts: the types, that a used trend has its script, and how often *)
(* a topic can be stored and written about.                                 *)
(***************************************************************************)
EXTENDS ContentSupply, FiniteSetTheorems, TLAPS

TrendRows ==
    [id : Nat, topic : Topics, used : BOOLEAN, age : Nat, lag : 0..DELAY, by : Procs]

\* A process is at one item at a time, has an attempt left while it writes, and
\* every row has an id that was given.
Single == \A p \in Procs : \A x, y \in cur[p] : x = y

Tried == \A p \in Procs : pc[p] \in {"check", "write", "stored"} => tries[p] < ATTEMPTS

Known == \A t \in trends : t.id \in 1..lastTrend

\* The inductive invariant of the types.
TInv == TypeOK /\ Single /\ Tried /\ Known

LEMMA InitTInv == Init => TInv
<1> SUFFICES ASSUME Init PROVE TInv
  OBVIOUS
<1> USE BoundsAssumption, DelayAssumption DEF Init
<1>1. lastTrend = 0 /\ 1..lastTrend = {}
  OBVIOUS
<1>2. recent \in [1..lastTrend -> Nat] /\ topicOf \in [1..lastTrend -> Topics]
  BY <1>1
<1>3. TypeOK
  BY <1>1, <1>2 DEF TypeOK, Places
<1>4. Single /\ Tried /\ Known
  BY DEF Single, Tried, Known
<1> QED BY <1>3, <1>4 DEF TInv

\* A process turns to one item, or to none, or stays where it is.
LEMMA OneItem ==
  ASSUME TypeOK, Single, NEW p \in Procs, NEW items \in SUBSET Items,
         \A x, y \in items : x = y,
         cur' = cur \/ cur' = [cur EXCEPT ![p] = items]
  PROVE  cur' \in [Procs -> SUBSET Items] /\ Single'
<1>1. cur \in [Procs -> SUBSET Items]
  BY DEF TypeOK
<1>2. cur' \in [Procs -> SUBSET Items]
  BY <1>1
<1>3. \A q \in Procs : cur'[q] = cur[q] \/ cur'[q] = items
  BY <1>1
<1>4. Single'
  BY <1>3 DEF Single
<1> QED BY <1>2, <1>4

LEMMA NoItem ==
  ASSUME TypeOK, Single, NEW p \in Procs,
         cur' = cur \/ cur' = [cur EXCEPT ![p] = {}]
  PROVE  cur' \in [Procs -> SUBSET Items] /\ Single'
<1> DEFINE none == {}
<1>1. none \in SUBSET Items /\ \A x, y \in none : x = y
  OBVIOUS
<1>2. cur' = cur \/ cur' = [cur EXCEPT ![p] = none]
  OBVIOUS
<1> HIDE DEF none
<1> QED BY <1>1, <1>2, OneItem

LEMMA NextItem ==
  ASSUME TypeOK, Single, NEW p \in Procs, NEW x \in todo[p],
         cur' = cur \/ cur' = [cur EXCEPT ![p] = {x}]
  PROVE  cur' \in [Procs -> SUBSET Items] /\ Single'
<1>1. todo[p] \in SUBSET Items
  BY DEF TypeOK
<1> DEFINE items == {x}
<1>2. items \in SUBSET Items /\ \A y, z \in items : y = z
  BY <1>1
<1>3. cur' = cur \/ cur' = [cur EXCEPT ![p] = items]
  OBVIOUS
<1> HIDE DEF items
<1> QED BY <1>2, <1>3, OneItem

\* Rest leaves a process with nothing.
LEMMA RestTInv == ASSUME TInv, NEW p \in Procs, Rest(p) PROVE TInv'
<1> USE BoundsAssumption, DelayAssumption DEF TInv, Rest, Goto, At, tables, scripts
<1>1. cur' \in [Procs -> SUBSET Items] /\ Single'
  BY NoItem
<1>2. TypeOK'
  BY <1>1 DEF TypeOK, Places
<1>3. Tried' /\ Known'
  BY DEF Tried, Known, TypeOK
<1> QED BY <1>1, <1>2, <1>3

LEMMA ScanTInv ==
  ASSUME TInv, NEW p \in Procs, BeginScan(p) \/ Look(p) \/ Insert(p)
  PROVE  TInv'
<1> USE BoundsAssumption, DelayAssumption DEF TInv, Goto, At, Drop, tables, scripts
<1>1. CASE BeginScan(p)
  <2>1. PICK kept \in SUBSET Topics :
           todo' = [todo EXCEPT ![p] = {Finding(topic) : topic \in kept}]
    BY <1>1 DEF BeginScan
  <2>2. {Finding(topic) : topic \in kept} \in SUBSET Items
    BY DEF Finding, Items
  <2>3. TypeOK'
    BY <1>1, <2>1, <2>2 DEF BeginScan, TypeOK, Places
  <2>4. Single' /\ Known'
    BY <1>1 DEF BeginScan, Single, Known
  <2>5. Tried'
    BY <1>1 DEF BeginScan, Tried, TypeOK
  <2> QED BY <2>3, <2>4, <2>5
<1>2. CASE Look(p)
  <2>1. PICK x \in todo[p] :
           /\ todo' = [todo EXCEPT ![p] = @ \ {x}]
           /\ \/ UNCHANGED <<pc, cur>>
              \/ pc' = [pc EXCEPT ![p] = "insert"] /\ cur' = [cur EXCEPT ![p] = {x}]
    BY <1>2 DEF Look
  <2>2. pc' \in [Procs -> Places]
    BY <2>1 DEF TypeOK, Places
  <2>3. todo' \in [Procs -> SUBSET Items]
    BY <2>1 DEF TypeOK
  <2>5. cur' \in [Procs -> SUBSET Items] /\ Single'
    BY <2>1, NextItem
  <2>4. TypeOK' /\ Known'
    BY <1>2, <2>2, <2>3, <2>5 DEF Look, TypeOK, Known
  <2>6. Tried'
    BY <1>2, <2>1 DEF Look, Tried, TypeOK
  <2> QED BY <2>4, <2>5, <2>6
<1>3. CASE Insert(p)
  <2>1. lastTrend' = lastTrend + 1 /\ 1..lastTrend \subseteq 1..lastTrend'
    BY <1>3 DEF Insert, TypeOK
  <2>2. recent' \in [1..lastTrend' -> Nat]
    BY <1>3 DEF Insert, TypeOK
  <2>3. PICK x \in cur[p] : topicOf' =
          [id \in 1..lastTrend + 1 |-> IF id \in DOMAIN topicOf THEN topicOf[id] ELSE x.topic]
    BY <1>3 DEF Insert
  <2>4. topicOf' \in [1..lastTrend' -> Topics]
    BY <2>1, <2>3 DEF TypeOK, Items
  <2>a. \A y \in cur[p] : y.topic \in Topics
    BY DEF TypeOK, Items
  <2> DEFINE row(y) == [id |-> lastTrend + 1, topic |-> y.topic, used |-> FALSE,
                        age |-> days[p], lag |-> days[p], by |-> p]
  <2>d. \A y \in cur[p] : row(y) \in TrendRows
    BY <2>a DEF TypeOK, TrendRows
  <2>e. trends' = trends \cup {row(y) : y \in cur[p]}
    BY <1>3 DEF Insert
  <2>f. trends \subseteq TrendRows
    BY DEF TypeOK, TrendRows
  <2>5. trends' \subseteq TrendRows
    <3> HIDE DEF row
    <3> QED BY <2>d, <2>e, <2>f
  <2>b. cur' \in [Procs -> SUBSET Items] /\ Single'
    BY <1>3, NoItem DEF Insert
  <2>c. older' \subseteq 1..lastTrend' /\ pc' \in [Procs -> Places]
    BY <1>3, <2>1 DEF Insert, TypeOK, Places
  <2>g. todo' \in [Procs -> SUBSET Items] /\ tries' \in [Procs -> 0..ATTEMPTS]
    BY <1>3 DEF Insert, TypeOK
  <2>h. made' \in [Procs -> Nat] /\ days' \in [Procs -> 0..DELAY] /\ lastTrend' \in Nat
    BY <1>3, <2>1 DEF Insert, TypeOK
  <2>6. TypeOK'
    BY <2>2, <2>4, <2>5, <2>b, <2>c, <2>g, <2>h DEF TypeOK, TrendRows
  <2>7. Known'
    BY <1>3, <2>1 DEF Insert, Known, TypeOK
  <2>8. Single' /\ Tried'
    BY <1>3, <2>b DEF Insert, Tried, TypeOK
  <2> QED BY <2>6, <2>7, <2>8
<1> QED BY <1>1, <1>2, <1>3

LEMMA AgainTyped ==
  ASSUME TInv, NEW p \in Procs, pc[p] \in {"write", "stored"}, Again(p)
  PROVE  /\ tries' \in [Procs -> 0..ATTEMPTS]
         /\ pc' \in [Procs -> Places]
         /\ cur' \in [Procs -> SUBSET Items]
         /\ Tried' /\ Single'
<1> USE BoundsAssumption, DelayAssumption DEF TInv, Again, Leave, Goto, At
<1>1. tries[p] < ATTEMPTS
  BY DEF Tried
<1>2. tries' \in [Procs -> 0..ATTEMPTS]
  BY <1>1 DEF TypeOK
<1>3. pc' \in [Procs -> Places]
  BY DEF TypeOK, Places
<1>4. Tried'
  BY <1>1 DEF Tried, TypeOK
<1>5. cur' \in [Procs -> SUBSET Items] /\ Single'
  BY NoItem
<1> QED BY <1>2, <1>3, <1>4, <1>5

LEMMA GenerationTInv ==
  ASSUME TInv, NEW p \in Procs,
         \/ BeginGeneration(p) \/ NextTrend(p) \/ CheckTopic(p) \/ WriteFails(p)
         \/ StoreScript(p) \/ ReadScriptId(p)
  PROVE  TInv'
<1> USE BoundsAssumption, DelayAssumption DEF TInv, Goto, At, Drop, Leave, tables, scripts
<1>1. CASE BeginGeneration(p)
  <2>1. Available \in SUBSET Items
    BY DEF Available, Items, TypeOK
  <2>2. TypeOK'
    BY <1>1, <2>1 DEF BeginGeneration, TypeOK, Places
  <2>3. Single' /\ Known'
    BY <1>1 DEF BeginGeneration, Single, Known
  <2>4. Tried'
    BY <1>1 DEF BeginGeneration, Tried, TypeOK
  <2> QED BY <2>2, <2>3, <2>4
<1>2. CASE NextTrend(p)
  <2>1. PICK x \in todo[p] :
           /\ todo' = [todo EXCEPT ![p] = @ \ {x}]
           /\ \/ UNCHANGED <<pc, cur>>
              \/ pc' = [pc EXCEPT ![p] = "check"] /\ cur' = [cur EXCEPT ![p] = {x}]
    BY <1>2 DEF NextTrend
  <2>2. pc' \in [Procs -> Places]
    BY <2>1 DEF TypeOK, Places
  <2>3. todo' \in [Procs -> SUBSET Items] /\ tries' \in [Procs -> 0..ATTEMPTS]
    BY <1>2, <2>1 DEF NextTrend, TypeOK
  <2>5. cur' \in [Procs -> SUBSET Items] /\ Single'
    BY <2>1, NextItem
  <2>4. TypeOK' /\ Known'
    BY <1>2, <2>2, <2>3, <2>5 DEF NextTrend, TypeOK, Known
  <2>6. Tried'
    BY <1>2, <2>1 DEF NextTrend, Tried, TypeOK
  <2> QED BY <2>4, <2>5, <2>6
<1>3. CASE CheckTopic(p)
  <2>2. cur' \in [Procs -> SUBSET Items] /\ Single'
    BY <1>3, NoItem DEF CheckTopic
  <2>1. TypeOK' /\ Known'
    BY <1>3, <2>2 DEF CheckTopic, TypeOK, Known, Places
  <2>3. Tried'
    BY <1>3 DEF CheckTopic, Tried, TypeOK
  <2> QED BY <2>1, <2>2, <2>3
<1>4. CASE WriteFails(p)
  BY <1>4, AgainTyped DEF WriteFails, Known, TypeOK
<1>5. CASE StoreScript(p)
  <2>1. PICK x \in cur[p] : Referable(x.id) /\ recent' = [recent EXCEPT ![x.id] = @ + 1]
    BY <1>5 DEF StoreScript
  <2>a. x.id \in 1..lastTrend
    BY <2>1 DEF Referable, Known
  <2>2. recent' \in [1..lastTrend -> Nat]
    BY <2>1, <2>a DEF TypeOK
  <2>3. TypeOK'
    BY <1>5, <2>2 DEF StoreScript, TypeOK, Places
  <2>4. Single' /\ Known'
    BY <1>5 DEF StoreScript, Single, Known
  <2>5. Tried'
    BY <1>5 DEF StoreScript, Tried, TypeOK
  <2> QED BY <2>3, <2>4, <2>5
<1>6. CASE ReadScriptId(p)
  <2>1. CASE pc' = [pc EXCEPT ![p] = "finish"] /\ UNCHANGED <<cur, tries>>
    <3>1. TypeOK' /\ Single' /\ Known'
      BY <1>6, <2>1 DEF ReadScriptId, Single, Known, TypeOK, Places
    <3>2. Tried'
      BY <2>1 DEF Tried, TypeOK
    <3> QED BY <3>1, <3>2
  <2>2. CASE Again(p)
    BY <1>6, <2>2, AgainTyped DEF ReadScriptId, Known, TypeOK
  <2> QED BY <1>6, <2>1, <2>2 DEF ReadScriptId
<1> QED BY <1>1, <1>2, <1>3, <1>4, <1>5, <1>6

LEMMA FinishTInv ==
  ASSUME TInv, NEW p \in Procs, Finish(p) \/ ConsumeRead(p) \/ ConsumeMark(p)
  PROVE  TInv'
<1> USE BoundsAssumption, DelayAssumption DEF TInv, Goto, At, Leave, tables, scripts
<1>1. CASE Finish(p)
  <2>2. cur' \in [Procs -> SUBSET Items] /\ Single'
    BY <1>1, NoItem DEF Finish
  <2>3. pc' \in [Procs -> Places]
    BY <1>1 DEF Finish, TypeOK, Places
  <2>4. made' = made \/ made' = [made EXCEPT ![p] = @ + 1]
    BY <1>1 DEF Finish
  <2>a. made \in [Procs -> Nat]
    BY DEF TypeOK
  <2>5. made' \in [Procs -> Nat]
    BY <2>4, <2>a
  <2>1. TypeOK' /\ Known'
    BY <1>1, <2>2, <2>3, <2>5 DEF Finish, TypeOK, Known
  <2>6. Tried'
    BY <1>1 DEF Finish, Tried, TypeOK
  <2> QED BY <2>1, <2>2, <2>6
<1>2. CASE ConsumeRead(p)
  <2>2. cur' \in [Procs -> SUBSET Items] /\ Single'
    BY <1>2, NoItem DEF ConsumeRead
  <2>1. TypeOK' /\ Known'
    BY <1>2, <2>2 DEF ConsumeRead, TypeOK, Known, Places
  <2>3. Tried'
    BY <1>2 DEF ConsumeRead, Tried, TypeOK
  <2> QED BY <2>1, <2>2, <2>3
<1>3. CASE ConsumeMark(p)
  <2>0. \A t \in TrendRows : Marked(t, p) \in TrendRows
    BY DEF Marked, TrendRows
  <2>1. trends' \subseteq TrendRows
    BY <1>3, <2>0 DEF ConsumeMark, TypeOK, TrendRows
  <2>4. cur' \in [Procs -> SUBSET Items] /\ Single'
    BY <1>3, NoItem DEF ConsumeMark
  <2>2. TypeOK'
    <3>1. pc' \in [Procs -> Places]
      BY <1>3 DEF ConsumeMark, TypeOK, Places
    <3> QED BY <1>3, <2>1, <2>4, <3>1 DEF ConsumeMark, TypeOK, TrendRows
  <2>3. Known'
    <3>1. \A t \in trends : Marked(t, p).id = t.id
      BY DEF Marked, TypeOK
    <3> QED BY <1>3, <3>1 DEF ConsumeMark, Known
  <2>5. Tried'
    BY <1>3 DEF ConsumeMark, Tried, TypeOK
  <2> QED BY <2>2, <2>3, <2>4, <2>5
<1> QED BY <1>1, <1>2, <1>3

LEMMA AroundTInv ==
  ASSUME TInv, Day \/ Age \/ Cleanup
  PROVE  TInv'
<1> USE BoundsAssumption, DelayAssumption DEF TInv
<1>1. CASE Day
  <2>0. trends \subseteq TrendRows /\ days \in [Procs -> 0..DELAY] /\ DELAY \in Nat
    BY DelayAssumption DEF TypeOK, TrendRows
  <2>1. trends' \subseteq TrendRows
    <3>1. \A t \in TrendRows : Aged(t) \in TrendRows
      BY DEF Aged, TrendRows
    <3> QED BY <1>1, <2>0, <3>1 DEF Day
  <2>2. days' \in [Procs -> 0..DELAY]
    <3>1. ASSUME NEW q \in Procs
          PROVE  (IF Scanning(q) THEN days[q] + 1 ELSE days[q]) \in 0..DELAY
      BY <1>1, <2>0 DEF Day
    <3> QED BY <1>1, <3>1 DEF Day
  <2>3. TypeOK'
    BY <1>1, <2>1, <2>2 DEF Day, TypeOK, scripts, TrendRows
  <2>4. Known'
    <3>1. \A t \in trends : Aged(t).id = t.id
      BY <2>0 DEF Aged, TrendRows
    <3> QED BY <1>1, <3>1 DEF Day, Known
  <2> QED BY <1>1, <2>3, <2>4 DEF Day, Single, Tried
<1>2. CASE Age
  <2>1. TypeOK'
    BY <1>2 DEF Age, TypeOK
  <2> QED BY <1>2, <2>1 DEF Age, Single, Tried, Known
<1>3. CASE Cleanup
  <2>1. TypeOK'
    BY <1>3 DEF Cleanup, TypeOK, scripts
  <2> QED BY <1>3, <2>1 DEF Cleanup, Single, Tried, Known
<1> QED BY <1>1, <1>2, <1>3

\* Which step a step of Next is.
LEMMA NextSteps ==
  ASSUME Next
  PROVE  \/ \E p \in Procs :
               \/ BeginScan(p) \/ Look(p) \/ Insert(p)
               \/ BeginGeneration(p) \/ NextTrend(p) \/ CheckTopic(p) \/ WriteFails(p)
               \/ StoreScript(p) \/ ReadScriptId(p)
               \/ Finish(p) \/ ConsumeRead(p) \/ ConsumeMark(p)
               \/ Rest(p)
         \/ Day \/ Age \/ Cleanup
BY DEF Next, Step, ScanStep, GenerationStep, EndScan, EndGeneration, Crash

LEMMA StepTInv == TInv /\ [Next]_vars => TInv'
<1> SUFFICES ASSUME TInv, [Next]_vars PROVE TInv'
  OBVIOUS
<1>1. CASE UNCHANGED vars
  BY <1>1 DEF TInv, TypeOK, Single, Tried, Known, vars, tables, scripts
<1>2. CASE Next
  BY <1>2, NextSteps, ScanTInv, GenerationTInv, FinishTInv, RestTInv, AroundTInv
<1> QED BY <1>1, <1>2

\* The tables, the processes' places and their items keep their types, and no
\* script has more attempts than there are.
THEOREM TypeCorrect == Spec => []TypeOK
<1>1. TInv => TypeOK
  BY DEF TInv
<1> QED BY <1>1, InitTInv, StepTInv, PTL DEF Spec
-----------------------------------------------------------------------------
\* What a generation is about to consume has its script already.
Scripted ==
    \A p \in Procs : pc[p] \in {"stored", "finish", "consume", "mark"} =>
        \A x \in cur[p] : x.id \in 1..lastTrend /\ HasScript(x.id)

\* The inductive invariant of UsedHasScript.
SInv == TInv /\ UsedHasScript /\ Scripted

\* Scripts grow older, and nothing else takes one away.
Lasting == \A id \in 1..lastTrend : HasScript(id) => HasScript(id)'
LEMMA InitSInv == Init => SInv
BY InitTInv DEF Init, SInv, UsedHasScript, Scripted

\* The scripts are the same or fewer are recent and more are older.
LEMMA SameScripts ==
  ASSUME UNCHANGED scripts
  PROVE  \A id : HasScript(id) <=> HasScript(id)'
BY DEF scripts, HasScript

\* A step that leaves trends and scripts alone keeps both parts when it brings no
\* process with an item into the places of Scripted.
LEMMA KeptSInv ==
  ASSUME SInv, NEW p \in Procs, UNCHANGED tables,
         \A q \in Procs : q # p => pc'[q] = pc[q] /\ cur'[q] = cur[q],
         \/ pc'[p] \notin {"stored", "finish", "consume", "mark"}
         \/ cur'[p] = {}
         \/ /\ cur'[p] = cur[p]
            /\ pc[p] \in {"stored", "finish", "consume", "mark"}
  PROVE  UsedHasScript' /\ Scripted'
<1>1. UsedHasScript'
  BY SameScripts DEF SInv, UsedHasScript, tables
<1>2. Scripted'
  BY SameScripts DEF SInv, Scripted, tables
<1> QED BY <1>1, <1>2

LEMMA QuietSInv ==
  ASSUME SInv, NEW p \in Procs,
         \/ BeginScan(p) \/ Look(p) \/ BeginGeneration(p) \/ NextTrend(p) \/ CheckTopic(p)
         \/ WriteFails(p) \/ ReadScriptId(p) \/ Finish(p) \/ ConsumeRead(p) \/ Rest(p)
  PROVE  UsedHasScript' /\ Scripted'
<1> USE DEF Goto, At, Leave, Again
<1>t. pc \in [Procs -> Places] /\ cur \in [Procs -> SUBSET Items]
  BY DEF SInv, TInv, TypeOK
<1>1. UNCHANGED tables
  BY DEF tables, BeginScan, Look, BeginGeneration, NextTrend, CheckTopic, WriteFails, ReadScriptId,
         Finish, ConsumeRead, Rest
<1>2. \A q \in Procs : q # p => pc'[q] = pc[q]
  BY <1>t DEF BeginScan, Look, BeginGeneration, NextTrend, CheckTopic, WriteFails, ReadScriptId,
              Finish, ConsumeRead, Rest
<1>3. \A q \in Procs : q # p => cur'[q] = cur[q]
  BY <1>t DEF BeginScan, Look, BeginGeneration, NextTrend, CheckTopic, WriteFails, ReadScriptId,
              Finish, ConsumeRead, Rest
<1>4. \/ pc'[p] \notin {"stored", "finish", "consume", "mark"}
      \/ cur'[p] = {}
      \/ /\ cur'[p] = cur[p]
         /\ pc[p] \in {"stored", "finish", "consume", "mark"}
  <2>1. CASE BeginScan(p) \/ Look(p) \/ BeginGeneration(p) \/ NextTrend(p)
    BY <1>t, <2>1 DEF BeginScan, Look, BeginGeneration, NextTrend
  <2>2. CASE CheckTopic(p) \/ WriteFails(p) \/ Rest(p)
    BY <1>t, <2>2 DEF CheckTopic, WriteFails, Rest
  <2>3. CASE ReadScriptId(p) \/ Finish(p) \/ ConsumeRead(p)
    BY <1>t, <2>3 DEF ReadScriptId, Finish, ConsumeRead
  <2> QED BY <2>1, <2>2, <2>3
<1> QED BY <1>1, <1>2, <1>3, <1>4, KeptSInv

LEMMA InsertSInv ==
  ASSUME SInv, NEW p \in Procs, Insert(p)
  PROVE  UsedHasScript' /\ Scripted'
<1> USE DEF SInv, TInv
<1>1. \A id \in 1..lastTrend : id \in DOMAIN recent /\ recent'[id] = recent[id]
  BY DEF Insert, TypeOK
<1>2. \A id \in 1..lastTrend : HasScript(id) => HasScript(id)'
  BY <1>1 DEF Insert, HasScript
<1>3. UsedHasScript'
  BY <1>2 DEF Insert, UsedHasScript, Known
<1>4. lastTrend' = lastTrend + 1 /\ 1..lastTrend \subseteq 1..lastTrend'
  BY DEF Insert, TypeOK
<1>5. \A q \in Procs : q # p => pc'[q] = pc[q] /\ cur'[q] = cur[q]
  BY DEF Insert, Goto, At, TypeOK
<1>6. pc'[p] = "look"
  BY DEF Insert, Goto, TypeOK
<1>7. Scripted'
  BY <1>2, <1>4, <1>5, <1>6 DEF Scripted
<1> QED BY <1>3, <1>7

LEMMA StoreSInv ==
  ASSUME SInv, NEW p \in Procs, StoreScript(p)
  PROVE  UsedHasScript' /\ Scripted'
<1> USE DEF SInv, TInv
<1>1. PICK x \in cur[p] : Referable(x.id) /\ recent' = [recent EXCEPT ![x.id] = @ + 1]
  BY DEF StoreScript
<1>2. x.id \in 1..lastTrend
  BY <1>1 DEF Referable, Known
<1>3. UNCHANGED <<trends, lastTrend, older, cur>>
  BY DEF StoreScript
<1>4. \A id \in 1..lastTrend : HasScript(id) => HasScript(id)'
  BY <1>1, <1>2, <1>3 DEF HasScript, TypeOK
<1>5. HasScript(x.id)'
  BY <1>1, <1>2 DEF HasScript, TypeOK
<1>6. UsedHasScript'
  BY <1>3, <1>4 DEF UsedHasScript, Known
<1>7. \A q \in Procs : q # p => pc'[q] = pc[q]
  BY DEF StoreScript, Goto, TypeOK
<1>8. \A y \in cur[p] : y = x
  BY DEF Single
<1>9. Scripted'
  BY <1>2, <1>3, <1>4, <1>5, <1>7, <1>8 DEF Scripted
<1> QED BY <1>6, <1>9

LEMMA MarkSInv ==
  ASSUME SInv, NEW p \in Procs, ConsumeMark(p)
  PROVE  UsedHasScript' /\ Scripted'
<1> USE DEF SInv, TInv
<1>1. \A id : HasScript(id) <=> HasScript(id)'
  BY SameScripts DEF ConsumeMark
<1>2. \A x \in cur[p] : HasScript(x.id)
  BY DEF ConsumeMark, Scripted
<1>3. \A t \in trends : Marked(t, p).used => HasScript(t.id)
  BY <1>2 DEF Marked, UsedHasScript
<1>4. \A t \in trends : Marked(t, p).id = t.id
  BY DEF Marked, TypeOK
<1>5. UsedHasScript'
  BY <1>1, <1>3, <1>4 DEF ConsumeMark, UsedHasScript
<1>6. \A q \in Procs : q # p => pc'[q] = pc[q] /\ cur'[q] = cur[q]
  BY DEF ConsumeMark, Leave, Goto, At, TypeOK
<1>7. pc'[p] = "next" /\ lastTrend' = lastTrend
  BY DEF ConsumeMark, Leave, Goto, TypeOK
<1>8. Scripted'
  BY <1>1, <1>6, <1>7 DEF Scripted
<1> QED BY <1>5, <1>8

LEMMA AroundSInv ==
  ASSUME SInv, Day \/ Age \/ Cleanup
  PROVE  UsedHasScript' /\ Scripted'
<1> USE DEF SInv, TInv
<1>1. UNCHANGED <<lastTrend, pc, cur>>
  BY DEF Day, Age, Cleanup
<1>2. \A id \in 1..lastTrend : HasScript(id) => HasScript(id)'
  <2>1. CASE Day \/ Cleanup
    BY <2>1, SameScripts DEF Day, Cleanup
  <2>2. CASE Age
    BY <2>2 DEF Age, HasScript, TypeOK
  <2> QED BY <2>1, <2>2
<1>3. Scripted'
  BY <1>1, <1>2 DEF Scripted
<1>4. \A t \in trends' : \E u \in trends : u.id = t.id /\ u.used = t.used
  <2>1. \A t \in trends : Aged(t).id = t.id /\ Aged(t).used = t.used
    BY DEF Aged, TypeOK
  <2> QED BY <2>1 DEF Day, Age, Cleanup
<1>5. UsedHasScript'
  BY <1>2, <1>4 DEF UsedHasScript, Known
<1> QED BY <1>3, <1>5

LEMMA StepSInv == SInv /\ [Next]_vars => SInv'
<1> SUFFICES ASSUME SInv, [Next]_vars PROVE SInv'
  OBVIOUS
<1>1. TInv'
  BY StepTInv DEF SInv
<1>2. CASE UNCHANGED vars
  BY <1>1, <1>2, SameScripts DEF SInv, UsedHasScript, Scripted, vars, tables
<1>3. CASE Next
  BY <1>1, <1>3, NextSteps, QuietSInv, InsertSInv, StoreSInv, MarkSInv, AroundSInv DEF SInv
<1> QED BY <1>2, <1>3

\* A used trend has a script that refers to it, whichever generations overlap and
\* wherever they fail or die.
THEOREM UsedAlwaysHasScript == Spec => []UsedHasScript
<1>1. SInv => UsedHasScript
  BY DEF SInv
<1> QED BY <1>1, InitSInv, StepSInv, PTL DEF Spec
-----------------------------------------------------------------------------
\* A process that is about to insert a row of a topic has found its own rows of it
\* old, if there are any.
Found ==
    \A p \in Procs : pc[p] = "insert" =>
        \A x \in cur[p], t \in trends : t.topic = x.topic /\ t.by = p => Old(t)

\* So the first of two such rows was old when the second was stored: that is
\* u.age - u.lag days ago.
Apart ==
    \A t, u \in trends :
        t.topic = u.topic /\ t.by = u.by /\ t.id < u.id =>
            Expired(t) \/ t.age >= EXPIRY + u.age - u.lag

\* Rows have ids of their own and are stored after they are discovered.
Distinct == \A t, u \in trends : t.id = u.id => t = u

Dated == \A t \in trends : t.lag <= t.age

\* The inductive invariant of RowsBounded.
RInv == TInv /\ Found /\ Apart /\ Distinct /\ Dated

LEMMA InitRInv == Init => RInv
BY InitTInv DEF Init, RInv, Found, Apart, Distinct, Dated

\* Steps that leave the rows alone and bring nobody to inserting.
LEMMA SameRows ==
  ASSUME RInv, UNCHANGED trends,
         \A q \in Procs : pc'[q] # "insert" \/ (pc[q] = "insert" /\ cur'[q] = cur[q])
  PROVE  Found' /\ Apart' /\ Distinct' /\ Dated'
<1>1. Found'
  BY DEF RInv, Found, Old
<1> QED BY <1>1 DEF RInv, Apart, Distinct, Dated, Expired

LEMMA LookRows ==
  ASSUME RInv, NEW p \in Procs, Look(p)
  PROVE  Found' /\ Apart' /\ Distinct' /\ Dated'
<1>t. pc \in [Procs -> Places] /\ cur \in [Procs -> SUBSET Items]
  BY DEF RInv, TInv, TypeOK
<1>1. UNCHANGED trends
  BY DEF Look, tables
<1>2. PICK x \in todo[p] :
         \/ UNCHANGED <<pc, cur>>
         \/ /\ ~Stored(x.topic)
            /\ pc' = [pc EXCEPT ![p] = "insert"] /\ cur' = [cur EXCEPT ![p] = {x}]
  BY DEF Look, Goto, At
<1>3. ASSUME NEW q \in Procs, pc'[q] = "insert", NEW y \in cur'[q], NEW t \in trends,
             t.topic = y.topic, t.by = q
      PROVE  Old(t)
  <2>1. CASE pc[q] = "insert" /\ cur'[q] = cur[q]
    BY <1>3, <2>1 DEF RInv, Found
  <2>2. CASE ~(pc[q] = "insert" /\ cur'[q] = cur[q])
    <3>1. q = p /\ cur'[p] = {x} /\ ~Stored(x.topic)
      BY <1>t, <1>2, <1>3, <2>2
    <3> QED BY <1>3, <3>1 DEF Stored
  <2> QED BY <2>1, <2>2
<1>4. Found'
  BY <1>1, <1>3 DEF Found, Old
<1> QED BY <1>1, <1>4 DEF RInv, Apart, Distinct, Dated, Expired

LEMMA InsertRows ==
  ASSUME RInv, NEW p \in Procs, Insert(p)
  PROVE  Found' /\ Apart' /\ Distinct' /\ Dated'
<1>t. /\ pc \in [Procs -> Places] /\ cur \in [Procs -> SUBSET Items] /\ trends \subseteq TrendRows
      /\ lastTrend \in Nat /\ days[p] \in Nat /\ EXPIRY \in Nat
  BY BoundsAssumption, DelayAssumption DEF RInv, TInv, TypeOK, TrendRows
<1>1. PICK z \in cur[p] : \A y \in cur[p] : y = z
  BY DEF RInv, TInv, Single, Insert
<1> DEFINE row == [id |-> lastTrend + 1, topic |-> z.topic, used |-> FALSE,
                   age |-> days[p], lag |-> days[p], by |-> p]
<1>2. trends' = trends \cup {row}
  <2>1. cur[p] = {z}
    BY <1>1
  <2> QED BY <2>1 DEF Insert
<1>3. pc[p] = "insert" /\ pc' = [pc EXCEPT ![p] = "look"] /\ cur' = [cur EXCEPT ![p] = {}]
  BY DEF Insert, Goto, At
<1>4. /\ row.id = lastTrend + 1 /\ row.topic = z.topic /\ row.by = p
      /\ row.age = days[p] /\ row.lag = days[p]
  OBVIOUS
<1> HIDE DEF row
<1>5. \A t \in trends : t.id \in 1..lastTrend
  BY DEF RInv, TInv, Known
<1>6. \A t \in trends : t.id # row.id /\ ~(row.id < t.id)
  BY <1>t, <1>4, <1>5
<1>7. Distinct' /\ Dated'
  BY <1>t, <1>2, <1>4, <1>6 DEF RInv, Distinct, Dated
<1>8. Found'
  <2> SUFFICES ASSUME NEW q \in Procs, pc'[q] = "insert", NEW x \in cur'[q], NEW t \in trends',
                      t.topic = x.topic, t.by = q
               PROVE  Old(t)
    BY DEF Found, Old
  <2>1. q # p /\ pc[q] = "insert" /\ cur'[q] = cur[q]
    BY <1>t, <1>3
  <2>2. t \in trends
    BY <1>2, <1>4, <2>1
  <2> QED BY <2>1, <2>2 DEF RInv, Found
<1>9. Apart'
  <2> SUFFICES ASSUME NEW t \in trends', NEW u \in trends',
                      t.topic = u.topic, t.by = u.by, t.id < u.id
               PROVE  Expired(t) \/ t.age >= EXPIRY + u.age - u.lag
    BY DEF Apart, Expired
  <2>1. t \in trends
    BY <1>2, <1>4, <1>6, <1>t
  <2>2. CASE u \in trends
    BY <2>1, <2>2 DEF RInv, Apart
  <2>3. CASE u = row
    <3>1. Old(t)
      BY <1>1, <1>3, <1>4, <2>1, <2>3 DEF RInv, Found
    <3> QED BY <1>t, <1>4, <2>3, <3>1 DEF Old
  <2> QED BY <1>2, <2>2, <2>3
<1> QED BY <1>7, <1>8, <1>9

\* The UPDATE changes rows one by one.
LEMMA MarkRows ==
  ASSUME RInv, NEW p \in Procs, ConsumeMark(p)
  PROVE  Found' /\ Apart' /\ Distinct' /\ Dated'
<1>t. pc \in [Procs -> Places] /\ cur \in [Procs -> SUBSET Items] /\ trends \subseteq TrendRows
  BY DEF RInv, TInv, TypeOK, TrendRows
<1>1. \A t \in trends : /\ Marked(t, p).id = t.id /\ Marked(t, p).topic = t.topic
                        /\ Marked(t, p).by = t.by /\ Marked(t, p).age = t.age
                        /\ Marked(t, p).lag = t.lag
  BY <1>t DEF Marked, TrendRows
<1>2. trends' = {Marked(t, p) : t \in trends}
  BY DEF ConsumeMark
<1>3. \A q \in Procs : pc'[q] = "insert" => pc[q] = "insert" /\ cur'[q] = cur[q]
  BY <1>t DEF ConsumeMark, Leave, Goto, At
<1>4. Found'
  BY <1>1, <1>2, <1>3 DEF RInv, Found, Old
<1>5. Apart'
  BY <1>1, <1>2 DEF RInv, Apart, Expired
<1>6. Distinct'
  <2> SUFFICES ASSUME NEW t \in trends, NEW u \in trends, Marked(t, p).id = Marked(u, p).id
               PROVE  Marked(t, p) = Marked(u, p)
    BY <1>2 DEF Distinct
  <2>1. t = u
    BY <1>1 DEF RInv, Distinct
  <2> QED BY <2>1
<1>7. Dated'
  BY <1>1, <1>2 DEF RInv, Dated
<1> QED BY <1>4, <1>5, <1>6, <1>7

\* A day more on a row that has not expired, and the same row otherwise.
LEMMA DayRows ==
  ASSUME RInv, Day
  PROVE  Found' /\ Apart' /\ Distinct' /\ Dated'
<1>t. trends \subseteq TrendRows /\ EXPIRY \in Nat /\ DELAY \in Nat
  BY BoundsAssumption, DelayAssumption DEF RInv, TInv, TypeOK, TrendRows
<1>1. \A t \in trends : /\ Aged(t).id = t.id /\ Aged(t).topic = t.topic
                        /\ Aged(t).by = t.by /\ Aged(t).lag = t.lag
                        /\ t.age \in Nat /\ t.lag \in Nat
  BY <1>t DEF Aged, TrendRows
<1>2. \A t \in trends : \/ Expired(t) /\ Aged(t).age = t.age
                        \/ ~Expired(t) /\ Aged(t).age = t.age + 1
  BY <1>t DEF Aged, TrendRows
<1>3. trends' = {Aged(t) : t \in trends} /\ UNCHANGED <<pc, cur>>
  BY DEF Day
<1>4. Found'
  <2>1. \A t \in trends : Old(t) => Old(Aged(t))
    BY <1>t, <1>1, <1>2 DEF Old
  <2> QED BY <1>1, <1>3, <2>1 DEF RInv, Found, Old
<1>5. Apart'
  <2> SUFFICES ASSUME NEW t \in trends, NEW u \in trends,
                      t.topic = u.topic, t.by = u.by, t.id < u.id
               PROVE  \/ Expired(Aged(t))
                      \/ Aged(t).age >= EXPIRY + Aged(u).age - Aged(u).lag
    BY <1>1, <1>3 DEF Apart, Expired
  <2>1. Expired(t) \/ t.age >= EXPIRY + u.age - u.lag
    BY DEF RInv, Apart
  <2>2. CASE Expired(t)
    BY <1>1, <1>2, <2>2 DEF Expired
  <2>3. CASE ~Expired(t)
    <3>1. Aged(t).age = t.age + 1 /\ Aged(u).age \in {u.age, u.age + 1} /\ Aged(u).lag = u.lag
      BY <1>1, <1>2, <2>3
    <3>2. t.age \in Nat /\ u.age \in Nat /\ u.lag \in Nat
      BY <1>1
    <3> QED BY <1>t, <2>1, <2>3, <3>1, <3>2
  <2> QED BY <2>2, <2>3
<1>6. Distinct'
  <2> SUFFICES ASSUME NEW t \in trends, NEW u \in trends, Aged(t).id = Aged(u).id
               PROVE  Aged(t) = Aged(u)
    BY <1>3 DEF Distinct
  <2>1. t = u
    BY <1>1 DEF RInv, Distinct
  <2> QED BY <2>1
<1>7. Dated'
  <2> SUFFICES ASSUME NEW t \in trends PROVE Aged(t).lag <= Aged(t).age
    BY <1>3 DEF Dated
  <2> QED BY <1>1, <1>2 DEF RInv, Dated
<1> QED BY <1>4, <1>5, <1>6, <1>7

LEMMA QuietRows ==
  ASSUME RInv, NEW p \in Procs,
         \/ BeginScan(p) \/ BeginGeneration(p) \/ NextTrend(p) \/ CheckTopic(p)
         \/ WriteFails(p) \/ StoreScript(p) \/ ReadScriptId(p) \/ Finish(p) \/ ConsumeRead(p)
         \/ Rest(p)
  PROVE  Found' /\ Apart' /\ Distinct' /\ Dated'
<1>t. pc \in [Procs -> Places] /\ cur \in [Procs -> SUBSET Items]
  BY DEF RInv, TInv, TypeOK
<1>1. UNCHANGED trends
  BY DEF tables, BeginScan, BeginGeneration, NextTrend, CheckTopic, WriteFails, StoreScript,
         ReadScriptId, Finish, ConsumeRead, Rest
<1>2. \A q \in Procs : pc'[q] # "insert" \/ (pc[q] = "insert" /\ cur'[q] = cur[q])
  <2> USE <1>t DEF Goto, At, Leave, Again
  <2>1. CASE BeginScan(p) \/ BeginGeneration(p) \/ NextTrend(p) \/ CheckTopic(p) \/ Rest(p)
    BY <2>1 DEF BeginScan, BeginGeneration, NextTrend, CheckTopic, Rest
  <2>2. CASE WriteFails(p) \/ StoreScript(p) \/ ReadScriptId(p)
    BY <2>2 DEF WriteFails, StoreScript, ReadScriptId
  <2>3. CASE Finish(p) \/ ConsumeRead(p)
    BY <2>3 DEF Finish, ConsumeRead
  <2> QED BY <2>1, <2>2, <2>3
<1> QED BY <1>1, <1>2, SameRows

LEMMA AroundRows ==
  ASSUME RInv, Age \/ Cleanup
  PROVE  Found' /\ Apart' /\ Distinct' /\ Dated'
<1>1. trends' \subseteq trends /\ UNCHANGED <<pc, cur>>
  BY DEF Age, Cleanup
<1>2. Found' /\ Apart'
  BY <1>1 DEF RInv, Found, Apart, Old, Expired
<1> QED BY <1>1, <1>2 DEF RInv, Distinct, Dated

LEMMA StepRInv == RInv /\ [Next]_vars => RInv'
<1> SUFFICES ASSUME RInv, [Next]_vars PROVE RInv'
  OBVIOUS
<1>1. TInv'
  BY StepTInv DEF RInv
<1>2. CASE UNCHANGED vars
  <2>1. UNCHANGED <<trends, pc, cur>>
    BY <1>2 DEF vars, tables
  <2> QED BY <1>1, <2>1, SameRows DEF RInv
<1>3. CASE Next
  BY <1>1, <1>3, NextSteps, LookRows, InsertRows, MarkRows, DayRows, QuietRows, AroundRows DEF RInv
<1> QED BY <1>2, <1>3

\* Of a topic a process has at most one row discovered in the last seven days and
\* one before that has not expired, although it looks first and inserts later, looks
\* for one date and has the rows expire by the other.
THEOREM RowsAlwaysBounded == Spec => []RowsBounded
<1>1. RInv => RowsBounded
  <2> SUFFICES ASSUME RInv PROVE RowsBounded
    OBVIOUS
  <2>t. /\ \A t \in trends : t.age \in Nat /\ t.lag \in 0..DELAY /\ t.id \in Nat
        /\ EXPIRY \in Nat /\ DELAY \in Nat /\ 2 * DELAY <= EXPIRY
    BY BoundsAssumption, DelayAssumption DEF RInv, TInv, TypeOK
  <2>1. ASSUME NEW t \in trends, NEW u \in trends, t.topic = u.topic, t.by = u.by, t.id < u.id,
               ~Expired(t)
        PROVE  Old(t) /\ ~Old(u)
    <3>1. t.age >= EXPIRY + u.age - u.lag
      BY <2>1 DEF RInv, Apart
    <3>2. u.lag <= u.age
      BY DEF RInv, Dated
    <3>3. t.age < EXPIRY + t.lag
      BY <2>t, <2>1 DEF Expired
    <3> QED BY <2>t, <3>1, <3>2, <3>3 DEF Old
  <2> SUFFICES ASSUME NEW t \in trends, NEW u \in trends, ~Expired(t), ~Expired(u),
                      t.topic = u.topic, t.by = u.by, Old(t) <=> Old(u), t.id # u.id
               PROVE  FALSE
    BY DEF RowsBounded
  <2>2. t.id < u.id \/ u.id < t.id
    BY <2>t
  <2> QED BY <2>1, <2>2
<1> QED BY <1>1, InitRInv, StepRInv, PTL DEF Spec

-----------------------------------------------------------------------------
(* How often a topic is written about.                                      *)

\* An item that has an id has the topic of its trend, and so has every row.
Fits ==
    /\ \A p \in Procs : \A x \in cur[p] \cup todo[p] :
          x.id # 0 => x.id \in 1..lastTrend /\ topicOf[x.id] = x.topic
    /\ \A t \in trends : topicOf[t.id] = t.topic

\* A row with a script is there.
Held == \A id \in 1..lastTrend : HasScript(id) => Referable(id)

\* The attempts that processes which write on a topic have left to store a script.
Left(topic) ==
    {b \in Procs \X (1..ATTEMPTS) :
        /\ \E x \in cur[b[1]] : x.topic = topic
        /\ \/ pc[b[1]] = "write" /\ b[2] + tries[b[1]] <= ATTEMPTS
           \/ pc[b[1]] = "stored" /\ b[2] + tries[b[1]] < ATTEMPTS}

\* Scripts and attempts together are no more than the attempts of all: who begins
\* to write has found no script.
Budget(topic) ==
    /\ IsFiniteSet(ScriptsOn(topic))
    /\ Cardinality(ScriptsOn(topic)) + Cardinality(Left(topic)) <= Cardinality(Procs) * ATTEMPTS

\* The inductive invariant of RepeatsBounded.
BInv == TInv /\ Fits /\ Held /\ \A topic \in Topics : Budget(topic)

LEMMA LeftFinite ==
  ASSUME NEW L \in SUBSET (Procs \X (1..ATTEMPTS))
  PROVE  /\ IsFiniteSet(L) /\ Cardinality(L) \in Nat
         /\ Cardinality(L) <= Cardinality(Procs) * ATTEMPTS
<1>1. IsFiniteSet(1..ATTEMPTS) /\ Cardinality(1..ATTEMPTS) = ATTEMPTS
  BY FS_Interval, BoundsAssumption
<1>2. /\ IsFiniteSet(Procs \X (1..ATTEMPTS))
      /\ Cardinality(Procs \X (1..ATTEMPTS)) = Cardinality(Procs) * ATTEMPTS
  BY <1>1, ProcsAssumption, FS_Product
<1> QED BY <1>2, FS_Subset, FS_CardinalityType

LEMMA AllAttempts == Cardinality(Procs) * ATTEMPTS \in Nat
<1>1. {} \in SUBSET (Procs \X (1..ATTEMPTS))
  OBVIOUS
<1>2. Cardinality(Procs) \in Nat /\ ATTEMPTS \in Nat
  BY ProcsAssumption, BoundsAssumption, FS_CardinalityType
<1> QED BY <1>2

\* Where neither scripts nor attempts become more, the budget is kept.
LEMMA NoMoreScripts ==
  ASSUME NEW topic, Budget(topic), ScriptsOn(topic)' \subseteq ScriptsOn(topic),
         Left(topic)' \subseteq Left(topic)
  PROVE  Budget(topic)'
<1>1. Left(topic) \in SUBSET (Procs \X (1..ATTEMPTS))
  BY DEF Left
<1>2. IsFiniteSet(Left(topic)) /\ Cardinality(Left(topic)) \in Nat
  BY <1>1, LeftFinite
<1>3. /\ Cardinality(Left(topic)') \in Nat
      /\ Cardinality(Left(topic)') <= Cardinality(Left(topic))
  BY <1>2, FS_Subset, FS_CardinalityType
<1>4. IsFiniteSet(ScriptsOn(topic)) /\ Cardinality(ScriptsOn(topic)) \in Nat
  BY FS_CardinalityType DEF Budget
<1>5. /\ IsFiniteSet(ScriptsOn(topic)') /\ Cardinality(ScriptsOn(topic)') \in Nat
      /\ Cardinality(ScriptsOn(topic)') <= Cardinality(ScriptsOn(topic))
  BY <1>4, FS_Subset, FS_CardinalityType
<1> QED BY <1>2, <1>3, <1>4, <1>5, AllAttempts DEF Budget

LEMMA InitBInv == Init => BInv
<1> SUFFICES ASSUME Init PROVE BInv
  OBVIOUS
<1>1. Fits /\ Held
  BY DEF Init, Fits, Held
<1>2. ASSUME NEW topic \in Topics PROVE Budget(topic)
  <2>1. ScriptsOn(topic) = {} /\ Left(topic) = {}
    BY DEF Init, ScriptsOn, Left
  <2> QED BY <2>1, FS_EmptySet, AllAttempts DEF Budget
<1> QED BY <1>1, <1>2, InitTInv DEF BInv

\* A process that finds no script on its topic starts from none.
LEMMA CheckBudget ==
  ASSUME BInv, NEW p \in Procs, CheckTopic(p), NEW topic \in Topics
  PROVE  Budget(topic)'
<1>t. /\ pc \in [Procs -> Places] /\ cur \in [Procs -> SUBSET Items]
      /\ recent \in [1..lastTrend -> Nat]
  BY DEF BInv, TInv, TypeOK
<1>1. ScriptsOn(topic)' = ScriptsOn(topic) /\ UNCHANGED tries
  BY DEF CheckTopic, ScriptsOn, tables, scripts
<1>2. Budget(topic)
  BY DEF BInv
<1>3. CASE Leave(p) \/ \A x \in cur[p] : x.topic # topic
  <2>1. \A q \in Procs : q # p => pc'[q] = pc[q] /\ cur'[q] = cur[q]
    BY <1>t DEF CheckTopic, Leave, Goto, At
  <2>2. pc'[p] \notin {"write", "stored"} \/ \A x \in cur'[p] : x.topic # topic
    BY <1>3, <1>t DEF CheckTopic, Leave, Goto, At
  <2>3. Left(topic)' \subseteq Left(topic)
    BY <1>1, <2>1, <2>2 DEF Left
  <2> QED BY <1>1, <1>2, <2>3, NoMoreScripts
<1>4. CASE ~Leave(p) /\ \E x \in cur[p] : x.topic = topic
  <2>1. ~Written(topic)
    BY <1>4 DEF CheckTopic
  <2>2. ASSUME NEW id \in 1..lastTrend, topicOf[id] = topic, recent[id] > 0 PROVE FALSE
    <3>1. PICK t \in trends : t.id = id
      BY <2>2 DEF BInv, Held, HasScript, Referable
    <3>2. t.topic = topic
      BY <2>2, <3>1 DEF BInv, Fits
    <3>3. id \in RowsOn(topic)
      BY <3>1, <3>2 DEF RowsOn
    <3> QED BY <2>1, <2>2, <3>3 DEF Written
  <2>3. ScriptsOn(topic) = {}
    <3> SUFFICES ASSUME NEW id \in 1..lastTrend, topicOf[id] = topic, NEW k \in 1..recent[id]
                 PROVE  FALSE
      BY <1>t DEF ScriptsOn
    <3>1. recent[id] \in Nat
      BY <1>t
    <3> QED BY <2>2, <3>1
  <2>4. Left(topic)' \in SUBSET (Procs \X (1..ATTEMPTS))
    BY DEF Left
  <2>5. /\ Cardinality(Left(topic)') \in Nat
        /\ Cardinality(Left(topic)') <= Cardinality(Procs) * ATTEMPTS
    BY <2>4, LeftFinite
  <2> QED BY <1>1, <2>3, <2>5, FS_EmptySet, AllAttempts DEF Budget
<1> QED BY <1>3, <1>4

\* A script is stored by an attempt that was left for it.
LEMMA StoreBudget ==
  ASSUME BInv, NEW p \in Procs, StoreScript(p), NEW topic \in Topics
  PROVE  Budget(topic)'
<1>t. /\ pc \in [Procs -> Places] /\ cur \in [Procs -> SUBSET Items]
      /\ recent \in [1..lastTrend -> Nat] /\ tries \in [Procs -> 0..ATTEMPTS]
  BY DEF BInv, TInv, TypeOK
<1>1. PICK x \in cur[p] : Referable(x.id) /\ recent' = [recent EXCEPT ![x.id] = @ + 1]
  BY DEF StoreScript
<1>2. x.id \in 1..lastTrend /\ x.id # 0 /\ lastTrend \in Nat
  BY <1>1 DEF Referable, BInv, TInv, Known, TypeOK
<1>3. topicOf[x.id] = x.topic
  BY <1>2 DEF BInv, Fits
<1>4. UNCHANGED <<topicOf, cur, tries>> /\ pc[p] = "write" /\ pc' = [pc EXCEPT ![p] = "stored"]
  BY DEF StoreScript, Goto
<1>5. \A y \in cur[p] : y = x
  BY DEF BInv, TInv, Single
<1>6. Budget(topic)
  BY DEF BInv
<1>n. recent[x.id] \in Nat /\ recent'[x.id] = recent[x.id] + 1 /\ DOMAIN recent' = DOMAIN recent
  BY <1>t, <1>1, <1>2
<1>7. CASE x.topic # topic
  <2>1. ScriptsOn(topic)' \subseteq ScriptsOn(topic)
    BY <1>t, <1>1, <1>3, <1>4, <1>7 DEF ScriptsOn
  <2>2. Left(topic)' \subseteq Left(topic)
    BY <1>t, <1>4, <1>5, <1>7 DEF Left
  <2> QED BY <1>6, <2>1, <2>2, NoMoreScripts
<1>8. CASE x.topic = topic
  <2>1. PICK n \in Nat : n = ATTEMPTS - tries[p] /\ n \in 1..ATTEMPTS
    <3>1. tries[p] \in 0..ATTEMPTS /\ tries[p] < ATTEMPTS /\ ATTEMPTS \in Nat
      BY <1>t, <1>4, BoundsAssumption DEF BInv, TInv, Tried
    <3> QED BY <3>1
  <2> DEFINE attempt == <<p, n>>
             script == <<x.id, recent[x.id] + 1>>
  <2>2. attempt \in Left(topic)
    <3>1. pc[p] = "write" /\ n + tries[p] <= ATTEMPTS /\ \E y \in cur[p] : y.topic = topic
      BY <1>t, <1>4, <1>8, <2>1, BoundsAssumption
    <3> QED BY <2>1, <3>1 DEF Left
  <2>3. Left(topic)' \subseteq Left(topic) \ {attempt}
    <3> SUFFICES ASSUME NEW q \in Procs, NEW k \in 1..ATTEMPTS, <<q, k>> \in Left(topic)'
                 PROVE  <<q, k>> \in Left(topic) /\ <<q, k>> # attempt
      BY DEF Left
    <3>1. CASE q # p
      BY <1>t, <1>4, <3>1 DEF Left
    <3>2. CASE q = p
      <4>1. pc'[p] = "stored"
        BY <1>t, <1>4
      <4>2. k + tries[p] < ATTEMPTS
        BY <1>4, <3>2, <4>1 DEF Left
      <4>3. tries[p] \in Nat /\ ATTEMPTS \in Nat /\ k \in Nat
        BY <1>t, BoundsAssumption
      <4>4. k # n /\ k + tries[p] <= ATTEMPTS
        BY <2>1, <4>2, <4>3
      <4> QED BY <1>4, <1>8, <3>2, <4>4 DEF Left
    <3> QED BY <3>1, <3>2
  <2>4. ScriptsOn(topic)' \subseteq ScriptsOn(topic) \cup {script}
    <3> SUFFICES ASSUME NEW id \in DOMAIN recent, topicOf[id] = topic, NEW k \in 1..recent'[id]
                 PROVE  k \in 1..recent[id] \/ <<id, k>> = script
      BY <1>4, <1>n DEF ScriptsOn
    <3>1. CASE id # x.id
      BY <1>1, <1>t, <3>1
    <3>2. CASE id = x.id
      BY <1>n, <3>2
    <3> QED BY <3>1, <3>2
  <2> HIDE DEF attempt, script
  <2>5. IsFiniteSet(ScriptsOn(topic)) /\ Cardinality(ScriptsOn(topic)) \in Nat
    BY <1>6, FS_CardinalityType DEF Budget
  <2>6. /\ IsFiniteSet(ScriptsOn(topic) \cup {script})
        /\ Cardinality(ScriptsOn(topic) \cup {script})
              \in {Cardinality(ScriptsOn(topic)), Cardinality(ScriptsOn(topic)) + 1}
    BY <2>5, FS_AddElement
  <2>7. /\ IsFiniteSet(ScriptsOn(topic)') /\ Cardinality(ScriptsOn(topic)') \in Nat
        /\ Cardinality(ScriptsOn(topic)') <= Cardinality(ScriptsOn(topic)) + 1
    <3>1. /\ IsFiniteSet(ScriptsOn(topic)')
          /\ Cardinality(ScriptsOn(topic)') <= Cardinality(ScriptsOn(topic) \cup {script})
      BY <2>4, <2>6, FS_Subset
    <3>2. Cardinality(ScriptsOn(topic)') \in Nat
      BY <3>1, FS_CardinalityType
    <3> QED BY <2>5, <2>6, <3>1, <3>2
  <2>8. Left(topic) \in SUBSET (Procs \X (1..ATTEMPTS))
    BY DEF Left
  <2>9. IsFiniteSet(Left(topic)) /\ Cardinality(Left(topic)) \in Nat
    BY <2>8, LeftFinite
  <2>10. /\ IsFiniteSet(Left(topic) \ {attempt})
         /\ Cardinality(Left(topic) \ {attempt}) = Cardinality(Left(topic)) - 1
    BY <2>2, <2>9, FS_RemoveElement
  <2>11. /\ Cardinality(Left(topic)') \in Nat
         /\ Cardinality(Left(topic)') <= Cardinality(Left(topic)) - 1
    BY <2>3, <2>10, FS_Subset, FS_CardinalityType
  <2>12. Cardinality(ScriptsOn(topic)) + Cardinality(Left(topic)) <= Cardinality(Procs) * ATTEMPTS
    BY <1>6 DEF Budget
  <2>13. Cardinality(ScriptsOn(topic)') + Cardinality(Left(topic)') <= Cardinality(Procs) * ATTEMPTS
    BY <2>5, <2>7, <2>9, <2>11, <2>12, AllAttempts
  <2> QED BY <2>7, <2>13 DEF Budget
<1> QED BY <1>7, <1>8

\* An attempt that came to nothing, or that is repeated.
LEMMA AgainLeft ==
  ASSUME BInv, NEW p \in Procs, WriteFails(p) \/ ReadScriptId(p), NEW topic
  PROVE  Left(topic)' \subseteq Left(topic)
<1>t. /\ pc \in [Procs -> Places] /\ cur \in [Procs -> SUBSET Items]
      /\ tries \in [Procs -> 0..ATTEMPTS] /\ ATTEMPTS \in Nat
  BY BoundsAssumption DEF BInv, TInv, TypeOK
<1>1. \A q \in Procs : q # p => pc'[q] = pc[q] /\ cur'[q] = cur[q] /\ tries'[q] = tries[q]
  BY <1>t DEF WriteFails, ReadScriptId, Again, Leave, Goto, At
<1>2. \/ pc'[p] \notin {"write", "stored"}
      \/ /\ pc'[p] = "write" /\ cur'[p] = cur[p] /\ tries'[p] = tries[p] + 1
         /\ pc[p] \in {"write", "stored"}
  BY <1>t DEF WriteFails, ReadScriptId, Again, Leave, Goto, At
<1> SUFFICES ASSUME NEW q \in Procs, NEW k \in 1..ATTEMPTS, <<q, k>> \in Left(topic)'
             PROVE  <<q, k>> \in Left(topic)
  BY DEF Left
<1>3. CASE q # p
  BY <1>1, <1>3 DEF Left
<1>4. CASE q = p
  <2>1. /\ pc'[p] = "write" /\ cur'[p] = cur[p] /\ tries'[p] = tries[p] + 1
        /\ pc[p] \in {"write", "stored"}
    BY <1>2, <1>4 DEF Left
  <2>2. k + (tries[p] + 1) <= ATTEMPTS /\ \E x \in cur[p] : x.topic = topic
    BY <1>4, <2>1 DEF Left
  <2>3. tries[p] \in Nat /\ k \in Nat
    BY <1>t
  <2>4. k + tries[p] < ATTEMPTS /\ k + tries[p] <= ATTEMPTS
    BY <1>t, <2>2, <2>3
  <2> QED BY <1>4, <2>1, <2>2, <2>4 DEF Left
<1> QED BY <1>3, <1>4

\* The other steps of a process bring nobody to writing.
LEMMA OthersLeft ==
  ASSUME BInv, NEW p \in Procs,
         \/ BeginScan(p) \/ Look(p) \/ Insert(p) \/ BeginGeneration(p) \/ NextTrend(p)
         \/ Finish(p) \/ ConsumeRead(p) \/ ConsumeMark(p) \/ Rest(p),
         NEW topic
  PROVE  Left(topic)' \subseteq Left(topic)
<1> USE DEF Goto, At, Leave
<1>t. /\ pc \in [Procs -> Places] /\ cur \in [Procs -> SUBSET Items]
      /\ tries \in [Procs -> 0..ATTEMPTS]
  BY DEF BInv, TInv, TypeOK
<1>1. \A q \in Procs : q # p => pc'[q] = pc[q] /\ cur'[q] = cur[q] /\ tries'[q] = tries[q]
  <2>1. CASE BeginScan(p) \/ Look(p) \/ Insert(p)
    BY <1>t, <2>1 DEF BeginScan, Look, Insert
  <2>2. CASE BeginGeneration(p) \/ NextTrend(p) \/ Rest(p)
    BY <1>t, <2>2 DEF BeginGeneration, NextTrend, Rest
  <2>3. CASE Finish(p) \/ ConsumeRead(p) \/ ConsumeMark(p)
    BY <1>t, <2>3 DEF Finish, ConsumeRead, ConsumeMark
  <2> QED BY <2>1, <2>2, <2>3
<1>2. pc'[p] \notin {"write", "stored"}
  <2>1. CASE BeginScan(p) \/ Look(p) \/ Insert(p)
    BY <1>t, <2>1 DEF BeginScan, Look, Insert
  <2>2. CASE BeginGeneration(p) \/ NextTrend(p) \/ Rest(p)
    BY <1>t, <2>2 DEF BeginGeneration, NextTrend, Rest
  <2>3. CASE Finish(p) \/ ConsumeRead(p) \/ ConsumeMark(p)
    BY <1>t, <2>3 DEF Finish, ConsumeRead, ConsumeMark
  <2> QED BY <2>1, <2>2, <2>3
<1> QED BY <1>1, <1>2 DEF Left

\* The steps that store no script leave no more of them.
LEMMA NoNewScripts ==
  ASSUME BInv, NEW topic,
         \/ UNCHANGED <<recent, topicOf>>
         \/ \E p \in Procs : Insert(p)
         \/ Age
  PROVE  ScriptsOn(topic)' \subseteq ScriptsOn(topic)
<1>t. /\ recent \in [1..lastTrend -> Nat] /\ topicOf \in [1..lastTrend -> Topics]
      /\ lastTrend \in Nat
  BY DEF BInv, TInv, TypeOK
<1>1. CASE UNCHANGED <<recent, topicOf>>
  BY <1>1 DEF ScriptsOn
<1>2. CASE \E p \in Procs : Insert(p)
  <2>1. /\ \A id \in 1..lastTrend : recent'[id] = recent[id] /\ topicOf'[id] = topicOf[id]
        /\ DOMAIN recent' = 1..lastTrend + 1
    BY <1>t, <1>2 DEF Insert
  <2>2. recent'[lastTrend + 1] = 0
    BY <1>t, <1>2 DEF Insert
  <2>3. \A id \in DOMAIN recent' : id \in 1..lastTrend \/ id = lastTrend + 1
    BY <1>t, <2>1
  <2>4. 1..0 = {}
    OBVIOUS
  <2> QED BY <1>t, <2>1, <2>2, <2>3, <2>4 DEF ScriptsOn
<1>3. CASE Age
  <2>1. PICK id \in DOMAIN recent : recent[id] > 0 /\ recent' = [recent EXCEPT ![id] = @ - 1]
    BY <1>3 DEF Age
  <2>2. DOMAIN recent' = DOMAIN recent /\ UNCHANGED topicOf
    BY <1>3, <2>1 DEF Age
  <2>3. ASSUME NEW i \in DOMAIN recent PROVE 1..recent'[i] \subseteq 1..recent[i]
    <3>1. recent[i] \in Nat /\ (recent'[i] = recent[i] \/ recent'[i] = recent[i] - 1)
      BY <1>t, <2>1
    <3> QED BY <3>1
  <2> QED BY <2>2, <2>3 DEF ScriptsOn
<1> QED BY <1>1, <1>2, <1>3

LEMMA StepBudget ==
  ASSUME BInv, Next, NEW topic \in Topics
  PROVE  Budget(topic)'
<1>1. Budget(topic)
  BY DEF BInv
<1>2. ASSUME NEW p \in Procs, BeginScan(p) \/ Look(p) \/ Insert(p) \/ BeginGeneration(p) \/ NextTrend(p)
                              \/ Finish(p) \/ ConsumeRead(p) \/ ConsumeMark(p) \/ Rest(p)
      PROVE  Budget(topic)'
  <2>1. Left(topic)' \subseteq Left(topic)
    BY <1>2, OthersLeft
  <2>2. Insert(p) \/ UNCHANGED <<recent, topicOf>>
    BY <1>2 DEF BeginScan, Look, BeginGeneration, NextTrend, Finish, ConsumeRead, ConsumeMark, Rest,
                tables, scripts
  <2>3. ScriptsOn(topic)' \subseteq ScriptsOn(topic)
    BY <2>2, NoNewScripts
  <2> QED BY <1>1, <2>1, <2>3, NoMoreScripts
<1>3. ASSUME NEW p \in Procs, WriteFails(p) \/ ReadScriptId(p)
      PROVE  Budget(topic)'
  <2>1. UNCHANGED <<recent, topicOf>>
    BY <1>3 DEF WriteFails, ReadScriptId, tables, scripts
  <2> QED BY <1>1, <1>3, <2>1, AgainLeft, NoNewScripts, NoMoreScripts
<1>4. CASE Day \/ Age \/ Cleanup
  <2>1. Left(topic)' \subseteq Left(topic)
    BY <1>4 DEF Day, Age, Cleanup, Left
  <2>2. Age \/ UNCHANGED <<recent, topicOf>>
    BY <1>4 DEF Day, Cleanup, scripts
  <2> QED BY <1>1, <2>1, <2>2, NoNewScripts, NoMoreScripts
<1> QED BY <1>2, <1>3, <1>4, NextSteps, CheckBudget, StoreBudget

\* Rows and items keep the topics of their ids.
LEMMA StepFits ==
  ASSUME BInv, Next
  PROVE  Fits'
<1>t. /\ pc \in [Procs -> Places] /\ cur \in [Procs -> SUBSET Items] /\ todo \in [Procs -> SUBSET Items]
      /\ topicOf \in [1..lastTrend -> Topics] /\ lastTrend \in Nat /\ trends \subseteq TrendRows
      /\ \A t \in trends : t.id \in 1..lastTrend
  BY DEF BInv, TInv, TypeOK, Known, TrendRows
<1>f. Fits
  BY DEF BInv
<1>1. ASSUME NEW p \in Procs, Insert(p) PROVE Fits'
  <2>1. PICK z \in cur[p] : topicOf' =
          [id \in 1..lastTrend + 1 |-> IF id \in DOMAIN topicOf THEN topicOf[id] ELSE z.topic]
    BY <1>1 DEF Insert
  <2>2. \A y \in cur[p] : y = z
    BY DEF BInv, TInv, Single
  <2>3. lastTrend' = lastTrend + 1 /\ 1..lastTrend \subseteq 1..lastTrend'
    BY <1>1, <1>t DEF Insert
  <2>4. /\ \A id \in 1..lastTrend : topicOf'[id] = topicOf[id]
        /\ topicOf'[lastTrend + 1] = z.topic
    BY <1>t, <2>1
  <2>5. \A q \in Procs : cur'[q] \subseteq cur[q] /\ todo'[q] = todo[q]
    BY <1>1, <1>t DEF Insert, At
  <2>6. ASSUME NEW q \in Procs, NEW x \in cur'[q] \cup todo'[q], x.id # 0
        PROVE  x.id \in 1..lastTrend' /\ topicOf'[x.id] = x.topic
    <3>1. x.id \in 1..lastTrend /\ topicOf[x.id] = x.topic
      BY <1>f, <2>5, <2>6 DEF Fits
    <3> QED BY <2>3, <2>4, <3>1
  <2> DEFINE row == [id |-> lastTrend + 1, topic |-> z.topic, used |-> FALSE,
                     age |-> days[p], lag |-> days[p], by |-> p]
  <2>7. trends' = trends \cup {row}
    <3>1. cur[p] = {z}
      BY <2>2
    <3> QED BY <1>1, <3>1 DEF Insert
  <2>8. row.id = lastTrend + 1 /\ row.topic = z.topic
    OBVIOUS
  <2>9. \A t \in trends : topicOf'[t.id] = t.topic
    BY <1>f, <1>t, <2>4 DEF Fits
  <2>10. \A t \in trends' : topicOf'[t.id] = t.topic
    <3> HIDE DEF row
    <3> QED BY <2>4, <2>7, <2>8, <2>9
  <2> QED BY <2>6, <2>10 DEF Fits
<1>2. ASSUME UNCHANGED <<topicOf, lastTrend>>,
             \A t \in trends' : \E u \in trends : u.id = t.id /\ u.topic = t.topic,
             \A q \in Procs : \A x \in cur'[q] \cup todo'[q] :
                 \/ x \in cur[q] \cup todo[q]
                 \/ x.id = 0
                 \/ \E t \in trends : t.id = x.id /\ t.topic = x.topic
      PROVE  Fits'
  <2>1. \A t \in trends' : topicOf'[t.id] = t.topic
    BY <1>2, <1>f DEF Fits
  <2>2. ASSUME NEW q \in Procs, NEW x \in cur'[q] \cup todo'[q], x.id # 0
        PROVE  x.id \in 1..lastTrend /\ topicOf[x.id] = x.topic
    <3>1. CASE x \in cur[q] \cup todo[q]
      BY <1>f, <2>2, <3>1 DEF Fits
    <3>2. CASE \E t \in trends : t.id = x.id /\ t.topic = x.topic
      BY <1>f, <1>t, <3>2 DEF Fits
    <3> QED BY <1>2, <2>2, <3>1, <3>2
  <2> QED BY <1>2, <2>1, <2>2 DEF Fits
<1>3. ASSUME NEW p \in Procs, BeginScan(p) PROVE Fits'
  <2>1. UNCHANGED <<topicOf, lastTrend, trends, cur>>
    BY <1>3 DEF BeginScan, tables
  <2>2. PICK kept : todo' = [todo EXCEPT ![p] = {Finding(topic) : topic \in kept}]
    BY <1>3 DEF BeginScan
  <2>3. \A x \in {Finding(topic) : topic \in kept} : x.id = 0
    BY DEF Finding
  <2>4. \A q \in Procs : todo'[q] = todo[q] \/ \A x \in todo'[q] : x.id = 0
    BY <1>t, <2>2, <2>3
  <2> QED BY <1>2, <2>1, <2>4
<1>4. ASSUME NEW p \in Procs, BeginGeneration(p) PROVE Fits'
  <2>1. UNCHANGED <<topicOf, lastTrend, trends, cur>>
    BY <1>4 DEF BeginGeneration, tables
  <2>2. PICK chosen \in SUBSET Available : todo' = [todo EXCEPT ![p] = chosen]
    BY <1>4 DEF BeginGeneration
  <2>3. \A x \in Available : \E t \in trends : t.id = x.id /\ t.topic = x.topic
    BY DEF Available
  <2>4. \A q \in Procs : todo'[q] = todo[q] \/ todo'[q] \subseteq Available
    BY <1>t, <2>2
  <2> QED BY <1>2, <2>1, <2>3, <2>4
<1>5. ASSUME NEW p \in Procs, Look(p) \/ NextTrend(p) PROVE Fits'
  <2>1. UNCHANGED <<topicOf, lastTrend, trends>>
    BY <1>5 DEF Look, NextTrend, tables
  <2>2. PICK x \in todo[p] :
           /\ todo' = [todo EXCEPT ![p] = @ \ {x}]
           /\ cur' = cur \/ cur' = [cur EXCEPT ![p] = {x}]
    BY <1>5 DEF Look, NextTrend, Drop, At
  <2>3. \A q \in Procs : cur'[q] \cup todo'[q] \subseteq cur[q] \cup todo[q]
    BY <1>t, <2>2
  <2> QED BY <1>2, <2>1, <2>3
<1>6. ASSUME NEW p \in Procs, CheckTopic(p) \/ WriteFails(p) \/ StoreScript(p) \/ ReadScriptId(p)
                              \/ Finish(p) \/ ConsumeRead(p) \/ ConsumeMark(p) \/ Rest(p)
      PROVE  Fits'
  <2>1. UNCHANGED <<topicOf, lastTrend>>
    BY <1>6 DEF CheckTopic, WriteFails, StoreScript, ReadScriptId, Finish, ConsumeRead, ConsumeMark, Rest,
                tables
  <2>2. \A t \in trends' : \E u \in trends : u.id = t.id /\ u.topic = t.topic
    <3>1. CASE ConsumeMark(p)
      <4>1. \A t \in trends : Marked(t, p).id = t.id /\ Marked(t, p).topic = t.topic
        BY <1>t DEF Marked, TrendRows
      <4> QED BY <3>1, <4>1 DEF ConsumeMark
    <3>2. CASE UNCHANGED trends
      BY <3>2
    <3> QED
      BY <1>6, <3>1, <3>2 DEF CheckTopic, WriteFails, StoreScript, ReadScriptId, Finish, ConsumeRead, Rest,
                              tables
  <2>3. cur' = cur \/ cur' = [cur EXCEPT ![p] = {}]
    BY <1>6 DEF CheckTopic, WriteFails, StoreScript, ReadScriptId, Finish, ConsumeRead, ConsumeMark, Rest,
                Again, Leave, At
  <2>4. todo' = todo \/ todo' = [todo EXCEPT ![p] = {}]
    BY <1>6 DEF CheckTopic, WriteFails, StoreScript, ReadScriptId, Finish, ConsumeRead, ConsumeMark, Rest
  <2>5. \A q \in Procs : cur'[q] \cup todo'[q] \subseteq cur[q] \cup todo[q]
    BY <1>t, <2>3, <2>4
  <2> QED BY <1>2, <2>1, <2>2, <2>5
<1>7. CASE Day \/ Age \/ Cleanup
  <2>1. UNCHANGED <<topicOf, lastTrend, cur, todo>>
    BY <1>7 DEF Day, Age, Cleanup
  <2>2. \A t \in trends' : \E u \in trends : u.id = t.id /\ u.topic = t.topic
    <3>1. \A t \in trends : Aged(t).id = t.id /\ Aged(t).topic = t.topic
      BY <1>t DEF Aged, TrendRows
    <3> QED BY <1>7, <3>1 DEF Day, Age, Cleanup
  <2> QED BY <1>2, <2>1, <2>2
<1> QED BY <1>1, <1>3, <1>4, <1>5, <1>6, <1>7, NextSteps

\* The foreign key holds the rows.
LEMMA StepHeld ==
  ASSUME BInv, Next
  PROVE  Held'
<1>t. /\ recent \in [1..lastTrend -> Nat] /\ older \subseteq 1..lastTrend /\ lastTrend \in Nat
      /\ trends \subseteq TrendRows
  BY DEF BInv, TInv, TypeOK, TrendRows
<1>h. Held
  BY DEF BInv
<1>1. ASSUME NEW p \in Procs, Insert(p) PROVE Held'
  <2>1. trends \subseteq trends' /\ UNCHANGED older /\ lastTrend' = lastTrend + 1
    BY <1>1 DEF Insert
  <2>2. /\ \A id \in 1..lastTrend : recent'[id] = recent[id]
        /\ recent'[lastTrend + 1] = 0
    BY <1>t, <1>1 DEF Insert
  <2>3. \A id \in 1..lastTrend' : id \in 1..lastTrend \/ id = lastTrend + 1
    BY <1>t, <2>1
  <2>4. lastTrend + 1 \notin older
    BY <1>t
  <2> QED BY <1>h, <2>1, <2>2, <2>3, <2>4 DEF Held, HasScript, Referable
<1>2. ASSUME NEW p \in Procs, StoreScript(p) PROVE Held'
  <2>1. PICK x \in cur[p] : Referable(x.id) /\ recent' = [recent EXCEPT ![x.id] = @ + 1]
    BY <1>2 DEF StoreScript
  <2>2. UNCHANGED <<trends, lastTrend, older>>
    BY <1>2 DEF StoreScript
  <2>3. \A id \in 1..lastTrend : id # x.id => recent'[id] = recent[id]
    BY <1>t, <2>1
  <2> QED BY <1>h, <2>1, <2>2, <2>3 DEF Held, HasScript, Referable
<1>3. ASSUME UNCHANGED <<lastTrend, scripts>>,
             \A t \in trends : \E u \in trends' : u.id = t.id
      PROVE  Held'
  BY <1>h, <1>3 DEF Held, HasScript, Referable, scripts
<1>4. ASSUME NEW p \in Procs, ConsumeMark(p) PROVE Held'
  <2>1. \A t \in trends : Marked(t, p).id = t.id
    BY <1>t DEF Marked, TrendRows
  <2> QED BY <1>3, <1>4, <2>1 DEF ConsumeMark
<1>5. CASE Day
  <2>1. \A t \in trends : Aged(t).id = t.id
    BY <1>t DEF Aged, TrendRows
  <2> QED BY <1>3, <1>5, <2>1 DEF Day
<1>6. CASE Age
  <2>1. PICK id \in DOMAIN recent : /\ recent[id] > 0 /\ recent' = [recent EXCEPT ![id] = @ - 1]
                                    /\ older' = older \cup {id}
    BY <1>6 DEF Age
  <2>2. UNCHANGED <<trends, lastTrend>>
    BY <1>6 DEF Age
  <2>3. \A i \in 1..lastTrend : i # id => recent'[i] = recent[i]
    BY <1>t, <2>1
  <2>4. \A i \in 1..lastTrend : HasScript(i)' => HasScript(i)
    BY <2>1, <2>3 DEF HasScript
  <2> QED BY <1>h, <2>2, <2>4 DEF Held, Referable
<1>7. CASE Cleanup
  <2>1. UNCHANGED <<lastTrend, scripts>> /\ trends' = trends \ Gone
    BY <1>7 DEF Cleanup
  <2>2. ASSUME NEW id \in 1..lastTrend, HasScript(id) PROVE Referable(id)'
    <3>1. PICK t \in trends : t.id = id
      BY <1>h, <2>2 DEF Held, Referable
    <3>2. t \notin Gone
      BY <1>7, <2>2, <3>1 DEF Cleanup
    <3> QED BY <2>1, <3>1, <3>2 DEF Referable
  <2> QED BY <2>1, <2>2 DEF Held, HasScript, scripts
<1>8. ASSUME NEW p \in Procs,
             \/ BeginScan(p) \/ Look(p) \/ BeginGeneration(p) \/ NextTrend(p) \/ CheckTopic(p)
             \/ WriteFails(p) \/ ReadScriptId(p) \/ Finish(p) \/ ConsumeRead(p) \/ Rest(p)
      PROVE  Held'
  <2>1. UNCHANGED tables
    BY <1>8 DEF BeginScan, Look, BeginGeneration, NextTrend, CheckTopic, WriteFails, ReadScriptId, Finish,
                ConsumeRead, Rest
  <2> QED BY <1>3, <2>1 DEF tables
<1> QED BY <1>1, <1>2, <1>4, <1>5, <1>6, <1>7, <1>8, NextSteps

LEMMA StepBInv == BInv /\ [Next]_vars => BInv'
<1> SUFFICES ASSUME BInv, [Next]_vars PROVE BInv'
  OBVIOUS
<1>1. TInv'
  BY StepTInv DEF BInv
<1>2. CASE UNCHANGED vars
  <2>1. UNCHANGED <<trends, lastTrend, recent, older, pc, todo, cur, tries, topicOf>>
    BY <1>2 DEF vars, tables, scripts
  <2>2. Fits' /\ Held'
    BY <2>1 DEF BInv, Fits, Held, HasScript, Referable
  <2>3. ASSUME NEW topic \in Topics PROVE Budget(topic)'
    <3>1. Left(topic)' \subseteq Left(topic)
      BY <2>1 DEF Left
    <3> QED BY <2>1, <3>1, NoNewScripts, NoMoreScripts DEF BInv
  <2> QED BY <1>1, <2>2, <2>3 DEF BInv
<1>3. CASE Next
  <2>1. \A topic \in Topics : Budget(topic)'
    BY <1>3, StepBudget
  <2>2. Fits' /\ Held'
    BY <1>3, StepFits, StepHeld
  <2> QED BY <1>1, <2>1, <2>2 DEF BInv
<1> QED BY <1>2, <1>3

\* In thirty days a topic gets no more scripts than the processes have attempts,
\* although the check (check_topic_duplicate) and the storing are two statements and
\* a stored script whose id cannot be read is written again.
THEOREM RepeatsAlwaysBounded == Spec => []RepeatsBounded
<1>1. BInv => RepeatsBounded
  <2> SUFFICES ASSUME BInv, NEW topic \in Topics
               PROVE  Cardinality(ScriptsOn(topic)) <= Cardinality(Procs) * ATTEMPTS
    BY DEF RepeatsBounded
  <2>1. Budget(topic) /\ Left(topic) \in SUBSET (Procs \X (1..ATTEMPTS))
    BY DEF BInv, Left
  <2>2. Cardinality(Left(topic)) \in Nat /\ Cardinality(ScriptsOn(topic)) \in Nat
    BY <2>1, LeftFinite, FS_CardinalityType DEF Budget
  <2> QED BY <2>1, <2>2, AllAttempts DEF Budget
<1> QED BY <1>1, InitBInv, StepBInv, PTL DEF Spec
=============================================================================
