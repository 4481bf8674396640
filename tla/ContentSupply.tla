----------------------------- MODULE ContentSupply -----------------------------
(***************************************************************************)
(* The trends table of one brand, filled by BaseScanner.store_trends and    *)
(* emptied by TrendScanner.cleanup (modules/trend_scanner), and the scripts *)
(* ContentBrain makes of its rows (modules/ai_brain).  Scans, generations   *)
(* and the clean-up are jobs of their own: every query and every write is a *)
(* step, and nothing is held between two of them.                           *)
(*                                                                          *)
(* What a scan finds, what the language models answer, which trends are the *)
(* most relevant and which topics share their words are choices.  A script  *)
(* is what counts of it here: the trend it refers to and its age.           *)
(*                                                                          *)
(* A row has two dates.  discovered_at is when the scan found the topic and *)
(* is what the next scans look for; expires_at is counted from its storing, *)
(* which is later by as much as the scan took, and is what generations and  *)
(* the clean-up look at.                                                    *)
(*                                                                          *)
(* The job a script is written under is in JobStateMachine; JOBS_FIT says   *)
(* whether that class accepts the calls the brain makes of it (create_job   *)
(* without a job_id, a second transition to trend_found, the state          *)
(* SCRIPT_APPROVED), which the class of this repository does not.           *)
(***************************************************************************)
EXTENDS Integers, FiniteSets

CONSTANTS
    Procs,       \* processes that scan and generate
    Topics,
    PER_RUN,     \* MAX_SCRIPTS_PER_BRAND_PER_RUN
    ATTEMPTS,    \* MAX_GENERATION_ATTEMPTS
    JOBS_FIT,    \* the job state machine accepts the brain's calls
    EXPIRY,      \* TREND_EXPIRY_DAYS
    DELAY,       \* the days a scan can take
    MaxTrends,   \* bound on the rows ever inserted into trends (TLC only)
    MaxScripts   \* bound on the recent scripts of a trend (TLC only)

ASSUME ProcsAssumption == IsFiniteSet(Procs)
ASSUME BoundsAssumption ==
    /\ PER_RUN \in Nat \ {0}
    /\ ATTEMPTS \in Nat \ {0}
    /\ JOBS_FIT \in BOOLEAN
    /\ EXPIRY \in Nat \ {0}
    /\ MaxTrends \in Nat
    /\ MaxScripts \in Nat

\* Between discovery and storing lie minutes, of the seven days.
ASSUME DelayAssumption == DELAY \in Nat /\ 2 * DELAY <= EXPIRY

VARIABLES
    trends,      \* rows of trends, with the days since their discovery, how many of
                 \* these had passed when they were stored, and who stored them
    lastTrend,   \* highest trend id ever given
    recent,      \* for every trend id given, its scripts of the last thirty days
    older,       \* the trend ids with a script older than that
    pc,          \* where each process is
    todo,        \* findings a scan has still to store, trends a generation has to try
    cur,         \* the one of them a process is at, if any
    tries,       \* attempts at a script that came to nothing or were repeated
    made,        \* scripts a generation has made
    days,        \* days since a scan has made its findings
    topicOf      \* history: the topic of every trend id given

scripts == <<recent, older>>
tables == <<trends, lastTrend, scripts>>
vars == <<tables, pc, todo, cur, tries, made, days, topicOf>>

\* A finding has no id yet.
Finding(topic) == [id |-> 0, topic |-> topic]

Init ==
    /\ trends = {}
    /\ lastTrend = 0
    /\ recent = [id \in {} |-> 0]
    /\ older = {}
    /\ pc = [p \in Procs |-> "idle"]
    /\ todo = [p \in Procs |-> {}]
    /\ cur = [p \in Procs |-> {}]
    /\ tries = [p \in Procs |-> 0]
    /\ made = [p \in Procs |-> 0]
    /\ days = [p \in Procs |-> 0]
    /\ topicOf = [id \in {} |-> 0]

Goto(p, label) == pc' = [pc EXCEPT ![p] = label]
At(p, items) == cur' = [cur EXCEPT ![p] = items]
Drop(p, x) == todo' = [todo EXCEPT ![p] = @ \ {x}]

\* The process is done with what it began.
Rest(p) ==
    /\ Goto(p, "idle")
    /\ At(p, {})
    /\ todo' = [todo EXCEPT ![p] = {}]
    /\ tries' = [tries EXCEPT ![p] = 0]
    /\ made' = [made EXCEPT ![p] = 0]
    /\ days' = [days EXCEPT ![p] = 0]
    /\ UNCHANGED <<tables, topicOf>>

-----------------------------------------------------------------------------
(* Scans.                                                                   *)

\* A source's scan, with what it kept of its findings: one of each topic, the
\* most relevant 20, none below MIN_RELEVANCE_SCORE.
BeginScan(p) ==
    /\ pc[p] = "idle"
    /\ \E kept \in SUBSET Topics \ {{}} :
          todo' = [todo EXCEPT ![p] = {Finding(topic) : topic \in kept}]
    /\ Goto(p, "look")
    /\ UNCHANGED <<tables, cur, tries, made, days, topicOf>>

\* discovered_at lies TREND_EXPIRY_DAYS back, and expires_at is over.
Old(t) == t.age >= EXPIRY
Expired(t) == t.age >= EXPIRY + t.lag

\* A topic is stored again when its discovery is that long ago, even if its row
\* has not expired.
Stored(topic) == \E t \in trends : t.topic = topic /\ ~Old(t)

\* Faulty variant: it is not looked whether the topic is there.
LookBlindly(p) ==
    /\ pc[p] = "look"
    /\ \E x \in todo[p] : Drop(p, x) /\ At(p, {x})
    /\ Goto(p, "insert")
    /\ UNCHANGED <<tables, tries, made, days, topicOf>>

\* store_trends: the SELECT for a topic.
Look(p) ==
    /\ pc[p] = "look"
    /\ \E x \in todo[p] :
          /\ Drop(p, x)
          /\ IF Stored(x.topic)
                THEN UNCHANGED <<pc, cur>>
                ELSE Goto(p, "insert") /\ At(p, {x})
    /\ UNCHANGED <<tables, tries, made, days, topicOf>>

\* store_trends: the INSERT.
Insert(p) ==
    /\ pc[p] = "insert"
    /\ lastTrend < MaxTrends
    /\ lastTrend' = lastTrend + 1
    /\ trends' = trends \cup
          {[id |-> lastTrend + 1, topic |-> x.topic, used |-> FALSE,
            age |-> days[p], lag |-> days[p], by |-> p] : x \in cur[p]}
    /\ recent' = [id \in 1..lastTrend + 1 |-> IF id \in DOMAIN recent THEN recent[id] ELSE 0]
    /\ Goto(p, "look")
    /\ At(p, {})
    /\ \E x \in cur[p] : topicOf' =
          [id \in 1..lastTrend + 1 |-> IF id \in DOMAIN topicOf THEN topicOf[id] ELSE x.topic]
    /\ UNCHANGED <<older, todo, tries, made, days>>

\* All is stored, or a statement raised: scan_brand goes to the next source.
EndScan(p) ==
    /\ \/ pc[p] = "look" /\ todo[p] = {}
       \/ pc[p] = "insert"
    /\ Rest(p)

-----------------------------------------------------------------------------
(* Generation.                                                              *)

\* get_available_trends.
Available == {[id |-> t.id, topic |-> t.topic] : t \in {u \in trends : ~u.used /\ ~Expired(u)}}

Smaller(a, b) == IF a < b THEN a ELSE b

\* generate_content_for_brand takes twice as many trends as it wants scripts, the
\* most relevant ones: any.
BeginGeneration(p) ==
    /\ pc[p] = "idle"
    /\ Available # {}
    /\ \E chosen \in SUBSET Available :
          /\ Cardinality(chosen) = Smaller(Cardinality(Available), 2 * PER_RUN)
          /\ todo' = [todo EXCEPT ![p] = chosen]
    /\ Goto(p, "next")
    /\ UNCHANGED <<tables, cur, tries, made, days, topicOf>>

\* The next trend; its job is created before anything else, and when that
\* raises the trend is counted as failed.
NextTrend(p) ==
    /\ pc[p] = "next"
    /\ made[p] < PER_RUN
    /\ \E x \in todo[p] :
          /\ Drop(p, x)
          /\ IF JOBS_FIT
                THEN Goto(p, "check") /\ At(p, {x})
                ELSE UNCHANGED <<pc, cur>>
    /\ tries' = [tries EXCEPT ![p] = 0]
    /\ UNCHANGED <<tables, made, days, topicOf>>

\* All trends are tried, enough scripts are made, or a shutdown began.
EndGeneration(p) ==
    /\ pc[p] = "next"
    /\ Rest(p)

\* The job of a trend is over.
Leave(p) == Goto(p, "next") /\ At(p, {})

RowsOn(topic) == {t.id : t \in {u \in trends : u.topic = topic}}

\* scripts JOIN trends, for the topic itself.
Written(topic) == \E id \in RowsOn(topic) : recent[id] > 0

\* check_topic_duplicate; words shared with the topic of another script make it
\* one too.
CheckTopic(p) ==
    /\ pc[p] = "check"
    /\ \/ /\ \A x \in cur[p] : ~Written(x.topic)
          /\ Goto(p, "write") /\ UNCHANGED cur
       \/ /\ \E id \in DOMAIN recent : recent[id] > 0
          /\ Leave(p)
    /\ UNCHANGED <<tables, todo, tries, made, days, topicOf>>

\* Another attempt, if there is one left; without a script the job fails.
Again(p) ==
    /\ tries' = [tries EXCEPT ![p] = @ + 1]
    /\ IF tries[p] + 1 < ATTEMPTS
          THEN Goto(p, "write") /\ UNCHANGED cur
          ELSE Leave(p)

\* generate_script: no body of 20 words, or an exception.
WriteFails(p) ==
    /\ pc[p] = "write"
    /\ Again(p)
    /\ UNCHANGED <<tables, todo, made, days, topicOf>>

Referable(id) == \E t \in trends : t.id = id

\* _store_script: the INSERT.  The trend may be gone since it was listed, and a
\* script does not refer to a row that is not there: that is an exception.
StoreScript(p) ==
    /\ pc[p] = "write"
    /\ \E x \in cur[p] :
          /\ Referable(x.id)
          /\ recent[x.id] < MaxScripts
          /\ recent' = [recent EXCEPT ![x.id] = @ + 1]
    /\ Goto(p, "stored")
    /\ UNCHANGED <<trends, lastTrend, older, todo, cur, tries, made, days, topicOf>>

\* _store_script: the id is asked for in a statement of its own.  When that
\* raises, generate_script makes another attempt: the script is stored twice.
ReadScriptId(p) ==
    /\ pc[p] = "stored"
    /\ \/ Goto(p, "finish") /\ UNCHANGED <<cur, tries>>
       \/ Again(p)
    /\ UNCHANGED <<tables, todo, made, days, topicOf>>

\* Faulty variant: the trend is consumed whatever came of it.
FinishAnyway(p) ==
    /\ pc[p] \in {"write", "finish"}
    /\ Goto(p, "consume")
    /\ UNCHANGED <<tables, todo, cur, tries, made, days, topicOf>>

\* Classification, hashtags, the last transition of the job: what raises here
\* fails the job, and the trend stays unused although it has its script.
Finish(p) ==
    /\ pc[p] = "finish"
    /\ \/ Goto(p, "consume") /\ made' = [made EXCEPT ![p] = @ + 1] /\ UNCHANGED cur
       \/ Leave(p) /\ UNCHANGED made
    /\ UNCHANGED <<tables, todo, tries, days, topicOf>>

\* consume_trend: the SELECT.
ConsumeRead(p) ==
    /\ pc[p] = "consume"
    /\ IF \E x \in cur[p], t \in trends : t.id = x.id /\ ~t.used
          THEN Goto(p, "mark") /\ UNCHANGED cur
          ELSE Leave(p)
    /\ UNCHANGED <<tables, todo, tries, made, days, topicOf>>

Marked(t, p) == IF \E x \in cur[p] : x.id = t.id THEN [t EXCEPT !.used = TRUE] ELSE t

\* consume_trend: the UPDATE.
ConsumeMark(p) ==
    /\ pc[p] = "mark"
    /\ trends' = {Marked(t, p) : t \in trends}
    /\ Leave(p)
    /\ UNCHANGED <<lastTrend, scripts, todo, tries, made, days, topicOf>>

-----------------------------------------------------------------------------
(* What happens around them.                                                *)

\* The process dies, or an exception reaches the job.
Crash(p) ==
    /\ pc[p] # "idle"
    /\ Rest(p)

\* How long ago a row has expired matters to nothing.
Aged(t) == IF Expired(t) THEN t ELSE [t EXCEPT !.age = @ + 1]

Scanning(p) == pc[p] \in {"look", "insert"}

\* A day passes, for the rows and for the scans, none of which takes that long.
Day ==
    /\ \A p \in Procs : Scanning(p) => days[p] < DELAY
    /\ days' = [p \in Procs |-> IF Scanning(p) THEN days[p] + 1 ELSE days[p]]
    /\ trends' = {Aged(t) : t \in trends}
    /\ UNCHANGED <<lastTrend, scripts, pc, todo, cur, tries, made, topicOf>>

\* Thirty days after a script was stored; its trend, which is older, has expired.
Age ==
    /\ \E id \in DOMAIN recent :
          /\ recent[id] > 0
          /\ \A t \in trends : t.id = id => Expired(t)
          /\ recent' = [recent EXCEPT ![id] = @ - 1]
          /\ older' = older \cup {id}
    /\ UNCHANGED <<trends, lastTrend, pc, todo, cur, tries, made, days, topicOf>>

Gone == {t \in trends : Expired(t)}

HasScript(id) == id \in older \/ recent[id] > 0

\* Faulty variant: scripts do not hold the rows they refer to.
CleanupUnheld ==
    /\ trends' = trends \ Gone
    /\ UNCHANGED <<lastTrend, scripts, pc, todo, cur, tries, made, days, topicOf>>

\* TrendScanner.cleanup: the DELETE fails as a whole when a script refers to one
\* of the rows (foreign keys are on); nothing the second DELETE would remove is
\* left by the first.
Cleanup ==
    /\ \A t \in Gone : ~HasScript(t.id)
    /\ trends' = trends \ Gone
    /\ UNCHANGED <<lastTrend, scripts, pc, todo, cur, tries, made, days, topicOf>>

ScanStep(p) == Look(p) \/ Insert(p) \/ EndScan(p)

GenerationStep(p) ==
    \/ NextTrend(p) \/ EndGeneration(p)
    \/ CheckTopic(p) \/ WriteFails(p) \/ StoreScript(p) \/ ReadScriptId(p)
    \/ Finish(p) \/ ConsumeRead(p) \/ ConsumeMark(p)

Step(p) == ScanStep(p) \/ GenerationStep(p)

Next ==
    \/ \E p \in Procs : BeginScan(p) \/ BeginGeneration(p) \/ Step(p) \/ Crash(p)
    \/ Day \/ Age \/ Cleanup

Spec == Init /\ [][Next]_vars

-----------------------------------------------------------------------------
Places == {"idle", "look", "insert", "next", "check", "write", "stored", "finish",
           "consume", "mark"}

Items == [id : Nat, topic : Topics]

\* The variables keep their types.
TypeOK ==
    /\ trends \subseteq [id : Nat, topic : Topics, used : BOOLEAN,
                         age : Nat, lag : 0..DELAY, by : Procs]
    /\ lastTrend \in Nat
    /\ recent \in [1..lastTrend -> Nat]
    /\ older \subseteq 1..lastTrend
    /\ pc \in [Procs -> Places]
    /\ todo \in [Procs -> SUBSET Items]
    /\ cur \in [Procs -> SUBSET Items]
    /\ tries \in [Procs -> 0..ATTEMPTS]
    /\ made \in [Procs -> Nat]
    /\ days \in [Procs -> 0..DELAY]
    /\ topicOf \in [1..lastTrend -> Topics]

\* The scripts of the last thirty days on a topic, numbered for each of its trends.
ScriptsOn(topic) ==
    UNION {{id} \X (1..recent[id]) : id \in {i \in DOMAIN recent : topicOf[i] = topic}}

\* A topic is written about again and again only by generations that checked it
\* before the first of them stored its script, and by attempts that were
\* repeated after they had stored: never more in the thirty days than the
\* processes have attempts.  It rests on the clean-up not taking a trend away
\* from its script, since the check finds a topic through it.
RepeatsBounded ==
    \A topic \in Topics : Cardinality(ScriptsOn(topic)) <= Cardinality(Procs) * ATTEMPTS

\* A trend is used up by a script only: whatever fails, dies or is overtaken, no
\* trend is lost without one.
UsedHasScript ==
    \A t \in trends : t.used => HasScript(t.id)

\* However scans overlap, what one process stores of a topic is at most two rows
\* that generations can take: one discovered in the last seven days, and one that
\* is older but has not expired.  A scan alone comes to these two, for as long as
\* the first of them was being stored (base_scanner.py:130-144).
RowsBounded ==
    \A t, u \in {v \in trends : ~Expired(v)} :
        t.topic = u.topic /\ t.by = u.by /\ (Old(t) <=> Old(u)) => t.id = u.id
=============================================================================
