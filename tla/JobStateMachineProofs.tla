------------------------ MODULE JobStateMachineProofs ------------------------
(***************************************************************************)
(* Theorems about JobStateMachine, for every set of jobs and of job types,  *)
(* every finite set of drivers and every number of calls.  Nothing is       *)
(* assumed of the callers.                                                  *)
(*                                                                          *)
(* Part 1 types the variables.  It rests on CallsLegal: the arguments a     *)
(* process carries from the validation to the write form a legal edge.  Its *)
(* last lemmas (Steps, WriteParts) say all a step can do to the rows and to *)
(* the saves under way; the other parts use only those.                     *)
(*                                                                          *)
(* Part 2: recorded edges, and the history of reviews.                      *)
(*                                                                          *)
(* Part 3 counts: the rows of a record and the processes about to insert    *)
(* one are together no more than the drivers.                               *)
(*                                                                          *)
(* Part 4: for a job whose calls never overlapped, what a process read is   *)
(* still true when it writes, so its records follow JobLifecycle.           *)
(***************************************************************************)
EXTENDS JobStateMachine, FiniteSetTheorems, SequenceTheorems, TLAPS

Labels == {"idle", "bump", "read", "select", "write"}

\* What a process takes from its own read to its write.
Legal(c) ==
    \/ c.from = None /\ c.to = "trend_found"
    \/ c.from # None /\ c.to \in Allowed(c.from)
    \/ c.from \in Orphanable /\ c.to = "failed"

Saving(p) == pc[p] \in {"select", "write"}

CallsLegal ==
    /\ \A p \in Procs : Busy(p) => call[p].job \in Jobs /\ call[p].to \in JobState
    /\ \A p \in Procs : Saving(p) => call[p].type \in Types /\ Legal(call[p])
    /\ pc[Cleaner] \notin {"bump", "read"}

TypeInv == TypeOK /\ CallsLegal

-----------------------------------------------------------------------------
\* NULL is neither a state nor a job nor a type.
LEMMA NoneIsNoState == None \notin JobState /\ None \notin Jobs /\ None \notin Types
  BY NoneAssumption

\* Moves lead to states.
LEMMA AllowedStates == \A s \in JobState : Allowed(s) \subseteq JobState
  BY DEF JobState, Pipeline, Allowed, RetryTargets

\* The clean-up looks for states of the pipeline.
LEMMA OrphanableStates == Orphanable \subseteq JobState /\ "failed" \in JobState
  BY DEF Orphanable, JobState

\* A record is a job and a type.
LEMMA RecordParts ==
  /\ \A r \in Records : r[1] \in Jobs /\ r[2] \in Types /\ r = <<r[1], r[2]>>
  /\ \A j \in Jobs, t \in Types : <<j, t>> \in Records
  BY DEF Records

\* The rows of a record: a sequence is a function on 1..Len.
LEMMA RowsTyped ==
  ASSUME TypeOK, NEW r \in Records
  PROVE  /\ rows[r] \in Seq(Row)
         /\ Len(rows[r]) \in Nat
         /\ DOMAIN rows[r] = 1..Len(rows[r])
         /\ rows[r] = <<>> <=> Len(rows[r]) = 0
         /\ \A i \in DOMAIN rows[r] : rows[r][i] \in Row
  <1>1. rows[r] \in Seq(Row)
    BY DEF TypeOK
  <1> QED  BY <1>1

\* Replacing every row of a sequence by a row leaves a sequence of rows.
LEMMA MappedRows ==
  ASSUME NEW s \in Seq(Row), NEW F, F = [i \in DOMAIN s |-> F[i]],
         \A i \in DOMAIN s : F[i] \in Row
  PROVE  F \in Seq(Row) /\ DOMAIN F = DOMAIN s /\ Len(F) = Len(s)
  <1>1. Len(s) \in Nat /\ DOMAIN s = 1..Len(s)
    OBVIOUS
  <1>2. F \in [1..Len(s) -> Row]
    BY <1>1
  <1> QED  BY <1>1, <1>2

\* What an INSERT appends.
LEMMA AppendedRow ==
  ASSUME NEW s \in Seq(Row), NEW e \in Row, NEW w, w = Append(s, e)
  PROVE  /\ w \in Seq(Row) /\ Len(w) = Len(s) + 1 /\ DOMAIN w = 1..Len(w)
         /\ w[Len(w)] = e
         /\ \A i \in DOMAIN w : i = Len(w) \/ (i \in DOMAIN s /\ w[i] = s[i])
  <1>1. Len(s) \in Nat /\ DOMAIN s = 1..Len(s)
    OBVIOUS
  <1> QED  BY <1>1, AppendProperties

\* What get_current_state answers is in a row of the job.
LEMMA CurrentTyped ==
  ASSUME TypeOK, NEW j \in Jobs, NEW cur \in Current(j)
  PROVE  /\ cur.type \in Types /\ cur.state \in JobState /\ <<j, cur.type>> \in Records
         /\ \E i \in DOMAIN rows[<<j, cur.type>>] : rows[<<j, cur.type>>][i].state = cur.state
  <1>1. PICK t \in Types :
           cur \in {[type |-> t, state |-> rows[<<j, t>>][i].state] :
                       i \in {k \in DOMAIN rows[<<j, t>>] : rows[<<j, t>>][k].newest}}
    BY DEF Current
  <1>2. PICK i \in DOMAIN rows[<<j, t>>] : cur = [type |-> t, state |-> rows[<<j, t>>][i].state]
    BY <1>1
  <1>3. <<j, t>> \in Records
    BY RecordParts
  <1>4. rows[<<j, t>>][i] \in Row
    BY <1>3, RowsTyped
  <1> QED  BY <1>2, <1>3, <1>4 DEF Row

\* NoCall is a call.
LEMMA NoCallTyped == NoCall \in Call
  BY DEF NoCall, CallFor, Call

\* The list of the clean-up: each entry names a record with a row in that state.
LEMMA OrphanRowsTyped ==
  ASSUME TypeOK, NEW o \in OrphanRows
  PROVE  /\ o \in [job : Jobs, type : Types, state : Orphanable]
         /\ <<o.job, o.type>> \in Records
         /\ \E i \in DOMAIN rows[<<o.job, o.type>>] : rows[<<o.job, o.type>>][i].state = o.state
  <1>1. PICK r \in Records :
           o \in {[job |-> r[1], type |-> r[2], state |-> rows[r][i].state] :
                     i \in {k \in DOMAIN rows[r] : Orphaned(rows[r][k])}}
    BY DEF OrphanRows
  <1>2. PICK i \in DOMAIN rows[r] :
           /\ Orphaned(rows[r][i])
           /\ o = [job |-> r[1], type |-> r[2], state |-> rows[r][i].state]
    BY <1>1
  <1>3. r[1] \in Jobs /\ r[2] \in Types /\ <<r[1], r[2]>> = r
    BY RecordParts
  <1> QED  BY <1>2, <1>3 DEF Orphaned

-----------------------------------------------------------------------------
\* What a write makes of the rows of a record: new or updated rows carry the call's
\* edge, all others keep state and history.
LEMMA WrittenRows ==
  ASSUME TypeOK, NEW c \in Call, c.to \in JobState, NEW r \in Records, NEW tie \in BOOLEAN
  PROVE  LET w == Written(r, c, tie) IN
         /\ w \in Seq(Row)
         /\ DOMAIN w = 1..Len(w)
         /\ r # Target(c) \/ c.found => Len(w) = Len(rows[r])
         /\ r = Target(c) /\ ~c.found => Len(w) = Len(rows[r]) + 1
         /\ r = Target(c) /\ c.found =>
               \A i \in DOMAIN w : w[i].state = c.to /\ w[i].prev = c.from
         /\ r # Target(c) => \A i \in DOMAIN w :
               i \in DOMAIN rows[r] /\ w[i].state = rows[r][i].state /\ w[i].prev = rows[r][i].prev
         /\ r = Target(c) => \A i \in DOMAIN w :
               \/ w[i].state = c.to /\ w[i].prev = c.from
               \/ /\ i \in DOMAIN rows[r]
                  /\ w[i].state = rows[r][i].state /\ w[i].prev = rows[r][i].prev
         /\ r = Target(c) /\ ~c.found => w[Len(w)].state = c.to
  <1> DEFINE w == Written(r, c, tie)
             old == rows[r]
             others == [i \in DOMAIN old |-> Overtaken(old[i], tie)]
             updated == [i \in DOMAIN old |-> Updated(old[i], c)]
  <1>1. /\ old \in Seq(Row) /\ Len(old) \in Nat /\ DOMAIN old = 1..Len(old)
        /\ \A i \in DOMAIN old : old[i] \in Row
    BY RowsTyped
  <1>2. ASSUME NEW row \in Row
        PROVE  /\ Overtaken(row, tie) \in Row
               /\ Overtaken(row, tie).state = row.state /\ Overtaken(row, tie).prev = row.prev
    BY <1>2 DEF Overtaken, Row
  <1>3. ASSUME NEW row \in Row
        PROVE  /\ Updated(row, c) \in Row
               /\ Updated(row, c).state = c.to /\ Updated(row, c).prev = c.from
    BY <1>3 DEF Updated, Row, Call
  <1>4. Inserted(c) \in Row /\ Inserted(c).state = c.to /\ Inserted(c).prev = c.from
    BY DEF Inserted, Row, Call
  <1>5. /\ others \in Seq(Row) /\ DOMAIN others = DOMAIN old /\ Len(others) = Len(old)
        /\ \A i \in DOMAIN old : others[i].state = old[i].state /\ others[i].prev = old[i].prev
    <2>1. \A i \in DOMAIN old : others[i] = Overtaken(old[i], tie) /\ others[i] \in Row
      BY <1>1, <1>2
    <2>2. others = [i \in DOMAIN old |-> others[i]]
      OBVIOUS
    <2>3. \A i \in DOMAIN old : others[i].state = old[i].state /\ others[i].prev = old[i].prev
      BY <2>1, <1>1, <1>2
    <2> HIDE DEF others
    <2> QED  BY <2>1, <2>2, <2>3, <1>1, MappedRows
  <1>6. /\ updated \in Seq(Row) /\ DOMAIN updated = DOMAIN old /\ Len(updated) = Len(old)
        /\ \A i \in DOMAIN old : updated[i].state = c.to /\ updated[i].prev = c.from
    <2>1. \A i \in DOMAIN old : updated[i] = Updated(old[i], c) /\ updated[i] \in Row
      BY <1>1, <1>3
    <2>2. updated = [i \in DOMAIN old |-> updated[i]]
      OBVIOUS
    <2>3. \A i \in DOMAIN old : updated[i].state = c.to /\ updated[i].prev = c.from
      BY <2>1, <1>1, <1>3
    <2> HIDE DEF updated
    <2> QED  BY <2>1, <2>2, <2>3, <1>1, MappedRows
  <1>7. w = IF r = Target(c)
            THEN IF c.found THEN updated ELSE Append(others, Inserted(c))
            ELSE IF r[1] = c.job THEN others ELSE old
    BY DEF Written
  <1> HIDE DEF w, old, others, updated
  <1>8. CASE r = Target(c) /\ c.found
    <2>1. w = updated
      BY <1>7, <1>8
    <2> QED  BY <2>1, <1>1, <1>6, <1>8 DEF w, old
  <1>9. CASE r = Target(c) /\ ~c.found
    <2> DEFINE ins == Inserted(c)
    <2>1. w = Append(others, ins)
      BY <1>7, <1>9
    <2>2. ins \in Row /\ ins.state = c.to /\ ins.prev = c.from
      BY <1>4
    <2> HIDE DEF ins
    <2>3. /\ w \in Seq(Row) /\ Len(w) = Len(others) + 1 /\ DOMAIN w = 1..Len(w)
          /\ w[Len(w)] = ins
          /\ \A i \in DOMAIN w : i = Len(w) \/ (i \in DOMAIN others /\ w[i] = others[i])
      <3>1. PICK x \in Seq(Row), y \in Row, v \in {w} : x = others /\ y = ins /\ v = w
        BY <2>2, <1>5
      <3>2. v = Append(x, y)
        BY <2>1, <3>1
      <3>3. /\ v \in Seq(Row) /\ Len(v) = Len(x) + 1 /\ DOMAIN v = 1..Len(v)
            /\ v[Len(v)] = y
            /\ \A i \in DOMAIN v : i = Len(v) \/ (i \in DOMAIN x /\ v[i] = x[i])
        BY <3>2, AppendedRow
      <3> QED  BY <3>1, <3>3
    <2>4. \A i \in DOMAIN w :
               \/ w[i].state = c.to /\ w[i].prev = c.from
               \/ /\ i \in DOMAIN old
                  /\ w[i].state = old[i].state /\ w[i].prev = old[i].prev
      BY <2>2, <2>3, <1>5
    <2> QED  BY <2>2, <2>3, <2>4, <1>1, <1>5, <1>9 DEF w, old
  <1>10. CASE r # Target(c)
    <2>1. w = others \/ w = old
      BY <1>7, <1>10
    <2> QED  BY <2>1, <1>1, <1>5, <1>10 DEF w, old
  <1> QED  BY <1>8, <1>9, <1>10

\* After a return the process is in no call, the others are where they were.
LEMMA ReturnTyped ==
  ASSUME TypeOK, NEW p \in Procs, Return(p)
  PROVE  /\ pc' \in [Procs -> Labels] /\ call' \in [Procs -> Call]
         /\ pc'[p] = "idle" /\ call'[p] = NoCall
         /\ \A q \in Procs \ {p} : pc'[q] = pc[q] /\ call'[q] = call[q]
  BY NoCallTyped DEF Return, Goto, TypeOK, Labels

\* What the validating read hands to the write.
LEMMA ReadTyped ==
  ASSUME TypeOK, NEW p \in Procs, NEW j \in Jobs, NEW s \in JobState, ReadAndValidate(p, j, s)
  PROVE  /\ pc' \in [Procs -> Labels] /\ call' \in [Procs -> Call]
         /\ \A q \in Procs \ {p} : pc'[q] = pc[q] /\ call'[q] = call[q]
         /\ pc'[p] = "select"
         /\ call'[p].job = j /\ call'[p].to = s /\ call'[p].type \in Types
         /\ <<j, call'[p].type>> \in Records
         /\ call'[p].from \in JobState /\ s \in Allowed(call'[p].from)
         /\ \E i \in DOMAIN rows[<<j, call'[p].type>>] :
               rows[<<j, call'[p].type>>][i].state = call'[p].from
  <1>1. PICK cur \in Current(j) :
              /\ s \in Allowed(cur.state)
              /\ pc' = [pc EXCEPT ![p] = "select"]
              /\ call' = [call EXCEPT ![p] = CallFor(j, cur.type, cur.state, s)]
    BY DEF ReadAndValidate, Goto
  <1>2. /\ cur.type \in Types /\ cur.state \in JobState /\ <<j, cur.type>> \in Records
        /\ \E i \in DOMAIN rows[<<j, cur.type>>] : rows[<<j, cur.type>>][i].state = cur.state
    BY CurrentTyped
  <1> DEFINE c == CallFor(j, cur.type, cur.state, s)
  <1>3. /\ c \in Call /\ c.job = j /\ c.type = cur.type /\ c.from = cur.state /\ c.to = s
    BY <1>2 DEF CallFor, Call
  <1>4. call' = [call EXCEPT ![p] = c]
    BY <1>1
  <1> HIDE DEF c
  <1>5. call \in [Procs -> Call] /\ pc \in [Procs -> Labels]
    BY DEF TypeOK, Labels
  <1>6. call'[p] = c /\ call' \in [Procs -> Call] /\ pc' \in [Procs -> Labels]
    BY <1>1, <1>3, <1>4, <1>5 DEF Labels
  <1> QED  BY <1>1, <1>2, <1>3, <1>4, <1>5, <1>6

-----------------------------------------------------------------------------
\* The initial states are typed.
LEMMA InitTyped == Init => TypeInv
  <1> SUFFICES ASSUME Init PROVE TypeInv
    OBVIOUS
  <1>1. TypeOK
    BY NoCallTyped, CallsAssumption DEF Init, TypeOK
  <1>2. CallsLegal
    BY DEF Init, CallsLegal, Busy, Saving, Procs
  <1> QED  BY <1>1, <1>2 DEF TypeInv

\* One process p moves to label l with the call c, the others are where they were.
LEMMA MovedTyped ==
  ASSUME TypeOK, NEW p \in Procs, NEW l \in Labels, NEW c \in Call,
         pc' = [pc EXCEPT ![p] = l], call' = [call EXCEPT ![p] = c]
  PROVE  /\ pc' \in [Procs -> Labels] /\ call' \in [Procs -> Call]
         /\ pc'[p] = l /\ call'[p] = c
         /\ \A q \in Procs \ {p} : pc'[q] = pc[q] /\ call'[q] = call[q]
  BY DEF TypeOK, Labels

\* What a moving process owes to keep CallsLegal.
LEMMA KeptLegal ==
  ASSUME CallsLegal, NEW p \in Procs,
         \A q \in Procs \ {p} : pc'[q] = pc[q] /\ call'[q] = call[q],
         Busy(p)' => call'[p].job \in Jobs /\ call'[p].to \in JobState,
         Saving(p)' => call'[p].type \in Types /\ Legal(call'[p]),
         p = Cleaner => pc'[p] \notin {"bump", "read"}
  PROVE  CallsLegal'
  BY DEF CallsLegal, Busy, Saving, Legal, Procs

\* Raising the retry counts leaves rows rows.
LEMMA BumpedRows ==
  ASSUME TypeOK, NEW j, NEW r \in Records
  PROVE  LET w == IF r[1] = j THEN [i \in DOMAIN rows[r] |-> Bumped(rows[r][i])] ELSE rows[r]
         IN  /\ w \in Seq(Row) /\ Len(w) = Len(rows[r])
             /\ \A i \in DOMAIN rows[r] :
                    w[i].state = rows[r][i].state /\ w[i].prev = rows[r][i].prev
  <1> DEFINE b == [i \in DOMAIN rows[r] |-> Bumped(rows[r][i])]
  <1>1. \A i \in DOMAIN rows[r] : /\ b[i] \in Row
                                  /\ b[i].state = rows[r][i].state /\ b[i].prev = rows[r][i].prev
    <2>1. ASSUME NEW row \in Row
          PROVE  /\ Bumped(row) \in Row
                 /\ Bumped(row).state = row.state /\ Bumped(row).prev = row.prev
      BY <2>1 DEF Bumped, Row
    <2> QED  BY <2>1, RowsTyped
  <1>2. b = [i \in DOMAIN rows[r] |-> b[i]]
    OBVIOUS
  <1>3. rows[r] \in Seq(Row)
    BY RowsTyped
  <1> HIDE DEF b
  <1>4. b \in Seq(Row) /\ Len(b) = Len(rows[r])
    BY <1>1, <1>2, <1>3, MappedRows
  <1> QED  BY <1>1, <1>3, <1>4 DEF b

\* A row that ages keeps its state and its history.
LEMMA AgedRows ==
  ASSUME TypeOK, NEW r \in Records, Age(r)
  PROVE  /\ rows' \in [Records -> Seq(Row)]
         /\ \A x \in Records :
               /\ Len(rows'[x]) = Len(rows[x])
               /\ \A i \in DOMAIN rows[x] : /\ rows'[x][i].state = rows[x][i].state
                                            /\ rows'[x][i].prev = rows[x][i].prev
  <1>1. PICK k \in DOMAIN rows[r] : rows' = [rows EXCEPT ![r][k].aged = TRUE]
    BY DEF Age
  <1>2. /\ rows[r] \in Seq(Row) /\ DOMAIN rows[r] = 1..Len(rows[r]) /\ Len(rows[r]) \in Nat
        /\ \A i \in DOMAIN rows[r] : rows[r][i] \in Row
    BY RowsTyped
  <1> DEFINE old == [rows[r][k] EXCEPT !.aged = TRUE]
  <1>3. old \in Row /\ old.state = rows[r][k].state /\ old.prev = rows[r][k].prev
    BY <1>2 DEF Row
  <1>4. /\ rows'[r] = [rows[r] EXCEPT ![k] = old]
        /\ rows' = [rows EXCEPT ![r] = [rows[r] EXCEPT ![k] = old]]
        /\ \A x \in Records \ {r} : rows'[x] = rows[x]
    BY <1>1 DEF TypeOK
  <1> HIDE DEF old
  <1>5. /\ [rows[r] EXCEPT ![k] = old] \in Seq(Row)
        /\ Len([rows[r] EXCEPT ![k] = old]) = Len(rows[r])
    BY <1>2, <1>3
  <1>6. rows' \in [Records -> Seq(Row)]
    BY <1>4, <1>5 DEF TypeOK
  <1>7. \A i \in DOMAIN rows[r] : rows'[r][i] = IF i = k THEN old ELSE rows[r][i]
    BY <1>2, <1>4
  <1> QED  BY <1>3, <1>4, <1>5, <1>6, <1>7

\* Every step of every process keeps the types.
LEMMA NextTyped == TypeInv /\ [Next]_vars => TypeInv'
  <1> SUFFICES ASSUME TypeInv, [Next]_vars PROVE TypeInv'
    OBVIOUS
  <1>a. TypeOK /\ CallsLegal /\ Cleaner \notin Drivers
    BY DriversAssumption DEF TypeInv
  <1>b. /\ rows \in [Records -> Seq(Row)] /\ begun \in 0..MaxCalls
        /\ pc \in [Procs -> Labels] /\ call \in [Procs -> Call]
        /\ Drivers \subseteq Procs /\ Cleaner \in Procs
        /\ \A l \in {"idle", "bump", "read", "select", "write"} : l \in Labels
    BY <1>a DEF TypeOK, Labels, Procs
  <1>c. "trend_found" \in JobState /\ "failed" \in JobState
    BY DEF JobState, Pipeline
  <1>d. ASSUME NEW p \in Drivers, NEW j \in Jobs, Begin(p, j)
        PROVE  begun' \in 0..MaxCalls /\ overlapped' \subseteq Jobs
    BY <1>a, <1>d, CallsAssumption DEF Begin, TypeOK
  <1>1. ASSUME NEW p \in Drivers, NEW j \in Jobs, NEW t \in Types, CreateJob(p, j, t)
        PROVE  TypeInv'
    <2> DEFINE c == CallFor(j, t, None, "trend_found")
    <2>1. c \in Call /\ c.job = j /\ c.type = t /\ c.from = None /\ c.to = "trend_found"
      BY <1>c DEF CallFor, Call
    <2>2. pc' = [pc EXCEPT ![p] = "select"] /\ call' = [call EXCEPT ![p] = c]
      BY <1>1 DEF CreateJob, Goto
    <2> HIDE DEF c
    <2>3. /\ pc' \in [Procs -> Labels] /\ call' \in [Procs -> Call] /\ call'[p] = c
          /\ \A q \in Procs \ {p} : pc'[q] = pc[q] /\ call'[q] = call[q]
      BY <2>1, <2>2, <1>a, <1>b, MovedTyped
    <2>4. TypeOK'
      BY <1>1, <1>d, <2>3, <1>a DEF CreateJob, TypeOK, Labels
    <2>5. CallsLegal'
      BY <2>1, <2>3, <1>a, <1>b, <1>c, KeptLegal DEF Legal
    <2> QED  BY <2>4, <2>5 DEF TypeInv
  <1>2. ASSUME NEW p \in Drivers, NEW j \in Jobs, NEW s \in JobState, ReadAndValidate(p, j, s),
               UNCHANGED <<rows, orphans, reviewed, failed>>,
               begun' \in 0..MaxCalls, overlapped' \subseteq Jobs
        PROVE  TypeInv'
    <2>1. /\ pc' \in [Procs -> Labels] /\ call' \in [Procs -> Call]
          /\ \A q \in Procs \ {p} : pc'[q] = pc[q] /\ call'[q] = call[q]
          /\ call'[p].job = j /\ call'[p].to = s /\ call'[p].type \in Types
          /\ call'[p].from \in JobState /\ s \in Allowed(call'[p].from)
      <3>1. p \in Procs /\ TypeOK /\ ReadAndValidate(p, j, s)
        BY <1>2, <1>a, <1>b
      <3> QED  BY <3>1, ReadTyped, ZenonT(30)
    <2>2. TypeOK'
      <3>1. rows' \in [Records -> Seq(Row)] /\ reviewed' \subseteq Jobs /\ failed' \subseteq Jobs
        BY <1>2, <1>a DEF TypeOK
      <3>2. orphans' \subseteq [job : Jobs, type : Types, state : Orphanable]
        BY <1>2, <1>a DEF TypeOK
      <3> QED  BY <1>2, <2>1, <3>1, <3>2 DEF TypeOK, Labels
    <2>3. Legal(call'[p])
      BY <2>1, NoneIsNoState DEF Legal
    <2>4. CallsLegal'
      BY <2>1, <2>3, <1>a, <1>b, KeptLegal
    <2> QED  BY <2>2, <2>4 DEF TypeInv
  <1>3. ASSUME NEW p \in Drivers, NEW j \in Jobs, RetryJob(p, j)
        PROVE  TypeInv'
    <2>1. PICK s \in JobState : call' = [call EXCEPT ![p] = CallFor(j, None, None, s)]
      BY <1>3 DEF RetryJob
    <2> DEFINE c == CallFor(j, None, None, s)
    <2>2. c \in Call /\ c.job = j /\ c.to = s
      BY DEF CallFor, Call
    <2>3. pc' = [pc EXCEPT ![p] = "bump"] /\ call' = [call EXCEPT ![p] = c]
      BY <1>3, <2>1 DEF RetryJob, Goto
    <2> HIDE DEF c
    <2>4. /\ pc' \in [Procs -> Labels] /\ call' \in [Procs -> Call] /\ call'[p] = c
          /\ pc'[p] = "bump"
          /\ \A q \in Procs \ {p} : pc'[q] = pc[q] /\ call'[q] = call[q]
      BY <2>2, <2>3, <1>a, <1>b, MovedTyped
    <2>5. TypeOK'
      BY <1>3, <1>d, <2>4, <1>a DEF RetryJob, TypeOK, Labels
    <2>6. CallsLegal'
      BY <2>2, <2>4, <1>a, <1>b, KeptLegal DEF Saving
    <2> QED  BY <2>5, <2>6 DEF TypeInv
  <1>4. ASSUME NEW p \in Drivers, BumpRetryCount(p)
        PROVE  TypeInv'
    <2>1. rows' = [r \in Records |-> IF r[1] = call[p].job
                                    THEN [i \in DOMAIN rows[r] |-> Bumped(rows[r][i])]
                                    ELSE rows[r]]
      BY <1>4 DEF BumpRetryCount
    <2>2. rows' \in [Records -> Seq(Row)]
      BY <2>1, <1>a, BumpedRows
    <2>3. /\ pc' \in [Procs -> Labels] /\ call' = call /\ pc'[p] = "read" /\ pc[p] = "bump"
          /\ \A q \in Procs \ {p} : pc'[q] = pc[q]
      BY <1>4, <1>b DEF BumpRetryCount, Goto
    <2>4. TypeOK'
      BY <1>4, <2>2, <2>3, <1>a DEF BumpRetryCount, TypeOK, Labels
    <2>5. Busy(p) /\ ~Saving(p)'
      BY <2>3 DEF Busy, Saving
    <2>6. CallsLegal'
      BY <2>3, <2>5, <1>a, <1>b, KeptLegal DEF CallsLegal
    <2> QED  BY <2>4, <2>6 DEF TypeInv
  <1>5. ASSUME NEW p \in Procs, SaveSelect(p)
        PROVE  TypeInv'
    <2> DEFINE hit == rows[Target(call[p])] # <<>>
               c == [call[p] EXCEPT !.found = hit]
    <2>1. hit \in BOOLEAN
      OBVIOUS
    <2>2. /\ pc' = [pc EXCEPT ![p] = "write"] /\ call' = [call EXCEPT ![p] = c]
          /\ pc[p] = "select"
      BY <1>5 DEF SaveSelect, Goto
    <2> HIDE DEF hit
    <2>3. /\ c \in Call /\ c.job = call[p].job /\ c.type = call[p].type
          /\ c.from = call[p].from /\ c.to = call[p].to
      BY <2>1, <1>b DEF Call
    <2> HIDE DEF c
    <2>4. /\ pc' \in [Procs -> Labels] /\ call' \in [Procs -> Call] /\ call'[p] = c
          /\ pc'[p] = "write"
          /\ \A q \in Procs \ {p} : pc'[q] = pc[q] /\ call'[q] = call[q]
      BY <2>2, <2>3, <1>a, <1>b, MovedTyped
    <2>5. TypeOK'
      BY <1>5, <2>4, <1>a DEF SaveSelect, TypeOK, Labels
    <2>6. call[p].job \in Jobs /\ call[p].to \in JobState /\ call[p].type \in Types
          /\ Legal(call[p])
      BY <2>2, <1>a DEF CallsLegal, Busy, Saving
    <2>7. CallsLegal'
      BY <2>3, <2>4, <2>6, <1>a, KeptLegal DEF Legal
    <2> QED  BY <2>5, <2>7 DEF TypeInv
  <1>6. ASSUME NEW p \in Procs, pc'[p] = "idle",
               \A q \in Procs \ {p} : pc'[q] = pc[q] /\ call'[q] = call[q]
        PROVE  CallsLegal'
    BY <1>6, <1>a, KeptLegal DEF Busy, Saving
  <1>7. ASSUME NEW p \in Procs, SaveWrite(p)
        PROVE  TypeInv'
    <2>1. PICK c \in Call, tie \in BOOLEAN :
              /\ c = call[p] /\ c.to \in JobState /\ c.job \in Jobs
              /\ rows' = [r \in Records |-> Written(r, c, tie)]
      <3>1. call[p] \in Call /\ call[p].to \in JobState /\ call[p].job \in Jobs
        BY <1>7, <1>a, <1>b DEF SaveWrite, CallsLegal, Busy
      <3> QED  BY <1>7, <3>1 DEF SaveWrite
    <2>2. rows' \in [Records -> Seq(Row)]
      BY <2>1, <1>a, WrittenRows
    <2>3. /\ pc' \in [Procs -> Labels] /\ call' \in [Procs -> Call] /\ pc'[p] = "idle"
          /\ \A q \in Procs \ {p} : pc'[q] = pc[q] /\ call'[q] = call[q]
      BY <1>7, <1>a, ReturnTyped DEF SaveWrite
    <2>4. reviewed' \subseteq Jobs /\ failed' \subseteq Jobs
          /\ UNCHANGED <<orphans, begun, overlapped>>
      BY <1>7, <2>1, <1>a DEF SaveWrite, TypeOK
    <2>5. TypeOK'
      BY <2>2, <2>3, <2>4, <1>a DEF TypeOK, Labels
    <2> QED  BY <2>3, <2>5, <1>6 DEF TypeInv
  <1>8. ASSUME NEW p \in Procs, CallEnds(p)
        PROVE  TypeInv'
    <2>1. /\ pc' \in [Procs -> Labels] /\ call' \in [Procs -> Call] /\ pc'[p] = "idle"
          /\ \A q \in Procs \ {p} : pc'[q] = pc[q] /\ call'[q] = call[q]
      BY <1>8, <1>a, ReturnTyped DEF CallEnds
    <2>2. TypeOK'
      BY <1>8, <2>1, <1>a DEF CallEnds, TypeOK, Labels
    <2> QED  BY <2>1, <2>2, <1>6 DEF TypeInv
  <1>9. ASSUME NEW r \in Records, Age(r)
        PROVE  TypeInv'
    <2>1. TypeOK'
      BY <1>9, <1>a, AgedRows DEF Age, TypeOK
    <2>2. CallsLegal'
      BY <1>9, <1>a DEF Age, CallsLegal, Busy, Saving
    <2> QED  BY <2>1, <2>2 DEF TypeInv
  <1>10. CASE ListOrphans
    <2>1. OrphanRows \subseteq [job : Jobs, type : Types, state : Orphanable]
      BY <1>a, OrphanRowsTyped
    <2>2. TypeOK'
      BY <1>10, <2>1, <1>a DEF ListOrphans, TypeOK
    <2>3. CallsLegal'
      BY <1>10, <1>a DEF ListOrphans, CallsLegal, Busy, Saving
    <2> QED  BY <2>2, <2>3 DEF TypeInv
  <1>11. CASE FlagNext
    <2>1. PICK o \in orphans :
            /\ orphans' = orphans \ {o}
            /\ call' = [call EXCEPT ![Cleaner] = CallFor(o.job, o.type, o.state, "failed")]
      BY <1>11 DEF FlagNext
    <2>2. o.job \in Jobs /\ o.type \in Types /\ o.state \in Orphanable
      BY <1>a DEF TypeOK
    <2> DEFINE c == CallFor(o.job, o.type, o.state, "failed")
    <2>3. /\ c \in Call /\ c.job = o.job /\ c.type = o.type /\ c.from = o.state
          /\ c.to = "failed"
      BY <2>2, <1>c, OrphanableStates DEF CallFor, Call
    <2>4. pc' = [pc EXCEPT ![Cleaner] = "select"] /\ call' = [call EXCEPT ![Cleaner] = c]
      BY <1>11, <2>1 DEF FlagNext, Goto
    <2> HIDE DEF c
    <2>5. /\ pc' \in [Procs -> Labels] /\ call' \in [Procs -> Call] /\ call'[Cleaner] = c
          /\ pc'[Cleaner] = "select"
          /\ \A q \in Procs \ {Cleaner} : pc'[q] = pc[q] /\ call'[q] = call[q]
      BY <2>3, <2>4, <1>a, <1>b, MovedTyped
    <2>6. TypeOK'
      BY <1>11, <2>1, <2>5, <1>a DEF FlagNext, TypeOK, Labels
    <2>7. Legal(call'[Cleaner])
      BY <2>2, <2>3, <2>5 DEF Legal
    <2>8. CallsLegal'
      BY <2>2, <2>3, <2>5, <2>7, <1>a, <1>b, <1>c, KeptLegal
    <2> QED  BY <2>6, <2>8 DEF TypeInv
  <1>12. CASE CleanerCrash
    <2>1. /\ pc' \in [Procs -> Labels] /\ call' \in [Procs -> Call] /\ pc'[Cleaner] = "idle"
          /\ \A q \in Procs \ {Cleaner} : pc'[q] = pc[q] /\ call'[q] = call[q]
      BY <1>12, <1>a, <1>b, ReturnTyped DEF CleanerCrash
    <2>2. TypeOK'
      BY <1>12, <2>1, <1>a DEF CleanerCrash, TypeOK, Labels
    <2> QED  BY <2>1, <2>2, <1>b, <1>6 DEF TypeInv
  <1>13. CASE UNCHANGED vars
    BY <1>13, <1>a DEF TypeInv, vars, TypeOK, CallsLegal, Busy, Saving
  <1>14. ASSUME NEW p \in Drivers, NEW j \in Jobs, Transition(p, j)
         PROVE  TypeInv'
    <2>1. PICK s \in JobState : ReadAndValidate(p, j, s)
      BY <1>14 DEF Transition
    <2>2. Begin(p, j) /\ UNCHANGED <<rows, orphans, reviewed, failed>>
      BY <1>14 DEF Transition
    <2> QED  BY <2>1, <2>2, <1>2, <1>d
  <1>15. ASSUME NEW p \in Drivers, RetryTransition(p)
         PROVE  TypeInv'
    <2>1. call[p].job \in Jobs /\ call[p].to \in JobState
      BY <1>15, <1>a, <1>b DEF RetryTransition, CallsLegal, Busy
    <2>2. /\ ReadAndValidate(p, call[p].job, call[p].to)
          /\ UNCHANGED <<rows, orphans, reviewed, failed, begun, overlapped>>
      BY <1>15 DEF RetryTransition
    <2>3. begun' \in 0..MaxCalls /\ overlapped' \subseteq Jobs
      BY <2>2, <1>a DEF TypeOK
    <2> QED  BY <2>1, <2>2, <2>3, <1>2
  <1> QED
    BY <1>1, <1>3, <1>4, <1>5, <1>7, <1>8, <1>9, <1>10, <1>11, <1>12, <1>13, <1>14, <1>15
    DEF Next, DriverStep, SaveStep, CleanerStep

\* Type correctness, for every set of jobs and types and every finite set of drivers.
THEOREM TypeCorrect == Spec => []TypeOK
  <1>1. TypeInv => TypeOK
    BY DEF TypeInv
  <1> QED  BY <1>1, InitTyped, NextTyped, PTL DEF Spec

-----------------------------------------------------------------------------
(* All that a step can do.  Only the second statement of a save changes a   *)
(* state, a recorded edge or the number of rows.                            *)

SameRows ==
    \A r \in Records :
        /\ Len(rows'[r]) = Len(rows[r])
        /\ \A i \in DOMAIN rows[r] : /\ rows'[r][i].state = rows[r][i].state
                                     /\ rows'[r][i].prev = rows[r][i].prev

OthersKept(p) == \A q \in Procs \ {p} : pc'[q] = pc[q] /\ call'[q] = call[q]

\* p now holds the arguments of a creation, or of a move from a state it has just read.
Creates(p) == pc'[p] = "select" /\ call'[p].from = None

Reads(p) ==
    /\ pc'[p] = "select"
    /\ call'[p].from \in JobState
    /\ \E i \in DOMAIN rows[Target(call'[p])] :
           rows[Target(call'[p])][i].state = call'[p].from

\* A driver's call begins; a retry goes on; a call ends without a write.
Starts(p) ==
    /\ OthersKept(p)
    /\ ~Busy(p)
    /\ pc'[p] = "bump" \/ Creates(p) \/ Reads(p)
    /\ call'[p].job \in Jobs
    /\ overlapped' = IF UnderWay(call'[p].job) THEN overlapped \cup {call'[p].job}
                                              ELSE overlapped
    /\ UNCHANGED orphans

Retries(p) ==
    /\ OthersKept(p)
    /\ pc[p] \in {"bump", "read"}
    /\ pc'[p] = "read" \/ Reads(p)
    /\ call'[p].job = call[p].job
    /\ UNCHANGED <<orphans, overlapped>>

Stops(p) ==
    /\ OthersKept(p)
    /\ pc'[p] = "idle"
    /\ orphans' \subseteq orphans
    /\ UNCHANGED overlapped

QuietStep ==
    \/ \E p \in Drivers : Starts(p) \/ Retries(p)
    \/ \E p \in Procs : SaveSelect(p) \/ Stops(p)
    \/ ListOrphans
    \/ FlagNext
    \/ UNCHANGED <<pc, call, orphans, overlapped>>

\* A validating read is a read.
LEMMA ReadReads ==
  ASSUME TypeOK, NEW p \in Procs, NEW j \in Jobs, NEW s \in JobState, ReadAndValidate(p, j, s)
  PROVE  OthersKept(p) /\ call'[p].job = j /\ Reads(p)
  <1>1. PICK t \in Types :
           /\ t = call'[p].type /\ call'[p].job = j /\ pc'[p] = "select"
           /\ call'[p].from \in JobState
           /\ \E i \in DOMAIN rows[<<j, t>>] : rows[<<j, t>>][i].state = call'[p].from
           /\ \A q \in Procs \ {p} : pc'[q] = pc[q] /\ call'[q] = call[q]
    BY ReadTyped
  <1>2. Target(call'[p]) = <<j, t>>
    BY <1>1 DEF Target
  <1> QED  BY <1>1, <1>2 DEF OthersKept, Reads

\* Every step is a quiet one or the second statement of a save.
LEMMA Steps ==
  ASSUME TypeInv, [Next]_vars
  PROVE  \/ QuietStep /\ SameRows /\ UNCHANGED <<reviewed, failed>>
         \/ \E p \in Procs : SaveWrite(p)
  <1>a. TypeOK /\ CallsLegal /\ Drivers \subseteq Procs /\ Cleaner \in Procs
    BY DEF TypeInv, Procs
  <1>b. call \in [Procs -> Call] /\ pc \in [Procs -> Labels]
    BY <1>a DEF TypeOK, Labels
  <1>c. UNCHANGED rows => SameRows
    BY DEF SameRows
  <1>1. ASSUME NEW p \in Drivers, NEW j \in Jobs, NEW t \in Types, CreateJob(p, j, t)
        PROVE  QuietStep /\ SameRows /\ UNCHANGED <<reviewed, failed>>
    <2>1. /\ pc' = [pc EXCEPT ![p] = "select"]
          /\ call' = [call EXCEPT ![p] = CallFor(j, t, None, "trend_found")]
          /\ UNCHANGED <<rows, orphans, reviewed, failed>> /\ Begin(p, j)
      BY <1>1 DEF CreateJob, Goto
    <2>2. call'[p].job = j /\ call'[p].from = None /\ pc'[p] = "select" /\ OthersKept(p)
      BY <2>1, <1>a, <1>b DEF CallFor, OthersKept
    <2>3. Starts(p)
      BY <2>1, <2>2 DEF Starts, Creates, Begin
    <2> QED  BY <2>1, <2>3, <1>c DEF QuietStep
  <1>2. ASSUME NEW p \in Drivers, NEW j \in Jobs, Transition(p, j)
        PROVE  QuietStep /\ SameRows /\ UNCHANGED <<reviewed, failed>>
    <2>1. PICK s \in JobState : ReadAndValidate(p, j, s)
      BY <1>2 DEF Transition
    <2>2. UNCHANGED <<rows, orphans, reviewed, failed>> /\ Begin(p, j)
      BY <1>2 DEF Transition
    <2>3. OthersKept(p) /\ call'[p].job = j /\ Reads(p)
      BY <2>1, <1>a, ReadReads
    <2>4. Starts(p)
      BY <2>2, <2>3 DEF Starts, Begin
    <2> QED  BY <2>2, <2>4, <1>c DEF QuietStep
  <1>3. ASSUME NEW p \in Drivers, NEW j \in Jobs, RetryJob(p, j)
        PROVE  QuietStep /\ SameRows /\ UNCHANGED <<reviewed, failed>>
    <2>1. PICK s \in JobState : call' = [call EXCEPT ![p] = CallFor(j, None, None, s)]
      BY <1>3 DEF RetryJob
    <2>2. /\ pc' = [pc EXCEPT ![p] = "bump"] /\ Begin(p, j)
          /\ UNCHANGED <<rows, orphans, reviewed, failed>>
      BY <1>3 DEF RetryJob, Goto
    <2>3. call'[p].job = j /\ pc'[p] = "bump" /\ OthersKept(p)
      BY <2>1, <2>2, <1>a, <1>b DEF CallFor, OthersKept
    <2>4. Starts(p)
      BY <2>2, <2>3 DEF Starts, Begin
    <2> QED  BY <2>2, <2>4, <1>c DEF QuietStep
  <1>4. ASSUME NEW p \in Drivers, BumpRetryCount(p)
        PROVE  QuietStep /\ SameRows /\ UNCHANGED <<reviewed, failed>>
    <2>1. SameRows
      BY <1>4, <1>a, BumpedRows DEF BumpRetryCount, SameRows
    <2>2. Retries(p) /\ UNCHANGED <<reviewed, failed>>
      BY <1>4, <1>a, <1>b DEF BumpRetryCount, Goto, Retries, OthersKept
    <2> QED  BY <2>1, <2>2 DEF QuietStep
  <1>5. ASSUME NEW p \in Drivers, RetryTransition(p)
        PROVE  QuietStep /\ SameRows /\ UNCHANGED <<reviewed, failed>>
    <2>1. /\ ReadAndValidate(p, call[p].job, call[p].to) /\ pc[p] = "read"
          /\ UNCHANGED <<rows, orphans, overlapped, reviewed, failed>>
      BY <1>5 DEF RetryTransition
    <2>2. call[p].job \in Jobs /\ call[p].to \in JobState
      BY <2>1, <1>a DEF CallsLegal, Busy
    <2>3. OthersKept(p) /\ call'[p].job = call[p].job /\ Reads(p)
      BY <2>1, <2>2, <1>a, ReadReads
    <2> QED  BY <2>1, <2>3, <1>c DEF QuietStep, Retries
  <1>6. ASSUME NEW p \in Procs, SaveSelect(p) \/ CallEnds(p)
        PROVE  QuietStep /\ SameRows /\ UNCHANGED <<reviewed, failed>>
    <2>1. CASE SaveSelect(p)
      BY <2>1, <1>c DEF SaveSelect, QuietStep
    <2>2. CASE CallEnds(p)
      BY <2>2, <1>a, <1>c, ReturnTyped DEF CallEnds, QuietStep, Stops, OthersKept
    <2> QED  BY <1>6, <2>1, <2>2
  <1>7. ASSUME NEW r \in Records, Age(r)
        PROVE  QuietStep /\ SameRows /\ UNCHANGED <<reviewed, failed>>
    BY <1>7, <1>a, AgedRows DEF Age, SameRows, QuietStep
  <1>8. CASE ListOrphans \/ FlagNext
    BY <1>8, <1>c DEF ListOrphans, FlagNext, QuietStep
  <1>9. CASE CleanerCrash
    BY <1>9, <1>a, <1>c, ReturnTyped DEF CleanerCrash, QuietStep, Stops, OthersKept
  <1>10. CASE UNCHANGED vars
    BY <1>10, <1>c DEF vars, QuietStep
  <1> QED
    BY <1>1, <1>2, <1>3, <1>4, <1>5, <1>6, <1>7, <1>8, <1>9, <1>10
    DEF Next, DriverStep, SaveStep, CleanerStep

\* The write that a save ends with.
LEMMA WriteParts ==
  ASSUME TypeInv, NEW p \in Procs, SaveWrite(p)
  PROVE  \E c \in Call, tie \in BOOLEAN :
            /\ c = call[p] /\ pc[p] = "write" /\ Saving(p) /\ Busy(p)
            /\ c.job \in Jobs /\ c.type \in Types /\ c.to \in JobState /\ Legal(c)
            /\ Target(c) \in Records
            /\ rows' = [r \in Records |-> Written(r, c, tie)]
            /\ reviewed' = IF c.to = "review_approved" THEN reviewed \cup {c.job} ELSE reviewed
            /\ failed' = IF c.to = "failed" THEN failed \cup {c.job} ELSE failed
            /\ OthersKept(p) /\ pc'[p] = "idle"
            /\ UNCHANGED <<orphans, overlapped>>
  <1>1. /\ call[p] \in Call /\ pc[p] = "write" /\ Saving(p) /\ Busy(p)
        /\ call[p].job \in Jobs /\ call[p].type \in Types /\ call[p].to \in JobState
        /\ Legal(call[p])
    BY DEF SaveWrite, TypeInv, TypeOK, CallsLegal, Saving, Busy
  <1>2. Target(call[p]) \in Records
    BY <1>1 DEF Target, Records
  <1>3. OthersKept(p) /\ pc'[p] = "idle"
    BY ReturnTyped DEF TypeInv, SaveWrite, OthersKept
  <1> QED  BY <1>1, <1>2, <1>3 DEF SaveWrite

\* The rows of a record have the indices 1..Len, before and after a step.
LEMMA Indices ==
  ASSUME TypeInv, TypeInv', SameRows, NEW r \in Records
  PROVE  DOMAIN rows'[r] = DOMAIN rows[r] /\ (rows'[r] = <<>> <=> rows[r] = <<>>)
  <1>1. rows[r] \in Seq(Row) /\ rows'[r] \in Seq(Row)
    BY DEF TypeInv, TypeOK
  <1>2. Len(rows'[r]) = Len(rows[r])
    BY DEF SameRows
  <1> QED  BY <1>1, <1>2

-----------------------------------------------------------------------------
(* Part 2: recorded edges and reviews.                                      *)

EdgeInv == TypeInv /\ RecordedEdge

\* Every step keeps the recorded edges legal.
LEMMA NextEdge == EdgeInv /\ [Next]_vars => EdgeInv'
  <1> SUFFICES ASSUME EdgeInv, [Next]_vars PROVE EdgeInv'
    OBVIOUS
  <1>a. TypeInv /\ TypeInv' /\ TypeOK
    BY NextTyped DEF EdgeInv, TypeInv
  <1>1. CASE SameRows
    <2>1. RecordedEdge'
      BY <1>1, <1>a, Indices DEF EdgeInv, RecordedEdge, SameRows
    <2> QED  BY <2>1, <1>a DEF EdgeInv
  <1>2. ASSUME NEW p \in Procs, SaveWrite(p)
        PROVE  EdgeInv'
    <2>1. PICK c \in Call, tie \in BOOLEAN :
             /\ c.to \in JobState /\ Legal(c)
             /\ rows' = [r \in Records |-> Written(r, c, tie)]
      BY <1>2, <1>a, WriteParts
    <2>2. ASSUME NEW r \in Records, NEW i \in DOMAIN rows'[r]
          PROVE  LET row == rows'[r][i] IN
                 \/ row.prev = None /\ row.state = "trend_found"
                 \/ row.prev # None /\ row.state \in Allowed(row.prev)
                 \/ row.prev \in Orphanable /\ row.state = "failed"
      <3>1. \/ rows'[r][i].state = c.to /\ rows'[r][i].prev = c.from
            \/ /\ i \in DOMAIN rows[r]
               /\ rows'[r][i].state = rows[r][i].state
               /\ rows'[r][i].prev = rows[r][i].prev
        <4>1. PICK w : w = Written(r, c, tie) /\ w = rows'[r]
          BY <2>1
        <4>2. \A k \in DOMAIN w :
                 \/ w[k].state = c.to /\ w[k].prev = c.from
                 \/ /\ k \in DOMAIN rows[r]
                    /\ w[k].state = rows[r][k].state /\ w[k].prev = rows[r][k].prev
          BY <4>1, <2>1, <1>a, WrittenRows, SMTT(30)
        <4> QED  BY <4>1, <4>2, <2>2
      <3>2. CASE rows'[r][i].state = c.to /\ rows'[r][i].prev = c.from
        BY <3>2, <2>1 DEF Legal
      <3>3. CASE /\ i \in DOMAIN rows[r]
                 /\ rows'[r][i].state = rows[r][i].state
                 /\ rows'[r][i].prev = rows[r][i].prev
        BY <3>3 DEF EdgeInv, RecordedEdge
      <3> QED  BY <3>1, <3>2, <3>3
    <2> QED  BY <2>2, <1>a DEF EdgeInv, RecordedEdge
  <1> QED  BY <1>1, <1>2, <1>a, Steps

\* The (previous_state, state) pair in the table is always a legal edge, even
\* when drivers race each other and the clean-up.
THEOREM RecordedEdgeAlways == Spec => []RecordedEdge
  <1>1. Init => EdgeInv
    BY InitTyped DEF Init, EdgeInv, RecordedEdge
  <1>2. EdgeInv => RecordedEdge
    BY DEF EdgeInv
  <1> QED  BY <1>1, <1>2, NextEdge, PTL DEF Spec

\* The clean-up turns to an entry of its list.
Flags(o) ==
    /\ o \in orphans /\ orphans' = orphans \ {o}
    /\ call'[Cleaner].job = o.job /\ call'[Cleaner].type = o.type
    /\ call'[Cleaner].from = o.state /\ call'[Cleaner].to = "failed"
    /\ pc[Cleaner] = "idle" /\ pc'[Cleaner] = "select" /\ OthersKept(Cleaner)
    /\ UNCHANGED overlapped

LEMMA FlagParts ==
  ASSUME TypeInv, FlagNext
  PROVE  \E o \in orphans : Flags(o)
  <1>a. call \in [Procs -> Call] /\ pc \in [Procs -> Labels] /\ Cleaner \in Procs
    BY DEF TypeInv, TypeOK, Labels, Procs
  <1>1. PICK o \in orphans :
            /\ orphans' = orphans \ {o}
            /\ call' = [call EXCEPT ![Cleaner] = CallFor(o.job, o.type, o.state, "failed")]
    BY DEF FlagNext
  <1>2. pc' = [pc EXCEPT ![Cleaner] = "select"] /\ pc[Cleaner] = "idle" /\ UNCHANGED overlapped
    BY DEF FlagNext, Goto, Busy
  <1>3. /\ call'[Cleaner].job = o.job /\ call'[Cleaner].type = o.type
        /\ call'[Cleaner].from = o.state /\ call'[Cleaner].to = "failed"
    BY <1>1, <1>a DEF CallFor
  <1>4. pc'[Cleaner] = "select" /\ OthersKept(Cleaner)
    BY <1>1, <1>2, <1>a DEF OthersKept
  <1> QED  BY <1>1, <1>2, <1>3, <1>4 DEF Flags

\* The first statement of a save changes only the answer that the call holds.
LEMMA SelectParts ==
  ASSUME TypeInv, NEW p \in Procs, SaveSelect(p)
  PROVE  /\ pc[p] = "select" /\ pc'[p] = "write" /\ OthersKept(p)
         /\ call'[p].job = call[p].job /\ call'[p].type = call[p].type
         /\ call'[p].from = call[p].from /\ call'[p].to = call[p].to
         /\ call'[p].found = (rows[Target(call[p])] # <<>>)
         /\ Target(call'[p]) = Target(call[p])
         /\ UNCHANGED <<rows, orphans, overlapped>>
  <1>1. call \in [Procs -> Call] /\ pc \in [Procs -> Labels]
    BY DEF TypeInv, TypeOK, Labels
  <1> QED  BY <1>1 DEF SaveSelect, Goto, OthersKept, Call, Target

\* A save that is under way after a quiet step was under way before, or its call starts
\* from nothing, from a state just read, or from an entry of the list.
LEMMA QuietSaves ==
  ASSUME TypeInv, QuietStep, NEW p \in Procs, Saving(p)'
  PROVE  \/ /\ Saving(p)
            /\ call'[p].job = call[p].job /\ call'[p].type = call[p].type
            /\ call'[p].from = call[p].from /\ call'[p].to = call[p].to
         \/ Creates(p)
         \/ Reads(p)
         \/ p = Cleaner /\ \E o \in orphans : Flags(o)
  <1>1. ASSUME NEW q \in Procs, OthersKept(q), q # p
        PROVE  Saving(p) /\ call'[p] = call[p]
    BY <1>1 DEF OthersKept, Saving
  <1>2. ASSUME NEW q \in Drivers, Starts(q) \/ Retries(q), q = p
        PROVE  Creates(p) \/ Reads(p)
    BY <1>2 DEF Starts, Retries, Saving
  <1>3. CASE \E q \in Drivers : Starts(q) \/ Retries(q)
    BY <1>1, <1>2, <1>3 DEF Starts, Retries, Procs
  <1>4. ASSUME NEW q \in Procs, SaveSelect(q)
        PROVE  /\ Saving(p)
               /\ call'[p].job = call[p].job /\ call'[p].type = call[p].type
               /\ call'[p].from = call[p].from /\ call'[p].to = call[p].to
    BY <1>1, <1>4, SelectParts DEF Saving
  <1>5. ASSUME NEW q \in Procs, Stops(q)
        PROVE  Saving(p) /\ call'[p] = call[p]
    BY <1>1, <1>5 DEF Stops, Saving
  <1>6. CASE FlagNext
    <2>1. PICK o \in orphans : Flags(o)
      BY <1>6, FlagParts
    <2>2. CASE p = Cleaner
      BY <2>1, <2>2
    <2>3. CASE p # Cleaner
      BY <2>1, <2>3, <1>1 DEF Flags, Procs
    <2> QED  BY <2>2, <2>3
  <1>7. CASE ListOrphans \/ UNCHANGED <<pc, call, orphans, overlapped>>
    BY <1>7 DEF ListOrphans, Saving
  <1> QED  BY <1>3, <1>4, <1>5, <1>6, <1>7 DEF QuietStep

\* The states a job may be released from, and those it is released to.
PastReview == ReleaseStates \cup {"review_approved", "failed"}

Cleared == reviewed \cup failed

ReviewInv ==
    /\ TypeInv
    /\ \A r \in Records : \A i \in DOMAIN rows[r] :
          rows[r][i].state \in PastReview => r[1] \in Cleared
    /\ \A p \in Procs :
          Saving(p) /\ call[p].from \in PastReview =>
              call[p].job \in Cleared \/ call[p].to = "failed"

\* Only an approved or a failed job is moved to a release state.
LEMMA ReleaseEdges ==
  ASSUME NEW f \in JobState, NEW s \in Allowed(f), s \in ReleaseStates
  PROVE  f \in PastReview
  BY DEF Allowed, VALID_TRANSITIONS, From, RetryTargets, ReleaseStates, PastReview, JobState,
     Pipeline

\* Every step keeps it: a read finds a state that the history explains, a write carries
\* the state it came from.
LEMMA NextReview == ReviewInv /\ [Next]_vars => ReviewInv'
  <1> SUFFICES ASSUME ReviewInv, [Next]_vars PROVE ReviewInv'
    OBVIOUS
  <1>a. TypeInv /\ TypeInv' /\ TypeOK
    BY NextTyped DEF ReviewInv, TypeInv
  <1>b. None \notin PastReview
    BY NoneIsNoState DEF PastReview, ReleaseStates, JobState, Pipeline
  <1>1. CASE QuietStep /\ SameRows /\ UNCHANGED <<reviewed, failed>>
    <2>1. Cleared' = Cleared
      BY <1>1 DEF Cleared
    <2>2. ASSUME NEW r \in Records, NEW i \in DOMAIN rows'[r], rows'[r][i].state \in PastReview
          PROVE  r[1] \in Cleared'
      BY <1>1, <1>a, <2>1, <2>2, Indices DEF ReviewInv, SameRows
    <2>3. ASSUME NEW p \in Procs, Saving(p)', call'[p].from \in PastReview
          PROVE  call'[p].job \in Cleared' \/ call'[p].to = "failed"
      <3>1. CASE /\ Saving(p)
                 /\ call'[p].job = call[p].job /\ call'[p].type = call[p].type
                 /\ call'[p].from = call[p].from /\ call'[p].to = call[p].to
        BY <2>1, <2>3, <3>1 DEF ReviewInv
      <3>2. CASE Creates(p)
        BY <2>3, <3>2, <1>b DEF Creates
      <3>3. CASE Reads(p)
        <4>1. PICK j \in Jobs, t \in Types : j = call'[p].job /\ t = call'[p].type
          BY <1>a, <2>3 DEF TypeInv, CallsLegal, Saving, Busy
        <4>2. PICK i \in DOMAIN rows[<<j, t>>] : rows[<<j, t>>][i].state = call'[p].from
          BY <3>3, <4>1 DEF Reads, Target
        <4>3. <<j, t>> \in Records /\ <<j, t>>[1] = j
          BY RecordParts
        <4> QED  BY <2>1, <2>3, <4>1, <4>2, <4>3 DEF ReviewInv
      <3>4. CASE p = Cleaner /\ \E o \in orphans : Flags(o)
        BY <3>4 DEF Flags
      <3> QED  BY <1>1, <1>a, <2>3, <3>1, <3>2, <3>3, <3>4, QuietSaves
    <2> QED  BY <2>2, <2>3, <1>a DEF ReviewInv
  <1>2. ASSUME NEW p \in Procs, SaveWrite(p)
        PROVE  ReviewInv'
    <2>1. PICK c \in Call, tie \in BOOLEAN :
            /\ c = call[p] /\ Saving(p)
            /\ c.job \in Jobs /\ c.to \in JobState /\ Legal(c)
            /\ rows' = [r \in Records |-> Written(r, c, tie)]
            /\ reviewed' = IF c.to = "review_approved" THEN reviewed \cup {c.job} ELSE reviewed
            /\ failed' = IF c.to = "failed" THEN failed \cup {c.job} ELSE failed
            /\ OthersKept(p) /\ pc'[p] = "idle"
      BY <1>2, <1>a, WriteParts
    <2>2. Cleared \subseteq Cleared' /\ (c.to \in {"review_approved", "failed"} => c.job \in Cleared')
      BY <2>1 DEF Cleared
    <2>3. c.to \in PastReview => c.job \in Cleared'
      <3>1. CASE c.to \in ReleaseStates
        <4>1. c.to # "failed" /\ c.to # "trend_found"
          BY <3>1 DEF ReleaseStates
        <4>2. c.from \in JobState /\ c.to \in Allowed(c.from)
          BY <4>1, <2>1 DEF Legal, Call
        <4>3. c.from \in PastReview
          BY <3>1, <4>2, ReleaseEdges
        <4> QED  BY <4>1, <4>3, <2>1, <2>2 DEF ReviewInv
      <3> QED  BY <3>1, <2>2 DEF PastReview
    <2>4. ASSUME NEW r \in Records, NEW i \in DOMAIN rows'[r], rows'[r][i].state \in PastReview
          PROVE  r[1] \in Cleared'
      <3>1. \/ r = Target(c) /\ rows'[r][i].state = c.to
            \/ i \in DOMAIN rows[r] /\ rows'[r][i].state = rows[r][i].state
        BY <2>1, <2>4, <1>a, WrittenRows
      <3>2. CASE r = Target(c) /\ rows'[r][i].state = c.to
        BY <2>3, <2>4, <3>2 DEF Target
      <3>3. CASE i \in DOMAIN rows[r] /\ rows'[r][i].state = rows[r][i].state
        BY <2>2, <2>4, <3>3 DEF ReviewInv
      <3> QED  BY <3>1, <3>2, <3>3
    <2>5. ASSUME NEW q \in Procs, Saving(q)', call'[q].from \in PastReview
          PROVE  call'[q].job \in Cleared' \/ call'[q].to = "failed"
      <3>1. Saving(q) /\ call'[q] = call[q]
        BY <2>1, <2>5 DEF OthersKept, Saving
      <3> QED  BY <3>1, <2>2, <2>5 DEF ReviewInv
    <2> QED  BY <2>4, <2>5, <1>a DEF ReviewInv
  <1> QED  BY <1>1, <1>2, <1>a, Steps

\* A job is only ever scheduled, publishing or published if it was approved, or
\* if it failed and was retried: no race of drivers and clean-up gets round it.
THEOREM ReleasedAlwaysReviewed == Spec => []ReleasedWasReviewed
  <1>1. Init => ReviewInv
    BY InitTyped DEF Init, ReviewInv, Saving
  <1>2. ReviewInv => ReleasedWasReviewed
    <2> SUFFICES ASSUME ReviewInv, NEW j \in Jobs, NEW s \in StatesOf(j), s \in ReleaseStates
                 PROVE  j \in reviewed \cup failed
      BY DEF ReleasedWasReviewed
    <2>1. PICK t \in Types : s \in {rows[<<j, t>>][i].state : i \in DOMAIN rows[<<j, t>>]}
      BY DEF StatesOf
    <2>2. PICK i \in DOMAIN rows[<<j, t>>] : s = rows[<<j, t>>][i].state
      BY <2>1
    <2>3. <<j, t>> \in Records /\ <<j, t>>[1] = j
      BY RecordParts
    <2> QED  BY <2>2, <2>3 DEF ReviewInv, PastReview, Cleared
  <1> QED  BY <1>1, <1>2, NextReview, PTL DEF Spec

-----------------------------------------------------------------------------
(* Part 3: how many rows a record gets.                                     *)

\* The drivers that found no row of record r and are about to insert one.
Inserters(r) ==
    {p \in Drivers : pc[p] = "write" /\ ~call[p].found /\ Target(call[p]) = r}

CountInv ==
    /\ TypeInv
    /\ \A r \in Records : Len(rows[r]) + Cardinality(Inserters(r)) <= Cardinality(Drivers)
    /\ \A o \in orphans : rows[<<o.job, o.type>>] # <<>>
    /\ Saving(Cleaner) => rows[Target(call[Cleaner])] # <<>>
    /\ pc[Cleaner] = "write" => call[Cleaner].found

\* The inserters are finitely many, no more than the drivers.
LEMMA InsertersFinite ==
  ASSUME NEW S \in SUBSET Drivers, NEW T \in SUBSET S
  PROVE  /\ IsFiniteSet(S) /\ IsFiniteSet(T)
         /\ Cardinality(S) \in Nat /\ Cardinality(T) \in Nat /\ Cardinality(Drivers) \in Nat
         /\ Cardinality(T) <= Cardinality(S) /\ Cardinality(S) <= Cardinality(Drivers)
  BY DriversAssumption, FS_Subset, FS_CardinalityType

\* Initially there is nothing to count.
LEMMA InitCount == Init => CountInv
  <1> SUFFICES ASSUME Init PROVE CountInv
    OBVIOUS
  <1>1. ASSUME NEW r \in Records
        PROVE  Len(rows[r]) + Cardinality(Inserters(r)) <= Cardinality(Drivers)
    <2>1. Len(rows[r]) = 0 /\ Inserters(r) \subseteq Drivers
      BY DEF Init, Inserters
    <2> QED  BY <2>1, InsertersFinite
  <1>2. orphans = {} /\ ~Saving(Cleaner) /\ pc[Cleaner] # "write"
    BY DEF Init, Saving, Procs
  <1> QED  BY <1>1, <1>2, InitTyped DEF CountInv

\* A step that adds no row and no inserter of r keeps the count of r.
LEMMA CountKept ==
  ASSUME CountInv, NEW r \in Records, Len(rows'[r]) = Len(rows[r]),
         Inserters(r)' \subseteq Inserters(r)
  PROVE  Len(rows'[r]) + Cardinality(Inserters(r)') <= Cardinality(Drivers)
  <1>1. Inserters(r) \subseteq Drivers
    BY DEF Inserters
  <1>2. Len(rows[r]) \in Nat
    BY RowsTyped DEF CountInv, TypeInv
  <1>3. Len(rows[r]) + Cardinality(Inserters(r)) <= Cardinality(Drivers)
    BY DEF CountInv
  <1>4. /\ Cardinality(Inserters(r)) \in Nat /\ Cardinality(Inserters(r)') \in Nat
        /\ Cardinality(Drivers) \in Nat
        /\ Cardinality(Inserters(r)') <= Cardinality(Inserters(r))
    BY <1>1, InsertersFinite
  <1> QED  BY <1>2, <1>3, <1>4

\* What the clean-up works on keeps its rows.
LEMMA CleanerCount ==
  ASSUME CountInv, TypeInv', QuietStep, SameRows
  PROVE  /\ \A o \in orphans' : rows'[<<o.job, o.type>>] # <<>>
         /\ Saving(Cleaner)' => rows'[Target(call'[Cleaner])] # <<>>
         /\ pc'[Cleaner] = "write" => call'[Cleaner].found
  <1>a. TypeInv /\ TypeOK /\ CallsLegal /\ Cleaner \in Procs /\ Cleaner \notin Drivers
    BY DriversAssumption DEF CountInv, TypeInv, Procs
  <1>b. \A r \in Records : rows'[r] = <<>> <=> rows[r] = <<>>
    BY <1>a, Indices
  <1>1. ASSUME NEW o \in orphans'
        PROVE  rows'[<<o.job, o.type>>] # <<>>
    <2>1. PICK j \in Jobs, t \in Types : j = o.job /\ t = o.type
      BY DEF TypeInv, TypeOK
    <2>2. <<j, t>> \in Records
      BY RecordParts
    <2>3. CASE o \in orphans
      BY <2>1, <2>2, <2>3, <1>b DEF CountInv
    <2>4. CASE o \notin orphans
      <3>1. ListOrphans
        BY <2>4, <1>a, SelectParts, FlagParts
        DEF QuietStep, Starts, Retries, Stops, Flags
      <3>2. o \in OrphanRows
        BY <3>1 DEF ListOrphans
      <3>3. PICK i \in DOMAIN rows[<<j, t>>] : rows[<<j, t>>][i].state = o.state
        BY <3>2, <2>1, <1>a, OrphanRowsTyped
      <3>4. rows[<<j, t>>] # <<>>
        BY <3>3
      <3> QED  BY <3>4, <2>1, <2>2, <1>b
    <2> QED  BY <2>3, <2>4
  <1>2. ASSUME Saving(Cleaner)'
        PROVE  /\ rows'[Target(call'[Cleaner])] # <<>>
               /\ pc'[Cleaner] = "write" => call'[Cleaner].found
    <2>1. Target(call'[Cleaner]) \in Records
      BY <1>2, <1>a DEF TypeInv, CallsLegal, Saving, Busy, Target, Records
    <2>2. ASSUME NEW p \in Procs, OthersKept(p), p # Cleaner
          PROVE  pc'[Cleaner] = pc[Cleaner] /\ call'[Cleaner] = call[Cleaner]
      BY <2>2, <1>a DEF OthersKept
    <2>3. CASE pc'[Cleaner] = pc[Cleaner] /\ call'[Cleaner] = call[Cleaner]
      BY <1>2, <2>1, <2>3, <1>b DEF CountInv, Saving
    <2>4. CASE \E p \in Drivers : Starts(p) \/ Retries(p)
      BY <2>2, <2>3, <2>4, <1>a DEF Starts, Retries, Procs
    <2>5. ASSUME NEW p \in Procs, SaveSelect(p)
          PROVE  /\ rows'[Target(call'[Cleaner])] # <<>>
                 /\ pc'[Cleaner] = "write" => call'[Cleaner].found
      <3>1. CASE p = Cleaner
        <4>1. /\ pc[Cleaner] = "select" /\ Target(call'[Cleaner]) = Target(call[Cleaner])
              /\ call'[Cleaner].found = (rows[Target(call[Cleaner])] # <<>>)
          BY <3>1, <2>5, <1>a, SelectParts
        <4>2. rows[Target(call[Cleaner])] # <<>>
          BY <4>1 DEF CountInv, Saving
        <4> QED  BY <4>1, <4>2, <2>1, <1>b
      <3>2. CASE p # Cleaner
        BY <3>2, <2>2, <2>3, <2>5, <1>a, SelectParts
      <3> QED  BY <3>1, <3>2
    <2>6. ASSUME NEW p \in Procs, Stops(p)
          PROVE  pc'[Cleaner] = pc[Cleaner] /\ call'[Cleaner] = call[Cleaner]
      BY <2>6, <2>2, <1>2 DEF Stops, Saving
    <2>7. CASE FlagNext
      <3>1. PICK o \in orphans : Flags(o)
        BY <2>7, <1>a, FlagParts
      <3>2. Target(call'[Cleaner]) = <<o.job, o.type>> /\ pc'[Cleaner] = "select"
        BY <3>1 DEF Flags, Target
      <3>3. rows[Target(call'[Cleaner])] # <<>>
        BY <3>2 DEF CountInv
      <3> QED  BY <3>2, <3>3, <2>1, <1>b
    <2>8. CASE ListOrphans \/ UNCHANGED <<pc, call, orphans, overlapped>>
      BY <2>8, <2>3 DEF ListOrphans
    <2> QED  BY <2>3, <2>4, <2>5, <2>6, <2>7, <2>8 DEF QuietStep
  <1>3. pc'[Cleaner] = "write" => Saving(Cleaner)'
    BY DEF Saving
  <1> QED  BY <1>1, <1>2, <1>3

\* A quiet step adds an inserter only where a look-up found nothing, so to a record that
\* has no row at all.
LEMMA QuietCount ==
  ASSUME CountInv, TypeInv', QuietStep, SameRows, NEW r \in Records
  PROVE  Len(rows'[r]) + Cardinality(Inserters(r)') <= Cardinality(Drivers)
  <1>a. TypeInv /\ TypeOK /\ Drivers \subseteq Procs /\ Len(rows'[r]) = Len(rows[r])
    BY DEF CountInv, TypeInv, Procs, SameRows
  <1>1. ASSUME \A p \in Drivers : pc'[p] = "write" => pc[p] = "write" /\ call'[p] = call[p]
        PROVE  Len(rows'[r]) + Cardinality(Inserters(r)') <= Cardinality(Drivers)
    <2>1. Inserters(r)' \subseteq Inserters(r)
      BY <1>1 DEF Inserters
    <2> QED  BY <2>1, <1>a, CountKept
  <1>2. ASSUME NEW p \in Procs, OthersKept(p), pc'[p] # "write"
        PROVE  \A q \in Drivers : pc'[q] = "write" => pc[q] = "write" /\ call'[q] = call[q]
    BY <1>2, <1>a DEF OthersKept
  <1>3. CASE \E p \in Drivers : Starts(p) \/ Retries(p)
    BY <1>3, <1>1, <1>2, <1>a DEF Starts, Retries, Creates, Reads
  <1>4. ASSUME NEW p \in Procs, SaveSelect(p)
        PROVE  Len(rows'[r]) + Cardinality(Inserters(r)') <= Cardinality(Drivers)
    <2>1. /\ OthersKept(p) /\ Target(call'[p]) = Target(call[p])
          /\ call'[p].found = (rows[Target(call[p])] # <<>>)
      BY <1>4, <1>a, SelectParts
    <2>2. CASE rows[r] # <<>>
      <3>1. Inserters(r)' \subseteq Inserters(r)
        BY <2>1, <2>2, <1>a DEF Inserters, OthersKept
      <3> QED  BY <3>1, <1>a, CountKept
    <2>3. CASE rows[r] = <<>>
      <3>1. Len(rows'[r]) = 0
        BY <2>3, <1>a, RowsTyped
      <3>2. Inserters(r)' \subseteq Drivers
        BY DEF Inserters
      <3>3. Cardinality(Inserters(r)') \in Nat /\ Cardinality(Inserters(r)') <= Cardinality(Drivers)
        BY <3>2, InsertersFinite
      <3> QED  BY <3>1, <3>3
    <2> QED  BY <2>2, <2>3
  <1>5. ASSUME NEW p \in Procs, Stops(p)
        PROVE  Len(rows'[r]) + Cardinality(Inserters(r)') <= Cardinality(Drivers)
    BY <1>5, <1>1, <1>2 DEF Stops
  <1>6. CASE FlagNext
    <2>1. OthersKept(Cleaner) /\ pc'[Cleaner] # "write" /\ Cleaner \in Procs
      BY <1>6, <1>a, FlagParts DEF Flags, Procs
    <2> QED  BY <2>1, <1>1, <1>2
  <1>7. CASE ListOrphans \/ UNCHANGED <<pc, call, orphans, overlapped>>
    BY <1>7, <1>1 DEF ListOrphans
  <1> QED  BY <1>3, <1>4, <1>5, <1>6, <1>7 DEF QuietStep

\* The write that inserts takes its process off the inserters.
LEMMA WriteCount ==
  ASSUME CountInv, TypeInv', NEW p \in Procs, SaveWrite(p)
  PROVE  CountInv'
  <1>a. TypeInv /\ TypeOK /\ Cleaner \in Procs /\ Drivers \subseteq Procs
    BY DEF CountInv, TypeInv, Procs
  <1>1. PICK c \in Call, tie \in BOOLEAN :
          /\ c = call[p] /\ pc[p] = "write"
          /\ c.to \in JobState /\ Target(c) \in Records
          /\ rows' = [r \in Records |-> Written(r, c, tie)]
          /\ OthersKept(p) /\ pc'[p] = "idle"
          /\ UNCHANGED <<orphans, overlapped>>
    BY <1>a, WriteParts
  <1>2. \A r \in Records :
           /\ r # Target(c) \/ c.found => Len(rows'[r]) = Len(rows[r])
           /\ r = Target(c) /\ ~c.found => Len(rows'[r]) = Len(rows[r]) + 1
    BY <1>1, <1>a, WrittenRows
  <1>3. ASSUME NEW r \in Records
        PROVE  Len(rows'[r]) + Cardinality(Inserters(r)') <= Cardinality(Drivers)
    <2>1. Inserters(r)' \subseteq Inserters(r)
      BY <1>1, <1>a DEF Inserters, OthersKept
    <2>2. CASE r # Target(c) \/ c.found
      BY <2>1, <2>2, <1>2, CountKept
    <2>3. CASE r = Target(c) /\ ~c.found
      <3>1. p \in Inserters(r)
        BY <2>3, <1>1 DEF Inserters, CountInv, Procs
      <3>2. Inserters(r)' \subseteq Inserters(r) \ {p}
        BY <2>1, <1>1 DEF Inserters
      <3>3. Inserters(r) \subseteq Drivers
        BY DEF Inserters
      <3>4. /\ Cardinality(Inserters(r) \ {p}) = Cardinality(Inserters(r)) - 1
            /\ Cardinality(Inserters(r)) \in Nat /\ Cardinality(Drivers) \in Nat
        BY <3>1, <3>3, InsertersFinite, FS_RemoveElement
      <3>5. /\ Cardinality(Inserters(r)') <= Cardinality(Inserters(r) \ {p})
            /\ Cardinality(Inserters(r)') \in Nat /\ Cardinality(Inserters(r) \ {p}) \in Nat
        <4>1. Inserters(r) \ {p} \subseteq Drivers
          BY <3>3
        <4> QED  BY <4>1, <3>2, InsertersFinite
      <3>6. Len(rows[r]) + Cardinality(Inserters(r)) <= Cardinality(Drivers)
        BY DEF CountInv
      <3>7. Len(rows[r]) \in Nat /\ Len(rows'[r]) = Len(rows[r]) + 1
        BY <2>3, <1>2, <1>a, RowsTyped
      <3> QED  BY <3>4, <3>5, <3>6, <3>7
    <2> QED  BY <2>2, <2>3
  <1>4. \A r \in Records : rows[r] # <<>> => rows'[r] # <<>>
    <2> SUFFICES ASSUME NEW r \in Records, rows[r] # <<>> PROVE rows'[r] # <<>>
      OBVIOUS
    <2>1. Len(rows[r]) \in Nat /\ Len(rows[r]) # 0
      BY <1>a, RowsTyped
    <2>2. Len(rows'[r]) # 0
      BY <2>1, <1>2
    <2> QED  BY <2>2
  <1>5. ASSUME NEW o \in orphans'
        PROVE  rows'[<<o.job, o.type>>] # <<>>
    <2>1. o \in orphans /\ <<o.job, o.type>> \in Records
      BY <1>1, <1>5, <1>a DEF TypeOK, Records
    <2> QED  BY <2>1, <1>4 DEF CountInv
  <1>6. ASSUME Saving(Cleaner)'
        PROVE  /\ rows'[Target(call'[Cleaner])] # <<>>
               /\ pc'[Cleaner] = "write" => call'[Cleaner].found
    <2>1. Saving(Cleaner) /\ pc'[Cleaner] = pc[Cleaner] /\ call'[Cleaner] = call[Cleaner]
      BY <1>1, <1>6, <1>a DEF OthersKept, Saving
    <2>2. Target(call[Cleaner]) \in Records
      BY <2>1, <1>a DEF TypeInv, CallsLegal, Saving, Busy, Target, Records
    <2> QED  BY <2>1, <2>2, <1>4 DEF CountInv
  <1>7. pc'[Cleaner] = "write" => Saving(Cleaner)'
    BY DEF Saving
  <1> QED  BY <1>3, <1>5, <1>6, <1>7 DEF CountInv

\* save_job_state never makes more rows for a job and a type than processes run at once,
\* however their look-ups and inserts interleave and wherever they die.
THEOREM DuplicatesAlwaysBounded == Spec => []DuplicatesBounded
  <1>1. CountInv /\ [Next]_vars => CountInv'
    <2> SUFFICES ASSUME CountInv, [Next]_vars PROVE CountInv'
      OBVIOUS
    <2>1. TypeInv /\ TypeInv'
      BY NextTyped DEF CountInv
    <2>2. CASE QuietStep /\ SameRows
      BY <2>1, <2>2, QuietCount, CleanerCount DEF CountInv
    <2> QED  BY <2>1, <2>2, Steps, WriteCount
  <1>2. CountInv => DuplicatesBounded
    <2> SUFFICES ASSUME CountInv, NEW r \in Records PROVE Len(rows[r]) <= Cardinality(Drivers)
      BY DEF DuplicatesBounded
    <2>1. Len(rows[r]) \in Nat /\ Len(rows[r]) + Cardinality(Inserters(r)) <= Cardinality(Drivers)
      BY RowsTyped DEF CountInv, TypeInv
    <2>2. Inserters(r) \subseteq Drivers
      BY DEF Inserters
    <2>3. Cardinality(Inserters(r)) \in Nat /\ Cardinality(Drivers) \in Nat
      BY <2>2, InsertersFinite
    <2> QED  BY <2>1, <2>3
  <1> QED  BY <1>1, <1>2, InitCount, PTL DEF Spec

-----------------------------------------------------------------------------
(* Part 4: jobs whose calls never overlapped.                               *)

\* Two processes in calls for one job, or a driver in a call for a job on the list of
\* the clean-up, have made the job an overlapped one.
Apart ==
    /\ \A p \in Procs : \A q \in Procs \ {p} :
          Busy(p) /\ Busy(q) /\ call[p].job = call[q].job => call[p].job \in overlapped
    /\ \A p \in Drivers, o \in orphans :
          Busy(p) /\ call[p].job = o.job => o.job \in overlapped

\* Of the other jobs, every record has at most one row, a save still starts from the
\* state its record is in and knows whether there is a row, and the list is up to date.
Single == \A r \in Records : r[1] \notin overlapped => Len(rows[r]) <= 1

TrueCalls ==
    \A p \in Procs : Saving(p) /\ call[p].job \notin overlapped =>
        call[p].from = None \/ Held(Target(call[p])) = call[p].from

TrueLooks ==
    \A p \in Procs : pc[p] = "write" /\ call[p].job \notin overlapped =>
        (call[p].found <=> rows[Target(call[p])] # <<>>)

TrueList ==
    /\ \A o \in orphans : o.job \notin overlapped => Held(<<o.job, o.type>>) = o.state
    /\ \A o \in orphans :
          Busy(Cleaner) /\ call[Cleaner].job = o.job /\ call[Cleaner].type = o.type
              => o.job \in overlapped

LifeInv == TypeInv /\ Apart /\ Single /\ TrueCalls /\ TrueLooks /\ TrueList

\* The initial states satisfy it.
LEMMA InitLife == Init => LifeInv
  <1> SUFFICES ASSUME Init PROVE LifeInv
    OBVIOUS
  <1>1. Single
    BY DEF Init, Single
  <1>2. \A p \in Procs : pc[p] = "idle"
    BY DEF Init
  <1>3. Cleaner \in Procs /\ Drivers \subseteq Procs
    BY DEF Procs
  <1>4. Apart /\ TrueCalls /\ TrueLooks /\ TrueList
    BY <1>2, <1>3 DEF Init, Apart, TrueCalls, TrueLooks, TrueList, Busy, Saving
  <1> QED  BY <1>1, <1>4, InitTyped DEF LifeInv

\* No job leaves the overlapped ones.
LEMMA OverlapStays ==
  ASSUME TypeInv, [Next]_vars
  PROVE  overlapped \subseteq overlapped'
  <1>1. QuietStep => overlapped \subseteq overlapped'
    BY SelectParts, FlagParts
    DEF QuietStep, Starts, Retries, Stops, Flags, ListOrphans, SaveSelect, FlagNext
  <1>2. ASSUME NEW p \in Procs, SaveWrite(p) PROVE overlapped' = overlapped
    BY <1>2 DEF SaveWrite
  <1> QED  BY <1>1, <1>2, Steps

\* Whoever is in a call after a step was in it before, or has just begun it.
LEMMA BusyBefore ==
  ASSUME TypeInv, NEW p \in Procs, OthersKept(p), ~Busy(p)' \/ (Busy(p) /\ call'[p].job = call[p].job)
  PROVE  \A q \in Procs : Busy(q)' => Busy(q) /\ call'[q].job = call[q].job
  BY DEF OthersKept, Busy

\* Calls for one job are noticed when the second begins.
LEMMA NextApart ==
  ASSUME TypeInv, Apart, [Next]_vars
  PROVE  Apart'
  <1>a. Cleaner \in Procs /\ Cleaner \notin Drivers /\ Drivers \subseteq Procs
    BY DriversAssumption DEF Procs
  <1>b. overlapped \subseteq overlapped'
    BY OverlapStays
  <1>1. ASSUME orphans' \subseteq orphans,
               \A q \in Procs : Busy(q)' => Busy(q) /\ call'[q].job = call[q].job
        PROVE  Apart'
    BY <1>1, <1>a, <1>b DEF Apart
  <1>2. ASSUME NEW p \in Drivers, Starts(p)
        PROVE  Apart'
    <2> DEFINE j == call'[p].job
    <2>1. /\ OthersKept(p) /\ orphans' = orphans /\ ~Busy(p)
          /\ UnderWay(j) => j \in overlapped'
      BY <1>2 DEF Starts
    <2>2. ASSUME NEW q \in Procs \ {p}, Busy(q)'
          PROVE  /\ Busy(q) /\ call'[q] = call[q]
                 /\ call'[q].job = j => j \in overlapped'
      BY <2>1, <2>2 DEF OthersKept, Busy, UnderWay
    <2>3. \A o \in orphans : o.job = j => j \in overlapped'
      BY <2>1 DEF UnderWay
    <2> HIDE DEF j
    <2>4. ASSUME NEW x \in Procs, NEW y \in Procs \ {x}, Busy(x)', Busy(y)',
                 call'[x].job = call'[y].job
          PROVE  call'[x].job \in overlapped'
      <3>1. CASE x = p
        BY <2>2, <2>4, <3>1 DEF j
      <3>2. CASE y = p
        BY <2>2, <2>4, <3>2 DEF j
      <3>3. CASE x # p /\ y # p
        BY <2>2, <2>4, <3>3, <1>b DEF Apart
      <3> QED  BY <3>1, <3>2, <3>3
    <2>5. ASSUME NEW x \in Drivers, NEW o \in orphans', Busy(x)', call'[x].job = o.job
          PROVE  o.job \in overlapped'
      <3>1. CASE x = p
        BY <2>1, <2>3, <2>5, <3>1 DEF j
      <3>2. CASE x # p
        BY <2>1, <2>2, <2>5, <3>2, <1>a, <1>b DEF Apart
      <3> QED  BY <3>1, <3>2
    <2> QED  BY <2>4, <2>5 DEF Apart
  <1>3. ASSUME NEW p \in Drivers, Retries(p)
        PROVE  Apart'
    <2>1. OthersKept(p) /\ Busy(p) /\ call'[p].job = call[p].job /\ orphans' = orphans
      BY <1>3 DEF Retries, Busy
    <2> QED  BY <2>1, <1>1, <1>a, BusyBefore
  <1>4. ASSUME NEW p \in Procs, SaveSelect(p)
        PROVE  Apart'
    <2>1. OthersKept(p) /\ Busy(p) /\ call'[p].job = call[p].job /\ orphans' = orphans
      BY <1>4, SelectParts DEF Busy
    <2> QED  BY <2>1, <1>1, BusyBefore
  <1>5. ASSUME NEW p \in Procs, OthersKept(p), pc'[p] = "idle", orphans' \subseteq orphans
        PROVE  Apart'
    <2>1. ~Busy(p)'
      BY <1>5 DEF Busy
    <2> QED  BY <2>1, <1>1, <1>5, BusyBefore
  <1>6. CASE ListOrphans
    <2>1. /\ UNCHANGED <<pc, call>>
          /\ \A j \in Jobs : UnderWay(j) /\ (\E o \in OrphanRows : o.job = j) => j \in overlapped'
          /\ orphans' = OrphanRows
      BY <1>6 DEF ListOrphans
    <2>2. ASSUME NEW p \in Drivers, NEW o \in orphans', Busy(p)', call'[p].job = o.job
          PROVE  o.job \in overlapped'
      <3>1. o.job \in Jobs
        BY <2>1, OrphanRowsTyped DEF TypeInv
      <3>2. UnderWay(o.job)
        BY <2>1, <2>2, <1>a DEF UnderWay, Busy
      <3> QED  BY <2>1, <3>1, <3>2
    <2>3. \A p \in Procs : \A q \in Procs \ {p} :
             Busy(p)' /\ Busy(q)' /\ call'[p].job = call'[q].job => call'[p].job \in overlapped'
      BY <2>1, <1>b DEF Apart, Busy
    <2> QED  BY <2>2, <2>3 DEF Apart
  <1>7. CASE FlagNext
    <2>1. PICK o \in orphans : Flags(o)
      BY <1>7, FlagParts
    <2>2. /\ OthersKept(Cleaner) /\ call'[Cleaner].job = o.job /\ orphans' \subseteq orphans
      BY <2>1 DEF Flags
    <2>3. \A q \in Procs \ {Cleaner} :
             q \in Drivers /\ (Busy(q)' => Busy(q)) /\ call'[q] = call[q]
      BY <2>2 DEF OthersKept, Busy, Procs
    <2>4. ASSUME NEW x \in Procs, NEW y \in Procs \ {x}, Busy(x)', Busy(y)',
                 call'[x].job = call'[y].job
          PROVE  call'[x].job \in overlapped'
      <3>1. CASE x = Cleaner
        BY <2>2, <2>3, <2>4, <3>1, <1>b DEF Apart
      <3>2. CASE y = Cleaner
        BY <2>2, <2>3, <2>4, <3>2, <1>b DEF Apart
      <3>3. CASE x # Cleaner /\ y # Cleaner
        BY <2>3, <2>4, <3>3, <1>b DEF Apart
      <3> QED  BY <3>1, <3>2, <3>3
    <2>5. \A x \in Drivers, z \in orphans' :
             Busy(x)' /\ call'[x].job = z.job => z.job \in overlapped'
      BY <2>2, <2>3, <1>a, <1>b DEF Apart
    <2> QED  BY <2>4, <2>5 DEF Apart
  <1>8. CASE UNCHANGED <<pc, call, orphans, overlapped>>
    BY <1>8 DEF Apart, Busy
  <1>9. ASSUME NEW p \in Procs, SaveWrite(p)
        PROVE  OthersKept(p) /\ pc'[p] = "idle" /\ orphans' \subseteq orphans
    BY <1>9, WriteParts
  <1> QED  BY <1>2, <1>3, <1>4, <1>5, <1>6, <1>7, <1>8, <1>9, Steps DEF QuietStep, Stops

\* A record whose rows keep their number and states is in the state it was in.
LEMMA HeldKept ==
  ASSUME TypeInv, TypeInv', NEW r \in Records, Len(rows'[r]) = Len(rows[r]),
         \A i \in DOMAIN rows[r] : rows'[r][i].state = rows[r][i].state
  PROVE  Held(r)' = Held(r)
  <1>1. rows[r] \in Seq(Row) /\ rows'[r] \in Seq(Row)
    BY DEF TypeInv, TypeOK
  <1>2. CASE Len(rows[r]) = 0
    BY <1>1, <1>2 DEF Held
  <1>3. CASE Len(rows[r]) # 0
    <2>1. 1 \in DOMAIN rows[r] /\ rows[r] # <<>> /\ rows'[r] # <<>>
      BY <1>1, <1>3
    <2> QED  BY <2>1 DEF Held
  <1> QED  BY <1>2, <1>3

\* The only row of a record decides the state the record is in.
LEMMA HeldIsIt ==
  ASSUME TypeInv, NEW r \in Records, Len(rows[r]) <= 1, NEW i \in DOMAIN rows[r]
  PROVE  Held(r) = rows[r][i].state /\ rows[r] # <<>>
  <1>1. rows[r] \in Seq(Row)
    BY DEF TypeInv, TypeOK
  <1>2. i = 1 /\ rows[r] # <<>>
    BY <1>1
  <1> QED  BY <1>2 DEF Held

\* A save that is about to write after a quiet step was, or has just looked.
LEMMA QuietWrites ==
  ASSUME TypeInv, QuietStep, NEW p \in Procs, pc'[p] = "write"
  PROVE  (pc[p] = "write" /\ call'[p] = call[p]) \/ SaveSelect(p)
  <1>1. ASSUME NEW q \in Procs, OthersKept(q), q # p
        PROVE  pc[p] = "write" /\ call'[p] = call[p]
    BY <1>1 DEF OthersKept
  <1>2. CASE \E q \in Drivers : Starts(q) \/ Retries(q)
    BY <1>1, <1>2 DEF Starts, Retries, Creates, Reads, Procs
  <1>3. CASE \E q \in Procs : SaveSelect(q)
    BY <1>1, <1>3, SelectParts
  <1>4. CASE \E q \in Procs : Stops(q)
    BY <1>1, <1>4 DEF Stops
  <1>5. CASE FlagNext
    <2>1. OthersKept(Cleaner) /\ pc'[Cleaner] = "select" /\ Cleaner \in Procs
      BY <1>5, FlagParts DEF Flags, Procs
    <2> QED  BY <2>1, <1>1
  <1>6. CASE ListOrphans \/ UNCHANGED <<pc, call, orphans, overlapped>>
    BY <1>6 DEF ListOrphans
  <1> QED  BY <1>2, <1>3, <1>4, <1>5, <1>6 DEF QuietStep

\* What the clean-up knows after a quiet step it knew before, or it has just made its
\* list or taken an entry from it.
LEMMA QuietList ==
  ASSUME TypeInv, QuietStep
  PROVE  \/ /\ orphans' \subseteq orphans
            /\ Busy(Cleaner)' => /\ Busy(Cleaner)
                                 /\ call'[Cleaner].job = call[Cleaner].job
                                 /\ call'[Cleaner].type = call[Cleaner].type
         \/ orphans' = OrphanRows /\ ~Busy(Cleaner)'
         \/ \E o \in orphans : Flags(o)
  <1>a. Cleaner \in Procs /\ Cleaner \notin Drivers /\ Drivers \subseteq Procs
    BY DriversAssumption DEF Procs
  <1>1. CASE \E q \in Drivers : Starts(q) \/ Retries(q)
    BY <1>1, <1>a DEF Starts, Retries, OthersKept, Busy
  <1>2. CASE \E q \in Procs : SaveSelect(q)
    BY <1>2, <1>a, SelectParts DEF OthersKept, Busy
  <1>3. CASE \E q \in Procs : Stops(q)
    BY <1>3, <1>a DEF Stops, OthersKept, Busy
  <1>4. CASE FlagNext
    BY <1>4, FlagParts
  <1>5. CASE ListOrphans
    BY <1>5 DEF ListOrphans, Busy
  <1>6. CASE UNCHANGED <<pc, call, orphans, overlapped>>
    BY <1>6 DEF Busy
  <1> QED  BY <1>1, <1>2, <1>3, <1>4, <1>5, <1>6 DEF QuietStep

\* Quiet steps keep what Part 4 knows: a read gives the one state there is.
LEMMA QuietLife ==
  ASSUME LifeInv, TypeInv', QuietStep, SameRows, overlapped \subseteq overlapped'
  PROVE  Single' /\ TrueCalls' /\ TrueLooks' /\ TrueList'
  <1>a. TypeInv /\ TypeOK /\ Cleaner \in Procs
    BY DEF LifeInv, TypeInv, Procs
  <1>b. \A r \in Records : Held(r)' = Held(r)
    BY <1>a, HeldKept DEF SameRows
  <1>c. ASSUME NEW r \in Records, NEW i \in DOMAIN rows[r], r[1] \notin overlapped
        PROVE  Held(r) = rows[r][i].state
    BY <1>a, <1>c, HeldIsIt DEF LifeInv, Single
  <1>1. Single'
    BY DEF LifeInv, Single, SameRows
  <1>2. TrueCalls'
    <2> SUFFICES ASSUME NEW p \in Procs, Saving(p)', call'[p].job \notin overlapped',
                        call'[p].from # None
                 PROVE  Held(Target(call[p]))' = call'[p].from
      BY DEF TrueCalls
    <2>1. PICK j \in Jobs, t \in Types, f \in {call'[p].from} :
             j = call'[p].job /\ t = call'[p].type /\ f = call'[p].from
      BY DEF TypeInv, CallsLegal, Saving, Busy
    <2>2. /\ <<j, t>> \in Records /\ <<j, t>>[1] = j /\ j \notin overlapped
          /\ Target(call[p])' = <<j, t>>
      BY <2>1, RecordParts DEF Target
    <2>3. Held(<<j, t>>) = f
      <3>1. CASE /\ Saving(p)
                 /\ call'[p].job = call[p].job /\ call'[p].type = call[p].type
                 /\ call'[p].from = call[p].from /\ call'[p].to = call[p].to
        <4>1. Target(call[p]) = <<j, t>> /\ call[p].from = f /\ f # None
          BY <2>1, <3>1 DEF Target
        <4> QED  BY <4>1, <3>1, <2>1, <2>2 DEF LifeInv, TrueCalls
      <3>2. CASE Creates(p)
        BY <3>2 DEF Creates
      <3>3. CASE Reads(p)
        <4>1. PICK i \in DOMAIN rows[<<j, t>>] : rows[<<j, t>>][i].state = f
          BY <3>3, <2>1, <2>2 DEF Reads, Target
        <4> QED  BY <4>1, <2>2, <1>c
      <3>4. CASE p = Cleaner /\ \E o \in orphans : Flags(o)
        <4>1. PICK o \in orphans : Flags(o)
          BY <3>4
        <4>2. o.job = j /\ o.type = t /\ o.state = f
          BY <3>4, <4>1, <2>1 DEF Flags
        <4> QED  BY <4>2, <2>2 DEF LifeInv, TrueList
      <3> QED  BY <3>1, <3>2, <3>3, <3>4, <1>a, QuietSaves
    <2>4. Held(<<j, t>>)' = f
      BY <2>2, <2>3, <1>b
    <2> QED  BY <2>1, <2>2, <2>4
  <1>3. TrueLooks'
    <2> SUFFICES ASSUME NEW p \in Procs, pc'[p] = "write", call'[p].job \notin overlapped'
                 PROVE  call'[p].found <=> rows'[Target(call'[p])] # <<>>
      BY DEF TrueLooks
    <2>1. PICK r \in Records : r = Target(call'[p])
      BY RecordParts DEF TypeInv, CallsLegal, Saving, Busy, Target
    <2>2. rows'[r] = <<>> <=> rows[r] = <<>>
      BY <1>a, Indices
    <2>3. CASE pc[p] = "write" /\ call'[p] = call[p]
      BY <2>1, <2>2, <2>3 DEF LifeInv, TrueLooks
    <2>4. CASE SaveSelect(p)
      <3>1. call'[p].found = (rows[r] # <<>>)
        BY <2>1, <2>4, <1>a, SelectParts
      <3> QED  BY <3>1, <2>1, <2>2
    <2> QED  BY <2>3, <2>4, <1>a, QuietWrites
  <1>4. ASSUME NEW o \in orphans', o.job \notin overlapped'
        PROVE  Held(<<o.job, o.type>>)' = o.state
    <2>1. <<o.job, o.type>> \in Records /\ <<o.job, o.type>>[1] = o.job
      BY RecordParts DEF TypeInv, TypeOK
    <2>2. Held(<<o.job, o.type>>) = o.state
      <3>1. CASE o \in orphans
        BY <3>1, <1>4 DEF LifeInv, TrueList
      <3>2. CASE o \in OrphanRows
        <4>1. PICK i \in DOMAIN rows[<<o.job, o.type>>] :
                 rows[<<o.job, o.type>>][i].state = o.state
          BY <3>2, <1>a, OrphanRowsTyped
        <4> QED  BY <4>1, <2>1, <1>4, <1>c
      <3> QED  BY <3>1, <3>2, <1>4, <1>a, QuietList DEF Flags
    <2> QED  BY <2>1, <2>2, <1>b
  <1>5. ASSUME NEW o \in orphans', Busy(Cleaner)',
               call'[Cleaner].job = o.job, call'[Cleaner].type = o.type
        PROVE  o.job \in overlapped'
    <2>1. CASE /\ orphans' \subseteq orphans
               /\ Busy(Cleaner) /\ call'[Cleaner].job = call[Cleaner].job
               /\ call'[Cleaner].type = call[Cleaner].type
      BY <1>5, <2>1 DEF LifeInv, TrueList
    <2>2. ASSUME NEW x \in orphans, Flags(x)
          PROVE  o.job \in overlapped'
      <3>1. o \in orphans /\ o # x /\ o.job = x.job /\ o.type = x.type
        BY <1>5, <2>2 DEF Flags
      <3>2. o.state # x.state
        BY <3>1, <1>a DEF TypeOK
      <3> QED  BY <3>1, <3>2 DEF LifeInv, TrueList
    <2> QED  BY <2>1, <2>2, <1>5, <1>a, QuietList
  <1> QED  BY <1>1, <1>2, <1>3, <1>4, <1>5 DEF TrueList

\* A write for a job whose calls never overlapped puts its record into the state that the
\* call is for, and leaves every other record of such a job in its state.
LEMMA WriteHeld ==
  ASSUME LifeInv, TypeInv', NEW p \in Procs, SaveWrite(p)
  PROVE  \E c \in Call :
            /\ c = call[p] /\ Saving(p) /\ Busy(p) /\ c.to \in JobState /\ Legal(c)
            /\ c.job \in Jobs /\ c.type \in Types /\ Target(c) \in Records
            /\ OthersKept(p) /\ pc'[p] = "idle"
            /\ UNCHANGED <<orphans, overlapped>>
            /\ c.job \notin overlapped =>
                  /\ Len(rows'[Target(c)]) = 1
                  /\ Held(Target(c))' = c.to
                  /\ c.from # None => Held(Target(c)) = c.from
            /\ \A r \in Records \ {Target(c)} :
                  Len(rows'[r]) = Len(rows[r]) /\ Held(r)' = Held(r)
            /\ \A r \in Records : r[1] # c.job => (rows'[r] = <<>> <=> rows[r] = <<>>)
  <1>a. TypeInv /\ TypeOK
    BY DEF LifeInv, TypeInv
  <1>1. PICK c \in Call, tie \in BOOLEAN :
          /\ c = call[p] /\ pc[p] = "write" /\ Saving(p) /\ Busy(p)
          /\ c.job \in Jobs /\ c.type \in Types /\ c.to \in JobState /\ Legal(c)
          /\ Target(c) \in Records
          /\ rows' = [r \in Records |-> Written(r, c, tie)]
          /\ OthersKept(p) /\ pc'[p] = "idle"
          /\ UNCHANGED <<orphans, overlapped>>
    BY <1>a, WriteParts
  <1>2. PICK t \in Records : t = Target(c)
    BY <1>1
  <1>3. t[1] = c.job
    BY <1>2 DEF Target
  <1>4. ASSUME NEW r \in Records, r # t
        PROVE  Len(rows'[r]) = Len(rows[r]) /\ Held(r)' = Held(r)
    <2>1. /\ Len(rows'[r]) = Len(rows[r]) /\ DOMAIN rows'[r] = 1..Len(rows'[r])
          /\ \A i \in DOMAIN rows'[r] : rows'[r][i].state = rows[r][i].state
      BY <1>1, <1>2, <1>4, <1>a, WrittenRows
    <2>2. DOMAIN rows[r] = DOMAIN rows'[r]
      BY <2>1, <1>a, RowsTyped
    <2> QED  BY <2>1, <2>2, <1>a, HeldKept
  <1>5. ASSUME NEW r \in Records, r[1] # c.job
        PROVE  rows'[r] = <<>> <=> rows[r] = <<>>
    <2>1. Len(rows'[r]) = Len(rows[r])
      BY <1>3, <1>4, <1>5
    <2>2. rows[r] \in Seq(Row) /\ rows'[r] \in Seq(Row)
      BY <1>a DEF TypeInv, TypeOK
    <2> QED  BY <2>1, <2>2
  <1>6. ASSUME c.job \notin overlapped
        PROVE  /\ Len(rows'[t]) = 1 /\ Held(t)' = c.to
               /\ c.from # None => Held(t) = c.from
    <2>1. Len(rows[t]) <= 1 /\ (c.found <=> rows[t] # <<>>) /\ (c.from # None => Held(t) = c.from)
      BY <1>1, <1>2, <1>3, <1>6 DEF LifeInv, Single, TrueLooks, TrueCalls
    <2>2. Len(rows[t]) \in Nat /\ (rows[t] = <<>> <=> Len(rows[t]) = 0)
      BY <1>a, RowsTyped
    <2>3. Len(rows'[t]) = 1
      <3>1. \A r \in Records :
               /\ r # Target(c) \/ c.found => Len(rows'[r]) = Len(rows[r])
               /\ r = Target(c) /\ ~c.found => Len(rows'[r]) = Len(rows[r]) + 1
        BY <1>1, <1>a, WrittenRows
      <3>2. /\ c.found => Len(rows'[t]) = Len(rows[t])
            /\ ~c.found => Len(rows'[t]) = Len(rows[t]) + 1
        BY <3>1, <1>2
      <3>3. CASE rows[t] = <<>>
        <4>1. ~c.found /\ Len(rows[t]) = 0
          BY <3>3, <2>1, <2>2
        <4> QED  BY <4>1, <3>2
      <3>4. CASE rows[t] # <<>>
        <4>1. c.found
          BY <3>4, <2>1
        <4>2. PICK n \in Nat : n = Len(rows[t])
          BY <2>2
        <4>3. n <= 1 /\ n # 0
          BY <4>2, <3>4, <2>1, <2>2
        <4>4. n = 1
          BY <4>3
        <4> QED  BY <4>1, <4>2, <4>4, <3>2
      <3> QED  BY <3>3, <3>4
    <2>4. rows'[t] \in Seq(Row) /\ 1 \in DOMAIN rows'[t] /\ rows'[t] # <<>>
      <3>1. rows'[t] \in Seq(Row)
        BY <1>2 DEF TypeInv, TypeOK
      <3> QED  BY <3>1, <2>3
    <2>5. rows'[t][1].state = c.to
      <3>1. CASE c.found
        BY <3>1, <2>4, <1>1, <1>2, <1>a, WrittenRows
      <3>2. CASE ~c.found
        <4>1. rows'[t][Len(rows'[t])].state = c.to
          BY <3>2, <1>1, <1>2, <1>a, WrittenRows
        <4> QED  BY <4>1, <2>3
      <3> QED  BY <3>1, <3>2
    <2> QED  BY <2>1, <2>3, <2>4, <2>5 DEF Held
  <1> QED  BY <1>1, <1>2, <1>4, <1>5, <1>6

\* A write keeps what Part 4 knows: nobody else is about to save for its job.
LEMMA WriteLife ==
  ASSUME LifeInv, TypeInv', NEW p \in Procs, SaveWrite(p)
  PROVE  Single' /\ TrueCalls' /\ TrueLooks' /\ TrueList'
  <1>a. TypeInv /\ TypeOK /\ Cleaner \in Procs
    BY DEF LifeInv, TypeInv, Procs
  <1>1. PICK c \in Call :
            /\ c = call[p] /\ Saving(p) /\ Busy(p)
            /\ c.job \in Jobs /\ c.type \in Types /\ Target(c) \in Records
            /\ OthersKept(p) /\ pc'[p] = "idle"
            /\ UNCHANGED <<orphans, overlapped>>
            /\ c.job \notin overlapped => Len(rows'[Target(c)]) = 1
            /\ \A r \in Records \ {Target(c)} :
                  Len(rows'[r]) = Len(rows[r]) /\ Held(r)' = Held(r)
            /\ \A r \in Records : r[1] # c.job => (rows'[r] = <<>> <=> rows[r] = <<>>)
    BY WriteHeld
  <1>2. PICK t \in Records : t = Target(c) /\ t = <<c.job, c.type>> /\ t[1] = c.job
    BY <1>1 DEF Target
  <1>3. Single'
    <2> SUFFICES ASSUME NEW r \in Records, r[1] \notin overlapped' PROVE Len(rows'[r]) <= 1
      BY DEF Single
    <2>1. CASE r = t
      <3>1. Len(rows'[t]) = 1
        BY <2>1, <1>1, <1>2
      <3> QED  BY <2>1, <3>1
    <2>2. CASE r # t
      BY <2>2, <1>1, <1>2 DEF LifeInv, Single
    <2> QED  BY <2>1, <2>2
  <1>4. ASSUME NEW q \in Procs, Saving(q)', call'[q].job \notin overlapped'
        PROVE  /\ Saving(q) /\ pc'[q] = pc[q] /\ call'[q] = call[q]
               /\ call[q].job \notin overlapped /\ call[q].job # c.job
               /\ Target(call[q]) \in Records \ {t} /\ Target(call[q])[1] = call[q].job
    <2>1. q # p
      BY <1>1, <1>4 DEF Saving
    <2>2. pc'[q] = pc[q] /\ call'[q] = call[q] /\ Saving(q) /\ Busy(q)
      BY <2>1, <1>1, <1>4 DEF OthersKept, Saving, Busy
    <2>3. call[q].job # c.job
      BY <2>1, <2>2, <1>1, <1>4 DEF LifeInv, Apart
    <2>4. Target(call[q]) \in Records /\ Target(call[q])[1] = call[q].job
      BY <2>2, <1>a, RecordParts DEF TypeInv, CallsLegal, Target
    <2> QED  BY <2>2, <2>3, <2>4, <1>1, <1>2, <1>4
  <1>5. TrueCalls'
    <2> SUFFICES ASSUME NEW q \in Procs, Saving(q)', call'[q].job \notin overlapped'
                 PROVE  call'[q].from = None \/ Held(Target(call[q]))' = call'[q].from
      BY DEF TrueCalls
    <2>1. PICK r \in Records : r = Target(call[q]) /\ r = Target(call[q])' /\ r # t
      BY <1>4 DEF Target
    <2>2. Held(r)' = Held(r)
      BY <2>1, <1>1, <1>2
    <2>3. call[q].from = None \/ Held(r) = call[q].from
      BY <2>1, <1>4 DEF LifeInv, TrueCalls
    <2>4. Held(Target(call[q]))' = Held(r)'
      BY <2>1
    <2> QED  BY <2>2, <2>3, <2>4, <1>4
  <1>6. TrueLooks'
    <2> SUFFICES ASSUME NEW q \in Procs, pc'[q] = "write", call'[q].job \notin overlapped'
                 PROVE  call'[q].found <=> rows'[Target(call'[q])] # <<>>
      BY DEF TrueLooks
    <2>1. Saving(q)'
      BY DEF Saving
    <2>2. PICK r \in Records : r = Target(call[q]) /\ r = Target(call'[q]) /\ r[1] # c.job
      BY <2>1, <1>4
    <2>3. call[q].found <=> rows[r] # <<>>
      BY <2>1, <2>2, <1>4 DEF LifeInv, TrueLooks
    <2> QED  BY <2>1, <2>2, <2>3, <1>1, <1>4
  <1>7. ASSUME NEW o \in orphans', o.job \notin overlapped'
        PROVE  Held(<<o.job, o.type>>)' = o.state
    <2>1. <<o.job, o.type>> \in Records /\ o \in orphans /\ o.job \notin overlapped
      BY <1>7, <1>1, RecordParts DEF TypeInv, TypeOK
    <2>2. <<o.job, o.type>> # t
      <3>1. CASE p = Cleaner
        BY <3>1, <2>1, <1>1, <1>2 DEF LifeInv, TrueList
      <3>2. CASE p \in Drivers
        BY <3>2, <2>1, <1>1, <1>2 DEF LifeInv, Apart
      <3> QED  BY <3>1, <3>2 DEF Procs
    <2> QED  BY <2>1, <2>2, <1>1, <1>2 DEF LifeInv, TrueList
  <1>8. ASSUME NEW o \in orphans', Busy(Cleaner)',
               call'[Cleaner].job = o.job, call'[Cleaner].type = o.type
        PROVE  o.job \in overlapped'
    <2>1. p # Cleaner
      BY <1>1, <1>8 DEF Busy
    <2>2. Busy(Cleaner) /\ call'[Cleaner] = call[Cleaner]
      BY <2>1, <1>1, <1>8, <1>a DEF OthersKept, Busy
    <2> QED  BY <2>2, <1>1, <1>8 DEF LifeInv, TrueList
  <1> QED  BY <1>3, <1>5, <1>6, <1>7, <1>8 DEF TrueList

\* The invariant of Part 4.
LEMMA NextLife == LifeInv /\ [Next]_vars => LifeInv'
  <1> SUFFICES ASSUME LifeInv, [Next]_vars PROVE LifeInv'
    OBVIOUS
  <1>1. TypeInv /\ TypeInv' /\ Apart' /\ overlapped \subseteq overlapped'
    BY NextTyped, NextApart, OverlapStays DEF LifeInv
  <1>2. CASE QuietStep /\ SameRows
    BY <1>1, <1>2, QuietLife DEF LifeInv
  <1>3. ASSUME NEW p \in Procs, SaveWrite(p) PROVE LifeInv'
    BY <1>1, <1>3, WriteLife DEF LifeInv
  <1> QED  BY <1>1, <1>2, <1>3, Steps

\* The abstract and the detailed module share the transition map.
LEMMA SameMap ==
  /\ LC!Orphanable = Orphanable /\ LC!JobState = JobState /\ LC!Records = Records
  /\ \A s : LC!Allowed(s) = Allowed(s)
  BY DEF LC!Orphanable, LC!JobState, LC!Pipeline, LC!TERMINAL_STATES, LC!Allowed, LC!Records,
     LC!VALID_TRANSITIONS, LC!From, LC!RetryTargets, Orphanable, JobState, Pipeline, Records,
     TERMINAL_STATES, Allowed, VALID_TRANSITIONS, From, RetryTargets

\* The variable of the abstract module.
Statuses == [r \in Records |-> Status(r)]

\* A step that leaves the uncontested records alone at most contests some.
LEMMA ContestSteps ==
  ASSUME TypeInv', overlapped \subseteq overlapped',
         \A r \in Records : r[1] \notin overlapped' => Held(r)' = Held(r)
  PROVE  LC!Contest
  <1>1. overlapped' \in SUBSET Jobs
    BY DEF TypeInv, TypeOK
  <1>2. Statuses' = [r \in Records |-> IF r[1] \in overlapped' THEN "contested" ELSE Statuses[r]]
    BY DEF Statuses, Status
  <1> QED  BY <1>1, <1>2, SameMap DEF LC!Contest, Statuses

\* Every step is one of JobLifecycle.
LEMMA StepRefines ==
  ASSUME LifeInv, [Next]_vars
  PROVE  LC!NextState
  <1>1. TypeInv /\ TypeInv' /\ overlapped \subseteq overlapped'
    BY NextTyped, OverlapStays DEF LifeInv
  <1>2. CASE SameRows
    <2>1. \A r \in Records : Held(r)' = Held(r)
      BY <1>1, <1>2, HeldKept DEF SameRows
    <2> QED  BY <2>1, <1>1, ContestSteps DEF LC!NextState
  <1>3. ASSUME NEW p \in Procs, SaveWrite(p)
        PROVE  LC!NextState
    <2>1. PICK c \in Call :
            /\ c.to \in JobState /\ Legal(c) /\ c.job \in Jobs /\ Target(c) \in Records
            /\ UNCHANGED overlapped
            /\ c.job \notin overlapped =>
                  /\ Held(Target(c))' = c.to
                  /\ c.from # None => Held(Target(c)) = c.from
            /\ \A r \in Records \ {Target(c)} : Held(r)' = Held(r)
      BY <1>3, <1>1, WriteHeld
    <2>2. PICK t \in Records : t = Target(c) /\ t[1] = c.job
      BY <2>1 DEF Target
    <2>3. CASE c.job \in overlapped
      <3>1. \A r \in Records : r[1] \notin overlapped' => Held(r)' = Held(r)
        BY <2>1, <2>2, <2>3
      <3> QED  BY <3>1, <1>1, ContestSteps DEF LC!NextState
    <2>4. CASE c.job \notin overlapped
      <3>1. Statuses' = [Statuses EXCEPT ![t] = c.to]
        <4>1. \A r \in Records : Status(r)' = IF r = t THEN c.to ELSE Status(r)
          BY <2>1, <2>2, <2>4 DEF Status
        <4> QED  BY <4>1 DEF Statuses
      <3>2. Statuses[t] = Held(t)
        BY <2>2, <2>4 DEF Statuses, Status
      <3>3. CASE c.from = None
        <4>1. c.to = "trend_found"
          BY <2>1, <3>3, NoneIsNoState, OrphanableStates DEF Legal
        <4>2. Statuses[t] # "contested"
          <5>1. CASE rows[t] = <<>>
            BY <3>2, <5>1 DEF Held
          <5>2. CASE rows[t] # <<>>
            <6>1. TypeOK /\ 1 \in DOMAIN rows[t]
              BY <5>2, <1>1, RowsTyped DEF TypeInv
            <6>2. rows[t][1].state \in JobState
              BY <6>1, RowsTyped DEF Row
            <6>3. "contested" \notin JobState
              BY DEF JobState, Pipeline
            <6> QED  BY <3>2, <5>2, <6>2, <6>3 DEF Held
          <5> QED  BY <5>1, <5>2
        <4>3. LC!Create(t)
          BY <4>1, <4>2, <3>1 DEF LC!Create, Statuses
        <4> QED  BY <4>3, SameMap DEF LC!NextState
      <3>4. CASE c.from # None /\ c.to \in Allowed(c.from)
        <4>1. Statuses[t] = c.from /\ c.from \in JobState
          BY <2>1, <2>2, <2>4, <3>2, <3>4 DEF Call
        <4>2. LC!Advance(t)
          BY <4>1, <3>1, <3>4, SameMap DEF LC!Advance, Statuses
        <4> QED  BY <4>2, SameMap DEF LC!NextState
      <3>5. CASE c.from \in Orphanable /\ c.to = "failed"
        <4>1. Statuses[t] = c.from
          BY <2>1, <2>2, <2>4, <3>2, <3>5, OrphanableStates, NoneIsNoState
        <4>2. LC!FlagOrphan(t)
          BY <4>1, <3>1, <3>5, SameMap DEF LC!FlagOrphan, Statuses
        <4> QED  BY <4>2, SameMap DEF LC!NextState
      <3> QED  BY <2>1, <3>3, <3>4, <3>5 DEF Legal
    <2> QED  BY <2>3, <2>4
  <1> QED  BY <1>2, <1>3, <1>1, Steps

\* What the table holds follows the abstract life cycle: as long as no two calls for a
\* job overlap, every write of the separate statements is a creation, a legal advance
\* or the flagging of an orphan, from the state the record is in at that moment.
THEOREM LifecycleRefined == Spec => Lifecycle
  <1>1. Init => LC!InitState
    BY SameMap DEF Init, LC!InitState, Status, Held
  <1>2. LifeInv /\ [Next]_vars => [LC!NextState]_([r \in Records |-> Status(r)])
    BY StepRefines
  <1> QED  BY <1>1, <1>2, InitLife, NextLife, PTL DEF Spec, Lifecycle, LC!LifecycleSpec
=============================================================================
