------------------------- MODULE ReviewWorkflowProofs -------------------------
(***************************************************************************)
(* Theorems about ReviewWorkflow, for every set of requests, platforms and  *)
(* web threads.  ThreadInv says what a thread in the middle of a request may  *)
(* rely on although it never looks again: its click was let in, and from    *)
(* the gate on the token is no longer pending.  InsertedInv says the same   *)
(* of the rows of the queue, of which OneRow is the UNIQUE constraint.      *)
(***************************************************************************)
EXTENDS ReviewWorkflow, TLAPS

ThreadInv(h) ==
    /\ pc[h] # "idle" => /\ request[h] \in Reviews
                         /\ decision[h] \in Decisions
                         /\ <<request[h], decision[h]>> \in clicked
                         /\ token[request[h]] # "none"
    /\ pc[h] \in {"gate", "queue"} => token[request[h]] # "pending"
    /\ pc[h] = "queue" => decision[h] = "approve"

TokenInv ==
    /\ \A r \in Reviews : stage[r] \in {"new", "created"} => token[r] = "none"
    /\ \A r \in Reviews : stage[r] \in {"tokened", "sent"} => token[r] # "none"
    /\ \A r \in overdue : token[r] # "none"

OneRow == \A x, y \in queue : x.video = y.video /\ x.platform = y.platform => x = y

\* A thread that inserts rows has done so for the platforms it is through with.
InsertedInv(h) ==
    pc[h] = "queue" =>
        request[h] \in struck \/ \A p \in Platforms \ todo[h] : RowsFor(VideoOf[request[h]], p) # {}

ReviewInv ==
    /\ TypeOK
    /\ \A h \in Handlers : ThreadInv(h)
    /\ \A h \in Handlers : InsertedInv(h)
    /\ TokenInv
    /\ OneRow
    /\ DecidedByReviewer
    /\ DecisionClosesToken
    /\ DecisionTakesEffect

Row == [id : Nat, video : Videos, platform : Platforms,
        status : {"waiting", "published", "failed", "cancelled"}]

\* What DecisionTakesEffect says of one request.
TakesEffect(r) ==
    /\ token[r] \in {"approved", "rejected"} =>
           status[r] # "pending_review" \/ \E h \in Handlers : AtGate(h, r)
    /\ connected /\ status[r] = "approved" =>
           \/ \E h \in Handlers : AtQueue(h, r)
           \/ \A p \in Platforms : RowsFor(VideoOf[r], p) # {}

\* A step after which every row has one in its place.
RowsStay == \A x \in queue : \E y \in queue' : y.video = x.video /\ y.platform = x.platform

-----------------------------------------------------------------------------
\* The initial states satisfy the invariant.
LEMMA InitReview == Init => ReviewInv
  BY NoneAssumption
  DEF Init, ReviewInv, TypeOK, ThreadInv, InsertedInv, TokenInv, OneRow, DecidedByReviewer,
      DecisionClosesToken, DecisionTakesEffect, Decisions

\* While rows stay and the history only grows, what a thread has inserted is there.
LEMMA InsertedKept ==
  ASSUME ReviewInv, NEW h \in Handlers, RowsStay, struck \subseteq struck',
         pc'[h] = "queue" => /\ pc[h] = "queue"
                             /\ request'[h] = request[h]
                             /\ todo'[h] = todo[h]
  PROVE  InsertedInv(h)'
  BY DEF ReviewInv, InsertedInv, RowsStay, RowsFor

\* A decision that took effect has its effect as long as its thread and its rows stay.
LEMMA EffectKept ==
  ASSUME ReviewInv, RowsStay, UNCHANGED <<connected, status>>,
         numbered' = numbered, struck \subseteq struck', autoApproved \subseteq autoApproved',
         \A r \in Reviews \ (struck' \cup autoApproved') :
             token'[r] \in {"approved", "rejected"} => token[r] \in {"approved", "rejected"},
         \A h \in Handlers : pc[h] \in {"gate", "queue"} => /\ pc'[h] = pc[h]
                                                           /\ request'[h] = request[h]
  PROVE  DecisionTakesEffect'
  <1>1. DecisionTakesEffect /\ numbered \subseteq Reviews
    BY DEF ReviewInv, TypeOK
  <1> SUFFICES ASSUME NEW r \in numbered', r \notin (struck' \cup autoApproved')
               PROVE  /\ token'[r] \in {"approved", "rejected"} =>
                             status'[r] # "pending_review" \/ \E h \in Handlers : AtGate(h, r)'
                      /\ connected' /\ status'[r] = "approved" =>
                             \/ \E h \in Handlers : AtQueue(h, r)'
                             \/ \A p \in Platforms : RowsFor(VideoOf[r], p)' # {}
    BY DEF DecisionTakesEffect
  <1>2. r \in numbered \ (struck \cup autoApproved) /\ r \in Reviews
    BY <1>1
  <1>3. \A h \in Handlers : (AtGate(h, r) => AtGate(h, r)') /\ (AtQueue(h, r) => AtQueue(h, r)')
    BY DEF AtGate, AtQueue
  <1>4. \A p \in Platforms : RowsFor(VideoOf[r], p) # {} => RowsFor(VideoOf[r], p)' # {}
    BY DEF RowsStay, RowsFor
  <1>5. token'[r] \in {"approved", "rejected"} =>
            status'[r] # "pending_review" \/ \E h \in Handlers : AtGate(h, r)'
    BY <1>1, <1>2, <1>3 DEF DecisionTakesEffect
  <1>6. connected' /\ status'[r] = "approved" =>
            \/ \E h \in Handlers : AtQueue(h, r)'
            \/ \A p \in Platforms : RowsFor(VideoOf[r], p)' # {}
    BY <1>1, <1>2, <1>3, <1>4 DEF DecisionTakesEffect
  <1> QED  BY <1>5, <1>6

\* A step that leaves the queue and the reviews alone, takes no decision back and
\* opens no token: only threads and tokens move.
LEMMA QueueKept ==
  ASSUME ReviewInv, UNCHANGED <<queue, status>>,
         clicked \subseteq clicked', autoApproved \subseteq autoApproved'
  PROVE  OneRow' /\ DecidedByReviewer' /\ RowsStay
  BY DEF ReviewInv, OneRow, DecidedByReviewer, RowsStay

\* A thread that answers, or dies, leaves nothing that the others rely on.
LEMMA RespondKept ==
  ASSUME ReviewInv, NEW h \in Handlers, Respond(h),
         UNCHANGED <<token, clicked>>
  PROVE  /\ pc' \in [Handlers -> {"idle", "mark_read", "mark_write", "gate", "queue"}]
         /\ request' \in [Handlers -> Reviews \cup {None}]
         /\ decision' \in [Handlers -> Decisions \cup {None}]
         /\ todo' \in [Handlers -> SUBSET Platforms]
         /\ pc'[h] = "idle"
         /\ \A g \in Handlers \ {h} : /\ pc'[g] = pc[g]
                                      /\ request'[g] = request[g]
                                      /\ todo'[g] = todo[g]
         /\ \A g \in Handlers : ThreadInv(g)'
  BY DEF ReviewInv, TypeOK, ThreadInv, Respond, Goto

\* The steps of ReviewGate.process.
LEMMA GateKeeps ==
  ASSUME ReviewInv, NEW r \in Reviews, GateStep(r)
  PROVE  ReviewInv'
  <1>a. TypeOK /\ (\A h \in Handlers : ThreadInv(h)) /\ TokenInv /\ DecisionClosesToken
    BY DEF ReviewInv
  <1>b. UNCHANGED <<connected, threads, job, rows, clicked, struck>>
    BY DEF GateStep, CreateReview, CreateToken, Send, ProcessDies, FlushStaleReview, gate
  <1>c. RowsStay
    BY <1>b DEF RowsStay, rows
  <1>d. \A h \in Handlers : InsertedInv(h)'
    BY <1>b, <1>c, InsertedKept DEF threads
  <1>1. CASE CreateReview(r)
    <2>1. TypeOK' /\ (\A h \in Handlers : ThreadInv(h)')
      BY <1>1, <1>a DEF TypeOK, ThreadInv, CreateReview, threads, job, rows
    <2>2. TokenInv' /\ OneRow' /\ DecisionClosesToken'
      BY <1>1, <1>a
      DEF ReviewInv, TypeOK, TokenInv, OneRow, DecisionClosesToken, CreateReview, job, rows
    <2>3. DecidedByReviewer'
      BY <1>1 DEF ReviewInv, TypeOK, DecidedByReviewer, CreateReview, job, rows
    <2>4. DecisionTakesEffect'
      <3>1. /\ numbered' \subseteq numbered \cup {r} /\ numbered \subseteq Reviews
            /\ status' = [status EXCEPT ![r] = "pending_review"]
            /\ status \in [Reviews -> {"none", "pending_review", "approved", "rejected", "expired"}]
            /\ token[r] = "none"
        BY <1>1, <1>a DEF CreateReview, TypeOK, TokenInv
      <3> QED  BY <1>1, <1>b, <3>1
               DEF ReviewInv, CreateReview, DecisionTakesEffect, AtGate, AtQueue, RowsFor, threads,
                   job, rows
    <2> QED  BY <1>d, <2>1, <2>2, <2>3, <2>4 DEF ReviewInv
  <1>2. CASE CreateToken(r)
    <2>1. TypeOK'
      BY <1>2, <1>a DEF TypeOK, CreateToken, threads, job, rows
    <2>2. \A h \in Handlers : ThreadInv(h)'
      BY <1>2, <1>a DEF TypeOK, ThreadInv, TokenInv, CreateToken, threads
    <2>3. /\ stage' = [stage EXCEPT ![r] = "tokened"] /\ token' = [token EXCEPT ![r] = "pending"]
          /\ stage \in [Reviews -> {"new", "created", "tokened", "sent", "unsent"}]
          /\ token \in [Reviews -> {"none", "pending", "approved", "rejected", "expired"}]
          /\ overdue' = overdue /\ overdue \subseteq Reviews /\ status' = status
          /\ token[r] = "none"
      BY <1>2, <1>a DEF TypeOK, TokenInv, CreateToken, job
    <2>4. TokenInv'
      BY <2>3, <1>a DEF TokenInv
    <2>5. DecisionClosesToken'
      BY <2>3, <1>a DEF DecisionClosesToken
    <2>6. OneRow' /\ DecidedByReviewer'
      BY <1>2, QueueKept DEF CreateToken, rows, job
    <2>7. DecisionTakesEffect'
      BY <1>2, <1>b, <1>c, <2>3, EffectKept DEF CreateToken, threads, job
    <2> QED  BY <1>d, <2>1, <2>2, <2>4, <2>5, <2>6, <2>7 DEF ReviewInv
  <1>3. CASE Send(r) \/ ProcessDies(r)
    <2>0. /\ UNCHANGED <<connected, numbered, status, token, threads, job, rows, clicked, struck>>
          /\ stage' \in [Reviews -> {"new", "created", "tokened", "sent", "unsent"}]
          /\ \A q \in Reviews : stage'[q] \in {"new", "created"} => stage'[q] = stage[q]
          /\ \A q \in Reviews : stage'[q] \in {"tokened", "sent"} => stage[q] \in {"tokened", "sent"}
      BY <1>3, <1>a DEF Send, ProcessDies, TypeOK
    <2>1. TypeOK' /\ (\A h \in Handlers : ThreadInv(h)')
      BY <2>0, <1>a DEF TypeOK, ThreadInv, threads, job, rows
    <2>2. TokenInv' /\ DecisionClosesToken'
      BY <2>0, <1>a DEF TokenInv, DecisionClosesToken, job
    <2>3. OneRow' /\ DecidedByReviewer'
      BY <2>0, QueueKept DEF rows, job
    <2>4. DecisionTakesEffect'
      BY <2>0, <1>c, EffectKept DEF threads, job
    <2> QED  BY <1>d, <2>1, <2>2, <2>3, <2>4 DEF ReviewInv
  <1>4. CASE FlushStaleReview(r)
    <2>1. TypeOK' /\ (\A h \in Handlers : ThreadInv(h)')
      BY <1>4, <1>a DEF TypeOK, ThreadInv, FlushStaleReview, gate, threads, job, rows
    <2>2. TokenInv' /\ OneRow' /\ DecisionClosesToken'
      BY <1>4, <1>a
      DEF ReviewInv, TypeOK, TokenInv, OneRow, DecisionClosesToken, FlushStaleReview, gate, job, rows
    <2>3. DecidedByReviewer'
      BY <1>4 DEF ReviewInv, TypeOK, DecidedByReviewer, FlushStaleReview, job, rows
    <2>4. DecisionTakesEffect'
      BY <1>4, <1>b, <1>a
      DEF ReviewInv, TypeOK, FlushStaleReview, DecisionTakesEffect, AtGate, AtQueue, RowsFor, gate,
          threads, job, rows
    <2> QED  BY <1>d, <2>1, <2>2, <2>3, <2>4 DEF ReviewInv
  <1> QED  BY <1>1, <1>2, <1>3, <1>4 DEF GateStep

\* A click and the two statements that mark the token.
LEMMA MarkKeeps ==
  ASSUME ReviewInv, NEW h \in Handlers,
         \/ \E r \in Reviews, d \in Decisions : Click(h, r, d)
         \/ MarkRead(h)
         \/ MarkWrite(h)
  PROVE  ReviewInv'
  <1>a. TypeOK /\ (\A g \in Handlers : ThreadInv(g)) /\ TokenInv /\ DecisionClosesToken
    BY DEF ReviewInv
  <1>b. /\ UNCHANGED <<gate, status, todo, job, rows, struck>>
        /\ clicked \subseteq clicked'
        /\ pc[h] \in {"idle", "mark_read", "mark_write"}
        /\ pc'[h] # "queue"
        /\ \A g \in Handlers \ {h} : pc'[g] = pc[g] /\ request'[g] = request[g]
    BY <1>a DEF TypeOK, Click, MarkRead, MarkWrite, Goto
  <1>c. OneRow' /\ DecidedByReviewer' /\ RowsStay
    BY <1>b, QueueKept DEF rows, job
  <1>d. \A g \in Handlers : InsertedInv(g)'
    BY <1>b, <1>c, InsertedKept
  <1>1. ASSUME NEW r \in Reviews, NEW d \in Decisions, Click(h, r, d)
        PROVE  ReviewInv'
    <2>1. TypeOK'
      BY <1>1, <1>a DEF TypeOK, Click, Goto, gate, job, rows
    <2>2. \A g \in Handlers : ThreadInv(g)'
      BY <1>1, <1>a DEF TypeOK, ThreadInv, Click, Goto
    <2>3. TokenInv' /\ DecisionClosesToken'
      BY <1>1, <1>a DEF TokenInv, DecisionClosesToken, Click, gate, job
    <2>4. DecisionTakesEffect'
      BY <1>1, <1>b, <1>c, EffectKept DEF Click, gate, job
    <2> QED  BY <1>c, <1>d, <2>1, <2>2, <2>3, <2>4 DEF ReviewInv
  <1>2. CASE MarkRead(h)
    <2>1. TypeOK'
      BY <1>2, <1>a DEF TypeOK, MarkRead, Goto, gate, job, rows
    <2>2. \A g \in Handlers : ThreadInv(g)'
      BY <1>2, <1>a DEF TypeOK, ThreadInv, MarkRead, Goto
    <2>3. TokenInv' /\ DecisionClosesToken'
      BY <1>2, <1>a DEF TokenInv, DecisionClosesToken, MarkRead, gate, job
    <2>4. DecisionTakesEffect'
      BY <1>2, <1>b, <1>c, EffectKept DEF MarkRead, gate, job
    <2> QED  BY <1>c, <1>d, <2>1, <2>2, <2>3, <2>4 DEF ReviewInv
  <1>3. CASE MarkWrite(h)
    <2>0. PICK s \in {"approved", "rejected"} : token' = [token EXCEPT ![request[h]] = s]
      BY <1>3 DEF MarkWrite
    <2>1. TypeOK'
      BY <1>3, <2>0, <1>a DEF TypeOK, MarkWrite, Goto, gate, job, rows
    <2>2. \A g \in Handlers : ThreadInv(g)'
      BY <1>3, <2>0, <1>a DEF TypeOK, ThreadInv, MarkWrite, Goto
    <2>3. request[h] \in Reviews /\ token[request[h]] # "none"
      BY <1>3, <1>a DEF MarkWrite, ThreadInv
    <2>4. TokenInv' /\ DecisionClosesToken'
      BY <1>3, <2>0, <2>3, <1>a DEF TypeOK, TokenInv, DecisionClosesToken, MarkWrite, gate, job
    <2>5. DecisionTakesEffect'
      <3>1. pc'[h] = "gate" /\ request'[h] = request[h] /\ \A q \in Reviews \ {request[h]} : token'[q] = token[q]
        BY <1>3, <2>0, <1>a DEF MarkWrite, Goto, TypeOK
      <3>2. \A g \in Handlers, q \in Reviews : /\ AtGate(g, q) => AtGate(g, q)'
                                               /\ AtQueue(g, q) => AtQueue(g, q)'
        BY <1>b DEF AtGate, AtQueue
      <3>3. UNCHANGED <<connected, numbered, status, queue, struck, autoApproved>>
            /\ numbered \subseteq Reviews
        BY <1>b, <1>a DEF TypeOK, gate, job, rows
      <3> SUFFICES ASSUME NEW q \in numbered', q \notin (struck' \cup autoApproved')
                   PROVE  TakesEffect(q)'
        BY DEF DecisionTakesEffect, TakesEffect
      <3>4. TakesEffect(q) /\ q \in Reviews
        BY <3>3 DEF ReviewInv, DecisionTakesEffect, TakesEffect
      <3>5. \A p \in Platforms : RowsFor(VideoOf[q], p)' = RowsFor(VideoOf[q], p)
        BY <3>3 DEF RowsFor
      <3>6. token'[q] \in {"approved", "rejected"} =>
                status'[q] # "pending_review" \/ \E g \in Handlers : AtGate(g, q)'
        <4>1. CASE q = request[h]
          BY <3>1, <4>1 DEF AtGate
        <4>2. CASE q # request[h]
          BY <3>1, <3>2, <3>3, <3>4, <4>2 DEF TakesEffect
        <4> QED  BY <4>1, <4>2
      <3>7. connected' /\ status'[q] = "approved" =>
                \/ \E g \in Handlers : AtQueue(g, q)'
                \/ \A p \in Platforms : RowsFor(VideoOf[q], p)' # {}
        BY <3>2, <3>3, <3>4, <3>5 DEF TakesEffect
      <3> QED  BY <3>6, <3>7 DEF TakesEffect
    <2> QED  BY <1>c, <1>d, <2>1, <2>2, <2>4, <2>5 DEF ReviewInv
  <1> QED  BY <1>1, <1>2, <1>3

\* The decision of the gate.
LEMMA DecisionKeeps ==
  ASSUME ReviewInv, NEW h \in Handlers, Approve(h) \/ Reject(h) \/ NoSuchReview(h)
  PROVE  ReviewInv'
  <1>a. TypeOK /\ (\A g \in Handlers : ThreadInv(g)) /\ TokenInv /\ DecisionClosesToken
    BY DEF ReviewInv
  <1>b. UNCHANGED <<gate, token, job, rows, clicked, struck>> /\ pc[h] = "gate"
    BY DEF Approve, Reject, NoSuchReview
  <1>c. /\ request[h] \in Reviews /\ <<request[h], decision[h]>> \in clicked
        /\ decision[h] \in Decisions
        /\ token[request[h]] \notin {"none", "pending"}
    BY <1>a, <1>b DEF ThreadInv
  <1>d. /\ status' \in [Reviews -> {"none", "pending_review", "approved", "rejected", "expired"}]
        /\ \A q \in Reviews \ {request[h]} : status'[q] = status[q]
        /\ \/ status' = status /\ request[h] \notin numbered
           \/ decision[h] = "approve" /\ status'[request[h]] = "approved"
           \/ decision[h] = "reject" /\ status'[request[h]] = "rejected"
    BY <1>a, <1>c DEF TypeOK, Approve, Reject, NoSuchReview
  <1>e. TokenInv' /\ DecisionClosesToken'
    BY <1>a, <1>b, <1>c, <1>d DEF TokenInv, DecisionClosesToken, gate, job
  <1>f. OneRow' /\ RowsStay
    BY <1>b DEF ReviewInv, OneRow, RowsStay, rows
  <1>g. DecidedByReviewer'
    BY <1>b, <1>c, <1>d DEF ReviewInv, DecidedByReviewer, job, rows
  <1>1. CASE /\ Approve(h)
             /\ Goto(h, "queue")
             /\ todo' = [todo EXCEPT ![h] = Platforms]
             /\ UNCHANGED <<request, decision>>
    <2>1. TypeOK'
      BY <1>1, <1>a, <1>b, <1>d DEF TypeOK, Goto, gate, job, rows
    <2>2. \A g \in Handlers : ThreadInv(g)'
      BY <1>1, <1>a, <1>b DEF TypeOK, ThreadInv, Approve, Goto
    <2>3. \A g \in Handlers : InsertedInv(g)'
      <3>1. InsertedInv(h)'
        BY <1>1, <1>a DEF TypeOK, InsertedInv
      <3>2. \A g \in Handlers \ {h} : InsertedInv(g)'
        BY <1>1, <1>a, <1>b, <1>f, InsertedKept DEF TypeOK, Goto
      <3> QED  BY <3>1, <3>2
    <2>4. DecisionTakesEffect'
      <3>1. pc'[h] = "queue" /\ request'[h] = request[h] /\ status'[request[h]] = "approved"
        BY <1>1, <1>a, <1>c DEF Approve, TypeOK, Goto
      <3>2. \A g \in Handlers, q \in Reviews \ {request[h]} :
                (AtGate(g, q) => AtGate(g, q)') /\ (AtQueue(g, q) => AtQueue(g, q)')
        BY <1>1, <1>a DEF AtGate, AtQueue, Goto, TypeOK
      <3>3. UNCHANGED <<connected, numbered, token, queue, struck, autoApproved>>
            /\ numbered \subseteq Reviews
        BY <1>a, <1>b DEF TypeOK, gate, job, rows
      <3> SUFFICES ASSUME NEW q \in numbered', q \notin (struck' \cup autoApproved')
                   PROVE  TakesEffect(q)'
        BY DEF DecisionTakesEffect, TakesEffect
      <3>4. TakesEffect(q) /\ q \in Reviews
        BY <3>3 DEF ReviewInv, DecisionTakesEffect, TakesEffect
      <3>5. \A p \in Platforms : RowsFor(VideoOf[q], p)' = RowsFor(VideoOf[q], p)
        BY <3>3 DEF RowsFor
      <3>6. CASE q = request[h]
        BY <3>1, <3>6 DEF TakesEffect, AtQueue
      <3>7. CASE q # request[h]
        BY <1>d, <3>2, <3>3, <3>4, <3>5, <3>7 DEF TakesEffect
      <3> QED  BY <3>6, <3>7
    <2> QED  BY <1>e, <1>f, <1>g, <2>1, <2>2, <2>3, <2>4 DEF ReviewInv
  <1>2. CASE Respond(h) /\ (Approve(h) => ~(connected /\ Platforms # {}))
    <2>1. /\ pc' \in [Handlers -> {"idle", "mark_read", "mark_write", "gate", "queue"}]
          /\ request' \in [Handlers -> Reviews \cup {None}]
          /\ decision' \in [Handlers -> Decisions \cup {None}]
          /\ todo' \in [Handlers -> SUBSET Platforms]
          /\ pc'[h] = "idle"
          /\ \A g \in Handlers \ {h} : /\ pc'[g] = pc[g]
                                       /\ request'[g] = request[g]
                                       /\ todo'[g] = todo[g]
          /\ \A g \in Handlers : ThreadInv(g)'
      BY <1>2, <1>b, RespondKept
    <2>2. TypeOK'
      BY <2>1, <1>a, <1>b, <1>d DEF TypeOK, gate, job, rows
    <2>3. \A g \in Handlers : InsertedInv(g)'
      BY <2>1, <1>b, <1>f, InsertedKept
    <2>4. DecisionTakesEffect'
      <3>1. \A g \in Handlers, q \in Reviews \ {request[h]} :
                (AtGate(g, q) => AtGate(g, q)') /\ (AtQueue(g, q) => AtQueue(g, q)')
        BY <2>1 DEF AtGate, AtQueue
      <3>2. UNCHANGED <<connected, numbered, token, queue, struck, autoApproved>>
            /\ numbered \subseteq Reviews
        BY <1>a, <1>b DEF TypeOK, gate, job, rows
      <3>3. request[h] \in numbered =>
                /\ status'[request[h]] # "pending_review"
                /\ status'[request[h]] = "approved" => ~connected \/ Platforms = {}
        BY <1>2, <1>c, <1>d, <1>a DEF TypeOK, Approve, Reject, NoSuchReview
      <3> SUFFICES ASSUME NEW q \in numbered', q \notin (struck' \cup autoApproved')
                   PROVE  TakesEffect(q)'
        BY DEF DecisionTakesEffect, TakesEffect
      <3>4. TakesEffect(q) /\ q \in Reviews /\ q \in numbered
        BY <3>2 DEF ReviewInv, DecisionTakesEffect, TakesEffect
      <3>5. \A p \in Platforms : RowsFor(VideoOf[q], p)' = RowsFor(VideoOf[q], p)
        BY <3>2 DEF RowsFor
      <3>6. CASE q = request[h]
        BY <3>2, <3>3, <3>4, <3>5, <3>6 DEF TakesEffect
      <3>7. CASE q # request[h]
        BY <1>d, <3>1, <3>2, <3>4, <3>5, <3>7 DEF TakesEffect
      <3> QED  BY <3>6, <3>7
    <2> QED  BY <1>e, <1>f, <1>g, <2>1, <2>2, <2>3, <2>4 DEF ReviewInv
  <1> QED  BY <1>1, <1>2 DEF Approve, Reject, NoSuchReview

\* One platform of add_to_queue: done, refused, or cut short by a death.
LEMMA InsertKeeps ==
  ASSUME ReviewInv, NEW h \in Handlers, Enqueue(h) \/ EnqueueFails(h)
  PROVE  ReviewInv'
  <1>a. TypeOK /\ (\A g \in Handlers : ThreadInv(g)) /\ TokenInv /\ DecisionClosesToken
    BY DEF ReviewInv
  <1>b. UNCHANGED <<gate, status, token, job, taken, clicked>> /\ pc[h] = "queue"
    BY DEF Enqueue, EnqueueFails, rows
  <1>c. PICK x \in Reviews : x = request[h] /\ <<x, "approve">> \in clicked
    BY <1>a, <1>b DEF ThreadInv
  <1>1. PICK p \in todo[h] :
            /\ NextPlatform(h, p)
            /\ \/ InsertOrIgnore(VideoOf[x], p) /\ struck' = struck
               \/ UNCHANGED <<queue, lastId>> /\ struck' = struck \cup {x}
    BY <1>c DEF Enqueue, EnqueueFails, rows
  <1>2. p \in Platforms /\ struck \subseteq struck' /\ struck' \subseteq Reviews
    BY <1>a, <1>1, <1>c DEF TypeOK
  <1> DEFINE new == [id |-> lastId + 1, video |-> VideoOf[x], platform |-> p,
                     status |-> "waiting"]
  <1>3. new \in Row /\ new.video = VideoOf[x] /\ new.platform = p
    BY <1>a, <1>2, VideoAssumption DEF TypeOK, Row
  <1>4. \/ UNCHANGED <<queue, lastId>>
        \/ /\ RowsFor(VideoOf[x], p) = {}
           /\ queue' = queue \cup {new}
           /\ lastId' = lastId + 1
    BY <1>1 DEF InsertOrIgnore
  <1>5. x \in struck' \/ RowsFor(VideoOf[x], p)' # {}
    <2>1. CASE UNCHANGED <<queue, lastId>>
      <3>1. CASE struck' = struck \cup {x}
        BY <3>1
      <3>2. CASE InsertOrIgnore(VideoOf[x], p)
        <4>1. RowsFor(VideoOf[x], p) # {}
          BY <1>a, <2>1, <3>2 DEF InsertOrIgnore, TypeOK
        <4> QED  BY <2>1, <4>1 DEF RowsFor
      <3> QED  BY <1>1, <3>1, <3>2
    <2>2. CASE queue' = queue \cup {new}
      BY <1>3, <2>2 DEF RowsFor
    <2> QED  BY <1>4, <2>1, <2>2
  <1> HIDE DEF new
  <1>6. RowsStay /\ queue' \subseteq Row /\ lastId' \in Nat
    BY <1>a, <1>3, <1>4 DEF RowsStay, TypeOK, Row
  <1>7. OneRow'
    BY <1>3, <1>4 DEF ReviewInv, OneRow, RowsFor
  <1>8. DecidedByReviewer'
    BY <1>b, <1>c, <1>3, <1>4 DEF ReviewInv, DecidedByReviewer, job
  <1>9. TokenInv' /\ DecisionClosesToken'
    BY <1>a, <1>b DEF TokenInv, DecisionClosesToken, gate, job
  <1>10. /\ pc' \in [Handlers -> {"idle", "mark_read", "mark_write", "gate", "queue"}]
         /\ request' \in [Handlers -> Reviews \cup {None}]
         /\ decision' \in [Handlers -> Decisions \cup {None}]
         /\ todo' \in [Handlers -> SUBSET Platforms]
         /\ \A g \in Handlers \ {h} : /\ pc'[g] = pc[g]
                                      /\ request'[g] = request[g]
                                      /\ todo'[g] = todo[g]
         /\ \A g \in Handlers : ThreadInv(g)'
         /\ \/ todo[h] = {p} /\ pc'[h] = "idle"
            \/ pc'[h] = "queue" /\ request'[h] = request[h] /\ todo'[h] = todo[h] \ {p}
    <2>1. CASE todo[h] = {p}
      BY <2>1, <1>1, <1>b, RespondKept DEF NextPlatform
    <2>2. CASE todo[h] # {p}
      BY <2>2, <1>1, <1>b, <1>a DEF NextPlatform, TypeOK, ThreadInv
    <2> QED  BY <2>1, <2>2
  <1>11. TypeOK'
    BY <1>a, <1>b, <1>2, <1>6, <1>10 DEF TypeOK, Row, gate, job
  <1>12. \A q \in Platforms \ (todo[h] \ {p}) :
             x \in struck' \/ RowsFor(VideoOf[x], q)' # {}
    <2>1. InsertedInv(h)
      BY DEF ReviewInv
    <2>2. \A q \in Platforms : RowsFor(VideoOf[x], q) # {} =>
                               RowsFor(VideoOf[x], q)' # {}
      BY <1>6 DEF RowsStay, RowsFor
    <2> QED  BY <2>1, <2>2, <1>b, <1>c, <1>2, <1>5 DEF InsertedInv
  <1>13. \A g \in Handlers : InsertedInv(g)'
    <2>1. InsertedInv(h)'
      BY <1>10, <1>12, <1>c DEF InsertedInv
    <2>2. \A g \in Handlers \ {h} : InsertedInv(g)'
      BY <1>2, <1>6, <1>10, InsertedKept
    <2> QED  BY <2>1, <2>2
  <1>14. DecisionTakesEffect'
    <2> SUFFICES ASSUME NEW r \in numbered', r \notin (struck' \cup autoApproved')
                 PROVE  /\ token'[r] \in {"approved", "rejected"} =>
                               status'[r] # "pending_review" \/ \E g \in Handlers : AtGate(g, r)'
                        /\ connected' /\ status'[r] = "approved" =>
                               \/ \E g \in Handlers : AtQueue(g, r)'
                               \/ \A q \in Platforms : RowsFor(VideoOf[r], q)' # {}
      BY DEF DecisionTakesEffect
    <2>1. /\ r \in numbered \ (struck \cup autoApproved)
          /\ UNCHANGED <<connected, status, token>>
      BY <1>b, <1>2 DEF gate, job
    <2>2. \A g \in Handlers : AtGate(g, r) => AtGate(g, r)'
      BY <1>b, <1>10 DEF AtGate
    <2>3. \A g \in Handlers \ {h} : AtQueue(g, r) => AtQueue(g, r)'
      BY <1>10 DEF AtQueue
    <2>4. \A q \in Platforms : RowsFor(VideoOf[r], q) # {} => RowsFor(VideoOf[r], q)' # {}
      BY <1>6 DEF RowsStay, RowsFor
    <2>5. AtQueue(h, r) => AtQueue(h, r)' \/ \A q \in Platforms : RowsFor(VideoOf[r], q)' # {}
      <3>1. CASE todo[h] = {p} /\ r = x
        BY <1>12, <3>1
      <3>2. CASE pc'[h] = "queue" /\ request'[h] = request[h]
        BY <3>2 DEF AtQueue
      <3> QED  BY <1>10, <1>c, <3>1, <3>2 DEF AtQueue
    <2>6. token'[r] \in {"approved", "rejected"} =>
              status'[r] # "pending_review" \/ \E g \in Handlers : AtGate(g, r)'
      BY <2>1, <2>2 DEF ReviewInv, DecisionTakesEffect
    <2>7. connected' /\ status'[r] = "approved" =>
              \/ \E g \in Handlers : AtQueue(g, r)'
              \/ \A q \in Platforms : RowsFor(VideoOf[r], q)' # {}
      BY <2>1, <2>3, <2>4, <2>5 DEF ReviewInv, DecisionTakesEffect
    <2> QED  BY <2>6, <2>7
  <1> QED  BY <1>7, <1>8, <1>9, <1>10, <1>11, <1>13, <1>14 DEF ReviewInv

\* The steps of a web thread.
LEMMA HandlerKeeps ==
  ASSUME ReviewInv, NEW h \in Handlers, HandlerStep(h)
  PROVE  ReviewInv'
  <1>1. CASE HandlerDies(h)
    <2>a. TypeOK /\ TokenInv /\ DecisionClosesToken /\ \A g \in Handlers : ThreadInv(g)
      BY DEF ReviewInv
    <2>b. Respond(h) /\ UNCHANGED <<gate, status, token, job, rows, clicked>> /\ pc[h] # "idle"
      BY <1>1 DEF HandlerDies
    <2>1. /\ pc' \in [Handlers -> {"idle", "mark_read", "mark_write", "gate", "queue"}]
          /\ request' \in [Handlers -> Reviews \cup {None}]
          /\ decision' \in [Handlers -> Decisions \cup {None}]
          /\ todo' \in [Handlers -> SUBSET Platforms]
          /\ pc'[h] = "idle"
          /\ \A g \in Handlers \ {h} : /\ pc'[g] = pc[g]
                                       /\ request'[g] = request[g]
                                       /\ todo'[g] = todo[g]
          /\ \A g \in Handlers : ThreadInv(g)'
      BY <2>b, RespondKept
    <2>2. request[h] \in Reviews
      BY <2>a, <2>b DEF ThreadInv
    <2>3. /\ struck \subseteq struck' /\ struck' \subseteq Reviews
          /\ pc[h] \in {"gate", "queue"} => request[h] \in struck'
      BY <1>1, <2>a, <2>2 DEF HandlerDies, TypeOK
    <2>4. TypeOK'
      BY <2>a, <2>b, <2>1, <2>3 DEF TypeOK, gate, job, rows
    <2>5. TokenInv' /\ DecisionClosesToken'
      BY <2>a, <2>b DEF TokenInv, DecisionClosesToken, gate, job
    <2>6. OneRow' /\ DecidedByReviewer' /\ RowsStay
      BY <2>b, QueueKept DEF rows, job
    <2>7. \A g \in Handlers : InsertedInv(g)'
      BY <2>1, <2>3, <2>6, InsertedKept
    <2>8. DecisionTakesEffect'
      <3>1. \A g \in Handlers, q \in Reviews \ struck' :
                (AtGate(g, q) => AtGate(g, q)') /\ (AtQueue(g, q) => AtQueue(g, q)')
        BY <2>1, <2>3 DEF AtGate, AtQueue
      <3>2. UNCHANGED <<connected, numbered, status, token, queue, autoApproved>>
            /\ numbered \subseteq Reviews
        BY <2>a, <2>b DEF TypeOK, gate, job, rows
      <3> QED  BY <2>3, <3>1, <3>2 DEF ReviewInv, DecisionTakesEffect, RowsFor
    <2> QED  BY <2>1, <2>4, <2>5, <2>6, <2>7, <2>8 DEF ReviewInv
  <1>2. CASE ~HandlerDies(h)
    BY <1>2, MarkKeeps, DecisionKeeps, InsertKeeps DEF HandlerStep
  <1> QED  BY <1>1, <1>2

\* The steps of the expiry job.
LEMMA JobKeeps ==
  ASSUME ReviewInv, JobStep
  PROVE  ReviewInv'
  <1>a. TypeOK /\ (\A g \in Handlers : ThreadInv(g)) /\ TokenInv /\ DecisionClosesToken
    BY DEF ReviewInv
  <1>b. /\ UNCHANGED <<gate, status, threads, rows, clicked, struck>>
        /\ autoApproved \subseteq autoApproved'
    BY DEF JobStep, ReadExpired, SettleNext, JobDies
  <1>c. OneRow' /\ DecidedByReviewer' /\ RowsStay
    BY <1>b, QueueKept DEF rows
  <1>d. \A g \in Handlers : InsertedInv(g)'
    BY <1>b, <1>c, InsertedKept DEF threads
  <1>1. CASE ReadExpired \/ JobDies
    <2>1. overdue' \subseteq Reviews /\ (\A r \in overdue' : token[r] # "none")
          /\ UNCHANGED <<token, autoApproved>>
      BY <1>1, <1>a DEF ReadExpired, JobDies
    <2>2. TypeOK' /\ (\A g \in Handlers : ThreadInv(g)')
      BY <2>1, <1>a, <1>b DEF TypeOK, ThreadInv, gate, threads, rows
    <2>3. TokenInv' /\ DecisionClosesToken'
      BY <2>1, <1>a, <1>b DEF TokenInv, DecisionClosesToken, gate
    <2>4. DecisionTakesEffect'
      BY <2>1, <1>b, <1>c, EffectKept DEF gate, threads
    <2> QED  BY <1>c, <1>d, <2>2, <2>3, <2>4 DEF ReviewInv
  <1>2. ASSUME NEW r \in Reviews, SettleNext(r)
        PROVE  ReviewInv'
    <2>0. PICK s \in {"approved", "expired"} :
              /\ token' = [token EXCEPT ![r] = s]
              /\ s = "approved" => r \in autoApproved'
      BY <1>2 DEF SettleNext
    <2>1. autoApproved' \subseteq Reviews
      BY <1>2, <1>a DEF SettleNext, TypeOK
    <2>2. TypeOK'
      BY <1>2, <2>0, <2>1, <1>a DEF TypeOK, SettleNext, gate, threads, rows
    <2>3. \A g \in Handlers : ThreadInv(g)'
      BY <1>2, <2>0, <1>a DEF TypeOK, ThreadInv, SettleNext, threads
    <2>4. TokenInv' /\ DecisionClosesToken'
      BY <1>2, <2>0, <1>a DEF TypeOK, TokenInv, DecisionClosesToken, SettleNext, gate
    <2>5. \A q \in Reviews \ (struck' \cup autoApproved') :
              token'[q] \in {"approved", "rejected"} => token[q] \in {"approved", "rejected"}
      BY <2>0, <1>a DEF TypeOK
    <2>6. DecisionTakesEffect'
      BY <2>5, <1>b, <1>c, EffectKept DEF gate, threads
    <2> QED  BY <1>c, <1>d, <2>2, <2>3, <2>4, <2>6 DEF ReviewInv
  <1> QED  BY <1>1, <1>2 DEF JobStep

\* An UPDATE keeps every row in its place, and those it does not meet as they are.
LEMMA StatusSet ==
  ASSUME ReviewInv, NEW met \in SUBSET queue, NEW s \in {"published", "failed", "cancelled"},
         SetStatus(met, s)
  PROVE  /\ queue' \subseteq Row
         /\ RowsStay
         /\ OneRow'
         /\ \A y \in queue' : \E x \in queue : /\ y.video = x.video
                                               /\ y.platform = x.platform
                                               /\ y = x \/ y.status = s
  <1>1. queue \subseteq Row /\ OneRow
    BY DEF ReviewInv, TypeOK, Row
  <1>2. \A x \in queue : /\ [x EXCEPT !.status = s] \in Row
                         /\ [x EXCEPT !.status = s].video = x.video
                         /\ [x EXCEPT !.status = s].platform = x.platform
                         /\ [x EXCEPT !.status = s].status = s
    BY <1>1 DEF Row
  <1>3. queue' = (queue \ met) \cup {[x EXCEPT !.status = s] : x \in met}
    BY DEF SetStatus
  <1>4. queue' \subseteq Row
    BY <1>1, <1>2, <1>3
  <1>5. RowsStay
    BY <1>2, <1>3 DEF RowsStay
  <1>6. \A y \in queue' : \E x \in queue : /\ y.video = x.video
                                           /\ y.platform = x.platform
                                           /\ y = x \/ y.status = s
    BY <1>2, <1>3
  <1>7. ASSUME NEW y \in queue', NEW z \in queue', y.video = z.video, y.platform = z.platform
        PROVE  y = z
    <2>1. PICK u \in queue : y = IF u \in met THEN [u EXCEPT !.status = s] ELSE u
      BY <1>3
    <2>2. PICK v \in queue : z = IF v \in met THEN [v EXCEPT !.status = s] ELSE v
      BY <1>3
    <2>3. u.video = v.video /\ u.platform = v.platform
      BY <1>2, <1>7, <2>1, <2>2
    <2>4. u = v
      BY <1>1, <2>3 DEF OneRow
    <2> QED  BY <2>1, <2>2, <2>4
  <1>8. OneRow'
    BY <1>7 DEF OneRow
  <1> QED  BY <1>4, <1>5, <1>6, <1>8

\* A mark of a consumer and a cancellation are such UPDATEs.
LEMMA MarksSet ==
  ASSUME (\E c \in Consumers : MarkRow(c))
         \/ (\E v \in Videos, ps \in {Platforms} \cup {{p} : p \in Platforms} : Cancel(v, ps))
  PROVE  \E met \in SUBSET queue, s \in {"published", "failed", "cancelled"} : SetStatus(met, s)
  <1>1. ASSUME NEW c \in Consumers, MarkRow(c)
        PROVE  \E met \in SUBSET queue, s \in {"published", "failed", "cancelled"} :
                   SetStatus(met, s)
    <2>1. {row \in queue : row.id = taken[c]} \in SUBSET queue
      OBVIOUS
    <2> QED  BY <1>1, <2>1 DEF MarkRow
  <1>2. ASSUME NEW v \in Videos, NEW ps, Cancel(v, ps)
        PROVE  \E met \in SUBSET queue, s \in {"published", "failed", "cancelled"} :
                   SetStatus(met, s)
    <2>1. {row \in queue : row.video = v /\ row.platform \in ps} \in SUBSET queue
      OBVIOUS
    <2> QED  BY <1>2, <2>1 DEF Cancel
  <1> QED  BY <1>1, <1>2

\* The steps of the queue's consumers and of its housekeeping.
LEMMA QueueKeeps ==
  ASSUME ReviewInv, QueueStep
  PROVE  ReviewInv'
  <1>a. TypeOK /\ OneRow /\ DecidedByReviewer
    BY DEF ReviewInv
  <1>0. UNCHANGED <<gate, status, token, threads, job, lastId, clicked>>
    BY DEF QueueStep, TakeReady, MarkRow, ConsumerDies, Cancel, FlushExpired
  <1>1. (\A g \in Handlers : ThreadInv(g)') /\ TokenInv' /\ DecisionClosesToken'
    BY <1>0 DEF ReviewInv, ThreadInv, TokenInv, DecisionClosesToken, gate, threads, job
  <1>2. taken' \in [Consumers -> Nat \cup {None}]
    <2>1. taken \in [Consumers -> Nat \cup {None}] /\ \A x \in queue : x.id \in Nat
      BY <1>a DEF TypeOK
    <2>2. \/ taken' = taken
          \/ \E c \in Consumers, n \in Nat \cup {None} : taken' = [taken EXCEPT ![c] = n]
      BY <2>1 DEF QueueStep, TakeReady, MarkRow, ConsumerDies, Cancel, FlushExpired
    <2> QED  BY <2>1, <2>2
  <1>3. CASE /\ RowsStay
             /\ struck' = struck
             /\ queue' \subseteq Row
             /\ OneRow'
             /\ \A y \in queue' : \E x \in queue : y.video = x.video
    <2>1. TypeOK'
      BY <1>0, <1>2, <1>3, <1>a DEF TypeOK, Row, gate, threads, job
    <2>2. \A g \in Handlers : InsertedInv(g)'
      BY <1>0, <1>3, InsertedKept DEF threads
    <2>3. DecidedByReviewer'
      BY <1>0, <1>3, <1>a DEF DecidedByReviewer, job
    <2>4. DecisionTakesEffect'
      BY <1>0, <1>3, EffectKept DEF gate, threads, job
    <2> QED  BY <1>1, <1>3, <2>1, <2>2, <2>3, <2>4 DEF ReviewInv
  <1>4. CASE \E c \in Consumers : TakeReady(c) \/ ConsumerDies(c)
    <2>1. queue' = queue /\ struck' = struck
      BY <1>4 DEF TakeReady, ConsumerDies
    <2> QED  BY <1>3, <1>a, <2>1 DEF RowsStay, OneRow, TypeOK, Row
  <1>5. CASE \/ \E c \in Consumers : MarkRow(c)
             \/ \E v \in Videos, ps \in {Platforms} \cup {{p} : p \in Platforms} : Cancel(v, ps)
    <2>1. struck' = struck
      BY <1>5 DEF MarkRow, Cancel
    <2>2. PICK met \in SUBSET queue, s \in {"published", "failed", "cancelled"} :
              SetStatus(met, s)
      BY <1>5, MarksSet
    <2> QED  BY <1>3, <2>1, <2>2, StatusSet
  <1>6. CASE FlushExpired
    <2>1. PICK row \in queue :
              /\ queue' = queue \ {row}
              /\ struck' = struck \cup {r \in Reviews : VideoOf[r] = row.video}
      BY <1>6 DEF FlushExpired
    <2>2. TypeOK' /\ OneRow'
      BY <1>0, <1>2, <2>1, <1>a DEF TypeOK, OneRow, gate, threads, job
    <2>3. DecidedByReviewer'
      BY <1>0, <2>1, <1>a DEF DecidedByReviewer, job
    <2>4. \A q \in Reviews \ struck', p \in Platforms : RowsFor(VideoOf[q], p)' = RowsFor(VideoOf[q], p)
      BY <2>1 DEF RowsFor
    <2>5. \A g \in Handlers : InsertedInv(g)'
      <3>1. \A g \in Handlers : pc[g] = "queue" => request[g] \in Reviews
        BY DEF ReviewInv, ThreadInv
      <3> QED  BY <1>0, <2>1, <2>4, <3>1 DEF ReviewInv, InsertedInv, threads
    <2>6. DecisionTakesEffect'
      <3>1. numbered \subseteq Reviews /\ DecisionTakesEffect
        BY <1>a DEF ReviewInv, TypeOK
      <3> QED  BY <1>0, <2>1, <2>4, <3>1 DEF DecisionTakesEffect, AtGate, AtQueue, gate, threads, job
    <2> QED  BY <1>1, <2>2, <2>3, <2>5, <2>6 DEF ReviewInv
  <1> QED  BY <1>4, <1>5, <1>6 DEF QueueStep

\* Every step keeps the invariant.
LEMMA NextReview == ReviewInv /\ [Next]_vars => ReviewInv'
  <1> SUFFICES ASSUME ReviewInv, [Next]_vars PROVE ReviewInv'
    OBVIOUS
  <1>1. CASE UNCHANGED vars
    <2>1. UNCHANGED <<gate, status, token, threads, job, rows, clicked, struck>>
      BY <1>1 DEF vars
    <2>2. TypeOK' /\ TokenInv' /\ DecisionClosesToken' /\ \A h \in Handlers : ThreadInv(h)'
      BY <2>1 DEF ReviewInv, TypeOK, ThreadInv, TokenInv, DecisionClosesToken, gate, threads, job, rows
    <2>3. OneRow' /\ DecidedByReviewer' /\ RowsStay
      BY <2>1, QueueKept DEF rows, job
    <2>4. DecisionTakesEffect' /\ \A h \in Handlers : InsertedInv(h)'
      BY <2>1, <2>3, EffectKept, InsertedKept DEF gate, threads, job
    <2> QED  BY <2>2, <2>3, <2>4 DEF ReviewInv
  <1>2. CASE Next
    BY <1>2, GateKeeps, HandlerKeeps, JobKeeps, QueueKeeps DEF Next
  <1> QED  BY <1>1, <1>2

\* No step lets the video of a settled row wait in the queue.
LEMMA SettledKept ==
  ASSUME ReviewInv, [Next]_vars, NEW row \in queue, row.status # "waiting"
  PROVE  /\ RowsFor(row.video, row.platform)' # {}
         /\ \A x \in RowsFor(row.video, row.platform)' : x.status # "waiting"
  <1> DEFINE Out == /\ RowsFor(row.video, row.platform)' # {}
                    /\ \A x \in RowsFor(row.video, row.platform)' : x.status # "waiting"
  <1>0. OneRow
    BY DEF ReviewInv
  <1>1. CASE queue' = queue
    BY <1>0, <1>1 DEF RowsFor, OneRow
  <1>2. ASSUME NEW met \in SUBSET queue, NEW s \in {"published", "failed", "cancelled"},
               SetStatus(met, s)
        PROVE  Out
    <2>1. RowsStay /\ \A y \in queue' : \E x \in queue : /\ y.video = x.video
                                                         /\ y.platform = x.platform
                                                         /\ y = x \/ y.status = s
      BY <1>2, StatusSet
    <2>2. RowsFor(row.video, row.platform)' # {}
      BY <2>1 DEF RowsStay, RowsFor
    <2>3. \A y \in RowsFor(row.video, row.platform)' : y.status # "waiting"
      BY <1>0, <2>1 DEF RowsFor, OneRow
    <2> QED  BY <2>2, <2>3
  <1>3. CASE FlushExpired
    BY <1>0, <1>3 DEF FlushExpired, Stale, RowsFor, OneRow
  <1>4. ASSUME NEW h \in Handlers, Enqueue(h) PROVE Out
    <2>1. PICK p : InsertOrIgnore(VideoOf[request[h]], p)
      BY <1>4 DEF Enqueue
    <2>2. CASE RowsFor(VideoOf[request[h]], p) = {}
      <3> DEFINE new == [id |-> lastId + 1, video |-> VideoOf[request[h]], platform |-> p,
                         status |-> "waiting"]
      <3>1. queue' = queue \cup {new} /\ new.video = VideoOf[request[h]] /\ new.platform = p
        BY <2>1, <2>2 DEF InsertOrIgnore
      <3>2. ~(row.video = new.video /\ row.platform = new.platform)
        BY <2>2, <3>1 DEF RowsFor
      <3> HIDE DEF new
      <3> QED  BY <1>0, <3>1, <3>2 DEF RowsFor, OneRow
    <2>3. CASE RowsFor(VideoOf[request[h]], p) # {}
      BY <1>1, <2>1, <2>3 DEF InsertOrIgnore
    <2> QED  BY <2>2, <2>3
  <1>5. CASE QueueStep
    <2>1. (\E c \in Consumers : TakeReady(c) \/ ConsumerDies(c)) => queue' = queue
      BY DEF TakeReady, ConsumerDies
    <2> QED  BY <1>1, <1>2, <1>3, <1>5, <2>1, MarksSet DEF QueueStep
  <1>6. ASSUME NEW r \in Reviews, GateStep(r) PROVE queue' = queue
    BY <1>6 DEF GateStep, CreateReview, CreateToken, Send, ProcessDies, FlushStaleReview, rows
  <1>7. ASSUME NEW h \in Handlers, HandlerStep(h) PROVE Enqueue(h) \/ queue' = queue
    BY <1>7 DEF HandlerStep, Click, MarkRead, MarkWrite, Approve, Reject, NoSuchReview, EnqueueFails,
                HandlerDies, rows
  <1>8. JobStep \/ UNCHANGED vars => queue' = queue
    BY DEF JobStep, ReadExpired, SettleNext, JobDies, vars, rows
  <1> QED  BY <1>1, <1>4, <1>5, <1>6, <1>7, <1>8 DEF Next

-----------------------------------------------------------------------------
\* Type correctness.
THEOREM ReviewTypeCorrect == Spec => []TypeOK
  <1>1. ReviewInv => TypeOK
    BY DEF ReviewInv
  <1> QED  BY <1>1, InitReview, NextReview, PTL DEF Spec

\* Nothing is approved, rejected or queued without a click that was let in, or
\* an auto-approval, for any number of web threads racing each other, the
\* expiry job and the stale-review flush.
THEOREM AlwaysDecidedByReviewer == Spec => []DecidedByReviewer
  <1>1. ReviewInv => DecidedByReviewer
    BY DEF ReviewInv
  <1> QED  BY <1>1, InitReview, NextReview, PTL DEF Spec

\* A decision always closes the token.
THEOREM DecisionAlwaysClosesToken == Spec => []DecisionClosesToken
  <1>1. ReviewInv => DecisionClosesToken
    BY DEF ReviewInv
  <1> QED  BY <1>1, InitReview, NextReview, PTL DEF Spec

\* A video that left the queue of a platform never waits in it again, for any number of
\* consumers that have the same row, of cancellations, approvals and flushes.
THEOREM SettledAlwaysStaysOut == Spec => SettledStaysOut
  <1>1. ReviewInv /\ [Next]_vars
            => [\A row \in queue : row.status # "waiting" =>
                   /\ RowsFor(row.video, row.platform)' # {}
                   /\ \A x \in RowsFor(row.video, row.platform)' : x.status # "waiting"]_vars
    BY SettledKept
  <1> QED  BY <1>1, InitReview, NextReview, PTL DEF Spec, SettledStaysOut

\* A decision takes effect unless one of the named faults hits it, for any number of
\* threads, platforms and requests.
THEOREM DecisionAlwaysTakesEffect == Spec => []DecisionTakesEffect
  <1>1. ReviewInv => DecisionTakesEffect
    BY DEF ReviewInv
  <1> QED  BY <1>1, InitReview, NextReview, PTL DEF Spec
=============================================================================
