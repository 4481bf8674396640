---------------------------- MODULE ServicesProofs ----------------------------
(***************************************************************************)
(* Theorems about the components of MCServices, each about the              *)
(* specification of its own component: ScriptTexts (part 1), TrendSources   *)
(* (part 2), FirstComments (part 3), PublishSlots (part 4) and              *)
(* GracefulShutdown (part 5).                                               *)
(***************************************************************************)
EXTENDS MCServices, FiniteSetTheorems, WellFoundedInduction, TLAPS

-----------------------------------------------------------------------------
(* 1. ScriptTexts, for every margin and number of attempts, with and without *)
(* templates and a key.  The bound on the requests of a day is not           *)
(* inductive: what was asked is compared with what the four routers have     *)
(* spent of their margins, a refusal being the last they spend, with the     *)
(* request that is under way, and with the one that may be asked after       *)
(* midnight on the count of the day before, which no router will have.       *)

Asking == call \in {"groq", "asked"}

\* A request that will be made on yesterday's count.
Late == IF call = "groq" /\ ~dated[stage] THEN 1 ELSE 0

\* A request that is made and will be counted, or be the router's last.
Outstanding == IF call = "asked" /\ dated[stage] THEN 1 ELSE 0

\* What a router has spent of its margin: what it counted, and a refusal.
Spent(u) == Texts!Counted(u) + (IF groq[u] THEN 0 ELSE 1)

SpentAll == Spent("hook") + Spent("body") + Spent("pillar") + Spent("tags")

\* Where the writer is says how many attempts it has had, and whether a router is asked.
TextShape ==
    /\ stage \in {"hook", "body", "store"} => tries < TRIES
    /\ call # "none" => stage \in Texts!Users

CallsAccounted ==
    /\ \A u \in Texts!Users : Spent(u) <= MARGIN
    /\ Asking => groq[stage]
    /\ Asking /\ dated[stage] => requests[stage] < MARGIN
    /\ groqCalls + Late <= SpentAll + Outstanding + unread + 1

Written ==
    TEMPLATES => /\ call # "fallback"
                 /\ body \in {"none", "written"}
                 /\ stored[2] \in {"none", "written"}

TextInv == Texts!TypeOK /\ TextShape /\ CallsAccounted /\ Written

\* What the steps below take from the types.
LEMMA TextNumbers ==
  ASSUME Texts!TypeOK
  PROVE  /\ \A u \in Texts!Users : requests[u] \in Nat /\ dated[u] \in BOOLEAN /\ groq[u] \in BOOLEAN
                                  /\ Texts!Counted(u) \in Nat /\ Spent(u) \in Nat
         /\ SpentAll \in Nat /\ groqCalls \in Nat /\ unread \in Nat /\ MARGIN \in Nat /\ MARGIN >= 1
         /\ Late \in {0, 1} /\ Outstanding \in {0, 1}
  <1>1. \A u \in Texts!Users : /\ requests[u] \in Nat /\ dated[u] \in BOOLEAN /\ groq[u] \in BOOLEAN
                               /\ Texts!Counted(u) \in Nat /\ Spent(u) \in Nat
    BY DEF Texts!TypeOK, Texts!Counted, Spent
  <1>2. SpentAll \in Nat
    BY <1>1 DEF SpentAll, Texts!Users
  <1> QED  BY <1>1, <1>2, TextsAssumption DEF Texts!TypeOK, Late, Outstanding

\* Four numbers of which one changes, and their sum with it.
LEMMA SumOfSpent ==
  ASSUME TextInv, NEW s \in Texts!Users, NEW x \in {0, 1}, Spent(s)' = Spent(s) + x,
         \A u \in Texts!Users : u # s => Spent(u)' = Spent(u)
  PROVE  SpentAll' = SpentAll + x
  <1>1. \A u \in Texts!Users : Spent(u) \in Nat
    BY TextNumbers DEF TextInv
  <1>2. PICK h, b, c, t \in Nat : /\ h = Spent("hook") /\ b = Spent("body")
                                 /\ c = Spent("pillar") /\ t = Spent("tags")
    BY <1>1 DEF Texts!Users
  <1>3. SpentAll = h + b + c + t
    BY <1>2 DEF SpentAll
  <1>4. SpentAll' = h + b + c + t + x
    <2>1. CASE s = "hook"
      BY <2>1, <1>2 DEF SpentAll, Texts!Users
    <2>2. CASE s = "body"
      BY <2>2, <1>2 DEF SpentAll, Texts!Users
    <2>3. CASE s = "pillar"
      BY <2>3, <1>2 DEF SpentAll, Texts!Users
    <2>4. CASE s = "tags"
      BY <2>4, <1>2 DEF SpentAll, Texts!Users
    <2> QED  BY <2>1, <2>2, <2>3, <2>4 DEF Texts!Users
  <1> QED  BY <1>2, <1>3, <1>4

\* The initial states satisfy the invariant.
LEMMA InitText == Texts!Init => TextInv
  <1> SUFFICES ASSUME Texts!Init PROVE TextInv
    OBVIOUS
  <1>1. Texts!TypeOK /\ TextShape /\ Written
    BY TextsAssumption
    DEF Texts!Init, Texts!TypeOK, TextShape, Written, Texts!Users, Texts!Kinds, Texts!Answers
  <1>2. \A u \in Texts!Users : Spent(u) \in {0, 1}
    BY TextsAssumption DEF Texts!Init, Spent, Texts!Counted
  <1>3. SpentAll \in Nat
    BY <1>1, TextNumbers
  <1>4. groqCalls + Late <= SpentAll + Outstanding + unread + 1
    BY <1>3 DEF Texts!Init, Late, Outstanding
  <1> QED  BY <1>1, <1>2, <1>4, TextsAssumption DEF TextInv, CallsAccounted, Asking, Texts!Init

\* A choice of provider, by SelectProvider or after Ollama failed: the counter of the
\* router is what was counted before, and Groq is asked only below the margin.
LEMMA RouterResets ==
  ASSUME TextInv, stage \in Texts!Users, call \in {"none", "ollama"}, Texts!MaybeResetDailyCounters(stage),
         NEW affordable \in BOOLEAN,
         call' = IF Texts!GroqWithinLimits(stage, affordable) THEN "groq" ELSE "cached",
         UNCHANGED <<stage, groq, groqCalls, unread>>
  PROVE  /\ requests' \in [Texts!Users -> Nat] /\ dated' \in [Texts!Users -> BOOLEAN]
         /\ CallsAccounted'
  <1>1. /\ \A u \in Texts!Users : Texts!Counted(u)' = Texts!Counted(u)
        /\ requests' \in [Texts!Users -> Nat] /\ dated' \in [Texts!Users -> BOOLEAN]
        /\ groq[stage] => dated'[stage] /\ requests'[stage] = Texts!Counted(stage)
    <2>1. requests \in [Texts!Users -> Nat] /\ dated \in [Texts!Users -> BOOLEAN]
      BY DEF TextInv, Texts!TypeOK
    <2>2. CASE groq[stage]
      <3>1. Texts!Counted(stage) \in Nat
        BY TextNumbers DEF TextInv
      <3>2. /\ requests' = [requests EXCEPT ![stage] = Texts!Counted(stage)]
            /\ dated' = [dated EXCEPT ![stage] = TRUE]
        BY <2>2 DEF Texts!MaybeResetDailyCounters
      <3> QED  BY <2>1, <3>1, <3>2 DEF Texts!Counted
    <2>3. CASE ~groq[stage]
      BY <2>1, <2>3 DEF Texts!MaybeResetDailyCounters, Texts!Counted
    <2> QED  BY <2>2, <2>3
  <1>2. SpentAll' = SpentAll /\ \A u \in Texts!Users : Spent(u)' = Spent(u)
    BY <1>1 DEF SpentAll, Spent, Texts!Users
  <1>3. Late' = 0 /\ Late = 0 /\ Outstanding' = 0 /\ Outstanding = 0
    BY <1>1 DEF Late, Outstanding, Texts!GroqWithinLimits
  <1>4. Asking' => groq'[stage'] /\ requests'[stage'] < MARGIN
    BY <1>1 DEF Asking, Texts!GroqWithinLimits
  <1> QED  BY <1>1, <1>2, <1>3, <1>4 DEF TextInv, CallsAccounted

\* A step that leaves the counters alone, with no request to Groq before or after it.
LEMMA CountersKept ==
  ASSUME CallsAccounted, UNCHANGED <<requests, dated, groq, groqCalls, unread>>,
         ~Asking, call' \notin {"groq", "asked"}
  PROVE  CallsAccounted'
  <1>1. SpentAll' = SpentAll /\ \A u \in Texts!Users : Spent(u)' = Spent(u)
    BY DEF SpentAll, Spent, Texts!Counted
  <1>2. Late = 0 /\ Late' = 0 /\ Outstanding = 0 /\ Outstanding' = 0 /\ ~Asking'
    BY DEF Late, Outstanding, Asking
  <1> QED  BY <1>1, <1>2 DEF CallsAccounted

LEMMA SelectKeeps == TextInv /\ Texts!SelectProvider => TextInv'
  <1> SUFFICES ASSUME TextInv, Texts!SelectProvider PROVE TextInv'
    OBVIOUS
  <1>a. stage \in Texts!Users /\ call = "none"
    BY DEF Texts!SelectProvider
  <1>1. CASE call' = "ollama" /\ UNCHANGED Texts!routers
    <2>1. CallsAccounted'
      BY <1>a, <1>1, CountersKept DEF TextInv, Texts!SelectProvider, Texts!routers, Texts!asked, Asking
    <2> QED  BY <2>1, <1>a, <1>1
             DEF TextInv, Texts!TypeOK, TextShape, Written, Texts!SelectProvider, Texts!routers,
                 Texts!script, Texts!asked
  <1>2. ASSUME NEW affordable \in BOOLEAN,
               call' = IF Texts!GroqWithinLimits(stage, affordable) THEN "groq" ELSE "cached",
               Texts!MaybeResetDailyCounters(stage), UNCHANGED <<ollama, groq>>
        PROVE  TextInv'
    <2>1. UNCHANGED <<stage, tries, hook, body, stored, groqCalls, unread>>
      BY DEF Texts!SelectProvider, Texts!script, Texts!asked
    <2>2. /\ requests' \in [Texts!Users -> Nat] /\ dated' \in [Texts!Users -> BOOLEAN]
          /\ CallsAccounted'
      BY <1>a, <1>2, <2>1, RouterResets
    <2> QED  BY <1>a, <1>2, <2>1, <2>2 DEF TextInv, Texts!TypeOK, TextShape, Written
  <1> QED  BY <1>1, <1>2 DEF Texts!SelectProvider

LEMMA OllamaKeeps == TextInv /\ Texts!CallOllama => TextInv'
  <1> SUFFICES ASSUME TextInv, Texts!CallOllama PROVE TextInv'
    OBVIOUS
  <1>a. stage \in Texts!Users /\ call = "ollama"
    BY DEF Texts!CallOllama, TextInv, TextShape
  <1>b. UNCHANGED <<stage, tries, hook, body, stored, groq, groqCalls, unread>>
    BY DEF Texts!CallOllama, Texts!script, Texts!asked
  <1>1. CASE /\ call' \in {"written", "poor"}
             /\ ollama' = [ollama EXCEPT ![stage] = TRUE]
             /\ UNCHANGED <<requests, dated>>
    <2>1. CallsAccounted'
      BY <1>a, <1>b, <1>1, CountersKept DEF TextInv, Asking
    <2> QED  BY <2>1, <1>a, <1>b, <1>1
             DEF TextInv, Texts!TypeOK, TextShape, Written, Texts!Answers
  <1>2. ASSUME NEW affordable \in BOOLEAN,
               call' = IF Texts!GroqWithinLimits(stage, affordable) THEN "groq" ELSE "cached",
               ollama' = [ollama EXCEPT ![stage] = FALSE],
               Texts!MaybeResetDailyCounters(stage)
        PROVE  TextInv'
    <2>1. /\ requests' \in [Texts!Users -> Nat] /\ dated' \in [Texts!Users -> BOOLEAN]
          /\ CallsAccounted'
      BY <1>a, <1>b, <1>2, RouterResets
    <2> QED  BY <1>a, <1>b, <1>2, <2>1 DEF TextInv, Texts!TypeOK, TextShape, Written
  <1> QED  BY <1>1, <1>2 DEF Texts!CallOllama

\* A request is made: today's is waited for, or is the one on yesterday's count.
LEMMA AskKeeps == TextInv /\ Texts!AskGroq => TextInv'
  <1> SUFFICES ASSUME TextInv, Texts!AskGroq PROVE TextInv'
    OBVIOUS
  <1>a. stage \in Texts!Users /\ call = "groq" /\ call' = "asked" /\ groqCalls' = groqCalls + 1
    BY DEF Texts!AskGroq, TextInv, TextShape
  <1>b. UNCHANGED <<stage, tries, hook, body, stored, ollama, groq, requests, dated, unread>>
    BY DEF Texts!AskGroq, Texts!script, Texts!routers
  <1>1. SpentAll' = SpentAll /\ \A u \in Texts!Users : Spent(u)' = Spent(u)
    BY <1>b DEF SpentAll, Spent, Texts!Counted
  <1>2. /\ SpentAll \in Nat /\ groqCalls \in Nat /\ unread \in Nat
        /\ groqCalls + Late <= SpentAll + Outstanding + unread + 1
    BY TextNumbers DEF TextInv, CallsAccounted
  <1>3. groqCalls' + Late' <= SpentAll' + Outstanding' + unread' + 1
    <2>1. CASE dated[stage]
      <3>1. Late = 0 /\ Late' = 0 /\ Outstanding = 0 /\ Outstanding' = 1
        BY <1>a, <1>b, <2>1 DEF Late, Outstanding
      <3> QED  BY <1>a, <1>b, <1>1, <1>2, <3>1
    <2>2. CASE ~dated[stage]
      <3>1. Late = 1 /\ Late' = 0 /\ Outstanding = 0 /\ Outstanding' = 0
        BY <1>a, <1>b, <2>2 DEF Late, Outstanding
      <3> QED  BY <1>a, <1>b, <1>1, <1>2, <3>1
    <2> QED  BY <2>1, <2>2
  <1>4. CallsAccounted'
    BY <1>a, <1>b, <1>1, <1>3 DEF TextInv, CallsAccounted, Asking
  <1> QED  BY <1>a, <1>b, <1>2, <1>4 DEF TextInv, Texts!TypeOK, TextShape, Written

\* An answer is counted, and a refusal is the last, by a router that asked today.
LEMMA OutcomeAccounted ==
  ASSUME TextInv, stage \in Texts!Users, call = "asked", call' \in {"written", "poor", "cached"},
         UNCHANGED <<stage, dated, groqCalls, unread>>,
         \/ /\ requests' = [requests EXCEPT ![stage] = @ + 1]
            /\ groq' = [groq EXCEPT ![stage] = TRUE]
         \/ groq' = [groq EXCEPT ![stage] = FALSE] /\ requests' = requests
  PROVE  /\ CallsAccounted'
         /\ requests' \in [Texts!Users -> Nat] /\ groq' \in [Texts!Users -> BOOLEAN]
  <1> PICK s \in Texts!Users : s = stage
    OBVIOUS
  <1>a. Texts!TypeOK /\ CallsAccounted
    BY DEF TextInv
  <1>b. /\ requests \in [Texts!Users -> Nat] /\ groq \in [Texts!Users -> BOOLEAN]
        /\ dated \in [Texts!Users -> BOOLEAN]
    BY <1>a DEF Texts!TypeOK
  <1>c. /\ \A u \in Texts!Users : Spent(u) \in Nat /\ Spent(u) <= MARGIN
        /\ SpentAll \in Nat /\ groqCalls \in Nat /\ unread \in Nat /\ MARGIN \in Nat /\ MARGIN >= 1
        /\ groqCalls + Late <= SpentAll + Outstanding + unread + 1
    BY <1>a, TextNumbers DEF CallsAccounted
  <1>d. groq[s] /\ (dated[s] => requests[s] < MARGIN)
    BY <1>a DEF CallsAccounted, Asking
  <1>1. /\ requests \in [Texts!Users -> Nat] /\ groq \in [Texts!Users -> BOOLEAN]
        /\ dated \in [Texts!Users -> BOOLEAN]
        /\ \A u \in Texts!Users : Spent(u) \in Nat /\ Spent(u) <= MARGIN
        /\ MARGIN \in Nat /\ MARGIN >= 1
        /\ groq[s] /\ (dated[s] => requests[s] < MARGIN)
    BY <1>b, <1>c, <1>d
  <1>2. requests' \in [Texts!Users -> Nat] /\ groq' \in [Texts!Users -> BOOLEAN]
    <2>1. CASE /\ requests' = [requests EXCEPT ![stage] = @ + 1]
               /\ groq' = [groq EXCEPT ![stage] = TRUE]
      <3>1. requests[stage] \in Nat
        BY <1>1
      <3>2. requests[stage] + 1 \in Nat
        BY <3>1
      <3> QED  BY <1>1, <2>1, <3>2
    <2>2. CASE groq' = [groq EXCEPT ![stage] = FALSE] /\ requests' = requests
      BY <1>1, <2>2
    <2> QED  BY <2>1, <2>2
  <1>3. \A u \in Texts!Users : u # s => Spent(u)' = Spent(u)
    BY <1>1 DEF Spent, Texts!Counted
  <1>4. /\ Spent(s)' = Spent(s) + 1 \/ (Spent(s)' = Spent(s) + 0 /\ ~dated[s])
        /\ Spent(s)' <= MARGIN
    <2>1. CASE /\ requests' = [requests EXCEPT ![stage] = @ + 1]
               /\ groq' = [groq EXCEPT ![stage] = TRUE]
      <3>1. requests'[s] = requests[s] + 1 /\ groq'[s] /\ dated'[s] = dated[s]
        BY <1>1, <2>1
      <3>2. CASE dated[s]
        BY <1>1, <3>1, <3>2 DEF Spent, Texts!Counted
      <3>3. CASE ~dated[s]
        BY <1>1, <3>1, <3>3 DEF Spent, Texts!Counted
      <3> QED  BY <3>2, <3>3
    <2>2. CASE groq' = [groq EXCEPT ![stage] = FALSE] /\ requests' = requests
      <3>1. requests'[s] = requests[s] /\ ~groq'[s] /\ dated'[s] = dated[s]
        BY <1>1, <2>2
      <3> QED  BY <1>1, <3>1 DEF Spent, Texts!Counted
    <2> QED  BY <2>1, <2>2
  <1>5. Late' = 0 /\ Late = 0 /\ Outstanding' = 0 /\ Outstanding \in {0, 1}
    BY DEF Late, Outstanding
  <1>6. groqCalls' + Late' <= SpentAll' + Outstanding' + unread' + 1
    <2>1. CASE Spent(s)' = Spent(s) + 1
      <3>1. SpentAll' = SpentAll + 1
        BY <1>3, <2>1, SumOfSpent
      <3> QED  BY <1>c, <1>5, <3>1
    <2>2. CASE Spent(s)' = Spent(s) + 0 /\ ~dated[s]
      <3>1. SpentAll' = SpentAll + 0
        BY <1>3, <2>2, SumOfSpent
      <3>2. Outstanding = 0
        BY <2>2 DEF Outstanding
      <3> QED  BY <1>c, <1>5, <3>1, <3>2
    <2> QED  BY <1>4, <2>1, <2>2
  <1>7. ~Asking' /\ \A u \in Texts!Users : Spent(u)' <= MARGIN
    BY <1>1, <1>3, <1>4 DEF Asking
  <1> QED  BY <1>2, <1>6, <1>7 DEF CallsAccounted

LEMMA GroqKeeps == TextInv /\ Texts!CallGroq => TextInv'
  <1> SUFFICES ASSUME TextInv, Texts!CallGroq PROVE TextInv'
    OBVIOUS
  <1>1. CASE Texts!AskGroq
    BY <1>1, AskKeeps
  <1>2. CASE Texts!GroqAnswers \/ Texts!GroqRefuses
    <2>1. /\ stage \in Texts!Users /\ call = "asked" /\ call' \in {"written", "poor", "cached"}
          /\ UNCHANGED <<stage, tries, hook, body, stored, ollama, dated, groqCalls, unread>>
          /\ \/ /\ requests' = [requests EXCEPT ![stage] = @ + 1]
                /\ groq' = [groq EXCEPT ![stage] = TRUE]
             \/ groq' = [groq EXCEPT ![stage] = FALSE] /\ requests' = requests
      BY <1>2 DEF Texts!GroqAnswers, Texts!GroqRefuses, Texts!script, Texts!asked, TextInv, TextShape
    <2>2. /\ CallsAccounted'
          /\ requests' \in [Texts!Users -> Nat] /\ groq' \in [Texts!Users -> BOOLEAN]
      BY <2>1, OutcomeAccounted
    <2> QED  BY <2>1, <2>2 DEF TextInv, Texts!TypeOK, TextShape, Written, Texts!Answers
  <1>3. CASE Texts!GroqFails
    <2>1. /\ stage \in Texts!Users /\ call = "asked" /\ call' = "cached" /\ unread' = unread + 1
          /\ UNCHANGED <<stage, tries, hook, body, stored, ollama, groq, requests, dated, groqCalls>>
      BY <1>3 DEF Texts!GroqFails, Texts!script, Texts!routers, TextInv, TextShape
    <2>2. SpentAll' = SpentAll /\ \A u \in Texts!Users : Spent(u)' = Spent(u)
      BY <2>1 DEF SpentAll, Spent, Texts!Counted
    <2>3. Late' = 0 /\ Late = 0 /\ Outstanding' = 0 /\ Outstanding \in {0, 1} /\ ~Asking'
      BY <2>1 DEF Late, Outstanding, Asking
    <2>4. /\ SpentAll \in Nat /\ groqCalls \in Nat /\ unread \in Nat
          /\ groqCalls + Late <= SpentAll + Outstanding + unread + 1
      BY TextNumbers DEF TextInv, CallsAccounted
    <2>5. groqCalls' + Late' <= SpentAll' + Outstanding' + unread' + 1
      BY <2>1, <2>2, <2>3, <2>4
    <2>6. CallsAccounted'
      BY <2>2, <2>3, <2>5 DEF TextInv, CallsAccounted
    <2> QED  BY <2>1, <2>4, <2>6 DEF TextInv, Texts!TypeOK, TextShape, Written, Texts!Answers
  <1> QED  BY <1>1, <1>2, <1>3 DEF Texts!CallGroq

\* The steps of the writer, and the template of a router.
LEMMA WriterKeeps ==
  TextInv /\ (Texts!Writer \/ Texts!GetCachedResponse) => TextInv'
  <1> SUFFICES ASSUME TextInv, Texts!Writer \/ Texts!GetCachedResponse PROVE TextInv'
    OBVIOUS
  <1>a. TRIES \in Nat /\ tries \in 0..TRIES
    BY TextsAssumption DEF TextInv, Texts!TypeOK
  <1>b. UNCHANGED <<ollama, groq, requests, dated, groqCalls, unread>>
    BY DEF Texts!Writer, Texts!GetCachedResponse, Texts!routers, Texts!asked, Texts!GenerateScript,
           Texts!GenerateHook, Texts!GenerateBody, Texts!StoreScript, Texts!ClassifyScript,
           Texts!GenerateHashtags
  <1>c. ~Asking /\ call' \notin {"groq", "asked"}
    BY DEF Asking, Texts!Writer, Texts!GetCachedResponse, Texts!GenerateScript, Texts!GenerateHook,
           Texts!GenerateBody, Texts!StoreScript, Texts!ClassifyScript, Texts!GenerateHashtags,
           Texts!CachedText, Texts!Answers, TextInv, TextShape, Texts!Users
  <1>d. CallsAccounted'
    BY <1>b, <1>c, CountersKept DEF TextInv
  <1>1. CASE Texts!GenerateScript
    BY <1>1, <1>a, <1>b, <1>d, TextsAssumption
    DEF Texts!GenerateScript, TextInv, Texts!TypeOK, TextShape, Written, Texts!Users
  <1>2. CASE Texts!GenerateHook
    BY <1>2, <1>a, <1>b, <1>d
    DEF Texts!GenerateHook, Texts!Hooked, TextInv, Texts!TypeOK, TextShape, Written, Texts!Users,
        Texts!Answers, Texts!Kinds
  <1>3. CASE Texts!GenerateBody
    BY <1>3, <1>a, <1>b, <1>d
    DEF Texts!GenerateBody, Texts!NextAttempt, TextInv, Texts!TypeOK, TextShape, Written,
        Texts!Users, Texts!Answers, Texts!Kinds
  <1>4. CASE Texts!StoreScript
    BY <1>4, <1>a, <1>b, <1>d
    DEF Texts!StoreScript, Texts!NextAttempt, TextInv, Texts!TypeOK, TextShape, Written,
        Texts!Users, Texts!Kinds
  <1>5. CASE Texts!ClassifyScript \/ Texts!GenerateHashtags
    BY <1>5, <1>a, <1>b, <1>d
    DEF Texts!ClassifyScript, Texts!GenerateHashtags, Texts!script, TextInv, Texts!TypeOK,
        TextShape, Written, Texts!Users
  <1>6. CASE Texts!GetCachedResponse
    BY <1>6, <1>a, <1>b, <1>d
    DEF Texts!GetCachedResponse, Texts!CachedText, Texts!script, TextInv, Texts!TypeOK, TextShape,
        Written, Texts!Answers
  <1> QED  BY <1>1, <1>2, <1>3, <1>4, <1>5, <1>6 DEF Texts!Writer

\* After midnight nobody has counted anything, and one request at most is to be made.
LEMMA NewDayKeeps == TextInv /\ Texts!NewDay => TextInv'
  <1> SUFFICES ASSUME TextInv, Texts!NewDay PROVE TextInv'
    OBVIOUS
  <1>1. /\ dated' = [u \in Texts!Users |-> FALSE] /\ groqCalls' = 0 /\ unread' = 0
        /\ UNCHANGED <<stage, call, tries, hook, body, stored, ollama, groq, requests>>
    BY DEF Texts!NewDay, Texts!script
  <1>2. Texts!TypeOK' /\ TextShape' /\ Written'
    BY <1>1 DEF TextInv, Texts!TypeOK, TextShape, Written
  <1>3. \A u \in Texts!Users : Spent(u)' \in {0, 1}
    BY <1>1 DEF Spent, Texts!Counted
  <1>4. SpentAll' \in Nat
    BY <1>3 DEF SpentAll, Texts!Users
  <1>5. Asking' => groq'[stage'] /\ ~dated'[stage']
    BY <1>1 DEF TextInv, TextShape, CallsAccounted, Asking
  <1>6. Outstanding' = 0 /\ (Late' = 0 \/ Late' = 1)
    BY <1>5 DEF Outstanding, Late, Asking
  <1>7. groqCalls' + Late' <= SpentAll' + Outstanding' + unread' + 1
    BY <1>1, <1>4, <1>6
  <1> QED  BY <1>2, <1>3, <1>5, <1>7, TextsAssumption DEF TextInv, CallsAccounted

LEMMA NextText == TextInv /\ [Texts!Next]_Texts!vars => TextInv'
  <1> SUFFICES ASSUME TextInv, [Texts!Next]_Texts!vars PROVE TextInv'
    OBVIOUS
  <1>1. CASE UNCHANGED Texts!vars
    BY <1>1
    DEF TextInv, Texts!vars, Texts!script, Texts!routers, Texts!asked, Texts!TypeOK, TextShape, Written,
        CallsAccounted, SpentAll, Spent, Asking, Outstanding, Late, Texts!Counted
  <1> QED  BY <1>1, SelectKeeps, OllamaKeeps, GroqKeeps, WriterKeeps, NewDayKeeps
           DEF Texts!Next, Texts!Router

\* What the routers of one process ask of Groq in a day is bounded, wherever midnight
\* falls, by the margin of each, one request more, and those that failed in another
\* way than by a refusal, which llm_router counts nowhere.
THEOREM GroqCallsAlwaysBounded == Texts!Spec => []GroqCallsBounded
  <1>1. TextInv => Texts!GroqCallsBounded
    <2> SUFFICES ASSUME TextInv PROVE groqCalls <= 4 * MARGIN + 1 + unread
      BY DEF Texts!GroqCallsBounded
    <2>1. /\ SpentAll \in Nat /\ groqCalls \in Nat /\ unread \in Nat /\ MARGIN \in Nat
          /\ \A u \in Texts!Users : Spent(u) \in Nat /\ Spent(u) <= MARGIN
          /\ Late \in {0, 1} /\ groqCalls + Late <= SpentAll + Outstanding + unread + 1
      BY TextNumbers DEF TextInv, CallsAccounted
    <2>2. SpentAll + Outstanding <= 4 * MARGIN
      <3>1. PICK h, b, c, t \in Nat : /\ h = Spent("hook") /\ b = Spent("body")
                                     /\ c = Spent("pillar") /\ t = Spent("tags")
        BY <2>1 DEF Texts!Users
      <3>2. SpentAll = h + b + c + t /\ h <= MARGIN /\ b <= MARGIN /\ c <= MARGIN /\ t <= MARGIN
        BY <2>1, <3>1 DEF SpentAll, Texts!Users
      <3>3. CASE Outstanding = 0
        BY <2>1, <3>2, <3>3
      <3>4. CASE Outstanding # 0
        <4>1. Outstanding = 1 /\ call = "asked" /\ dated[stage]
          BY <3>4 DEF Outstanding
        <4>2. PICK s \in Texts!Users : s = stage
          BY <4>1 DEF TextInv, TextShape
        <4>3. requests[s] \in Nat /\ requests[s] < MARGIN /\ groq[s] /\ dated[s]
          BY <4>1, <4>2, TextNumbers DEF TextInv, CallsAccounted, Asking
        <4>4. Spent(s) <= MARGIN - 1
          BY <2>1, <4>3 DEF Spent, Texts!Counted
        <4>5. h + b + c + t <= 4 * MARGIN - 1
          BY <2>1, <3>1, <3>2, <4>2, <4>4 DEF Texts!Users
        <4> QED  BY <2>1, <3>2, <4>1, <4>5
      <3> QED  BY <3>3, <3>4
    <2>3. Outstanding \in {0, 1}
      BY DEF Outstanding
    <2> QED  BY <2>1, <2>2, <2>3
  <1> QED  BY <1>1, InitText, NextText, PTL DEF Texts!Spec, GroqCallsBounded

\* With the templates in place no stand-in is ever stored as the body of a script.
THEOREM BodyIsAlwaysWritten == Texts!Spec => []BodyIsWritten
  <1>1. TextInv => Texts!BodyIsWritten
    BY DEF TextInv, Written, Texts!BodyIsWritten
  <1> QED  BY <1>1, InitText, NextText, PTL DEF Texts!Spec, BodyIsWritten

-----------------------------------------------------------------------------
(* 2. TrendSources, for every number of brands, requests, attempts and every *)
(* allowance.  The counter in use never passes Budget; every counter that was *)
(* in use before it today has at most Budget of the day's requests, and the  *)
(* one in use has the rest.                                                  *)

\* Where the process is says which source and which kind it may be at.
ScanShape ==
    /\ pc \in {"kind", "ask", "store"} => source <= 7
    /\ pc = "ask" => kind <= 4

\* A category is not begun at the allowance, and each failed attempt adds one at most.
QuotaAccounted ==
    /\ used <= Budget
    /\ calls <= (renewals - 1) * Budget + used
    /\ pc = "ask" /\ Scanners[source] = "youtube" /\ Kinds[kind] = "api" /\ attempt > 0
          => used <= ALLOWANCE - 1 + attempt

TrendInv == TypeOK /\ ScanShape /\ QuotaAccounted

LEMMA Lengths == Len(Scanners) = 7 /\ Len(Kinds) = 4
  BY DEF Scanners, Kinds

LEMMA TrendNumbers ==
  ASSUME TypeOK
  PROVE  /\ used \in Nat /\ calls \in Nat /\ renewals \in Nat /\ renewals >= 1
         /\ left \in Nat /\ attempt \in Nat /\ attempt < ATTEMPTS
         /\ ALLOWANCE \in Nat /\ ALLOWANCE >= 1 /\ ATTEMPTS \in Nat /\ ATTEMPTS >= 1
         /\ Budget \in Nat /\ (renewals - 1) * Budget \in Nat
  <1>1. /\ ALLOWANCE \in Nat /\ ALLOWANCE >= 1 /\ ATTEMPTS \in Nat /\ ATTEMPTS >= 1
        /\ renewals \in Nat /\ renewals >= 1
    BY BoundsAssumption DEF TypeOK
  <1>2. Budget \in Nat
    BY <1>1 DEF Budget
  <1>3. \A r, b \in Nat : r >= 1 => (r - 1) * b \in Nat
    <2> SUFFICES ASSUME NEW r \in Nat, NEW b \in Nat, r >= 1 PROVE (r - 1) * b \in Nat
      OBVIOUS
    <2> PICK n \in Nat : n = r - 1
      OBVIOUS
    <2>1. n * b \in Nat
      OBVIOUS
    <2> QED  BY <2>1
  <1> QED  BY <1>1, <1>2, <1>3 DEF TypeOK

\* One counter more.
LEMMA OneRenewalMore ==
  \A r, b \in Nat : r >= 1 => ((r + 1) - 1) * b = (r - 1) * b + b
  OBVIOUS

LEMMA InitTrends == Init => TrendInv
  <1> SUFFICES ASSUME Init PROVE TrendInv
    OBVIOUS
  <1>1. TypeOK
    <2>1. BRANDS \in Nat /\ ATTEMPTS \in Nat /\ ATTEMPTS >= 1
      BY BoundsAssumption
    <2>2. attempt \in 0..(ATTEMPTS - 1) /\ brands \in 0..BRANDS
      BY <2>1 DEF Init
    <2>3. renewals \in Nat \ {0} /\ source \in 1..8 /\ kind \in 1..5
      BY DEF Init
    <2> QED  BY <2>2, <2>3 DEF Init, TypeOK
  <1>2. PICK b \in Nat : b = Budget
    BY <1>1, TrendNumbers
  <1>3. \A n \in Nat : (1 - 1) * n = 0
    OBVIOUS
  <1>4. (renewals - 1) * b = 0
    BY <1>3 DEF Init
  <1>5. QuotaAccounted
    BY <1>2, <1>4 DEF Init, QuotaAccounted
  <1> QED  BY <1>1, <1>5 DEF Init, TrendInv, ScanShape

\* The steps between the requests; a counter that is renewed begins at nothing.
LEMMA BetweenKeeps ==
  TrendInv /\ (Start \/ NextBrand \/ NextSource \/ Store \/ LeaveKinds \/ LeaveKind \/ Signal) => TrendInv'
  <1> SUFFICES ASSUME TrendInv,
                      Start \/ NextBrand \/ NextSource \/ Store \/ LeaveKinds \/ LeaveKind \/ Signal
               PROVE  TrendInv'
    OBVIOUS
  <1>a. /\ BRANDS \in Nat /\ UNCHANGED quota
        /\ pc' = "ask" => pc = "ask" /\ UNCHANGED <<source, kind, attempt>>
    BY BoundsAssumption DEF Start, NextBrand, NextSource, Store, LeaveKinds, LeaveKind, Signal, place
  <1>1. QuotaAccounted'
    BY <1>a DEF TrendInv, QuotaAccounted, quota, Budget
  <1>2. ScanShape'
    BY Lengths
    DEF TrendInv, TypeOK, ScanShape, Start, NextBrand, NextSource, Store, LeaveKinds, LeaveKind,
        Signal, place
  <1>3. TypeOK'
    <2>1. CASE Start \/ NextBrand
      BY <2>1, <1>a DEF TrendInv, TypeOK, Start, NextBrand, quota
    <2>2. CASE NextSource
      <3>1. /\ pc' \in {"brand", "kind"} /\ UNCHANGED <<brands, source, left, attempt, quota, blocked, stopping>>
            /\ kind' = kind \/ kind' = 1
            /\ found' = found \/ found' = FALSE
        BY <2>2 DEF NextSource
      <3>2. kind' \in 1..5
        BY <3>1 DEF TrendInv, TypeOK
      <3>3. found' \in BOOLEAN
        BY <3>1 DEF TrendInv, TypeOK
      <3> QED  BY <3>1, <3>2, <3>3 DEF TrendInv, TypeOK, quota
    <2>5. CASE Store
      <3>1. source \in Nat /\ source >= 1 /\ source <= 7
        BY <2>5 DEF TrendInv, TypeOK, ScanShape, Store
      <3>2. source' \in 1..8
        BY <2>5, <3>1 DEF Store
      <3> QED  BY <2>5, <3>2 DEF TrendInv, TypeOK, Store, quota
    <2>3. CASE LeaveKinds \/ LeaveKind
      BY <2>3, <1>a DEF TrendInv, TypeOK, ScanShape, LeaveKinds, LeaveKind, quota
    <2>4. CASE Signal
      BY <2>4, <1>a DEF TrendInv, TypeOK, Signal, place, quota
    <2> QED  BY <2>1, <2>2, <2>3, <2>4, <2>5
  <1> QED  BY <1>1, <1>2, <1>3 DEF TrendInv

LEMMA EnterKeeps == TrendInv /\ EnterKind => TrendInv'
  <1> SUFFICES ASSUME TrendInv, EnterKind PROVE TrendInv'
    OBVIOUS
  <1>a. /\ source \in 1..7 /\ kind \in 1..4
        /\ Scanners[source] \in SourceNames /\ Kinds[kind] \in KindNames
    <2>1. source \in 1..7 /\ kind \in 1..4
      BY Lengths DEF TrendInv, TypeOK, ScanShape, EnterKind
    <2> QED  BY <2>1 DEF Scanners, Kinds, SourceNames, KindNames
  <1>b. PARTS[Scanners[source]][Kinds[kind]] \in Nat
    BY <1>a, PartsAssumption
  <1>c. \/ pc' = "ask" /\ left' \in Nat /\ attempt' = 0 /\ kind' = kind
        \/ kind' = kind + 1 /\ UNCHANGED <<pc, left, attempt>>
    <2>1. CASE Asks(Scanners[source], Kinds[kind])
      BY <2>1, <1>b DEF EnterKind
    <2>2. CASE ~Asks(Scanners[source], Kinds[kind])
      BY <2>2 DEF EnterKind
    <2> QED  BY <2>1, <2>2
  <1>d. UNCHANGED <<brands, source, found, blocked, stopping>>
    BY DEF EnterKind
  <1>e. /\ attempt' \in 0..(ATTEMPTS - 1) /\ kind' \in 1..5 /\ left' \in Nat
        /\ pc' \in {"idle", "brand", "source", "kind", "ask", "store"}
        /\ brands' \in 0..BRANDS /\ source' \in 1..8
    <2>1. ATTEMPTS \in Nat /\ ATTEMPTS >= 1
      BY BoundsAssumption
    <2>2. attempt' \in 0..(ATTEMPTS - 1) /\ kind' \in 1..5 /\ left' \in Nat
      BY <1>a, <1>c, <2>1 DEF TrendInv, TypeOK
    <2>3. pc' \in {"idle", "brand", "source", "kind", "ask", "store"}
      BY <1>c DEF TrendInv, TypeOK
    <2>4. brands' \in 0..BRANDS /\ source' \in 1..8
      BY <1>d DEF TrendInv, TypeOK
    <2> QED  BY <2>2, <2>3, <2>4
  <1>f. ScanShape'
    BY <1>a, <1>c, <1>d DEF ScanShape, EnterKind
  <1>1. CASE UNCHANGED quota
    <2>1. QuotaAccounted'
      BY <1>1 DEF TrendInv, QuotaAccounted, quota, Budget, EnterKind, TypeOK
    <2>2. TypeOK'
      BY <1>1, <1>d, <1>e DEF TrendInv, TypeOK, quota
    <2> QED  BY <1>f, <2>1, <2>2 DEF TrendInv
  <1>2. CASE used' = 0 /\ stale' = FALSE /\ renewals' = renewals + 1 /\ UNCHANGED calls
    <2>1. attempt' = 0 \/ pc' # "ask"
      BY DEF EnterKind
    <2>2. calls' <= (renewals' - 1) * Budget + used'
      <3>1. PICK b \in Nat : b = Budget
        BY TrendNumbers DEF TrendInv
      <3>2. calls <= (renewals - 1) * b + used /\ used <= b
        BY <3>1 DEF TrendInv, QuotaAccounted
      <3>3. PICK x \in Nat : x = (renewals - 1) * b
        BY <3>1, TrendNumbers DEF TrendInv
      <3>4. (renewals' - 1) * b = x + b
        BY <1>2, <3>3, TrendNumbers, OneRenewalMore DEF TrendInv
      <3>5. calls' <= x + b
        BY <1>2, <3>2, <3>3, TrendNumbers DEF TrendInv
      <3> QED  BY <1>2, <3>1, <3>4, <3>5
    <2>3. QuotaAccounted'
      BY <1>2, <2>1, <2>2, TrendNumbers DEF TrendInv, QuotaAccounted, Budget
    <2>4. renewals' \in Nat \ {0}
      BY <1>2 DEF TrendInv, TypeOK
    <2>5. TypeOK'
      BY <1>2, <1>d, <1>e, <2>4 DEF TrendInv, TypeOK
    <2> QED  BY <1>f, <2>3, <2>5 DEF TrendInv
  <1> QED  BY <1>1, <1>2 DEF EnterKind, quota

\* What is left of the requests of a kind after one of them.
LEMMA DoneOrFailed ==
  ASSUME left \in Nat, left > 0, attempt \in Nat, attempt < ATTEMPTS, ATTEMPTS \in Nat,
         Done \/ Failed
  PROVE  left' \in Nat /\ attempt' \in 0..ATTEMPTS - 1
  <1>1. CASE Done
    BY <1>1 DEF Done
  <1>2. CASE Failed /\ attempt + 1 < ATTEMPTS
    BY <1>2 DEF Failed
  <1>3. CASE Failed /\ ~(attempt + 1 < ATTEMPTS)
    BY <1>3 DEF Failed, Done
  <1> QED  BY <1>1, <1>2, <1>3

\* Every request but a category of YouTube leaves the counter alone.
AskedElsewhere ==
    /\ left > 0 /\ left' \in Nat /\ attempt' \in 0..ATTEMPTS - 1
    /\ found' \in BOOLEAN /\ blocked' \in BOOLEAN
    /\ Scanners[source] = "youtube" => Kinds[kind] # "api"
    /\ UNCHANGED <<pc, brands, source, kind, quota, stopping>>

LEMMA OthersKeep ==
  TrendInv /\ Ask /\ ~YouTubeCategory => TrendInv'
  <1> SUFFICES ASSUME TrendInv, Ask, ~YouTubeCategory PROVE TrendInv'
    OBVIOUS
  <1>a. AskedElsewhere
    <2>n. /\ left \in Nat /\ attempt \in Nat /\ attempt < ATTEMPTS /\ ATTEMPTS \in Nat
          /\ found \in BOOLEAN /\ blocked \in BOOLEAN
      BY TrendNumbers DEF TrendInv, TypeOK
    <2>1. CASE RedditPosts
      <3>1. left > 0 /\ Kinds[kind] # "api" /\ UNCHANGED <<pc, brands, source, kind, attempt, quota, stopping>>
        BY <2>1 DEF RedditPosts, In
      <3>2. left' \in Nat
        <4>1. left' = 0 \/ left' = left - 1 \/ (Hot /\ left' = left - 2)
          <5>1. \/ left' = IF ~Hot /\ blocked THEN 0 ELSE left - 1
                \/ left' = IF Hot THEN left - 1 ELSE 0
                \/ left' = IF blocked THEN 0 ELSE IF Hot THEN left - 2 ELSE left - 1
            BY <2>1 DEF RedditPosts
          <5>2. CASE Hot
            BY <5>1, <5>2
          <5>3. CASE ~Hot
            BY <5>1, <5>3
          <5> QED  BY <5>2, <5>3
        <4>2. Hot => left >= 2
          BY <2>n, <3>1 DEF Hot
        <4> QED  BY <2>n, <3>1, <4>1, <4>2
      <3>3. found' \in BOOLEAN /\ blocked' \in BOOLEAN
        BY <2>1, <2>n DEF RedditPosts
      <3> QED  BY <2>n, <3>1, <3>2, <3>3 DEF AskedElsewhere
    <2>2. CASE YouTubeTrendsBatch
      <3>1. left > 0 /\ Kinds[kind] # "api"
            /\ UNCHANGED <<pc, brands, source, kind, quota, blocked, stopping>>
        BY <2>2 DEF YouTubeTrendsBatch, In
      <3>2. left' \in Nat /\ attempt' \in 0..ATTEMPTS - 1
        BY <2>2, <2>n, <3>1, DoneOrFailed DEF YouTubeTrendsBatch
      <3>3. found' \in BOOLEAN
        BY <2>2, <2>n DEF YouTubeTrendsBatch
      <3> QED  BY <2>n, <3>1, <3>2, <3>3 DEF AskedElsewhere
    <2>3. ASSUME NEW s, NEW k, Retried(s, k), s = "youtube" => k # "api" PROVE AskedElsewhere
      <3>1. left > 0 /\ Scanners[source] = s /\ Kinds[kind] = k
            /\ UNCHANGED <<pc, brands, source, kind, found, quota, blocked, stopping>>
        BY <2>3 DEF Retried, In
      <3>2. left' \in Nat /\ attempt' \in 0..ATTEMPTS - 1
        BY <2>3, <2>n, <3>1, DoneOrFailed DEF Retried
      <3> QED  BY <2>3, <2>n, <3>1, <3>2 DEF AskedElsewhere
    <2>4. CASE \/ Retried("reddit", "batch") \/ Retried("reddit", "news")
               \/ Retried("google", "batch") \/ Retried("news", "news")
               \/ Retried("tiktok", "batch") \/ Retried("tiktok", "news")
               \/ Retried("instagram", "batch") \/ Retried("instagram", "news")
               \/ Retried("snapchat", "batch") \/ Retried("snapchat", "news")
               \/ Retried("youtube", "news")
      <3>1. \A s, k : s # "youtube" /\ Retried(s, k) => AskedElsewhere
        BY <2>3
      <3>2. CASE Retried("youtube", "news")
        BY <2>3, <3>2
      <3> QED  BY <2>4, <3>1, <3>2
    <2> QED  BY <2>1, <2>2, <2>4
             DEF Ask, RedditTrendsBatch, RedditNews, YouTubeNews, GoogleTrendsBatch, NewsArticles,
                 TikTokTrendsBatch, TikTokNews, InstagramTrendsBatch, InstagramNews,
                 SnapchatTrendsBatch, SnapchatNews
  <1>1. QuotaAccounted'
    BY <1>a DEF AskedElsewhere, TrendInv, QuotaAccounted, quota, Budget
  <1> QED  BY <1>a, <1>1 DEF AskedElsewhere, TrendInv, TypeOK, ScanShape, quota

\* A category counts its answers, one for an attempt.
LEMMA CategoryKeeps == TrendInv /\ YouTubeCategory => TrendInv'
  <1> SUFFICES ASSUME TrendInv, YouTubeCategory PROVE TrendInv'
    OBVIOUS
  <1>a. UNCHANGED <<pc, brands, source, kind, stale, renewals, blocked, stopping>>
    BY DEF YouTubeCategory
  <1>b. pc = "ask" /\ left > 0 /\ Scanners[source] = "youtube" /\ Kinds[kind] = "api"
    BY DEF YouTubeCategory, In
  <1>n. /\ left \in Nat /\ attempt \in Nat /\ attempt < ATTEMPTS /\ ATTEMPTS \in Nat
        /\ found \in BOOLEAN /\ used \in Nat /\ ALLOWANCE \in Nat
    BY TrendNumbers DEF TrendInv, TypeOK
  <1>c. left' \in Nat /\ found' \in BOOLEAN /\ attempt' \in 0..ATTEMPTS - 1
    <2>1. CASE Done \/ Failed
      BY <2>1, <1>b, <1>n, DoneOrFailed DEF YouTubeCategory
    <2>2. CASE left' = 0 /\ UNCHANGED <<attempt, found, used, calls>>
      BY <2>2, <1>n
    <2> QED  BY <2>1, <2>2 DEF YouTubeCategory
  <1>1. CASE UNCHANGED <<attempt, used, calls>>
    <2>1. QuotaAccounted'
      BY <1>1, <1>a DEF TrendInv, QuotaAccounted, Budget
    <2> QED  BY <1>1, <1>a, <1>c, <2>1 DEF TrendInv, TypeOK, ScanShape
  <1>2. CASE /\ attempt = 0 => used < ALLOWANCE
             /\ attempt' = 0 \/ attempt' = attempt + 1
             /\ \/ used' = used + 1 /\ calls' = calls + 1
                \/ UNCHANGED <<used, calls>>
    <2>1. used <= ALLOWANCE - 1 + attempt /\ ALLOWANCE - 1 + attempt < Budget
      BY <1>2, <1>b, TrendNumbers DEF TrendInv, QuotaAccounted, Budget
    <2>2. PICK x \in Nat : x = (renewals - 1) * Budget
      BY TrendNumbers DEF TrendInv
    <2>3. x = (renewals' - 1) * Budget
      BY <2>2, <1>a
    <2>4. calls' <= x + used'
      BY <1>2, <2>2, TrendNumbers DEF TrendInv, QuotaAccounted
    <2>5. used' <= Budget /\ (attempt' > 0 => used' <= ALLOWANCE - 1 + attempt')
      BY <1>2, <2>1, TrendNumbers DEF TrendInv
    <2>6. QuotaAccounted'
      BY <2>3, <2>4, <2>5 DEF QuotaAccounted, Budget
    <2>7. used' \in Nat /\ calls' \in Nat
      BY <1>2, TrendNumbers DEF TrendInv
    <2> QED  BY <1>a, <1>c, <2>6, <2>7 DEF TrendInv, TypeOK, ScanShape
  <1>3. <1>1!1 \/ <1>2!1
    <2>1. CASE attempt = 0 /\ used >= ALLOWANCE
      BY <2>1 DEF YouTubeCategory
    <2>2. CASE ~(attempt = 0 /\ used >= ALLOWANCE)
      <3>1. attempt = 0 => used < ALLOWANCE
        BY <2>2, <1>n
      <3>2. Done \/ Failed
        BY <2>2 DEF YouTubeCategory
      <3>3. attempt' = 0 \/ attempt' = attempt + 1
        BY <3>2 DEF Done, Failed
      <3>4. (used' = used + 1 /\ calls' = calls + 1) \/ UNCHANGED <<used, calls>>
        BY <2>2 DEF YouTubeCategory
      <3> QED  BY <3>1, <3>3, <3>4
    <2> QED  BY <2>1, <2>2
  <1> QED  BY <1>1, <1>2, <1>3

\* Midnight begins the count of the day anew, a restart the counter.
LEMMA AroundKeeps == TrendInv /\ (NewDay \/ Restart) => TrendInv'
  <1> SUFFICES ASSUME TrendInv, NewDay \/ Restart PROVE TrendInv'
    OBVIOUS
  <1>1. CASE NewDay
    <2>1. \A b \in Nat : (1 - 1) * b = 0
      OBVIOUS
    <2>2. (renewals' - 1) * Budget = 0
      BY <1>1, <2>1, TrendNumbers DEF NewDay, TrendInv
    <2>3. QuotaAccounted'
      BY <1>1, <2>2, TrendNumbers DEF NewDay, place, TrendInv, QuotaAccounted, Budget
    <2> QED  BY <1>1, <2>3 DEF NewDay, place, TrendInv, TypeOK, ScanShape
  <1>2. CASE Restart
    <2>1. PICK b \in Nat : b = Budget
      BY TrendNumbers DEF TrendInv
    <2>2. PICK x \in Nat : x = (renewals - 1) * b
      BY <2>1, TrendNumbers DEF TrendInv
    <2>3. calls <= x + b
      BY <2>1, <2>2, TrendNumbers DEF TrendInv, QuotaAccounted
    <2>4. (renewals' - 1) * b = x + b
      BY <1>2, <2>2, TrendNumbers, OneRenewalMore DEF Restart, TrendInv
    <2>5. QuotaAccounted'
      BY <1>2, <2>1, <2>3, <2>4, TrendNumbers DEF Restart, TrendInv, QuotaAccounted, Budget
    <2>6. TypeOK'
      <3>1. renewals' \in Nat \ {0}
        BY <1>2, TrendNumbers DEF Restart, TrendInv
      <3> QED  BY <1>2, <3>1 DEF Restart, TrendInv, TypeOK
    <2> QED  BY <1>2, <2>5, <2>6 DEF Restart, TrendInv, ScanShape
  <1> QED  BY <1>1, <1>2

LEMMA NextTrends == TrendInv /\ [Next]_vars => TrendInv'
  <1> SUFFICES ASSUME TrendInv, [Next]_vars PROVE TrendInv'
    OBVIOUS
  <1>1. CASE UNCHANGED vars
    BY <1>1 DEF TrendInv, TypeOK, ScanShape, QuotaAccounted, Budget, vars, place, quota
  <1> QED  BY <1>1, BetweenKeeps, EnterKeeps, OthersKeep, CategoryKeeps, AroundKeeps
           DEF Next, ScanStep

\* The types of a scan: no position leaves the sources or the kinds, no count of
\* requests falls below nothing.
THEOREM ScanTypes == Spec => []TypeOK
  <1>1. TrendInv => TypeOK
    BY DEF TrendInv
  <1> QED  BY <1>1, InitTrends, NextTrends, PTL DEF Spec

\* YouTube answers Budget requests at most for every counter of the day, wherever
\* midnight and the restarts fall.
THEOREM CallsAlwaysBounded == Spec => []CallsBounded
  <1>1. TrendInv => CallsBounded
    <2> SUFFICES ASSUME TrendInv PROVE calls <= renewals * Budget
      BY DEF CallsBounded
    <2>1. PICK b \in Nat : b = Budget
      BY TrendNumbers DEF TrendInv
    <2>2. PICK x \in Nat : x = (renewals - 1) * b
      BY <2>1, TrendNumbers DEF TrendInv
    <2>3. renewals * b = x + b
      BY <2>2, TrendNumbers DEF TrendInv
    <2> QED  BY <2>1, <2>2, <2>3, TrendNumbers DEF TrendInv, QuotaAccounted
  <1> QED  BY <1>1, InitTrends, NextTrends, PTL DEF Spec

-----------------------------------------------------------------------------
(* 3. FirstComments, for every set of processes and of posts.  Nothing is    *)
(* claimed about a post in doubt; about any other the invariant says who may *)
(* be at work on it, and what its rows and its comment are meanwhile.        *)

Here(p, q) == spot[p] \notin {"idle", "next"} /\ cur[p].post = q

Listed(p, q) == {r \in todo[p] : r.post = q}

Works(p, q) == Here(p, q) \/ Listed(p, q) # {}

RowsOf(q) == {row \in comments : row.post = q}

\* Of a post without doubt: one process at most is at work on it, one row at most is
\* pending, and there is a comment exactly when a row says so or is about to.
Undoubted(q) ==
    /\ \A p, r \in Approvals : Works(p, q) /\ Works(r, q) => p = r
    /\ \A a, b \in RowsOf(q) : a.status = "pending" /\ b.status = "pending" => a = b
    /\ live[q] \in {0, 1}
    /\ \A a \in RowsOf(q) : a.status = "posted" => live[q] = 1
    /\ live[q] = 1 =>
          \/ /\ \E a \in RowsOf(q) : a.status = "posted"
             /\ \A a \in RowsOf(q) : a.status # "pending"
          \/ \E p \in Approvals : Here(p, q) /\ spot[p] = "posted"
    /\ \A p \in Approvals : Here(p, q) /\ spot[p] = "insert" =>
          /\ live[q] = 0
          /\ \A a \in RowsOf(q) : a.status \notin {"posted", "pending"}
    /\ \A p \in Approvals : Here(p, q) /\ spot[p] # "insert" =>
          /\ \E a \in RowsOf(q) : a.status = "pending" /\ a.id = cur[p].id
          /\ Listed(p, q) = {}
          /\ live[q] = IF spot[p] = "posted" THEN 1 ELSE 0
    /\ \A p \in Approvals : \A r \in Listed(p, q) :
          /\ live[q] = 0
          /\ \E a \in RowsOf(q) : a.status = "pending" /\ a.id = r.id

\* Ids are the rows' own, and what a process is at or has listed is a row.
CommentShape ==
    /\ \A a, b \in comments : a.id = b.id => a = b
    /\ \A a \in comments : a.id <= lastComment
    /\ \A p \in Approvals :
          /\ spot[p] \in {"idle", "insert"} => todo[p] = {}
          /\ spot[p] = "insert" => cur[p].post \in Posts
          /\ spot[p] \in {"post", "posted", "failed"} =>
                \E a \in comments : a.id = cur[p].id /\ a.post = cur[p].post
          /\ \A r \in todo[p] : \E a \in comments : a.id = r.id /\ a.post = r.post

CommentInv ==
    /\ Comments!TypeOK
    /\ CommentShape
    /\ \A q \in Posts : ~doubt[q] => Undoubted(q)

LEMMA InitComments == Comments!Init => CommentInv
  <1> SUFFICES ASSUME Comments!Init PROVE CommentInv
    OBVIOUS
  <1>1. Comments!TypeOK
    BY CommentsAssumption DEF Comments!Init, Comments!TypeOK, Comments!Nowhere
  <1>2. CommentShape
    BY DEF Comments!Init, CommentShape
  <1>3. ASSUME NEW q \in Posts PROVE Undoubted(q)
    <2>1. RowsOf(q) = {} /\ live[q] = 0
      BY DEF Comments!Init, RowsOf
    <2>2. \A p \in Approvals : ~Here(p, q) /\ Listed(p, q) = {} /\ ~Works(p, q)
      BY DEF Comments!Init, Here, Listed, Works
    <2> QED  BY <2>1, <2>2 DEF Undoubted
  <1> QED  BY <1>1, <1>2, <1>3 DEF CommentInv

\* A step that does nothing to the rows of a post and adds nobody to those at work on it;
\* whoever is about to mark its row stays.
LEMMA PostKept ==
  ASSUME NEW q, Undoubted(q), RowsOf(q)' = RowsOf(q), live'[q] = live[q],
         \A r \in Approvals :
            /\ Here(r, q)' => Here(r, q) /\ spot'[r] = spot[r] /\ cur'[r] = cur[r]
            /\ Here(r, q) /\ spot[r] = "posted" => Here(r, q)'
            /\ Listed(r, q)' \subseteq Listed(r, q)
  PROVE  Undoubted(q)'
  <1>1. \A r \in Approvals : Works(r, q)' => Works(r, q)
    BY DEF Works
  <1> QED  BY <1>1 DEF Undoubted

\* What belongs to the others is theirs.
LEMMA OthersKept ==
  ASSUME NEW p \in Approvals, NEW q, NEW r \in Approvals, r # p, Comments!TypeOK,
         spot' = [spot EXCEPT ![p] = spot'[p]], cur' = [cur EXCEPT ![p] = cur'[p]],
         todo' = [todo EXCEPT ![p] = todo'[p]]
  PROVE  /\ spot'[r] = spot[r] /\ cur'[r] = cur[r] /\ todo'[r] = todo[r]
         /\ Here(r, q)' = Here(r, q) /\ Listed(r, q)' = Listed(r, q) /\ Works(r, q)' = Works(r, q)
  <1>1. spot'[r] = spot[r] /\ cur'[r] = cur[r] /\ todo'[r] = todo[r]
    BY DEF Comments!TypeOK
  <1> QED  BY <1>1 DEF Here, Listed, Works

\* Only p moves in a step of p, and doubts are not taken back.
LEMMA OnlyOneMoves ==
  ASSUME NEW p \in Approvals, Comments!TypeOK,
         \/ Comments!PostFirstComment(p) \/ Comments!InsertRow(p)
         \/ Comments!ReadPending(p) \/ Comments!NextRow(p)
         \/ Comments!PostComment(p) \/ Comments!MarkRow(p) \/ Comments!Abort(p)
  PROVE  /\ spot' = [spot EXCEPT ![p] = spot'[p]]
         /\ cur' = [cur EXCEPT ![p] = cur'[p]]
         /\ todo' = [todo EXCEPT ![p] = todo'[p]]
         /\ doubt' \in [Posts -> BOOLEAN]
         /\ \A q \in Posts : doubt[q] => doubt'[q]
  <1>1. CASE Comments!PostFirstComment(p)
    BY <1>1 DEF Comments!PostFirstComment, Comments!TypeOK, Comments!Goto, Comments!At, Comments!Meets
  <1>2. CASE Comments!InsertRow(p)
    BY <1>2 DEF Comments!InsertRow, Comments!TypeOK, Comments!Goto, Comments!At
  <1>3. CASE Comments!ReadPending(p)
    BY <1>3 DEF Comments!ReadPending, Comments!TypeOK, Comments!Goto, Comments!Meets
  <1>4. CASE Comments!NextRow(p)
    BY <1>4 DEF Comments!NextRow, Comments!TypeOK, Comments!Goto, Comments!At
  <1>5. CASE Comments!PostComment(p)
    BY <1>5 DEF Comments!PostComment, Comments!NoComment, Comments!Commented, Comments!AnswerLost,
                Comments!TypeOK, Comments!Goto, Comments!Lost
  <1>6. CASE Comments!MarkRow(p)
    BY <1>6 DEF Comments!MarkRow, Comments!TypeOK, Comments!Goto, Comments!At
  <1>7. CASE Comments!Abort(p)
    BY <1>7 DEF Comments!Abort, Comments!TypeOK, Comments!Goto, Comments!At, Comments!Lost
  <1> QED  BY <1>1, <1>2, <1>3, <1>4, <1>5, <1>6, <1>7

\* The types of the comments, step by step.
CommentMove(p) ==
    \/ Comments!PostFirstComment(p) \/ Comments!InsertRow(p)
    \/ Comments!ReadPending(p) \/ Comments!NextRow(p)
    \/ Comments!PostComment(p) \/ Comments!MarkRow(p) \/ Comments!Abort(p)

LEMMA CommentTypes ==
  ASSUME NEW p \in Approvals, CommentInv, CommentMove(p)
  PROVE  Comments!TypeOK'
  <1> USE CommentsAssumption
  <1>o. doubt' \in [Posts -> BOOLEAN]
    BY OnlyOneMoves DEF CommentInv, CommentMove
  <1>t. Comments!TypeOK /\ CommentShape
    BY DEF CommentInv
  <1>1. CASE Comments!PostFirstComment(p)
    BY <1>1, <1>o, <1>t
    DEF Comments!PostFirstComment, Comments!TypeOK, Comments!Goto, Comments!At
  <1>2. CASE Comments!InsertRow(p)
    <2>1. cur[p].post \in Posts /\ lastComment + 1 \in 1..MaxComments
      BY <1>2, <1>t DEF Comments!InsertRow, Comments!TypeOK, CommentShape
    <2>2. [cur[p] EXCEPT !.id = lastComment + 1] \in [id : 0..MaxComments, post : Posts \cup {0}]
      BY <2>1, <1>t DEF Comments!TypeOK
    <2> QED  BY <1>2, <2>1, <2>2, <1>t
             DEF Comments!InsertRow, Comments!TypeOK, Comments!Goto, Comments!At
  <1>3. CASE Comments!ReadPending(p)
    <2>1. \A row \in comments : [id |-> row.id, post |-> row.post] \in [id : 1..MaxComments, post : Posts]
      BY <1>t DEF Comments!TypeOK
    <2> QED  BY <1>3, <2>1, <1>o, <1>t
             DEF Comments!ReadPending, Comments!TypeOK, Comments!Goto
  <1>4. CASE Comments!NextRow(p)
    <2>1. CASE todo[p] = {}
      BY <1>4, <2>1, <1>t
      DEF Comments!NextRow, Comments!TypeOK, Comments!Goto, Comments!At, Comments!Nowhere
    <2>2. CASE todo[p] # {}
      <3>1. PICK row \in todo[p] : cur' = [cur EXCEPT ![p] = row] /\ todo' = [todo EXCEPT ![p] = @ \ {row}]
        BY <1>4, <2>2 DEF Comments!NextRow, Comments!At
      <3>2. row \in [id : 0..MaxComments, post : Posts \cup {0}]
        BY <1>t DEF Comments!TypeOK
      <3>3. cur' \in [Approvals -> [id : 0..MaxComments, post : Posts \cup {0}]]
        BY <3>1, <3>2, <1>t DEF Comments!TypeOK
      <3>4. todo' \in [Approvals -> SUBSET [id : 1..MaxComments, post : Posts]]
        BY <3>1, <1>t DEF Comments!TypeOK
      <3> QED  BY <1>4, <2>2, <3>3, <3>4, <1>t DEF Comments!NextRow, Comments!TypeOK, Comments!Goto
    <2> QED  BY <2>1, <2>2
  <1>5. CASE Comments!PostComment(p)
    <2>1. live' \in [Posts -> 0..2]
      BY <1>5, <1>t
      DEF Comments!PostComment, Comments!NoComment, Comments!Commented, Comments!AnswerLost,
          Comments!Appears, Comments!TypeOK
    <2> QED  BY <1>5, <2>1, <1>o, <1>t
             DEF Comments!PostComment, Comments!NoComment, Comments!Commented, Comments!AnswerLost,
                 Comments!TypeOK, Comments!Goto
  <1>6. CASE Comments!MarkRow(p)
    <2>1. \A row \in comments :
            [row EXCEPT !.status = spot[p]]
               \in [id : 1..MaxComments, post : Posts, status : {"pending", "posted", "failed"}]
      BY <1>6, <1>t DEF Comments!MarkRow, Comments!TypeOK
    <2>2. comments' \subseteq [id : 1..MaxComments, post : Posts, status : {"pending", "posted", "failed"}]
      BY <1>6, <2>1, <1>t DEF Comments!MarkRow, Comments!TypeOK
    <2> QED  BY <1>6, <2>2, <1>t
             DEF Comments!MarkRow, Comments!TypeOK, Comments!Goto, Comments!At, Comments!Nowhere
  <1>7. CASE Comments!Abort(p)
    BY <1>7, <1>o, <1>t
    DEF Comments!Abort, Comments!TypeOK, Comments!Goto, Comments!At, Comments!Nowhere
  <1> QED  BY <1>1, <1>2, <1>3, <1>4, <1>5, <1>6, <1>7 DEF CommentMove

\* A row keeps its id and its post, and its status unless it is the one that is marked.
LEMMA Marked ==
  ASSUME NEW p \in Approvals, Comments!TypeOK, Comments!MarkRow(p)
  PROVE  /\ \A a \in comments : \E b \in comments' :
               /\ b.id = a.id /\ b.post = a.post
               /\ b.status = IF a.id = cur[p].id THEN spot[p] ELSE a.status
         /\ \A b \in comments' : \E a \in comments :
               /\ b.id = a.id /\ b.post = a.post
               /\ a.id = cur[p].id => b.status = spot[p]
               /\ a.id # cur[p].id => b = a
  <1> DEFINE New(row) == IF row.id = cur[p].id THEN [row EXCEPT !.status = spot[p]] ELSE row
  <1>1. \A a \in comments : /\ New(a).id = a.id /\ New(a).post = a.post
                            /\ a.id = cur[p].id => New(a).status = spot[p]
                            /\ a.id # cur[p].id => New(a) = a
    BY DEF Comments!TypeOK
  <1>2. comments' = {New(row) : row \in comments}
    BY DEF Comments!MarkRow
  <1> HIDE DEF New
  <1> QED  BY <1>1, <1>2

LEMMA ShapeKept ==
  ASSUME NEW p \in Approvals, CommentInv, CommentMove(p)
  PROVE  CommentShape'
  <1>t. Comments!TypeOK /\ CommentShape
    BY DEF CommentInv
  <1>o. /\ spot' = [spot EXCEPT ![p] = spot'[p]] /\ cur' = [cur EXCEPT ![p] = cur'[p]]
        /\ todo' = [todo EXCEPT ![p] = todo'[p]]
    BY OnlyOneMoves DEF CommentInv, CommentMove
  <1> DEFINE Mine(r) ==
        /\ spot[r] \in {"idle", "insert"} => todo[r] = {}
        /\ spot[r] = "insert" => cur[r].post \in Posts
        /\ spot[r] \in {"post", "posted", "failed"} =>
              \E a \in comments : a.id = cur[r].id /\ a.post = cur[r].post
        /\ \A x \in todo[r] : \E a \in comments : a.id = x.id /\ a.post = x.post
  <1>1. \A a \in comments : \E b \in comments' : b.id = a.id /\ b.post = a.post
    <2>1. CASE Comments!MarkRow(p)
      BY <2>1, <1>t, Marked
    <2>2. CASE comments \subseteq comments'
      BY <2>2
    <2> QED  BY <2>1, <2>2
             DEF CommentMove, Comments!PostFirstComment, Comments!InsertRow, Comments!ReadPending,
                 Comments!NextRow, Comments!PostComment, Comments!NoComment, Comments!Commented,
                 Comments!AnswerLost, Comments!Abort
  <1>2. (\A a, b \in comments : a.id = b.id => a = b)' /\ (\A a \in comments : a.id <= lastComment)'
    <2>1. CASE Comments!InsertRow(p)
      <3>1. lastComment \in Nat /\ \A a \in comments : a.id \in Nat /\ a.id <= lastComment
        BY <1>t, CommentsAssumption DEF Comments!TypeOK, CommentShape
      <3> DEFINE added == [id |-> lastComment + 1, post |-> cur[p].post, status |-> "pending"]
      <3>4. comments' = comments \cup {added} /\ added.id = lastComment + 1
        BY <2>1 DEF Comments!InsertRow
      <3>2. PICK new : comments' = comments \cup {new} /\ new.id = lastComment + 1
        BY <3>4
      <3>3. \A a \in comments : a.id # new.id /\ a.id <= lastComment + 1
        BY <3>1, <3>2
      <3> QED  BY <2>1, <1>t, <3>1, <3>2, <3>3 DEF Comments!InsertRow, CommentShape
    <2>2. CASE Comments!MarkRow(p)
      <3> DEFINE New(row) == IF row.id = cur[p].id THEN [row EXCEPT !.status = spot[p]] ELSE row
      <3>1. \A a \in comments : New(a).id = a.id
        BY <1>t DEF Comments!TypeOK
      <3>2. comments' = {New(row) : row \in comments} /\ lastComment' = lastComment
        BY <2>2 DEF Comments!MarkRow
      <3> HIDE DEF New
      <3> QED  BY <3>1, <3>2, <1>t DEF CommentShape
    <2>3. CASE UNCHANGED <<comments, lastComment>>
      BY <2>3, <1>t DEF CommentShape
    <2> QED  BY <2>1, <2>2, <2>3
             DEF CommentMove, Comments!PostFirstComment, Comments!ReadPending, Comments!NextRow,
                 Comments!PostComment, Comments!NoComment, Comments!Commented, Comments!AnswerLost,
                 Comments!Abort
  <1>3. ASSUME NEW r \in Approvals, r # p PROVE Mine(r)'
    <2>1. spot'[r] = spot[r] /\ cur'[r] = cur[r] /\ todo'[r] = todo[r]
      BY <1>3, <1>t, <1>o, OthersKept
    <2> QED  BY <2>1, <1>1, <1>t DEF CommentShape
  <1>4. Mine(p)'
    <2>1. CASE Comments!PostFirstComment(p)
      BY <2>1, <1>t
      DEF Comments!PostFirstComment, Comments!TypeOK, Comments!Goto, Comments!At, CommentShape
    <2>2. CASE Comments!InsertRow(p)
      <3>1. spot'[p] = "post" /\ todo'[p] = {}
        BY <2>2, <1>t DEF Comments!InsertRow, Comments!TypeOK, Comments!Goto, CommentShape
      <3>2. cur'[p].id = lastComment + 1 /\ cur'[p].post = cur[p].post
        BY <2>2, <1>t DEF Comments!InsertRow, Comments!TypeOK, Comments!At
      <3>3. [id |-> lastComment + 1, post |-> cur[p].post, status |-> "pending"] \in comments'
        BY <2>2 DEF Comments!InsertRow
      <3> QED  BY <3>1, <3>2, <3>3
    <2>3. CASE Comments!ReadPending(p)
      <3>1. spot'[p] = "next" /\ comments' = comments
        BY <2>3, <1>t DEF Comments!ReadPending, Comments!TypeOK, Comments!Goto
      <3>2. \A x \in todo'[p] : \E a \in comments : x = [id |-> a.id, post |-> a.post]
        BY <2>3, <1>t DEF Comments!ReadPending, Comments!TypeOK
      <3> QED  BY <3>1, <3>2
    <2>4. CASE Comments!NextRow(p)
      <3>1. CASE todo[p] = {}
        BY <2>4, <3>1, <1>t DEF Comments!NextRow, Comments!TypeOK, Comments!Goto
      <3>2. CASE todo[p] # {}
        <4>1. PICK row \in todo[p] : /\ cur' = [cur EXCEPT ![p] = row]
                                     /\ todo' = [todo EXCEPT ![p] = @ \ {row}]
          BY <2>4, <3>2 DEF Comments!NextRow, Comments!At
        <4>2. cur'[p] = row /\ todo'[p] \subseteq todo[p] /\ spot'[p] = "post" /\ comments' = comments
          BY <2>4, <3>2, <4>1, <1>t DEF Comments!NextRow, Comments!TypeOK, Comments!Goto
        <4> QED  BY <4>2, <1>t DEF CommentShape
      <3> QED  BY <3>1, <3>2
    <2>5. CASE Comments!PostComment(p)
      BY <2>5, <1>t
      DEF Comments!PostComment, Comments!NoComment, Comments!Commented, Comments!AnswerLost,
          Comments!TypeOK, Comments!Goto, CommentShape
    <2>6. CASE Comments!MarkRow(p)
      <3>1. spot'[p] = "next" /\ todo'[p] = todo[p]
        BY <2>6, <1>t DEF Comments!MarkRow, Comments!TypeOK, Comments!Goto
      <3> QED  BY <3>1, <1>1, <1>t DEF CommentShape
    <2>7. CASE Comments!Abort(p)
      BY <2>7, <1>t DEF Comments!Abort, Comments!TypeOK, Comments!Goto
    <2> QED  BY <2>1, <2>2, <2>3, <2>4, <2>5, <2>6, <2>7 DEF CommentMove
  <1>5. \A r \in Approvals : Mine(r)'
    BY <1>3, <1>4
  <1> QED  BY <1>2, <1>5 DEF CommentShape

\* A process that begins with posts leaves those in doubt that another is at work on.
LEMMA MeetsNobody ==
  ASSUME NEW p \in Approvals, NEW posts, NEW q \in posts, q \in Posts, Comments!Meets(p, posts), ~doubt'[q]
  PROVE  \A r \in Approvals : r # p => ~Works(r, q)
  <1> SUFFICES ASSUME NEW r \in Approvals, r # p, Works(r, q) PROVE FALSE
    OBVIOUS
  <1>1. q \in Comments!HeldBy(r)
    BY DEF Works, Here, Listed, Comments!HeldBy
  <1> QED  BY <1>1 DEF Comments!Meets

\* A post that nobody is at work on has no comment unless a row says so.
LEMMA NobodyAtWork ==
  ASSUME NEW q, Undoubted(q), \A r \in Approvals : ~Works(r, q)
  PROVE  live[q] = 0 \/ /\ live[q] = 1
                        /\ \E a \in RowsOf(q) : a.status = "posted"
                        /\ \A a \in RowsOf(q) : a.status # "pending"
  BY DEF Undoubted, Works

LEMMA UndoubtedBegun ==
  ASSUME NEW p \in Approvals, CommentInv, Comments!PostFirstComment(p),
         NEW q \in Posts, ~doubt'[q]
  PROVE  Undoubted(q)'
  <1>t. Comments!TypeOK /\ CommentShape /\ Undoubted(q)
    BY OnlyOneMoves DEF CommentInv
  <1>o. \A r \in Approvals : r # p =>
           /\ spot'[r] = spot[r] /\ cur'[r] = cur[r]
           /\ Here(r, q)' = Here(r, q) /\ Listed(r, q)' = Listed(r, q) /\ Works(r, q)' = Works(r, q)
    BY <1>t, OnlyOneMoves, OthersKept
  <1>1. PICK post \in Posts :
          /\ Comments!Unposted(post) /\ Comments!Meets(p, {post})
          /\ cur' = [cur EXCEPT ![p] = [id |-> 0, post |-> post]]
    BY DEF Comments!PostFirstComment, Comments!At
  <1>2. /\ spot[p] = "idle" /\ spot'[p] = "insert" /\ todo[p] = {} /\ todo' = todo
        /\ cur'[p].post = post /\ comments' = comments /\ live' = live
    BY <1>1, <1>t DEF Comments!PostFirstComment, Comments!Goto, Comments!TypeOK, CommentShape
  <1>3. /\ ~Here(p, q) /\ Listed(p, q) = {} /\ Listed(p, q)' = {} /\ RowsOf(q)' = RowsOf(q)
        /\ Here(p, q)' <=> q = post
    BY <1>2 DEF Here, Listed, RowsOf
  <1>4. CASE q # post
    BY <1>t, <1>o, <1>2, <1>3, <1>4, PostKept
  <1>5. CASE q = post
    <2>1. \A r \in Approvals : ~Works(r, q)
      BY <1>1, <1>3, <1>5, MeetsNobody DEF Works
    <2>2. \A a \in RowsOf(q) : a.status \notin {"posted", "pending"}
      BY <1>1, <1>5 DEF RowsOf, Comments!Unposted
    <2>3. live'[q] = 0
      BY <1>2, <1>t, <2>1, <2>2, NobodyAtWork
    <2>4. \A r \in Approvals : r # p => ~Here(r, q)' /\ Listed(r, q)' = {} /\ ~Works(r, q)'
      BY <1>o, <2>1 DEF Works
    <2>5. spot'[p] = "insert" /\ Listed(p, q)' = {}
      BY <1>2, <1>3
    <2> QED  BY <1>3, <2>2, <2>3, <2>4, <2>5 DEF Undoubted
  <1> QED  BY <1>4, <1>5

LEMMA UndoubtedInserted ==
  ASSUME NEW p \in Approvals, CommentInv, Comments!InsertRow(p), NEW q \in Posts, ~doubt'[q]
  PROVE  Undoubted(q)'
  <1>t. Comments!TypeOK /\ CommentShape /\ Undoubted(q)
    BY OnlyOneMoves DEF CommentInv
  <1>o. \A r \in Approvals : r # p =>
           /\ spot'[r] = spot[r] /\ cur'[r] = cur[r]
           /\ Here(r, q)' = Here(r, q) /\ Listed(r, q)' = Listed(r, q) /\ Works(r, q)' = Works(r, q)
    BY <1>t, OnlyOneMoves, OthersKept
  <1> DEFINE added == [id |-> lastComment + 1, post |-> cur[p].post, status |-> "pending"]
  <1>1. PICK new : new = added
    OBVIOUS
  <1>2. /\ spot[p] = "insert" /\ spot'[p] = "post" /\ todo[p] = {} /\ todo' = todo
        /\ cur'[p].post = cur[p].post /\ cur'[p].id = new.id /\ new.post = cur[p].post
        /\ new.status = "pending"
        /\ comments' = comments \cup {new} /\ live' = live
    BY <1>1, <1>t DEF Comments!InsertRow, Comments!Goto, Comments!At, Comments!TypeOK, CommentShape
  <1>3. /\ Here(p, q) <=> cur[p].post = q
        /\ Here(p, q)' <=> cur[p].post = q
        /\ Listed(p, q) = {} /\ Listed(p, q)' = {}
    BY <1>2 DEF Here, Listed
  <1>4. CASE cur[p].post # q
    <2>1. RowsOf(q)' = RowsOf(q)
      BY <1>2, <1>4 DEF RowsOf
    <2> QED  BY <1>t, <1>o, <1>2, <1>3, <1>4, <2>1, PostKept
  <1>5. CASE cur[p].post = q
    <2>1. RowsOf(q)' = RowsOf(q) \cup {new}
      BY <1>2, <1>5 DEF RowsOf
    <2>2. live'[q] = 0 /\ \A a \in RowsOf(q) : a.status \notin {"posted", "pending"}
      BY <1>2, <1>3, <1>5, <1>t DEF Undoubted
    <2>3. \A r \in Approvals : r # p => ~Works(r, q)
      BY <1>3, <1>5, <1>t DEF Undoubted, Works
    <2>4. \A r \in Approvals : r # p => ~Here(r, q)' /\ Listed(r, q)' = {} /\ ~Works(r, q)'
      BY <1>o, <2>3 DEF Works
    <2>5. Here(p, q)' /\ spot'[p] = "post" /\ cur'[p].id = new.id /\ new.status = "pending"
      BY <1>2, <1>3, <1>5
    <2> QED  BY <1>3, <2>1, <2>2, <2>4, <2>5 DEF Undoubted
  <1> QED  BY <1>4, <1>5

LEMMA UndoubtedListed ==
  ASSUME NEW p \in Approvals, CommentInv, Comments!ReadPending(p), NEW q \in Posts, ~doubt'[q]
  PROVE  Undoubted(q)'
  <1>t. Comments!TypeOK /\ CommentShape /\ Undoubted(q)
    BY OnlyOneMoves DEF CommentInv
  <1>o. \A r \in Approvals : r # p =>
           /\ spot'[r] = spot[r] /\ cur'[r] = cur[r]
           /\ Here(r, q)' = Here(r, q) /\ Listed(r, q)' = Listed(r, q) /\ Works(r, q)' = Works(r, q)
    BY <1>t, OnlyOneMoves, OthersKept
  <1> DEFINE waiting == {row \in comments : row.status = "pending"}
  <1>1. /\ Comments!Meets(p, {row.post : row \in waiting})
        /\ todo'[p] = {[id |-> row.id, post |-> row.post] : row \in waiting}
        /\ spot[p] = "idle" /\ spot'[p] = "next" /\ todo[p] = {}
        /\ comments' = comments /\ live' = live
    BY <1>t DEF Comments!ReadPending, Comments!Goto, Comments!TypeOK, CommentShape
  <1>2. /\ ~Here(p, q) /\ ~Here(p, q)' /\ Listed(p, q) = {} /\ RowsOf(q)' = RowsOf(q)
    BY <1>1 DEF Here, Listed, RowsOf
  <1>3. CASE \A a \in RowsOf(q) : a.status # "pending"
    <2>1. Listed(p, q)' = {}
      BY <1>1, <1>3 DEF Listed, RowsOf
    <2> QED  BY <1>t, <1>o, <1>1, <1>2, <2>1, PostKept
  <1>4. CASE \E a \in RowsOf(q) : a.status = "pending"
    <2>1. q \in {row.post : row \in waiting}
      BY <1>4 DEF RowsOf
    <2>2. \A r \in Approvals : ~Works(r, q)
      <3>1. PICK posts : posts = {row.post : row \in waiting}
        OBVIOUS
      <3> QED  BY <1>1, <1>2, <2>1, <3>1, MeetsNobody DEF Works
    <2>3. live'[q] = 0
      BY <1>1, <1>t, <1>4, <2>2, NobodyAtWork
    <2>4. \A r \in Approvals : r # p => ~Here(r, q)' /\ Listed(r, q)' = {} /\ ~Works(r, q)'
      BY <1>o, <2>2 DEF Works
    <2>5. \A x \in Listed(p, q)' : \E a \in RowsOf(q) : a.status = "pending" /\ a.id = x.id
      BY <1>1 DEF Listed, RowsOf
    <2>6. \A a \in RowsOf(q) : a.status # "posted"
      BY <1>1, <1>t, <2>3 DEF Undoubted
    <2> HIDE DEF waiting
    <2> QED  BY <1>t, <1>2, <2>3, <2>4, <2>5, <2>6 DEF Undoubted
  <1> QED  BY <1>3, <1>4

LEMMA UndoubtedTurn ==
  ASSUME NEW p \in Approvals, CommentInv, Comments!NextRow(p), NEW q \in Posts, ~doubt'[q]
  PROVE  Undoubted(q)'
  <1>t. Comments!TypeOK /\ CommentShape /\ Undoubted(q)
    BY OnlyOneMoves DEF CommentInv
  <1>o. \A r \in Approvals : r # p =>
           /\ spot'[r] = spot[r] /\ cur'[r] = cur[r]
           /\ Here(r, q)' = Here(r, q) /\ Listed(r, q)' = Listed(r, q) /\ Works(r, q)' = Works(r, q)
    BY <1>t, OnlyOneMoves, OthersKept
  <1>1. /\ spot[p] = "next" /\ comments' = comments /\ live' = live
        /\ ~Here(p, q) /\ RowsOf(q)' = RowsOf(q)
    BY DEF Comments!NextRow, Here, RowsOf
  <1>2. CASE todo[p] = {}
    <2>1. spot'[p] = "idle" /\ todo' = todo
      BY <1>2, <1>t DEF Comments!NextRow, Comments!Goto, Comments!TypeOK
    <2>2. ~Here(p, q)' /\ Listed(p, q)' = Listed(p, q)
      BY <2>1 DEF Here, Listed
    <2> QED  BY <1>t, <1>o, <1>1, <2>2, PostKept
  <1>3. CASE todo[p] # {}
    <2>1. PICK row \in todo[p] : cur' = [cur EXCEPT ![p] = row] /\ todo' = [todo EXCEPT ![p] = @ \ {row}]
      BY <1>3 DEF Comments!NextRow, Comments!At
    <2>2. spot'[p] = "post" /\ cur'[p] = row /\ todo'[p] = todo[p] \ {row}
      BY <1>3, <1>t, <2>1 DEF Comments!NextRow, Comments!Goto, Comments!TypeOK
    <2>3. Listed(p, q)' = Listed(p, q) \ {row} /\ (Here(p, q)' <=> row.post = q)
      BY <2>2 DEF Listed, Here
    <2>4. CASE row.post # q
      BY <1>t, <1>o, <1>1, <2>3, <2>4, PostKept
    <2>5. CASE row.post = q
      <3>1. row \in Listed(p, q)
        BY <2>5 DEF Listed
      <3>2. live[q] = 0 /\ \E a \in RowsOf(q) : a.status = "pending" /\ a.id = row.id
        BY <1>t, <3>1 DEF Undoubted
      <3>3. \A r \in Approvals : r # p => ~Works(r, q)
        BY <1>t, <3>1 DEF Undoubted, Works
      <3>4. Listed(p, q) = {row}
        <4>1. \A x \in Listed(p, q) : x.id = row.id
          BY <1>t, <3>1 DEF Undoubted
        <4>2. \A x \in Listed(p, q) : x \in [id : 1..MaxComments, post : Posts] /\ x.post = q
          BY <1>t DEF Listed, Comments!TypeOK
        <4> QED  BY <3>1, <4>1, <4>2
      <3>5. Listed(p, q)' = {}
        BY <2>3, <3>4
      <3>6. \A r \in Approvals : r # p => ~Here(r, q)' /\ Listed(r, q)' = {} /\ ~Works(r, q)'
        BY <1>o, <3>3 DEF Works
      <3>7. live'[q] = 0 /\ \E a \in RowsOf(q)' : a.status = "pending" /\ a.id = cur'[p].id
        BY <1>1, <2>2, <3>2
      <3>8. \A a \in RowsOf(q) : a.status # "posted"
        BY <1>t, <3>2 DEF Undoubted
      <3>9. \A a, b \in RowsOf(q) : a.status = "pending" /\ b.status = "pending" => a = b
        BY <1>t DEF Undoubted
      <3> QED  BY <1>1, <2>2, <3>5, <3>6, <3>7, <3>8, <3>9 DEF Undoubted
    <2> QED  BY <2>4, <2>5
  <1> QED  BY <1>2, <1>3

LEMMA UndoubtedAsked ==
  ASSUME NEW p \in Approvals, CommentInv, Comments!PostComment(p), NEW q \in Posts, ~doubt'[q]
  PROVE  Undoubted(q)'
  <1>t. Comments!TypeOK /\ CommentShape /\ Undoubted(q)
    BY OnlyOneMoves DEF CommentInv, Comments!PostComment
  <1>o. \A r \in Approvals : r # p =>
           /\ spot'[r] = spot[r] /\ cur'[r] = cur[r]
           /\ Here(r, q)' = Here(r, q) /\ Listed(r, q)' = Listed(r, q) /\ Works(r, q)' = Works(r, q)
    BY <1>t, OnlyOneMoves, OthersKept
  <1>1. /\ spot[p] = "post" /\ spot'[p] \in {"posted", "failed"}
        /\ comments' = comments /\ cur' = cur /\ todo' = todo
    BY <1>t
    DEF Comments!PostComment, Comments!NoComment, Comments!Commented, Comments!AnswerLost,
        Comments!Goto, Comments!TypeOK
  <1>2. /\ Here(p, q)' = Here(p, q) /\ Listed(p, q)' = Listed(p, q) /\ Works(p, q)' = Works(p, q)
        /\ RowsOf(q)' = RowsOf(q) /\ (Here(p, q) <=> cur[p].post = q)
    BY <1>1 DEF Here, Listed, Works, RowsOf
  <1>3. CASE cur[p].post # q
    <2>1. live'[q] = live[q]
      BY <1>3, <1>t
      DEF Comments!PostComment, Comments!NoComment, Comments!Commented, Comments!AnswerLost,
          Comments!Appears, Comments!TypeOK
    <2> QED  BY <1>t, <1>o, <1>1, <1>2, <1>3, <2>1, PostKept
  <1>4. CASE cur[p].post = q
    <2>1. ~Comments!AnswerLost(p)
      BY <1>4, <1>t DEF Comments!AnswerLost, Comments!Lost, Comments!TypeOK
    <2>2. live[q] = 0 /\ Listed(p, q) = {} /\ \E a \in RowsOf(q) : a.status = "pending" /\ a.id = cur[p].id
      BY <1>1, <1>2, <1>4, <1>t DEF Undoubted
    <2>3. live'[q] = IF spot'[p] = "posted" THEN 1 ELSE 0
      BY <1>4, <1>t, <2>1, <2>2
      DEF Comments!PostComment, Comments!NoComment, Comments!Commented, Comments!Goto,
          Comments!Appears, Comments!TypeOK
    <2>4. \A r \in Approvals : r # p => ~Works(r, q)
      BY <1>2, <1>4, <1>t DEF Undoubted, Works
    <2>5. \A r \in Approvals : r # p => ~Here(r, q)' /\ Listed(r, q)' = {} /\ ~Works(r, q)'
      BY <1>o, <2>4 DEF Works
    <2>6. /\ \A a \in RowsOf(q) : a.status # "posted"
          /\ \A a, b \in RowsOf(q) : a.status = "pending" /\ b.status = "pending" => a = b
      BY <1>t, <2>2 DEF Undoubted
    <2>7. /\ Here(p, q)' /\ Listed(p, q)' = {} /\ spot'[p] # "insert"
          /\ \E a \in RowsOf(q)' : a.status = "pending" /\ a.id = cur'[p].id
      BY <1>1, <1>2, <1>4, <2>2
    <2>8. live'[q] \in {0, 1} /\ (live'[q] = 1 => spot'[p] = "posted")
      BY <2>3
    <2> QED  BY <1>2, <2>3, <2>5, <2>6, <2>7, <2>8 DEF Undoubted
  <1> QED  BY <1>3, <1>4

LEMMA UndoubtedMarked ==
  ASSUME NEW p \in Approvals, CommentInv, Comments!MarkRow(p), NEW q \in Posts, ~doubt'[q]
  PROVE  Undoubted(q)'
  <1>t. Comments!TypeOK /\ CommentShape /\ Undoubted(q)
    BY OnlyOneMoves DEF CommentInv
  <1>o. \A r \in Approvals : r # p =>
           /\ spot'[r] = spot[r] /\ cur'[r] = cur[r]
           /\ Here(r, q)' = Here(r, q) /\ Listed(r, q)' = Listed(r, q) /\ Works(r, q)' = Works(r, q)
    BY <1>t, OnlyOneMoves, OthersKept
  <1>1. /\ spot[p] \in {"posted", "failed"} /\ spot'[p] = "next" /\ todo' = todo /\ live' = live
    BY <1>t DEF Comments!MarkRow, Comments!Goto, Comments!TypeOK
  <1>2. ~Here(p, q)' /\ Listed(p, q)' = Listed(p, q) /\ (Here(p, q) <=> cur[p].post = q)
    BY <1>1 DEF Here, Listed
  <1>3. CASE cur[p].post # q
    <2>1. \A a \in comments : a.id = cur[p].id => a.post # q
      BY <1>1, <1>3, <1>t DEF CommentShape
    <2>2. RowsOf(q)' = RowsOf(q)
      BY <1>t, <2>1, Marked DEF RowsOf, CommentShape
    <2> QED  BY <1>t, <1>o, <1>1, <1>2, <1>3, <2>2, PostKept
  <1>4. CASE cur[p].post = q
    <2>1. /\ Listed(p, q) = {} /\ live[q] = IF spot[p] = "posted" THEN 1 ELSE 0
          /\ \E a \in RowsOf(q) : a.status = "pending" /\ a.id = cur[p].id
      BY <1>1, <1>2, <1>4, <1>t DEF Undoubted
    <2>2. \A r \in Approvals : r # p => ~Works(r, q)
      BY <1>2, <1>4, <1>t DEF Undoubted, Works
    <2>3. \A r \in Approvals : ~Here(r, q)' /\ Listed(r, q)' = {} /\ ~Works(r, q)'
      BY <1>o, <1>2, <2>1, <2>2 DEF Works
    <2>4. \A b \in RowsOf(q)' : b.status # "pending"
      <3>1. \A a \in RowsOf(q) : a.status = "pending" => a.id = cur[p].id
        BY <1>t, <2>1 DEF Undoubted
      <3> QED  BY <1>1, <1>t, <3>1, Marked DEF RowsOf
    <2>5. \A b \in RowsOf(q)' : b.status = "posted" => live'[q] = 1
      <3>1. \A a \in RowsOf(q) : a.status = "posted" => live[q] = 1
        BY <1>t DEF Undoubted
      <3> QED  BY <1>1, <1>t, <2>1, <3>1, Marked DEF RowsOf
    <2>6. live'[q] = 1 => \E b \in RowsOf(q)' : b.status = "posted"
      BY <1>1, <1>t, <2>1, Marked DEF RowsOf
    <2>7. live'[q] \in {0, 1}
      BY <1>1, <1>t DEF Undoubted
    <2> QED  BY <2>3, <2>4, <2>5, <2>6, <2>7 DEF Undoubted
  <1> QED  BY <1>3, <1>4

LEMMA UndoubtedAborted ==
  ASSUME NEW p \in Approvals, CommentInv, Comments!Abort(p), NEW q \in Posts, ~doubt'[q]
  PROVE  Undoubted(q)'
  <1>t. Comments!TypeOK /\ CommentShape /\ Undoubted(q)
    BY OnlyOneMoves DEF CommentInv
  <1>o. \A r \in Approvals : r # p =>
           /\ spot'[r] = spot[r] /\ cur'[r] = cur[r]
           /\ Here(r, q)' = Here(r, q) /\ Listed(r, q)' = Listed(r, q) /\ Works(r, q)' = Works(r, q)
    BY <1>t, OnlyOneMoves, OthersKept
  <1>1. spot'[p] = "idle" /\ todo'[p] = {} /\ comments' = comments /\ live' = live
    BY <1>t DEF Comments!Abort, Comments!Goto, Comments!TypeOK
  <1>2. ~Here(p, q)' /\ Listed(p, q)' = {} /\ RowsOf(q)' = RowsOf(q)
    BY <1>1 DEF Here, Listed, RowsOf
  <1>3. ~(Here(p, q) /\ spot[p] = "posted")
    BY <1>t DEF Comments!Abort, Comments!Lost, Comments!TypeOK, Here
  <1> QED  BY <1>t, <1>o, <1>1, <1>2, <1>3, PostKept

LEMMA NextComments == CommentInv /\ [Comments!Next]_Comments!vars => CommentInv'
  <1> SUFFICES ASSUME CommentInv, [Comments!Next]_Comments!vars PROVE CommentInv'
    OBVIOUS
  <1>1. ASSUME NEW p \in Approvals, CommentMove(p) PROVE CommentInv'
    <2>1. ASSUME NEW q \in Posts, ~doubt'[q] PROVE Undoubted(q)'
      BY <1>1, <2>1, UndoubtedBegun, UndoubtedInserted, UndoubtedListed, UndoubtedTurn,
         UndoubtedAsked, UndoubtedMarked, UndoubtedAborted DEF CommentMove
    <2> QED  BY <1>1, <2>1, CommentTypes, ShapeKept DEF CommentInv
  <1>2. CASE UNCHANGED Comments!vars
    BY <1>2 DEF Comments!vars, CommentInv, Comments!TypeOK, CommentShape, Undoubted, Works, Here,
                Listed, RowsOf
  <1> QED  BY <1>1, <1>2 DEF Comments!Next, CommentMove

\* Failures, exceptions and retries alone never put a second comment under a post: one
\* outcome at least was lost, or two processes were at work on the post at a time.
THEOREM CommentedOnceAlways == Comments!Spec => []CommentedOnce
  <1>1. CommentInv => Comments!CommentedOnce
    BY DEF CommentInv, Undoubted, Comments!CommentedOnce
  <1> QED  BY <1>1, InitComments, NextComments, PTL DEF Comments!Spec, CommentedOnce

-----------------------------------------------------------------------------
(* 4. PublishSlots, for every finite set of processes, all windows and all    *)
(* delays.  For the interval: whoever has worked out a time and has seen no   *)
(* change since is ahead of all that wait.  For the days: the rows that       *)
(* failures have put into a day's windows are counted together with the       *)
(* processes that are about to put one there.                                 *)

Deferred(d) ==
    {row \in rows : /\ Slots!Day(row.time) = d /\ row.moved = "window"
                    /\ row.status \in {"waiting", "published"}}

Deferring(d) == {p \in Approvals : at[p] = "window" /\ Slots!Day(chosen[p]) = d}

Roomy(d) ==
    Cardinality(Deferred(d)) + Cardinality(Deferring(d)) <= DAILY_LIMIT + Cardinality(Approvals) - 1

Ahead ==
    \A p \in Approvals : at[p] = "insert" /\ seen[p] = 0 =>
        \A a \in rows : a.status = "waiting" => chosen[p] >= a.time + INTERVAL

\* The rows: their ids are their own, and their times have a last one.
RowShape ==
    /\ \A a, b \in rows : a.id = b.id => a = b
    /\ \A a \in rows : a.id <= lastId
    /\ IsFiniteSet(rows)
    /\ \E last \in Nat : \A a \in rows : a.time <= last

Spaced ==
    \A a, b \in rows :
        /\ a.status = "waiting" /\ b.status = "waiting" /\ a.id < b.id
        /\ a.moved = "no" /\ b.moved = "no" /\ b.alone
        => b.time >= a.time + INTERVAL

SlotInv == Slots!TypeOK /\ RowShape /\ Ahead /\ Spaced /\ \A d : Roomy(d)

LEMMA SlotsCardinality == \A S : Slots!Cardinality(S) = Cardinality(S)
  BY DEF Slots!Cardinality, Cardinality

\* A set of numbers has a least one.
LEMMA LeastNat ==
  ASSUME NEW T, T \subseteq Nat, T # {}
  PROVE  \E x \in T : \A y \in T : x <= y
  <1>1. PICK x \in T : \A y \in T : ~(<<y, x>> \in OpToRel(<, Nat))
    BY NatLessThanWellFounded, WFMin
  <1>2. \A y \in T : ~(y < x)
    BY <1>1 DEF OpToRel
  <1> QED  BY <1>2

\* With a bound it has a greatest one.
LEMMA GreatestNat ==
  ASSUME NEW T, T \subseteq Nat, T # {}, NEW last \in Nat, \A y \in T : y <= last
  PROVE  \E x \in T : \A y \in T : x >= y
  <1> DEFINE Gaps == {last - y : y \in T}
  <1>1. Gaps \subseteq Nat /\ Gaps # {}
    <2>1. \A y \in T : last - y \in Nat
      OBVIOUS
    <2>2. \E y : y \in T
      OBVIOUS
    <2> QED  BY <2>1, <2>2
  <1>2. PICK g \in Gaps : \A h \in Gaps : g <= h
    <2> HIDE DEF Gaps
    <2> QED  BY <1>1, LeastNat
  <1>3. PICK x \in T : g = last - x
    BY <1>2
  <1>4. ASSUME NEW y \in T PROVE x >= y
    <2>1. last - x <= last - y
      BY <1>2, <1>3
    <2> QED  BY <2>1
  <1> QED  BY <1>4

LEMMA TimeOfDay ==
  ASSUME NEW D \in Nat \ {0}, NEW d \in Nat, NEW w \in 0..D - 1
  PROVE  (d * D + w) \div D = d
  OBVIOUS

\* A window of a day is on that day.
LEMMA WindowOfDay ==
  ASSUME NEW d \in Nat, NEW w \in Windows
  PROVE  Slots!Day(d * DAY + w) = d /\ d * DAY + w \in Nat
  <1>1. DAY \in Nat \ {0} /\ w \in 0..DAY - 1
    BY SlotsAssumption
  <1>2. (d * DAY + w) \div DAY = d
    BY <1>1, TimeOfDay
  <1>3. d * DAY + w \in Nat
    BY <1>1
  <1> QED  BY <1>1, <1>2, <1>3 DEF Slots!Day

\* The time of a new video is an interval after the latest one that waits.
LEMMA NextSlotAhead ==
  ASSUME SlotInv
  PROVE  /\ Slots!NextSlot \in Nat
         /\ \A a \in rows : a.status = "waiting" => Slots!NextSlot >= a.time + INTERVAL
  <1>n. /\ INTERVAL \in Nat /\ HALF \in Nat /\ HOUR \in Nat /\ now \in Nat
        /\ \A a \in rows : a.time \in Nat
    BY SlotsAssumption DEF SlotInv, Slots!TypeOK
  <1>1. CASE Slots!Waiting = {}
    <2>1. \A a \in rows : a.status # "waiting"
      BY <1>1 DEF Slots!Waiting
    <2> QED  BY <1>1, <1>n, <2>1 DEF Slots!NextSlot
  <1>2. CASE Slots!Waiting # {}
    <2> DEFINE times == {row.time : row \in Slots!Waiting}
    <2>1. times \subseteq Nat /\ times # {}
      BY <1>n, <1>2 DEF Slots!Waiting
    <2>2. PICK last \in Nat : \A a \in rows : a.time <= last
      BY DEF SlotInv, RowShape
    <2>3. \A t \in times : t <= last
      BY <2>2 DEF Slots!Waiting
    <2>4. PICK T : T = times
      OBVIOUS
    <2>5. PICK m \in T : \A t \in T : m >= t
      BY <2>1, <2>3, <2>4, GreatestNat
    <2>6. Slots!Max(T) \in T /\ \A t \in T : Slots!Max(T) >= t
      BY <2>5 DEF Slots!Max
    <2>7. PICK top \in Nat : top = Slots!Max(T)
      BY <2>1, <2>4, <2>6
    <2>8. Slots!NextSlot = IF top + INTERVAL <= now THEN now + HALF ELSE top + INTERVAL
      BY <1>2, <2>4, <2>7 DEF Slots!NextSlot
    <2>9. Slots!NextSlot \in Nat /\ Slots!NextSlot >= top + INTERVAL
      BY <1>n, <2>8
    <2>10. \A a \in rows : a.status = "waiting" => a.time \in T
      BY <2>4 DEF Slots!Waiting
    <2> QED  BY <1>n, <2>6, <2>7, <2>9, <2>10
  <1> QED  BY <1>1, <1>2

\* The window a failed row is put off to is on a day that has room.
LEMMA FittingHasRoom ==
  ASSUME SlotInv, Slots!Fitting(now) # {}
  PROVE  /\ Slots!Min(Slots!Fitting(now)) \in Nat
         /\ Slots!HasRoom(Slots!Day(Slots!Min(Slots!Fitting(now))))
  <1>n. BestDays \subseteq Nat
    BY SlotsAssumption
  <1>1. \A t \in Slots!Fitting(now) : t \in Nat /\ Slots!HasRoom(Slots!Day(t))
    <2> SUFFICES ASSUME NEW t \in Slots!Fitting(now) PROVE t \in Nat /\ Slots!HasRoom(Slots!Day(t))
      OBVIOUS
    <2>1. PICK d \in BestDays, w \in Windows : Slots!HasRoom(d) /\ t = d * DAY + w
      BY DEF Slots!Fitting
    <2> QED  BY <1>n, <2>1, WindowOfDay
  <1>2. PICK T : T = Slots!Fitting(now)
    OBVIOUS
  <1>3. PICK x \in T : \A y \in T : x <= y
    BY <1>1, <1>2, LeastNat
  <1>4. Slots!Min(T) \in T
    BY <1>3 DEF Slots!Min
  <1> QED  BY <1>1, <1>2, <1>4

LEMMA InitSlots == Slots!Init => SlotInv
  <1> SUFFICES ASSUME Slots!Init PROVE SlotInv
    OBVIOUS
  <1>1. Slots!TypeOK
    BY SlotsAssumption DEF Slots!Init, Slots!TypeOK
  <1>2. RowShape
    BY FS_EmptySet DEF Slots!Init, RowShape
  <1>3. Ahead /\ Spaced
    BY DEF Slots!Init, Ahead, Spaced
  <1>4. ASSUME NEW d PROVE Roomy(d)
    <2>1. Deferred(d) = {} /\ Deferring(d) = {}
      BY DEF Slots!Init, Deferred, Deferring
    <2>2. Cardinality(Approvals) \in Nat /\ DAILY_LIMIT \in Nat /\ DAILY_LIMIT >= 1
      BY ApprovalsAssumption, FS_CardinalityType, SlotsAssumption
    <2> QED  BY <2>1, <2>2, FS_EmptySet DEF Roomy
  <1> QED  BY <1>1, <1>2, <1>3, <1>4 DEF SlotInv

LEMMA SlotNumbers ==
  /\ DAILY_LIMIT \in Nat /\ INTERVAL \in Nat /\ HOUR \in Nat /\ MaxRows \in Nat /\ MaxTime \in Nat
  /\ Cardinality(Approvals) \in Nat
  BY SlotsAssumption, ApprovalsAssumption, FS_CardinalityType

\* What is counted of a day is finite.
LEMMA CountsOfDay ==
  ASSUME SlotInv, NEW d
  PROVE  /\ IsFiniteSet(Deferred(d)) /\ Cardinality(Deferred(d)) \in Nat
         /\ IsFiniteSet(Deferring(d)) /\ Cardinality(Deferring(d)) \in Nat
  <1>1. Deferred(d) \in SUBSET rows /\ IsFiniteSet(rows)
    BY DEF Deferred, SlotInv, RowShape
  <1>2. Deferring(d) \in SUBSET Approvals
    BY DEF Deferring
  <1> QED  BY <1>1, <1>2, ApprovalsAssumption, FS_Subset, FS_CardinalityType

LEMMA FewerKept ==
  ASSUME SlotInv, NEW d, Deferred(d)' \subseteq Deferred(d), Deferring(d)' \subseteq Deferring(d)
  PROVE  Roomy(d)'
  <1>1. PICK A, I : A = Deferred(d)' /\ I = Deferring(d)'
    OBVIOUS
  <1>2. /\ A \in SUBSET Deferred(d) /\ I \in SUBSET Deferring(d)
        /\ Roomy(d)' <=> Cardinality(A) + Cardinality(I) <= DAILY_LIMIT + Cardinality(Approvals) - 1
    BY <1>1 DEF Roomy
  <1>3. /\ Cardinality(A) \in Nat /\ Cardinality(A) <= Cardinality(Deferred(d))
        /\ Cardinality(I) \in Nat /\ Cardinality(I) <= Cardinality(Deferring(d))
    BY <1>2, CountsOfDay, FS_Subset, FS_CardinalityType
  <1>4. Cardinality(Deferred(d)) + Cardinality(Deferring(d)) <= DAILY_LIMIT + Cardinality(Approvals) - 1
    BY DEF SlotInv, Roomy
  <1> QED  BY <1>2, <1>3, <1>4, CountsOfDay, SlotNumbers

\* One row is written anew; it keeps its id.
LEMMA RowReplaced ==
  ASSUME SlotInv, NEW old \in rows, NEW new, new.id = old.id, new.time \in Nat,
         rows' = (rows \ {old}) \cup {new}, lastId' = lastId
  PROVE  RowShape'
  <1>1. (\A a, b \in rows : a.id = b.id => a = b)' /\ (\A a \in rows : a.id <= lastId)'
    BY DEF SlotInv, RowShape
  <1>2. IsFiniteSet(rows)'
    <2>1. IsFiniteSet(rows \ {old})
      BY FS_RemoveElement DEF SlotInv, RowShape
    <2>2. IsFiniteSet((rows \ {old}) \cup {new})
      BY <2>1, FS_AddElement
    <2> QED  BY <2>2
  <1>3. (\E last \in Nat : \A a \in rows : a.time <= last)'
    <2>1. PICK last \in Nat : \A a \in rows : a.time <= last
      BY DEF SlotInv, RowShape
    <2>2. \A a \in rows : a.time \in Nat
      BY DEF SlotInv, Slots!TypeOK
    <2>3. PICK t \in Nat : t = new.time
      OBVIOUS
    <2>4. \A a \in rows' : a.time <= last + t
      BY <2>1, <2>2, <2>3
    <2> QED  BY <2>4
  <1> QED  BY <1>1, <1>2, <1>3 DEF RowShape

LEMMA ReadLatestKeeps ==
  ASSUME SlotInv, NEW p \in Approvals, Slots!ReadLatest(p) PROVE SlotInv'
  <1>1. /\ at[p] = "idle" /\ at' = [at EXCEPT ![p] = "insert"]
        /\ chosen' = [chosen EXCEPT ![p] = Slots!NextSlot] /\ seen' = [seen EXCEPT ![p] = 0]
        /\ UNCHANGED <<now, rows, lastId, target>>
    BY DEF Slots!ReadLatest, Slots!Choose, Slots!Goto, Slots!Fresh
  <1>2. PICK t \in Nat : t = Slots!NextSlot /\ \A a \in rows : a.status = "waiting" => t >= a.time + INTERVAL
    BY NextSlotAhead
  <1>3. Slots!TypeOK'
    BY <1>1, <1>2 DEF SlotInv, Slots!TypeOK
  <1>4. RowShape' /\ Spaced'
    BY <1>1 DEF SlotInv, RowShape, Spaced
  <1>5. Ahead'
    BY <1>1, <1>2 DEF SlotInv, Ahead, Slots!TypeOK
  <1>6. ASSUME NEW d PROVE Roomy(d)'
    <2>1. Deferred(d)' = Deferred(d) /\ Deferring(d)' \subseteq Deferring(d)
      BY <1>1 DEF Deferred, Deferring, SlotInv, Slots!TypeOK
    <2> QED  BY <2>1, FewerKept
  <1> QED  BY <1>3, <1>4, <1>5, <1>6 DEF SlotInv

LEMMA InsertRowKeeps ==
  ASSUME SlotInv, NEW p \in Approvals, Slots!InsertRow(p) PROVE SlotInv'
  <1> DEFINE added == [id |-> lastId + 1, time |-> chosen[p], status |-> "waiting",
                       alone |-> seen[p] = 0, moved |-> "no"]
  <1>1. /\ at[p] = "insert" /\ at' = [at EXCEPT ![p] = "idle"] /\ lastId < MaxRows
        /\ chosen' = [chosen EXCEPT ![p] = 0]
        /\ seen' = [q \in Approvals |-> IF q # p /\ at[q] # "idle" THEN 1 ELSE seen[q]]
        /\ rows' = rows \cup {added} /\ lastId' = lastId + 1
        /\ UNCHANGED <<now, target>>
    BY DEF Slots!InsertRow, Slots!Choose, Slots!Goto, Slots!Changed
  <1>2. PICK new : new = added
    OBVIOUS
  <1>3. /\ new.id = lastId + 1 /\ new.time = chosen[p] /\ new.moved = "no"
        /\ new.alone => seen[p] = 0
    BY <1>2
  <1>n. /\ lastId \in Nat /\ lastId + 1 \in 1..MaxRows /\ chosen[p] \in Nat
        /\ \A a \in rows : a.id \in Nat /\ a.id <= lastId /\ a.time \in Nat
    BY <1>1, SlotNumbers DEF SlotInv, Slots!TypeOK, RowShape
  <1>4. Slots!TypeOK'
    <2>1. new \in [id : 1..MaxRows, time : Nat, status : {"waiting", "published", "failed"},
                   alone : BOOLEAN, moved : {"no", "hour", "window"}]
      BY <1>2, <1>n
    <2>2. rows' \subseteq [id : 1..MaxRows, time : Nat, status : {"waiting", "published", "failed"},
                           alone : BOOLEAN, moved : {"no", "hour", "window"}]
      BY <1>1, <1>2, <2>1 DEF SlotInv, Slots!TypeOK
    <2>3. seen' \in [Approvals -> 0..1] /\ chosen' \in [Approvals -> Nat] /\ lastId' \in 0..MaxRows
      BY <1>1, <1>n, SlotNumbers DEF SlotInv, Slots!TypeOK
    <2> QED  BY <1>1, <2>2, <2>3 DEF SlotInv, Slots!TypeOK
  <1>5. RowShape'
    <2>1. (\A a, b \in rows : a.id = b.id => a = b)' /\ (\A a \in rows : a.id <= lastId)'
      BY <1>1, <1>2, <1>3, <1>n DEF SlotInv, RowShape
    <2>2. IsFiniteSet(rows)'
      BY <1>1, FS_AddElement DEF SlotInv, RowShape
    <2>3. (\E last \in Nat : \A a \in rows : a.time <= last)'
      <3>1. PICK last \in Nat : \A a \in rows : a.time <= last
        BY DEF SlotInv, RowShape
      <3>2. \A a \in rows' : a.time <= last + chosen[p]
        BY <1>1, <1>2, <1>3, <1>n, <3>1
      <3>3. last + chosen[p] \in Nat
        BY <1>n
      <3> QED  BY <3>2, <3>3
    <2> QED  BY <2>1, <2>2, <2>3 DEF RowShape
  <1>6. Ahead'
    BY <1>1 DEF SlotInv, Slots!TypeOK, Ahead
  <1>7. Spaced'
    <2>1. \A a \in rows : a.status = "waiting" /\ new.alone => new.time >= a.time + INTERVAL
      BY <1>1, <1>3 DEF SlotInv, Ahead
    <2>2. \A a \in rows : ~(new.id < a.id)
      BY <1>3, <1>n
    <2>3. ~(new.id < new.id)
      BY <1>3, <1>n
    <2> QED  BY <1>1, <1>2, <2>1, <2>2, <2>3 DEF SlotInv, Spaced
  <1>8. ASSUME NEW d PROVE Roomy(d)'
    <2>1. Deferred(d)' = Deferred(d) /\ Deferring(d)' \subseteq Deferring(d)
      BY <1>1, <1>2, <1>3 DEF Deferred, Deferring, SlotInv, Slots!TypeOK
    <2> QED  BY <2>1, FewerKept
  <1> QED  BY <1>4, <1>5, <1>6, <1>7, <1>8 DEF SlotInv

\* A day that has room has it for everybody who may be about to write.
LEMMA DeferKeeps ==
  ASSUME SlotInv, NEW p \in Approvals, Slots!Defer(p) PROVE SlotInv'
  <1>1. /\ at[p] = "idle" /\ seen' = [seen EXCEPT ![p] = 0] /\ UNCHANGED <<now, rows, lastId>>
        /\ target' \in [Approvals -> 0..MaxRows]
    BY SlotNumbers DEF Slots!Defer, Slots!Fresh, SlotInv, Slots!TypeOK, Slots!Waiting
  <1>2. PICK t \in Nat, w \in {"hour", "window"} :
          /\ at' = [at EXCEPT ![p] = w] /\ chosen' = [chosen EXCEPT ![p] = t]
          /\ w = "window" => Slots!HasRoom(Slots!Day(t))
    <2>1. CASE Slots!Fitting(now) = {}
      <3>1. now + HOUR \in Nat
        BY SlotNumbers DEF SlotInv, Slots!TypeOK
      <3> QED  BY <2>1, <3>1 DEF Slots!Defer, Slots!Choose, Slots!Goto
    <2>2. CASE Slots!Fitting(now) # {}
      BY <2>2, FittingHasRoom DEF Slots!Defer, Slots!Choose, Slots!Goto
    <2> QED  BY <2>1, <2>2
  <1>3. Slots!TypeOK'
    BY <1>1, <1>2 DEF SlotInv, Slots!TypeOK
  <1>4. RowShape' /\ Spaced'
    BY <1>1 DEF SlotInv, RowShape, Spaced
  <1>5. Ahead'
    BY <1>1, <1>2 DEF SlotInv, Ahead, Slots!TypeOK
  <1>6. ASSUME NEW d PROVE Roomy(d)'
    <2>1. Deferred(d)' = Deferred(d)
      BY <1>1 DEF Deferred
    <2>2. CASE ~(w = "window" /\ Slots!Day(t) = d)
      <3>1. Deferring(d)' \subseteq Deferring(d)
        BY <1>1, <1>2, <2>2 DEF Deferring, SlotInv, Slots!TypeOK
      <3> QED  BY <2>1, <3>1, FewerKept
    <2>3. CASE w = "window" /\ Slots!Day(t) = d
      <3> DEFINE ofDay == {row \in rows : Slots!Day(row.time) = d /\ row.status \in {"waiting", "published"}}
      <3>1. Cardinality(ofDay) < DAILY_LIMIT
        BY <1>2, <2>3, SlotsCardinality DEF Slots!HasRoom
      <3>2. IsFiniteSet(ofDay) /\ Cardinality(ofDay) \in Nat
        <4>1. ofDay \in SUBSET rows /\ IsFiniteSet(rows)
          BY DEF SlotInv, RowShape
        <4> HIDE DEF ofDay
        <4> QED  BY <4>1, FS_Subset, FS_CardinalityType
      <3>3. Deferred(d) \in SUBSET ofDay
        BY DEF Deferred
      <3> HIDE DEF ofDay
      <3>4. Cardinality(Deferred(d)) <= Cardinality(ofDay)
        BY <3>2, <3>3, FS_Subset
      <3>5. PICK I : I = Deferring(d)'
        OBVIOUS
      <3>6. I \in SUBSET Approvals
        BY <3>5 DEF Deferring
      <3>7. Cardinality(I) \in Nat /\ Cardinality(I) <= Cardinality(Approvals)
        BY <3>6, ApprovalsAssumption, FS_Subset, FS_CardinalityType
      <3>8. Cardinality(Deferred(d)) + Cardinality(I) <= DAILY_LIMIT + Cardinality(Approvals) - 1
        BY <3>1, <3>2, <3>4, <3>7, CountsOfDay, SlotNumbers
      <3> QED  BY <2>1, <3>5, <3>8 DEF Roomy
    <2> QED  BY <2>2, <2>3
  <1> QED  BY <1>3, <1>4, <1>5, <1>6 DEF SlotInv

\* The row leaves its old day, and comes to the new one as its process leaves those
\* that are about to write there.
LEMMA WriteDeferredKeeps ==
  ASSUME SlotInv, NEW p \in Approvals, Slots!WriteDeferred(p) PROVE SlotInv'
  <1> DEFINE New(row) == IF row.id = target[p] THEN [row EXCEPT !.time = chosen[p], !.moved = at[p]]
                                              ELSE row
  <1>1. /\ at[p] \in {"hour", "window"} /\ at' = [at EXCEPT ![p] = "idle"]
        /\ rows' = {New(row) : row \in rows} /\ chosen' = [chosen EXCEPT ![p] = 0]
        /\ target' = [target EXCEPT ![p] = 0]
        /\ seen' = [q \in Approvals |-> IF q # p /\ at[q] # "idle" THEN 1 ELSE seen[q]]
        /\ UNCHANGED <<now, lastId>>
    BY DEF Slots!WriteDeferred, Slots!Choose, Slots!Goto, Slots!Changed
  <1>2. \A row \in rows : New(row) = IF row.id = target[p] THEN New(row) ELSE row
    OBVIOUS
  <1>a. /\ at' = [at EXCEPT ![p] = "idle"] /\ chosen' = [chosen EXCEPT ![p] = 0]
        /\ target' = [target EXCEPT ![p] = 0]
        /\ seen' = [q \in Approvals |-> IF q # p /\ at[q] # "idle" THEN 1 ELSE seen[q]]
    BY <1>1
  <1>3. Ahead'
    <2> SUFFICES ASSUME NEW q \in Approvals, at'[q] = "insert", seen'[q] = 0 PROVE FALSE
      BY DEF Ahead
    <2> QED  BY <1>a DEF SlotInv, Slots!TypeOK
  <1>4. \A d : Deferring(d)' \subseteq Deferring(d) \ {p}
    BY <1>1 DEF Deferring, SlotInv, Slots!TypeOK
  <1>5. at' \in [Approvals -> {"idle", "insert", "hour", "window"}] /\ chosen' \in [Approvals -> Nat]
        /\ target' \in [Approvals -> 0..MaxRows] /\ seen' \in [Approvals -> 0..1]
    <2>1. target' \in [Approvals -> 0..MaxRows] /\ chosen' \in [Approvals -> Nat]
      <3>1. 0 \in 0..MaxRows
        BY SlotNumbers
      <3> QED  BY <1>a, <3>1 DEF SlotInv, Slots!TypeOK
    <2>2. at' \in [Approvals -> {"idle", "insert", "hour", "window"}]
      BY <1>a DEF SlotInv, Slots!TypeOK
    <2>3. seen' \in [Approvals -> 0..1]
      BY <1>a DEF SlotInv, Slots!TypeOK
    <2> QED  BY <2>1, <2>2, <2>3
  <1>6. CASE \A row \in rows : row.id # target[p]
    <2>1. rows' = rows
      BY <1>1, <1>6
    <2>2. Slots!TypeOK' /\ RowShape' /\ Spaced'
      BY <1>1, <1>5, <2>1 DEF SlotInv, Slots!TypeOK, RowShape, Spaced
    <2>3. ASSUME NEW d PROVE Roomy(d)'
      <3>1. Deferred(d)' = Deferred(d) /\ Deferring(d)' \subseteq Deferring(d)
        BY <1>4, <2>1 DEF Deferred
      <3> QED  BY <3>1, FewerKept
    <2> QED  BY <1>3, <2>2, <2>3 DEF SlotInv
  <1>7. CASE \E row \in rows : row.id = target[p]
    <2>1. PICK old \in rows : old.id = target[p]
      BY <1>7
    <2>2. PICK new : new = [old EXCEPT !.time = chosen[p], !.moved = at[p]]
      OBVIOUS
    <2>3. /\ old \in [id : 1..MaxRows, time : Nat, status : {"waiting", "published", "failed"},
                      alone : BOOLEAN, moved : {"no", "hour", "window"}]
          /\ chosen[p] \in Nat
      BY DEF SlotInv, Slots!TypeOK
    <2>4. /\ new \in [id : 1..MaxRows, time : Nat, status : {"waiting", "published", "failed"},
                      alone : BOOLEAN, moved : {"no", "hour", "window"}]
          /\ new.id = old.id /\ new.time = chosen[p] /\ new.moved = at[p] /\ new.moved # "no"
      BY <1>1, <2>2, <2>3
    <2>5. rows' = (rows \ {old}) \cup {new}
      <3>1. \A row \in rows : row # old => New(row) = row
        BY <2>1 DEF SlotInv, RowShape
      <3>2. New(old) = new
        BY <2>1, <2>2
      <3> HIDE DEF New
      <3> QED  BY <1>1, <2>1, <3>1, <3>2
    <2>6. Slots!TypeOK'
      BY <1>1, <1>5, <2>4, <2>5 DEF SlotInv, Slots!TypeOK
    <2>7. RowShape'
      BY <1>1, <2>1, <2>3, <2>4, <2>5, RowReplaced
    <2>8. Spaced'
      BY <2>4, <2>5 DEF SlotInv, Spaced
    <2>9. ASSUME NEW d PROVE Roomy(d)'
      <3>1. CASE ~(at[p] = "window" /\ Slots!Day(chosen[p]) = d)
        <4>1. Deferred(d)' \subseteq Deferred(d)
          BY <2>4, <2>5, <3>1 DEF Deferred
        <4> QED  BY <1>4, <4>1, FewerKept
      <3>2. CASE at[p] = "window" /\ Slots!Day(chosen[p]) = d
        <4>1. PICK A, I : A = Deferred(d)' /\ I = Deferring(d)'
          OBVIOUS
        <4>2. A \in SUBSET (Deferred(d) \cup {new}) /\ I \in SUBSET (Deferring(d) \ {p})
          BY <1>4, <2>5, <4>1 DEF Deferred
        <4>3. p \in Deferring(d)
          BY <3>2 DEF Deferring
        <4>4. /\ IsFiniteSet(Deferred(d) \cup {new})
              /\ Cardinality(Deferred(d) \cup {new}) <= Cardinality(Deferred(d)) + 1
              /\ IsFiniteSet(Deferring(d) \ {p})
              /\ Cardinality(Deferring(d) \ {p}) = Cardinality(Deferring(d)) - 1
          <5>1. /\ IsFiniteSet(Deferred(d)) /\ Cardinality(Deferred(d)) \in Nat
                /\ IsFiniteSet(Deferring(d)) /\ Cardinality(Deferring(d)) \in Nat
            BY CountsOfDay
          <5>2. /\ IsFiniteSet(Deferring(d) \ {p})
                /\ Cardinality(Deferring(d) \ {p}) = Cardinality(Deferring(d)) - 1
            BY <4>3, <5>1, FS_RemoveElement
          <5>3. /\ IsFiniteSet(Deferred(d) \cup {new})
                /\ \/ Cardinality(Deferred(d) \cup {new}) = Cardinality(Deferred(d))
                   \/ Cardinality(Deferred(d) \cup {new}) = Cardinality(Deferred(d)) + 1
            BY <5>1, FS_AddElement
          <5> QED  BY <5>1, <5>2, <5>3
        <4>5. /\ Cardinality(Deferred(d) \cup {new}) \in Nat /\ Cardinality(Deferring(d) \ {p}) \in Nat
              /\ Cardinality(A) \in Nat /\ Cardinality(A) <= Cardinality(Deferred(d) \cup {new})
              /\ Cardinality(I) \in Nat /\ Cardinality(I) <= Cardinality(Deferring(d) \ {p})
          BY <4>2, <4>4, FS_Subset, FS_CardinalityType
        <4>6. Cardinality(Deferred(d)) + Cardinality(Deferring(d)) <= DAILY_LIMIT + Cardinality(Approvals) - 1
          BY DEF SlotInv, Roomy
        <4>7. Cardinality(A) + Cardinality(I) <= DAILY_LIMIT + Cardinality(Approvals) - 1
          BY <4>4, <4>5, <4>6, CountsOfDay, SlotNumbers
        <4> QED  BY <4>1, <4>7 DEF Roomy
      <3> QED  BY <3>1, <3>2
    <2> QED  BY <1>3, <2>6, <2>7, <2>8, <2>9 DEF SlotInv
  <1> QED  BY <1>6, <1>7

LEMMA FailKeeps ==
  ASSUME SlotInv, NEW p \in Approvals, Slots!Fail(p) PROVE SlotInv'
  <1>1. /\ at' = [at EXCEPT ![p] = "idle"] /\ chosen' = [chosen EXCEPT ![p] = 0]
        /\ target' = [target EXCEPT ![p] = 0] /\ seen' = [seen EXCEPT ![p] = 0]
        /\ UNCHANGED <<now, rows, lastId>>
    BY DEF Slots!Fail, Slots!Choose, Slots!Goto, Slots!Fresh
  <1>2. Slots!TypeOK'
    BY <1>1, SlotNumbers DEF SlotInv, Slots!TypeOK
  <1>3. RowShape' /\ Spaced'
    BY <1>1 DEF SlotInv, RowShape, Spaced
  <1>4. Ahead'
    BY <1>1 DEF SlotInv, Ahead, Slots!TypeOK
  <1>5. ASSUME NEW d PROVE Roomy(d)'
    <2>1. Deferred(d)' = Deferred(d) /\ Deferring(d)' \subseteq Deferring(d)
      BY <1>1 DEF Deferred, Deferring, SlotInv, Slots!TypeOK
    <2> QED  BY <2>1, FewerKept
  <1> QED  BY <1>2, <1>3, <1>4, <1>5 DEF SlotInv

\* A row that is published is still counted, one that has failed no more.
LEMMA MarkRowKeeps == SlotInv /\ Slots!MarkRow => SlotInv'
  <1> SUFFICES ASSUME SlotInv, Slots!MarkRow PROVE SlotInv'
    OBVIOUS
  <1>1. PICK old \in rows, s \in {"published", "failed"} :
          old.status = "waiting" /\ rows' = (rows \ {old}) \cup {[old EXCEPT !.status = s]}
    BY DEF Slots!MarkRow, Slots!Waiting
  <1>2. PICK new : new = [old EXCEPT !.status = s]
    OBVIOUS
  <1>3. /\ seen' = [q \in Approvals |-> IF at[q] # "idle" THEN 1 ELSE seen[q]]
        /\ UNCHANGED <<now, lastId, at, chosen, target>>
    BY DEF Slots!MarkRow
  <1>4. old \in [id : 1..MaxRows, time : Nat, status : {"waiting", "published", "failed"},
                 alone : BOOLEAN, moved : {"no", "hour", "window"}]
    BY DEF SlotInv, Slots!TypeOK
  <1>5. /\ new \in [id : 1..MaxRows, time : Nat, status : {"waiting", "published", "failed"},
                    alone : BOOLEAN, moved : {"no", "hour", "window"}]
        /\ new.id = old.id /\ new.time = old.time /\ new.moved = old.moved /\ new.status = s
        /\ rows' = (rows \ {old}) \cup {new}
    BY <1>1, <1>2, <1>4
  <1>6. Slots!TypeOK'
    BY <1>3, <1>5 DEF SlotInv, Slots!TypeOK
  <1>7. RowShape'
    BY <1>1, <1>3, <1>4, <1>5, RowReplaced
  <1>8. Spaced' /\ Ahead'
    BY <1>3, <1>5 DEF SlotInv, Spaced, Ahead, Slots!TypeOK
  <1>9. ASSUME NEW d PROVE Roomy(d)'
    <2>1. Deferring(d)' = Deferring(d)
      BY <1>3 DEF Deferring
    <2>2. CASE old \notin Deferred(d)
      <3>1. Deferred(d)' \subseteq Deferred(d)
        BY <1>1, <1>5, <2>2 DEF Deferred
      <3> QED  BY <2>1, <3>1, FewerKept
    <2>3. CASE old \in Deferred(d)
      <3>1. PICK A : A = Deferred(d)'
        OBVIOUS
      <3>2. A \in SUBSET ((Deferred(d) \ {old}) \cup {new})
        BY <1>5, <3>1 DEF Deferred
      <3>3. /\ IsFiniteSet(Deferred(d) \ {old})
            /\ Cardinality(Deferred(d) \ {old}) = Cardinality(Deferred(d)) - 1
        BY <2>3, CountsOfDay, FS_RemoveElement
      <3>4. /\ IsFiniteSet((Deferred(d) \ {old}) \cup {new})
            /\ Cardinality((Deferred(d) \ {old}) \cup {new}) <= Cardinality(Deferred(d))
        <4>1. Cardinality(Deferred(d) \ {old}) \in Nat
          BY <3>3, FS_CardinalityType
        <4>2. /\ IsFiniteSet((Deferred(d) \ {old}) \cup {new})
              /\ \/ Cardinality((Deferred(d) \ {old}) \cup {new}) = Cardinality(Deferred(d) \ {old})
                 \/ Cardinality((Deferred(d) \ {old}) \cup {new}) = Cardinality(Deferred(d) \ {old}) + 1
          BY <3>3, FS_AddElement
        <4> QED  BY <3>3, <4>1, <4>2, CountsOfDay
      <3>5. Cardinality(A) \in Nat /\ Cardinality(A) <= Cardinality(Deferred(d))
        <4>1. /\ Cardinality(A) \in Nat /\ Cardinality((Deferred(d) \ {old}) \cup {new}) \in Nat
              /\ Cardinality(A) <= Cardinality((Deferred(d) \ {old}) \cup {new})
          BY <3>2, <3>4, FS_Subset, FS_CardinalityType
        <4> QED  BY <3>4, <4>1, CountsOfDay
      <3>6. Cardinality(Deferred(d)) + Cardinality(Deferring(d)) <= DAILY_LIMIT + Cardinality(Approvals) - 1
        BY DEF SlotInv, Roomy
      <3>7. Cardinality(A) + Cardinality(Deferring(d)) <= DAILY_LIMIT + Cardinality(Approvals) - 1
        BY <3>5, <3>6, CountsOfDay, SlotNumbers
      <3> QED  BY <2>1, <3>1, <3>7 DEF Roomy
    <2> QED  BY <2>2, <2>3
  <1> QED  BY <1>6, <1>7, <1>8, <1>9 DEF SlotInv

LEMMA NextSlots == SlotInv /\ [Slots!Next]_Slots!vars => SlotInv'
  <1> SUFFICES ASSUME SlotInv, [Slots!Next]_Slots!vars PROVE SlotInv'
    OBVIOUS
  <1>1. CASE Slots!Tick \/ UNCHANGED Slots!vars
    <2>1. UNCHANGED <<rows, lastId, at, chosen, target, seen>> /\ now' \in 0..MaxTime
      BY <1>1, SlotNumbers DEF Slots!Tick, Slots!vars, SlotInv, Slots!TypeOK
    <2>2. Slots!TypeOK' /\ RowShape' /\ Ahead' /\ Spaced'
      BY <2>1 DEF SlotInv, Slots!TypeOK, RowShape, Ahead, Spaced
    <2>3. ASSUME NEW d PROVE Roomy(d)'
      <3>1. Deferred(d)' = Deferred(d) /\ Deferring(d)' = Deferring(d)
        BY <2>1 DEF Deferred, Deferring
      <3> QED  BY <3>1, FewerKept
    <2> QED  BY <2>2, <2>3 DEF SlotInv
  <1> QED  BY <1>1, ReadLatestKeeps, InsertRowKeeps, DeferKeeps, WriteDeferredKeeps, FailKeeps,
              MarkRowKeeps DEF Slots!Next

\* A video that was queued while nothing else happened to the table waits its interval
\* after every one before it, whatever is deferred, marked or fails meanwhile.
THEOREM SpacedAlways == Slots!Spec => []SpacedUnlessRaced
  <1>1. SlotInv => Slots!SpacedUnlessRaced
    BY DEF SlotInv, Spaced, Slots!SpacedUnlessRaced, Slots!Waiting
  <1> QED  BY <1>1, InitSlots, NextSlots, PTL DEF Slots!Spec, SpacedUnlessRaced

\* The daily limit may be passed by the processes that counted at a time, and by no more.
THEOREM DeferralsAlwaysBounded == Slots!Spec => []DeferralsBounded
  <1>1. SlotInv => Slots!DeferralsBounded
    <2> SUFFICES ASSUME SlotInv, NEW d
                 PROVE  Cardinality(Deferred(d)) <= DAILY_LIMIT + Cardinality(Approvals) - 1
      BY SlotsCardinality DEF Slots!DeferralsBounded, Deferred
    <2>1. Cardinality(Deferred(d)) + Cardinality(Deferring(d)) <= DAILY_LIMIT + Cardinality(Approvals) - 1
      BY DEF SlotInv, Roomy
    <2> QED  BY <2>1, CountsOfDay, SlotNumbers
  <1> QED  BY <1>1, InitSlots, NextSlots, PTL DEF Slots!Spec, DeferralsBounded

-----------------------------------------------------------------------------
(* 5. The types of GracefulShutdown, and then those of all five in MCSpec:    *)
(* each component keeps its invariant in its own steps and in the others'.    *)

LEMMA InitShutdown == Shutdown!Init => Shutdown!TypeOK
  <1> SUFFICES ASSUME Shutdown!Init PROVE Shutdown!TypeOK
    OBVIOUS
  <1>1. checks \in 0..CHECKS
    BY ShutdownAssumption DEF Shutdown!Init
  <1>2. callbacks \in Nat /\ called \in 0..callbacks /\ active \subseteq Operations
    BY DEF Shutdown!Init
  <1>3. alive \in BOOLEAN /\ requested \in BOOLEAN
    BY DEF Shutdown!Init
  <1> QED  BY <1>1, <1>2, <1>3 DEF Shutdown!Init, Shutdown!TypeOK

LEMMA NextShutdown == Shutdown!TypeOK /\ [Shutdown!Next]_Shutdown!vars => Shutdown!TypeOK'
  <1> SUFFICES ASSUME Shutdown!TypeOK, [Shutdown!Next]_Shutdown!vars PROVE Shutdown!TypeOK'
    OBVIOUS
  <1> USE ShutdownAssumption DEF Shutdown!TypeOK
  <1>1. ASSUME NEW o \in Operations, Shutdown!RegisterOperation(o) \/ Shutdown!CompleteOperation(o)
        PROVE  Shutdown!TypeOK'
    BY <1>1 DEF Shutdown!RegisterOperation, Shutdown!CompleteOperation
  <1>2. CASE Shutdown!RegisterCallback
    BY <1>2 DEF Shutdown!RegisterCallback
  <1>3. CASE Shutdown!HandleSignal
    BY <1>3 DEF Shutdown!HandleSignal
  <1>4. CASE Shutdown!WaitForOperations
    BY <1>4 DEF Shutdown!WaitForOperations
  <1>5. CASE Shutdown!ExecuteCallback
    BY <1>5 DEF Shutdown!ExecuteCallback
  <1>6. CASE \/ Shutdown!CallbacksDone \/ Shutdown!CleanupDatabase \/ Shutdown!CleanupTempFiles
             \/ Shutdown!MainReturns
    BY <1>6 DEF Shutdown!CallbacksDone, Shutdown!CleanupDatabase, Shutdown!CleanupTempFiles,
                Shutdown!MainReturns
  <1>7. CASE UNCHANGED Shutdown!vars
    BY <1>7 DEF Shutdown!vars
  <1> QED  BY <1>1, <1>2, <1>3, <1>4, <1>5, <1>6, <1>7 DEF Shutdown!Next, Shutdown!ExecuteShutdown

ServicesInv == TrendInv /\ TextInv /\ SlotInv /\ CommentInv /\ Shutdown!TypeOK

\* Whatever component a behaviour is one of, all variables keep their types.
THEOREM ServicesTypes == MCSpec => []TypesOK
  <1>1. MCInit => ServicesInv
    BY InitTrends, InitText, InitSlots, InitComments, InitShutdown DEF MCInit, ServicesInv
  <1>2. ServicesInv /\ [MCNext]_<<which, vars, textVars, slotVars, commentVars, shutdownVars>> => ServicesInv'
    <2> SUFFICES ASSUME ServicesInv,
                        [MCNext]_<<which, vars, textVars, slotVars, commentVars, shutdownVars>>
                 PROVE  ServicesInv'
      OBVIOUS
    <2>1. [Next]_vars
      BY DEF MCNext, TrendStep, TextStep, SlotStep, CommentStep, ShutdownStep
    <2>2. [Texts!Next]_Texts!vars
      BY DEF MCNext, TrendStep, TextStep, SlotStep, CommentStep, ShutdownStep,
             textVars, Texts!vars, Texts!script, Texts!routers, Texts!asked
    <2>3. [Slots!Next]_Slots!vars
      BY DEF MCNext, TrendStep, TextStep, SlotStep, CommentStep, ShutdownStep, slotVars, Slots!vars
    <2>4. [Comments!Next]_Comments!vars
      BY DEF MCNext, TrendStep, TextStep, SlotStep, CommentStep, ShutdownStep,
             commentVars, Comments!vars
    <2>5. [Shutdown!Next]_Shutdown!vars
      BY DEF MCNext, TrendStep, TextStep, SlotStep, CommentStep, ShutdownStep,
             shutdownVars, Shutdown!vars
    <2> QED  BY <2>1, <2>2, <2>3, <2>4, <2>5, NextTrends, NextText, NextSlots, NextComments, NextShutdown
             DEF ServicesInv
  <1>3. ServicesInv => TypesOK
    BY DEF ServicesInv, TrendInv, TextInv, SlotInv, CommentInv, TypesOK
  <1> QED  BY <1>1, <1>2, <1>3, PTL DEF MCSpec
=============================================================================
