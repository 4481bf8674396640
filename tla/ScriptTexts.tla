------------------------------ MODULE ScriptTexts ------------------------------
(***************************************************************************)
(* The texts of a script and the language models that write them            *)
(* (modules/ai_brain): ScriptWriter.generate_script asks HookEngine for a   *)
(* hook and its own LLMRouter for the body, ContentClassifier and           *)
(* HashtagGenerator are asked about what was stored.  Each of the four      *)
(* classes makes an LLMRouter of its own, with its own idea of which        *)
(* provider is healthy and of what was used today.                          *)
(*                                                                          *)
(* A text is what its readers tell apart: written by a model and of use,    *)
(* "poor" (too short, with forbidden words, not to be parsed), one of the   *)
(* router's fixed sentences, its fallback script, or a template of the      *)
(* asking class.  check_health, which alone would make a router try Ollama  *)
(* again after a failure, is called by nobody and is no step here.          *)
(***************************************************************************)
EXTENDS Integers

CONSTANTS
    MARGIN,      \* 80 % of the requests Groq allows a day
    ATTEMPTS,    \* MAX_GENERATION_ATTEMPTS
    TEMPLATES,   \* config/cached_responses is there and can be read
    GROQ_KEY,    \* a key for Groq is configured
    MaxUnread    \* bound: requests of a day that Groq fails without refusing them

Users == {"hook", "body", "pillar", "tags"}

VARIABLES
    stage,     \* whose text is due, or "idle", or "store"
    call,      \* where the router of that class is
    tries,     \* attempts at the script that failed
    hook,      \* what the hook of the current attempt is
    body,      \* what its body is
    ollama,    \* LLMRouter.ollama_healthy, of each router
    groq,      \* LLMRouter.groq_healthy
    requests,  \* LLMRouter.groq_usage_today
    dated,     \* LLMRouter.groq_last_reset is today
    calls,     \* history: requests that were made of Groq today
    unread,    \* history: those that failed today, and were not refused
    stored     \* history: what the hook and the body of the last script are

routers == <<ollama, groq, requests, dated>>
script == <<tries, hook, body, stored>>
asked == <<calls, unread>>
vars == <<stage, call, script, routers, asked>>

Init ==
    /\ stage = "idle"
    /\ call = "none"
    /\ tries = 0
    /\ hook = "none"
    /\ body = "none"
    /\ ollama = [u \in Users |-> TRUE]
    /\ groq = [u \in Users |-> GROQ_KEY]
    /\ requests = [u \in Users |-> 0]
    /\ dated = [u \in Users |-> TRUE]
    /\ calls = 0
    /\ unread = 0
    /\ stored = <<"none", "none">>

-----------------------------------------------------------------------------
(* LLMRouter.generate, by the router of the class whose text is due.        *)

\* The counter as _groq_within_limits sees it: it is reset first, but only when
\* Groq is healthy.
Counted(u) == IF dated[u] THEN requests[u] ELSE 0

MaybeResetDailyCounters(u) ==
    IF groq[u]
       THEN /\ requests' = [requests EXCEPT ![u] = Counted(u)]
            /\ dated' = [dated EXCEPT ![u] = TRUE]
       ELSE UNCHANGED <<requests, dated>>

\* _groq_within_limits: the requests of the day, and whether the tokens would do.
GroqWithinLimits(u, affordable) == groq[u] /\ affordable /\ Counted(u) < MARGIN

\* _select_provider; no task of these four is one of the COMPLEX_TASKS.
SelectProvider ==
    /\ stage \in Users
    /\ call = "none"
    /\ \/ /\ ollama[stage]
          /\ call' = "ollama"
          /\ UNCHANGED routers
       \/ /\ ~ollama[stage]
          /\ \E affordable \in BOOLEAN :
                call' = IF GroqWithinLimits(stage, affordable) THEN "groq" ELSE "cached"
          /\ MaybeResetDailyCounters(stage)
          /\ UNCHANGED <<ollama, groq>>
    /\ UNCHANGED <<stage, script, asked>>

\* _call_ollama.  A failure turns to Groq, or to the templates.
CallOllama ==
    /\ call = "ollama"
    /\ \/ /\ call' \in {"written", "poor"}
          /\ ollama' = [ollama EXCEPT ![stage] = TRUE]
          /\ UNCHANGED <<requests, dated>>
       \/ /\ \E affordable \in BOOLEAN :
                call' = IF GroqWithinLimits(stage, affordable) THEN "groq" ELSE "cached"
          /\ ollama' = [ollama EXCEPT ![stage] = FALSE]
          /\ MaybeResetDailyCounters(stage)
    /\ UNCHANGED <<stage, script, groq, asked>>

\* _call_groq: the request is made, with thirty seconds for its answer.
AskGroq ==
    /\ call = "groq"
    /\ call' = "asked"
    /\ calls' = calls + 1
    /\ UNCHANGED <<stage, script, routers, unread>>

\* The answer says what it used, and is counted, even if there is no text in it.
GroqAnswers ==
    /\ call = "asked"
    /\ call' \in {"written", "poor", "cached"}
    /\ requests' = [requests EXCEPT ![stage] = @ + 1]
    /\ groq' = [groq EXCEPT ![stage] = TRUE]
    /\ UNCHANGED <<stage, script, ollama, dated, asked>>

\* Faulty variant: a refusal is a failure like another.
GroqRefusesAgain ==
    /\ call = "asked"
    /\ call' = "cached"
    /\ UNCHANGED <<stage, script, routers, asked>>

\* "Too many requests" makes it unhealthy, and this router asks it no more.
GroqRefuses ==
    /\ call = "asked"
    /\ call' = "cached"
    /\ groq' = [groq EXCEPT ![stage] = FALSE]
    /\ UNCHANGED <<stage, script, ollama, requests, dated, asked>>

\* Any other error, an answer that is late or cannot be read: nothing is counted.
GroqFails ==
    /\ call = "asked"
    /\ unread < MaxUnread
    /\ call' = "cached"
    /\ unread' = unread + 1
    /\ UNCHANGED <<stage, script, routers, calls>>

\* Faulty variant: the brand's own templates are found.
CachedTextOfBrand(u) == IF u = "body" THEN "fallback" ELSE "sentence"

\* _get_cached_response and _generate_minimal_fallback.  None of the callers names
\* its brand, without which no template is chosen: the answer is a sentence of
\* three words.  Only without the file is there a fallback of script length.
CachedText(u) == IF u = "body" /\ ~TEMPLATES THEN "fallback" ELSE "sentence"

GetCachedResponse ==
    /\ call = "cached"
    /\ call' = CachedText(stage)
    /\ UNCHANGED <<stage, script, routers, asked>>

Answers == {"written", "poor", "sentence", "fallback"}

-----------------------------------------------------------------------------
(* What the classes make of the answer.                                     *)

\* generate_script.
GenerateScript ==
    /\ stage = "idle"
    /\ stage' = "hook"
    /\ tries' = 0
    /\ UNCHANGED <<call, hook, body, stored, routers, asked>>

\* _generate_hook_text: what is too short or has forbidden words becomes a template;
\* the router's sentence is long enough to be taken for a hook.
Hooked(answer) == IF answer = "poor" THEN "template" ELSE answer

\* generate_hook, of a type chosen by weight.
GenerateHook ==
    /\ stage = "hook"
    /\ call \in Answers
    /\ hook' = Hooked(call)
    /\ stage' = "body"
    /\ call' = "none"
    /\ UNCHANGED <<tries, body, stored, routers, asked>>

\* The next attempt, with another hook, or no script.
NextAttempt ==
    /\ tries' = tries + 1
    /\ stage' = IF tries + 1 < ATTEMPTS THEN "hook" ELSE "idle"

\* _generate_body: twenty words at least.
GenerateBody ==
    /\ stage = "body"
    /\ call \in Answers
    /\ call' = "none"
    /\ IF call \in {"written", "fallback"}
          THEN /\ body' = call
               /\ stage' = "store"
               /\ UNCHANGED tries
          ELSE /\ NextAttempt
               /\ UNCHANGED body
    /\ UNCHANGED <<hook, stored, routers, asked>>

\* The call to action, the spelling and the pillar's keywords change nothing here;
\* check_script_uniqueness never refuses: its arguments are swapped, a name being
\* too short to compare, and its answer is a dictionary, which is true.
StoreScript ==
    /\ stage = "store"
    /\ \/ /\ stored' = <<hook, body>>
          /\ stage' = "pillar"
          /\ UNCHANGED tries
       \/ /\ NextAttempt
          /\ UNCHANGED stored
    /\ UNCHANGED <<call, hook, body, routers, asked>>

\* classify_script: by the model's words, or by keywords when they are not JSON.
ClassifyScript ==
    /\ stage = "pillar"
    /\ call \in Answers
    /\ stage' = "tags"
    /\ call' = "none"
    /\ UNCHANGED <<script, routers, asked>>

\* generate_hashtags, once for every platform.
GenerateHashtags ==
    /\ stage = "tags"
    /\ call \in Answers
    /\ stage' \in {"tags", "idle"}
    /\ call' = "none"
    /\ UNCHANGED <<script, routers, asked>>

\* Midnight, in the middle of whatever is being done.
NewDay ==
    /\ dated' = [u \in Users |-> FALSE]
    /\ calls' = 0
    /\ unread' = 0
    /\ UNCHANGED <<stage, call, script, ollama, groq, requests>>

CallGroq == AskGroq \/ GroqAnswers \/ GroqRefuses \/ GroqFails

Router == SelectProvider \/ CallOllama \/ CallGroq \/ GetCachedResponse

Writer ==
    \/ GenerateScript \/ GenerateHook \/ GenerateBody \/ StoreScript
    \/ ClassifyScript \/ GenerateHashtags

Next == Router \/ Writer \/ NewDay

Spec == Init /\ [][Next]_vars

-----------------------------------------------------------------------------
Kinds == {"none", "written", "template", "sentence", "fallback"}

\* The variables keep their types.
TypeOK ==
    /\ stage \in Users \cup {"idle", "store"}
    /\ call \in Answers \cup {"none", "ollama", "groq", "asked", "cached"}
    /\ tries \in 0..ATTEMPTS
    /\ hook \in Kinds
    /\ body \in Kinds
    /\ ollama \in [Users -> BOOLEAN]
    /\ groq \in [Users -> BOOLEAN]
    /\ requests \in [Users -> Nat]
    /\ dated \in [Users -> BOOLEAN]
    /\ calls \in Nat
    /\ unread \in Nat
    /\ stored \in Kinds \X Kinds

\* What one process asks of Groq in a day: the margin once for every router, since
\* none knows of the others; one more, asked after midnight on yesterday's count; and
\* as many as fail, of which nothing keeps a count.  A refusal costs nothing: the
\* router that had it asks no more.
GroqCallsBounded == calls <= 4 * MARGIN + 1 + unread

\* With the templates in place, script generation pauses when no model can be had:
\* a script that is stored has a body some model wrote.
BodyIsWritten == TEMPLATES => stored[2] \in {"none", "written"}
=============================================================================
