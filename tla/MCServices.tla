------------------------------ MODULE MCServices ------------------------------
(***************************************************************************)
(* Five components that share nothing, for TLC in one run: a behaviour is   *)
(* one of TrendSources, ScriptTexts, PublishSlots, FirstComments or         *)
(* GracefulShutdown, chosen at its beginning.                               *)
(***************************************************************************)
EXTENDS TrendSources, FiniteSets

CONSTANTS
    MARGIN, TRIES, TEMPLATES, GROQ_KEY, MaxUnread,
    Approvals, HALF, HOUR, INTERVAL, DAY, Windows, BestDays, LOOKAHEAD, DAILY_LIMIT,
    MaxTime, MaxRows,
    Posts, MaxComments,
    Operations, CHECKS, MaxCallbacks

ASSUME TextsAssumption ==
    /\ MARGIN \in Nat \ {0} /\ TRIES \in Nat \ {0} /\ MaxUnread \in Nat
    /\ TEMPLATES \in BOOLEAN /\ GROQ_KEY \in BOOLEAN

ASSUME SlotsAssumption ==
    /\ {HALF, HOUR, INTERVAL, DAY, LOOKAHEAD, DAILY_LIMIT} \subseteq Nat \ {0}
    /\ {MaxTime, MaxRows} \subseteq Nat
    /\ Windows \subseteq 0..DAY - 1 /\ BestDays \subseteq Nat

ASSUME ApprovalsAssumption == IsFiniteSet(Approvals)

ASSUME CommentsAssumption == MaxComments \in Nat

ASSUME ShutdownAssumption == CHECKS \in Nat /\ MaxCallbacks \in Nat

VARIABLES
    stage, call, tries, hook, body, ollama, groq, requests, dated, groqCalls, unread, stored,
    now, rows, lastId, at, chosen, target, seen,
    comments, lastComment, spot, cur, todo, live, doubt,
    alive, requested, active, callbacks, called, checks, thread,
    which    \* the component a behaviour is one of

Texts == INSTANCE ScriptTexts WITH ATTEMPTS <- TRIES, calls <- groqCalls
Slots == INSTANCE PublishSlots WITH Procs <- Approvals, pc <- at
Comments == INSTANCE FirstComments
    WITH Procs <- Approvals, rows <- comments, lastId <- lastComment, pc <- spot
Shutdown == INSTANCE GracefulShutdown

textVars == <<stage, call, tries, hook, body, ollama, groq, requests, dated, groqCalls, unread, stored>>
slotVars == <<now, rows, lastId, at, chosen, target, seen>>
commentVars == <<comments, lastComment, spot, cur, todo, live, doubt>>
shutdownVars == <<alive, requested, active, callbacks, called, checks, thread>>

MCInit ==
    /\ Init /\ Texts!Init /\ Slots!Init /\ Comments!Init /\ Shutdown!Init
    /\ which \in {"trends", "texts", "slots", "comments", "shutdown"}

TrendStep ==
    /\ which = "trends" /\ Next
    /\ UNCHANGED <<which, textVars, slotVars, commentVars, shutdownVars>>

TextStep ==
    /\ which = "texts" /\ Texts!Next
    /\ UNCHANGED <<which, vars, slotVars, commentVars, shutdownVars>>

SlotStep ==
    /\ which = "slots" /\ Slots!Next
    /\ UNCHANGED <<which, vars, textVars, commentVars, shutdownVars>>

CommentStep ==
    /\ which = "comments" /\ Comments!Next
    /\ UNCHANGED <<which, vars, textVars, slotVars, shutdownVars>>

ShutdownStep ==
    /\ which = "shutdown" /\ Shutdown!Next
    /\ UNCHANGED <<which, vars, textVars, slotVars, commentVars>>

MCNext == TrendStep \/ TextStep \/ SlotStep \/ CommentStep \/ ShutdownStep

\* The fairness of TrendSources and of GracefulShutdown.
MCSpec ==
    /\ MCInit /\ [][MCNext]_<<which, vars, textVars, slotVars, commentVars, shutdownVars>>
    /\ WF_vars(which = "trends" /\ ScanStep)
    /\ WF_shutdownVars(which = "shutdown" /\ Shutdown!ExecuteShutdown)

-----------------------------------------------------------------------------
\* The variables of all five keep their types.
TypesOK ==
    /\ TypeOK /\ Texts!TypeOK /\ Slots!TypeOK
    /\ Comments!TypeOK /\ Shutdown!TypeOK

\* What the routers of one process ask of Groq in a day stays within their margins.
GroqCallsBounded == Texts!GroqCallsBounded

\* A script that is stored has a body a model wrote.
BodyIsWritten == Texts!BodyIsWritten

\* Videos that were queued without a race are an interval apart.
SpacedUnlessRaced == Slots!SpacedUnlessRaced

\* Failures put no more posts into a day's windows than the limit and the race allow.
DeferralsBounded == Slots!DeferralsBounded

\* A post gets a second comment only after a lost outcome or a race.
CommentedOnce == Comments!CommentedOnce

\* A shutdown comes to its end, whatever the operations do.
ShutdownEnds == Shutdown!ShutdownEnds

None == [k \in KindNames |-> 0]

MCParts == [s \in SourceNames |->
    CASE s = "reddit" -> [None EXCEPT !.direct = 4, !.batch = 1, !.news = 1]
      [] s = "youtube" -> [None EXCEPT !.api = 2, !.batch = 1, !.news = 1]
      [] s = "google" -> [None EXCEPT !.batch = 2]
      [] s = "news" -> [None EXCEPT !.news = 2]
      [] OTHER -> [None EXCEPT !.batch = 1, !.news = 1]]
=============================================================================
