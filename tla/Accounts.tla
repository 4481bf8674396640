------------------------------- MODULE Accounts -------------------------------
(***************************************************************************)
(* AccountManager, TokenRefresher, AccountSetup and CredentialManager       *)
(* (account_manager/*.py, database/credential_manager.py) over one row of   *)
(* the accounts table; no statement looks at two.                           *)
(*                                                                          *)
(* A cron job and a daemon refresh tokens, publishers look accounts up, an  *)
(* operator registers, disables and enables them.  Any process may run any  *)
(* of these methods; between two of its statements, and while the platform  *)
(* answers, every other process may run.  Tokens are numbered in the order  *)
(* in which the platform issues them; 0 stands for no credentials.          *)
(***************************************************************************)
EXTENDS Naturals

CONSTANTS
    Procs,       \* processes that use the accounts
    MaxRetries,  \* max_retries of the refresh methods (3 in the code)
    MaxTokens    \* bound on the tokens the platform issues (TLC only)

ASSUME BoundAssumption == MaxRetries \in Nat /\ MaxTokens \in Nat

VARIABLES
    status,    \* column status, or "absent" as long as there is no row
    token,     \* the token in credentials_encrypted
    expires,   \* what token_expires_at says of now
    newest,    \* the last token the platform issued
    rotates,   \* the platform takes a refresh token only once, as TikTok does
    pc,        \* where each process is
    hand,      \* the token each process has read or was answered
    tries,     \* attempts of the refresh call that failed
    early,     \* history: who was under way when the status was last set aside
    lost       \* history: the newest token was dropped by a fault or a crossing write

row == <<status, token, expires>>
locals == <<pc, hand, tries>>
history == <<early, lost>>
vars == <<row, newest, rotates, locals, history>>

STATUS_VALUES ==
    {"pending_setup", "active", "token_expired", "suspended", "banned", "disabled",
     "rate_limited"}

\* delete_credentials writes a status that is none of these.
Statuses == STATUS_VALUES \cup {"absent", "inactive"}

\* refresh_token touches accounts in these, get_active_account only active ones.
Refreshable == {"active", "token_expired"}

\* Places from which a process goes on to write the status unasked.
Background == {"noticed", "ask", "store", "activate", "fail"}

\* Places where a process has a token that is not in the row yet.
Holding == {"store", "replace"}

UnderWay == {p \in Procs : pc[p] \in Background}

Holders == {p \in Procs : pc[p] \in Holding}

Init ==
    /\ status = "absent"
    /\ token = 0
    /\ expires = "unset"
    /\ newest = 0
    /\ rotates \in BOOLEAN
    /\ pc = [p \in Procs |-> "idle"]
    /\ hand = [p \in Procs |-> 0]
    /\ tries = [p \in Procs |-> 0]
    /\ early = {}
    /\ lost = FALSE

-----------------------------------------------------------------------------
Goto(p, label) == pc' = [pc EXCEPT ![p] = label]

\* A method returns; what it had in its locals is gone.
Return(p) ==
    /\ Goto(p, "idle")
    /\ hand' = [hand EXCEPT ![p] = 0]
    /\ tries' = [tries EXCEPT ![p] = 0]

\* UPDATE accounts SET status.  Whatever is neither active nor expired is a word
\* that the refreshing of tokens has to respect.
SetStatus(s) ==
    /\ status' = s
    /\ early' = IF s \in Refreshable THEN early ELSE UnderWay

\* A login at the platform gives a new token.
Login ==
    /\ newest < MaxTokens
    /\ newest' = newest + 1
    /\ lost' = (Holders # {})

\* create_account, also for initialize_all_accounts: without credentials.
CreateAccount(p) ==
    /\ pc[p] = "idle"
    /\ status = "absent"
    /\ SetStatus("pending_setup")
    /\ UNCHANGED <<token, expires, newest, rotates, locals, lost>>

\* register_account and create_account with credentials: the row is inserted in
\* one statement, or its credentials are updated and its status in the next.
Register(p) ==
    /\ pc[p] = "idle"
    /\ Login
    /\ token' = newest'
    /\ IF status = "absent"
       THEN /\ SetStatus("active")
            /\ UNCHANGED <<expires, pc>>
       ELSE /\ expires' \in {expires, "fresh"}
            /\ Goto(p, "registered")
            /\ UNCHANGED <<status, early>>
    /\ UNCHANGED <<rotates, hand, tries>>

SetRegistered(p) ==
    /\ pc[p] = "registered"
    /\ SetStatus("active")
    /\ Return(p)
    /\ UNCHANGED <<token, expires, newest, rotates, lost>>

\* save_credentials of the credential manager leaves the expiry as it was.
SaveCredentials(p) ==
    /\ pc[p] = "idle"
    /\ Login
    /\ token' = newest'
    /\ SetStatus("active")
    /\ UNCHANGED <<expires, rotates, locals>>

DeleteCredentials(p) ==
    /\ pc[p] = "idle"
    /\ status # "absent"
    /\ token' = 0
    /\ lost' = TRUE
    /\ SetStatus("inactive")
    /\ UNCHANGED <<expires, newest, rotates, locals>>

\* update_status and disable_account.
UpdateStatus(p) ==
    /\ pc[p] = "idle"
    /\ status # "absent"
    /\ \E s \in STATUS_VALUES : SetStatus(s)
    /\ UNCHANGED <<token, expires, newest, rotates, locals, lost>>

\* enable_account reads the credentials before it decides on the status.
EnableAccount(p) ==
    /\ pc[p] = "idle"
    /\ status # "absent"
    /\ hand' = [hand EXCEPT ![p] = token]
    /\ Goto(p, "enable")
    /\ UNCHANGED <<row, newest, rotates, tries, history>>

SetEnabled(p) ==
    /\ pc[p] = "enable"
    /\ SetStatus(IF hand[p] # 0 THEN "active" ELSE "pending_setup")
    /\ Return(p)
    /\ UNCHANGED <<token, expires, newest, rotates, lost>>

\* update_token reads the credentials to replace one key of them: the token itself
\* by one from a login, or another key beside the token it has read.
UpdateToken(p) ==
    /\ pc[p] = "idle"
    /\ token # 0
    /\ \/ /\ Login
          /\ hand' = [hand EXCEPT ![p] = newest']
          /\ Goto(p, "replace")
       \/ /\ hand' = [hand EXCEPT ![p] = token]
          /\ Goto(p, "merge")
          /\ UNCHANGED <<newest, lost>>
    /\ UNCHANGED <<row, rotates, tries, early>>

\* It writes all of them back as it has read them, with the expiry it was given,
\* over whatever another process has written since.
WriteMerged(p) ==
    /\ pc[p] \in {"merge", "replace"}
    /\ token' = hand[p]
    /\ lost' = (lost \/ hand[p] < token)
    /\ expires' \in {"unset", "fresh"}
    /\ Return(p)
    /\ UNCHANGED <<status, newest, rotates, early>>

-----------------------------------------------------------------------------
\* get_active_account of an account whose token has expired.
GetActiveAccount(p) ==
    /\ pc[p] = "idle"
    /\ status = "active"
    /\ expires = "past"
    /\ early' = early \ {p}
    /\ Goto(p, "noticed")
    /\ UNCHANGED <<row, newest, rotates, hand, tries, lost>>

SetExpired(p) ==
    /\ pc[p] \in {"noticed", "fail"}
    /\ SetStatus("token_expired")
    /\ Return(p)
    /\ UNCHANGED <<token, expires, newest, rotates, lost>>

\* refresh_all_expiring lists active accounts only.
ListExpiring(p) ==
    /\ pc[p] = "idle"
    /\ status = "active"
    /\ expires \in {"soon", "past"}
    /\ Goto(p, "due")
    /\ UNCHANGED <<row, newest, rotates, hand, tries, history>>

\* Faulty variant: the account is taken for what the list said.
ReadCredentialsAnyway(p) ==
    /\ pc[p] \in {"idle", "due"}
    /\ IF token # 0
       THEN /\ hand' = [hand EXCEPT ![p] = token]
            /\ tries' = [tries EXCEPT ![p] = 0]
            /\ early' = early \ {p}
            /\ Goto(p, "ask")
       ELSE /\ Return(p)
            /\ UNCHANGED early
    /\ UNCHANGED <<row, newest, rotates, lost>>

\* refresh_token, for an account of the list or called for any.
ReadCredentials(p) ==
    /\ pc[p] \in {"idle", "due"}
    /\ IF status \in Refreshable /\ token # 0
       THEN /\ hand' = [hand EXCEPT ![p] = token]
            /\ tries' = [tries EXCEPT ![p] = 0]
            /\ early' = early \ {p}
            /\ Goto(p, "ask")
       ELSE /\ Return(p)
            /\ UNCHANGED early
    /\ UNCHANGED <<row, newest, rotates, lost>>

\* The platform exchanges the token.
Exchange(p) ==
    /\ rotates => hand[p] = newest
    /\ newest < MaxTokens
    /\ newest' = newest + 1

\* retry_with_backoff: another attempt, or the exception goes through.
TryAgain(p) ==
    IF tries[p] < MaxRetries
    THEN /\ tries' = [tries EXCEPT ![p] = @ + 1]
         /\ UNCHANGED pc
    ELSE /\ Goto(p, "fail")
         /\ UNCHANGED tries

\* The platform answers with a new token, or, where the old one stays good, with an
\* access token only.
Answered(p) ==
    /\ pc[p] = "ask"
    /\ \/ Exchange(p) /\ hand' = [hand EXCEPT ![p] = newest']
       \/ ~rotates /\ UNCHANGED <<newest, hand>>
    /\ Goto(p, "store")
    /\ UNCHANGED <<row, rotates, tries, history>>

\* It says no, or the credentials lack what the method needs: (None, None).
Rejected(p) ==
    /\ pc[p] = "ask"
    /\ Return(p)
    /\ UNCHANGED <<row, newest, rotates, history>>

\* The request fails, or its answer is lost after the platform has acted on it.
Unanswered(p) ==
    /\ pc[p] = "ask"
    /\ \/ UNCHANGED <<newest, lost>>
       \/ Exchange(p) /\ lost' = TRUE
    /\ TryAgain(p)
    /\ UNCHANGED <<row, rotates, hand, early>>

\* The answer lacks fields the method reads.  Where it indexes them that raises what
\* is not retried; where it takes a default (all fields of TikTok and Snapchat, the
\* refresh token of YouTube) the token that was read is stored again.
Malformed(p) ==
    /\ pc[p] = "ask"
    /\ Exchange(p)
    /\ lost' = TRUE
    /\ \E l \in {"fail", "store"} : Goto(p, l)
    /\ UNCHANGED <<row, rotates, hand, tries, early>>

\* Faulty variant: the row is brought up to date but for the refresh token.
StoreExpiry(p) ==
    /\ pc[p] = "store"
    /\ expires' = "fresh"
    /\ Goto(p, "activate")
    /\ UNCHANGED <<status, token, newest, rotates, hand, tries, history>>

\* update_credentials with the new token and its expiry.
StoreCredentials(p) ==
    /\ pc[p] = "store"
    /\ token' = hand[p]
    /\ expires' = "fresh"
    /\ Goto(p, "activate")
    /\ UNCHANGED <<status, newest, rotates, hand, tries, history>>

\* "Ensure status is active".
Activate(p) ==
    /\ pc[p] = "activate"
    /\ SetStatus("active")
    /\ Return(p)
    /\ UNCHANGED <<token, expires, newest, rotates, lost>>

\* A statement raises under the try of refresh_token.
Refused(p) ==
    /\ pc[p] \in {"store", "activate"}
    /\ lost' = (lost \/ pc[p] = "store")
    /\ Goto(p, "fail")
    /\ UNCHANGED <<row, newest, rotates, hand, tries, early>>

\* A process dies, or a statement raises elsewhere.
Abort(p) ==
    /\ pc[p] # "idle"
    /\ lost' = (lost \/ pc[p] \in Holding)
    /\ Return(p)
    /\ UNCHANGED <<row, newest, rotates, early>>

\* Time passes.
Later ==
    /\ \/ expires = "fresh" /\ expires' = "soon"
       \/ expires = "soon" /\ expires' = "past"
    /\ UNCHANGED <<status, token, newest, rotates, locals, history>>

-----------------------------------------------------------------------------
OperatorStep(p) ==
    \/ CreateAccount(p) \/ Register(p) \/ SetRegistered(p) \/ SaveCredentials(p)
    \/ DeleteCredentials(p) \/ UpdateStatus(p) \/ EnableAccount(p) \/ SetEnabled(p)
    \/ UpdateToken(p) \/ WriteMerged(p)

AskStep(p) == Answered(p) \/ Rejected(p) \/ Unanswered(p) \/ Malformed(p)

WriteStep(p) == StoreCredentials(p) \/ Activate(p) \/ SetExpired(p)

Next ==
    \/ \E p \in Procs :
          \/ OperatorStep(p) \/ AskStep(p) \/ WriteStep(p)
          \/ GetActiveAccount(p) \/ ListExpiring(p) \/ ReadCredentials(p)
          \/ Refused(p) \/ Abort(p)
    \/ Later

Spec == Init /\ [][Next]_vars

\* The daemon runs its list for ever and a process that refreshes goes on.  A
\* platform that is asked again and again answers, and what is then written is
\* not refused for ever.
Fairness ==
    \A p \in Procs :
        /\ WF_vars(ListExpiring(p))
        /\ WF_vars(pc[p] = "due" /\ ReadCredentials(p))
        /\ WF_vars(AskStep(p))
        /\ SF_vars(Answered(p))
        /\ SF_vars(StoreCredentials(p))
        /\ SF_vars(Activate(p))
        /\ WF_vars(SetExpired(p))

FairSpec == Spec /\ Fairness

-----------------------------------------------------------------------------
\* The variables keep their types.
TypeOK ==
    /\ status \in Statuses
    /\ token \in 0 .. newest
    /\ expires \in {"unset", "fresh", "soon", "past"}
    /\ newest \in Nat
    /\ rotates \in BOOLEAN
    /\ pc \in [Procs -> Background \cup Holding \cup {"idle", "registered", "enable", "merge", "due"}]
    /\ hand \in [Procs -> 0 .. newest]
    /\ tries \in [Procs -> 0 .. MaxRetries]
    /\ early \subseteq Procs
    /\ lost \in BOOLEAN

\* What the operator sets aside (disabled, suspended, banned) stays so for the
\* refreshing of tokens: only a process that had read the row before may still
\* overwrite the status.
StatusHolds == status \notin Refreshable => UnderWay \subseteq early

\* Where each refresh token is good for one exchange, the newest one is in the
\* row or on its way there, however refreshes race, unless a fault, a deletion,
\* a login that crossed another write or an update_token that wrote an older one
\* back over it (credential_manager.py:179-193) dropped it.
NewestIsKept ==
    rotates /\ ~lost => token = newest \/ \E p \in Holders : hand[p] = newest

\* An account marked token_expired needs a refresh (manager.py:49) and gets it:
\* tokens are refreshed "for all platform accounts" (token_refresher.py:4).  Said
\* of platforms whose refresh tokens stay good, so that no lost one is the reason.
ExpiredIsRefreshed ==
    status = "token_expired" /\ token # 0 /\ ~rotates ~> status # "token_expired"
=============================================================================
