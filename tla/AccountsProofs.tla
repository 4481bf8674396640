---------------------------- MODULE AccountsProofs ----------------------------
(***************************************************************************)
(* Theorems about Accounts, for any processes, any number of retries and    *)
(* any number of tokens.  That the newest token is kept needs more than it  *)
(* says: as long as it is not in the row, one process alone has a newer     *)
(* token to write, and nobody asks the platform with the newest one or is   *)
(* about to write it back beside another key.                               *)
(***************************************************************************)
EXTENDS Accounts, TLAPS

Labels == Background \cup Holding \cup {"idle", "registered", "enable", "merge", "due"}

NewestInRow == token = newest /\ Holders = {}

NewestInHand ==
    /\ token # newest
    /\ \E q \in Procs :
          /\ Holders = {q}
          /\ hand[q] = newest
    /\ \A p \in Procs : pc[p] \in {"ask", "merge"} => hand[p] # newest

NewestKept == rotates /\ ~lost => NewestInRow \/ NewestInHand

AccountsInv == TypeOK /\ StatusHolds /\ NewestKept

-----------------------------------------------------------------------------
\* The initial states satisfy the invariant.
LEMMA InitAccounts == Init => AccountsInv
  <1> SUFFICES ASSUME Init PROVE AccountsInv
    OBVIOUS
  <1>1. TypeOK
    <2>1. status \in Statuses /\ newest = 0 /\ token \in 0 .. newest
      BY DEF Init, Statuses
    <2>2. lost \in BOOLEAN /\ rotates \in BOOLEAN
      BY DEF Init
    <2>3. 0 \in 0 .. 0 /\ 0 \in 0 .. MaxRetries
      BY BoundAssumption
    <2>4. /\ hand \in [Procs -> 0 .. newest]
          /\ tries \in [Procs -> 0 .. MaxRetries]
          /\ pc \in [Procs -> Labels]
      BY <2>1, <2>3 DEF Init, Labels
    <2>5. early \subseteq Procs /\ expires \in {"unset", "fresh", "soon", "past"}
      BY DEF Init
    <2> QED  BY <2>1, <2>2, <2>4, <2>5 DEF TypeOK, Labels
  <1>2. StatusHolds
    BY DEF Init, StatusHolds, UnderWay, Background
  <1>3. NewestKept
    BY DEF Init, NewestKept, NewestInRow, Holders, Holding
  <1> QED  BY <1>1, <1>2, <1>3 DEF AccountsInv

\* Where the processes stand after p goes to a label.
LEMMA Gone ==
  ASSUME TypeOK, NEW p \in Procs, NEW label \in Labels, Goto(p, label)
  PROVE  /\ pc' \in [Procs -> Labels]
         /\ pc'[p] = label /\ \A q \in Procs \ {p} : pc'[q] = pc[q]
  BY DEF TypeOK, Goto, Labels

\* A process that returns has nothing in its hand.
LEMMA Returned ==
  ASSUME TypeOK, NEW p \in Procs, Return(p)
  PROVE  /\ pc' \in [Procs -> Labels]
         /\ pc'[p] = "idle" /\ \A q \in Procs \ {p} : pc'[q] = pc[q]
         /\ hand' \in [Procs -> 0 .. newest]
         /\ \A q \in Procs \ {p} : hand'[q] = hand[q]
         /\ tries' \in [Procs -> 0 .. MaxRetries]
  <1>1. "idle" \in Labels
    BY DEF Labels
  <1>2. 0 \in 0 .. newest /\ 0 \in 0 .. MaxRetries
    BY BoundAssumption DEF TypeOK
  <1> QED  BY <1>1, <1>2, Gone DEF Return, TypeOK

\* A login raises the number of the newest token.
LEMMA LoggedIn ==
  ASSUME TypeOK, Login
  PROVE  /\ newest' \in Nat /\ newest' = newest + 1
         /\ newest' \in 0 .. newest' /\ 0 .. newest \subseteq 0 .. newest'
         /\ lost' \in BOOLEAN
  BY DEF TypeOK, Login

\* And so does an exchange.
LEMMA Exchanged ==
  ASSUME TypeOK, NEW p \in Procs, Exchange(p)
  PROVE  /\ newest' \in Nat /\ newest' = newest + 1
         /\ newest' \in 0 .. newest' /\ 0 .. newest \subseteq 0 .. newest'
  BY DEF TypeOK, Exchange

\* A status that is set, and who is noted for it.
LEMMA StatusSet ==
  ASSUME TypeOK, NEW s \in Statuses, SetStatus(s)
  PROVE  /\ status' \in Statuses /\ early' \subseteq Procs
         /\ status' \notin Refreshable => early' = UnderWay
  BY DEF TypeOK, SetStatus, UnderWay

\* Who is under way was so before.
LEMMA HoldsOn ==
  ASSUME StatusHolds, UNCHANGED <<status, early>>, UnderWay' \subseteq UnderWay
  PROVE  StatusHolds'
  BY DEF StatusHolds

\* A process that begins is under way only for an account that is refreshable.
LEMMA HoldsBegun ==
  ASSUME status \in Refreshable, UNCHANGED status
  PROVE  StatusHolds'
  BY DEF StatusHolds

\* A status that is set while nobody becomes under way.
LEMMA HoldsSet ==
  ASSUME TypeOK, NEW s \in Statuses, SetStatus(s), UnderWay' \subseteq UnderWay
  PROVE  StatusHolds'
  BY StatusSet DEF StatusHolds

\* A step that moves no token: who has one to write, and what askers and the row
\* have, stays.
LEMMA TokensStay ==
  ASSUME NewestKept, UNCHANGED <<token, newest, rotates>>, lost' \in BOOLEAN,
         ~lost' => ~lost /\ Holders' = Holders,
         \A q \in Holders : hand'[q] = hand[q],
         \A p \in Procs : pc'[p] \in {"ask", "merge"} =>
            \/ hand'[p] = token
            \/ pc[p] \in {"ask", "merge"} /\ hand'[p] = hand[p]
  PROVE  NewestKept'
  BY DEF NewestKept, NewestInRow, NewestInHand, Holders

\* A process that holds no token sets the status and returns.
LEMMA SetAndReturned ==
  ASSUME AccountsInv, NEW p \in Procs, pc[p] \notin Holding, Return(p),
         UNCHANGED <<token, expires, newest, rotates, lost>>,
         \E s \in Statuses : SetStatus(s)
  PROVE  AccountsInv'
  <1>a. TypeOK /\ StatusHolds /\ NewestKept
    BY DEF AccountsInv
  <1>b. PICK s \in Statuses : SetStatus(s)
    OBVIOUS
  <1>c. /\ pc' \in [Procs -> Labels]
        /\ pc'[p] = "idle" /\ \A q \in Procs \ {p} : pc'[q] = pc[q]
        /\ hand' \in [Procs -> 0 .. newest]
        /\ \A q \in Procs \ {p} : hand'[q] = hand[q]
        /\ tries' \in [Procs -> 0 .. MaxRetries]
    BY <1>a, Returned
  <1>1. TypeOK'
    BY <1>a, <1>b, <1>c, StatusSet DEF TypeOK, Labels
  <1>2. StatusHolds'
    <2>1. UnderWay' \subseteq UnderWay
      BY <1>c DEF UnderWay, Background
    <2> QED  BY <1>a, <1>b, <2>1, HoldsSet
  <1>3. NewestKept'
    <2>1. Holders' = Holders /\ p \notin Holders
      BY <1>c DEF Holders, Holding
    <2> QED  BY <1>a, <1>c, <2>1, TokensStay DEF TypeOK, Holders
  <1> QED  BY <1>1, <1>2, <1>3 DEF AccountsInv

\* A process that holds no token returns and leaves the row as it is.
LEMMA JustReturned ==
  ASSUME AccountsInv, NEW p \in Procs, Return(p), UNCHANGED <<row, newest, rotates>>,
         lost' \in BOOLEAN, ~lost' => ~lost /\ pc[p] \notin Holding,
         early' = early \/ early' = early \ {p}
  PROVE  AccountsInv'
  <1>a. TypeOK /\ StatusHolds /\ NewestKept
    BY DEF AccountsInv
  <1>c. /\ pc' \in [Procs -> Labels]
        /\ pc'[p] = "idle" /\ \A q \in Procs \ {p} : pc'[q] = pc[q]
        /\ hand' \in [Procs -> 0 .. newest]
        /\ \A q \in Procs \ {p} : hand'[q] = hand[q]
        /\ tries' \in [Procs -> 0 .. MaxRetries]
    BY <1>a, Returned
  <1>1. TypeOK'
    BY <1>a, <1>c DEF TypeOK, Labels, row
  <1>2. StatusHolds'
    <2>1. UnderWay' \subseteq UnderWay \ {p}
      BY <1>c DEF UnderWay, Background
    <2> QED  BY <1>a, <2>1 DEF StatusHolds, row
  <1>3. NewestKept'
    <2>1. ~lost' => Holders' = Holders /\ p \notin Holders
      BY <1>c DEF Holders, Holding
    <2>2. CASE lost'
      BY <2>2 DEF NewestKept
    <2>3. CASE ~lost'
      BY <2>1, <2>3, <1>a, <1>c, TokensStay DEF TypeOK, Holders, row
    <2> QED  BY <2>2, <2>3
  <1> QED  BY <1>1, <1>2, <1>3 DEF AccountsInv

\* The row is created.
LEMMA CreateAccountStep ==
  ASSUME AccountsInv, NEW p \in Procs, CreateAccount(p)
  PROVE  AccountsInv'
  <1>a. TypeOK /\ StatusHolds /\ NewestKept
    BY DEF AccountsInv
  <1>b. "pending_setup" \in Statuses /\ SetStatus("pending_setup")
    BY DEF CreateAccount, Statuses, STATUS_VALUES
  <1>1. TypeOK'
    BY <1>a, <1>b, StatusSet DEF CreateAccount, TypeOK, locals
  <1>2. StatusHolds'
    BY <1>a, <1>b, HoldsSet DEF CreateAccount, locals, UnderWay
  <1>3. NewestKept'
    BY <1>a DEF CreateAccount, NewestKept, NewestInRow, NewestInHand, Holders, locals
  <1> QED  BY <1>1, <1>2, <1>3 DEF AccountsInv

\* The operator registers a token.
LEMMA RegisterStep ==
  ASSUME AccountsInv, NEW p \in Procs, Register(p)
  PROVE  AccountsInv'
  <1>a. TypeOK /\ StatusHolds /\ NewestKept
    BY DEF AccountsInv
  <1>b. Login /\ pc[p] = "idle" /\ token' = newest' /\ UNCHANGED <<rotates, hand, tries>>
    BY DEF Register
  <1>c. /\ newest' \in Nat /\ newest' = newest + 1 /\ newest' \in 0 .. newest'
        /\ 0 .. newest \subseteq 0 .. newest' /\ lost' \in BOOLEAN
    BY <1>a, <1>b, LoggedIn
  <1>d. "active" \in Statuses /\ "registered" \in Labels
    BY DEF Statuses, STATUS_VALUES, Labels
  <1>1. CASE status = "absent"
    <2>b. SetStatus("active") /\ UNCHANGED <<expires, pc>>
      BY <1>1 DEF Register
    <2>1. TypeOK'
      BY <1>a, <1>b, <1>c, <1>d, <2>b, StatusSet DEF TypeOK
    <2>2. StatusHolds'
      BY <1>a, <1>d, <2>b, HoldsSet DEF UnderWay
    <2>3. NewestKept'
      BY <1>b, <2>b DEF NewestKept, NewestInRow, Login, Holders
    <2> QED  BY <2>1, <2>2, <2>3 DEF AccountsInv
  <1>2. CASE status # "absent"
    <2>b. expires' \in {expires, "fresh"} /\ Goto(p, "registered") /\ UNCHANGED <<status, early>>
      BY <1>2 DEF Register
    <2>c. /\ pc' \in [Procs -> Labels]
          /\ pc'[p] = "registered" /\ \A q \in Procs \ {p} : pc'[q] = pc[q]
      BY <1>a, <1>d, <2>b, Gone
    <2>1. TypeOK'
      BY <1>a, <1>b, <1>c, <2>b, <2>c DEF TypeOK, Labels
    <2>2. StatusHolds'
      BY <1>a, <2>b, <2>c, HoldsOn DEF UnderWay, Background
    <2>3. Holders' = Holders
      BY <1>b, <2>c DEF Holders, Holding
    <2>4. NewestKept'
      BY <1>b, <2>3 DEF NewestKept, NewestInRow, Login
    <2> QED  BY <2>1, <2>2, <2>4 DEF AccountsInv
  <1> QED  BY <1>1, <1>2

\* The operator stores a token at once.
LEMMA SaveCredentialsStep ==
  ASSUME AccountsInv, NEW p \in Procs, SaveCredentials(p)
  PROVE  AccountsInv'
  <1>a. TypeOK /\ StatusHolds /\ NewestKept
    BY DEF AccountsInv
  <1>b. /\ Login /\ token' = newest' /\ SetStatus("active") /\ "active" \in Statuses
        /\ UNCHANGED <<expires, rotates, locals>>
    BY DEF SaveCredentials, Statuses, STATUS_VALUES
  <1>d. /\ newest' \in Nat /\ newest' = newest + 1 /\ newest' \in 0 .. newest'
        /\ 0 .. newest \subseteq 0 .. newest' /\ lost' \in BOOLEAN
    BY <1>a, <1>b, LoggedIn
  <1>1. TypeOK'
    BY <1>a, <1>b, <1>d, StatusSet DEF TypeOK, locals
  <1>2. StatusHolds'
    BY <1>a, <1>b, HoldsSet DEF UnderWay, locals
  <1>3. NewestKept'
    BY <1>b DEF NewestKept, NewestInRow, Login, Holders, locals
  <1> QED  BY <1>1, <1>2, <1>3 DEF AccountsInv

\* The credentials are deleted.
LEMMA DeleteCredentialsStep ==
  ASSUME AccountsInv, NEW p \in Procs, DeleteCredentials(p)
  PROVE  AccountsInv'
  <1>a. TypeOK /\ StatusHolds /\ NewestKept
    BY DEF AccountsInv
  <1>b. /\ token' = 0 /\ lost' = TRUE /\ SetStatus("inactive") /\ "inactive" \in Statuses
        /\ UNCHANGED <<expires, newest, rotates, locals>>
    BY DEF DeleteCredentials, Statuses
  <1>1. TypeOK'
    <2>1. 0 \in 0 .. newest
      BY <1>a DEF TypeOK
    <2>2. lost' \in BOOLEAN
      BY <1>b
    <2> QED  BY <1>a, <1>b, <2>1, <2>2, StatusSet DEF TypeOK, locals
  <1>2. StatusHolds'
    BY <1>a, <1>b, HoldsSet DEF UnderWay, locals
  <1>3. NewestKept'
    BY <1>b DEF NewestKept
  <1> QED  BY <1>1, <1>2, <1>3 DEF AccountsInv

\* The operator sets any status.
LEMMA UpdateStatusStep ==
  ASSUME AccountsInv, NEW p \in Procs, UpdateStatus(p)
  PROVE  AccountsInv'
  <1>a. TypeOK /\ StatusHolds /\ NewestKept
    BY DEF AccountsInv
  <1>b. PICK s \in STATUS_VALUES : SetStatus(s)
    BY DEF UpdateStatus
  <1>c. s \in Statuses /\ UNCHANGED <<token, expires, newest, rotates, locals, lost>>
    BY DEF UpdateStatus, Statuses
  <1>1. TypeOK'
    BY <1>a, <1>b, <1>c, StatusSet DEF TypeOK, locals
  <1>2. StatusHolds'
    BY <1>a, <1>b, <1>c, HoldsSet DEF UnderWay, locals
  <1>3. NewestKept'
    BY <1>a, <1>c DEF NewestKept, NewestInRow, NewestInHand, Holders, locals
  <1> QED  BY <1>1, <1>2, <1>3 DEF AccountsInv

\* Credentials are read to enable the account.
LEMMA EnableAccountStep ==
  ASSUME AccountsInv, NEW p \in Procs, EnableAccount(p)
  PROVE  AccountsInv'
  <1>a. TypeOK /\ StatusHolds /\ NewestKept
    BY DEF AccountsInv
  <1>b. /\ pc[p] = "idle" /\ Goto(p, "enable") /\ "enable" \in Labels
        /\ hand' = [hand EXCEPT ![p] = token]
        /\ UNCHANGED <<row, newest, rotates, tries, history>>
    BY DEF EnableAccount, Labels
  <1>c. /\ pc' \in [Procs -> Labels]
        /\ pc'[p] = "enable" /\ \A q \in Procs \ {p} : pc'[q] = pc[q]
    BY <1>a, <1>b, Gone
  <1>1. TypeOK'
    BY <1>a, <1>b, <1>c DEF TypeOK, Labels, row, history
  <1>2. StatusHolds'
    BY <1>a, <1>b, <1>c, HoldsOn DEF UnderWay, Background, row, history
  <1>3. NewestKept'
    <2>1. Holders' = Holders /\ p \notin Holders
      BY <1>b, <1>c DEF Holders, Holding
    <2> QED  BY <1>a, <1>b, <1>c, <2>1, TokensStay DEF TypeOK, Holders, row, history
  <1> QED  BY <1>1, <1>2, <1>3 DEF AccountsInv

\* Credentials are read to put a token in, or another key beside theirs.
LEMMA UpdateTokenStep ==
  ASSUME AccountsInv, NEW p \in Procs, UpdateToken(p)
  PROVE  AccountsInv'
  <1>a. TypeOK /\ StatusHolds /\ NewestKept
    BY DEF AccountsInv
  <1>b. /\ pc[p] = "idle" /\ UNCHANGED <<row, rotates, tries, early>>
        /\ "replace" \in Labels /\ "merge" \in Labels
    BY DEF UpdateToken, Labels, Holding
  <1>1. CASE /\ Login /\ Goto(p, "replace")
             /\ hand' = [hand EXCEPT ![p] = newest']
    <2>c. /\ pc' \in [Procs -> Labels]
          /\ pc'[p] = "replace" /\ \A q \in Procs \ {p} : pc'[q] = pc[q]
      BY <1>a, <1>b, <1>1, Gone
    <2>d. /\ newest' \in Nat /\ newest' = newest + 1 /\ newest' \in 0 .. newest'
          /\ 0 .. newest \subseteq 0 .. newest' /\ lost' \in BOOLEAN
      BY <1>a, <1>1, LoggedIn
    <2>1. TypeOK'
      BY <1>a, <1>b, <1>1, <2>c, <2>d DEF TypeOK, Labels, row
    <2>2. StatusHolds'
      BY <1>a, <1>b, <2>c, HoldsOn DEF UnderWay, Background, row
    <2>3. NewestKept'
      <3> SUFFICES ASSUME ~lost' PROVE NewestInHand'
        BY DEF NewestKept
      <3>1. Holders = {}
        BY <1>1 DEF Login
      <3>2. Holders' = {p}
        BY <2>c, <3>1 DEF Holders, Holding
      <3>3. token' # newest' /\ hand'[p] = newest'
        BY <1>a, <1>b, <1>1, <2>d DEF TypeOK, row
      <3>4. \A q \in Procs : pc'[q] \in {"ask", "merge"} => hand'[q] # newest'
        BY <1>a, <1>1, <2>c, <2>d DEF TypeOK
      <3> QED  BY <3>2, <3>3, <3>4 DEF NewestInHand
    <2> QED  BY <2>1, <2>2, <2>3 DEF AccountsInv
  <1>2. CASE /\ hand' = [hand EXCEPT ![p] = token] /\ Goto(p, "merge")
             /\ UNCHANGED <<newest, lost>>
    <2>c. /\ pc' \in [Procs -> Labels]
          /\ pc'[p] = "merge" /\ \A q \in Procs \ {p} : pc'[q] = pc[q]
      BY <1>a, <1>b, <1>2, Gone
    <2>1. TypeOK'
      BY <1>a, <1>b, <1>2, <2>c DEF TypeOK, Labels, row
    <2>2. StatusHolds'
      BY <1>a, <1>b, <2>c, HoldsOn DEF UnderWay, Background, row
    <2>3. NewestKept'
      <3>1. Holders' = Holders /\ p \notin Holders
        BY <1>b, <2>c DEF Holders, Holding
      <3> QED  BY <1>a, <1>b, <1>2, <2>c, <3>1, TokensStay DEF TypeOK, Holders, row
    <2> QED  BY <2>1, <2>2, <2>3 DEF AccountsInv
  <1> QED  BY <1>1, <1>2 DEF UpdateToken

\* A process writes the token it holds into the row and holds it no longer.
LEMMA Written ==
  ASSUME TypeOK, NewestKept, NEW p \in Procs, p \in Holders, token' = hand[p],
         UNCHANGED <<newest, rotates, lost>>, Holders' = Holders \ {p}
  PROVE  NewestKept'
  BY DEF NewestKept, NewestInRow, NewestInHand

\* What was put together is written back.
LEMMA WriteMergedStep ==
  ASSUME AccountsInv, NEW p \in Procs, WriteMerged(p)
  PROVE  AccountsInv'
  <1>a. TypeOK /\ StatusHolds /\ NewestKept
    BY DEF AccountsInv
  <1>b. /\ pc[p] \in {"merge", "replace"} /\ Return(p) /\ token' = hand[p]
        /\ lost' = (lost \/ hand[p] < token) /\ expires' \in {"unset", "fresh"}
        /\ UNCHANGED <<status, newest, rotates, early>>
    BY DEF WriteMerged
  <1>c. /\ pc' \in [Procs -> Labels]
        /\ pc'[p] = "idle" /\ \A q \in Procs \ {p} : pc'[q] = pc[q]
        /\ hand' \in [Procs -> 0 .. newest]
        /\ \A q \in Procs \ {p} : hand'[q] = hand[q]
        /\ tries' \in [Procs -> 0 .. MaxRetries]
    BY <1>a, <1>b, Returned
  <1>1. TypeOK'
    <2>1. lost' \in BOOLEAN
      BY <1>b
    <2> QED  BY <1>a, <1>b, <1>c, <2>1 DEF TypeOK, Labels
  <1>2. StatusHolds'
    BY <1>a, <1>b, <1>c, HoldsOn DEF UnderWay, Background
  <1>3. NewestKept'
    <2> SUFFICES ASSUME rotates, ~lost, ~(hand[p] < token) PROVE NewestInRow' \/ NewestInHand'
      BY <1>b DEF NewestKept
    <2>0. newest \in Nat /\ token \in 0 .. newest /\ hand[p] \in 0 .. newest
      BY <1>a DEF TypeOK
    <2>1. CASE pc[p] = "replace"
      <3>1. p \in Holders /\ Holders' = Holders \ {p}
        BY <1>c, <2>1 DEF Holders, Holding
      <3>2. NewestInHand /\ Holders = {p} /\ hand[p] = newest
        BY <1>a, <3>1 DEF NewestKept, NewestInRow, NewestInHand
      <3> QED  BY <1>b, <3>1, <3>2 DEF NewestInRow
    <2>2. CASE pc[p] = "merge"
      <3>1. Holders' = Holders /\ p \notin Holders
        BY <1>c, <2>2 DEF Holders, Holding
      <3>2. CASE NewestInRow
        <4>1. hand[p] = newest
          BY <2>0, <3>2 DEF NewestInRow
        <4> QED  BY <1>b, <3>1, <3>2, <4>1 DEF NewestInRow
      <3>3. CASE NewestInHand
        <4>1. token' # newest'
          BY <1>b, <2>2, <3>3 DEF NewestInHand
        <4>2. \E q \in Procs : Holders' = {q} /\ hand'[q] = newest'
          BY <1>b, <1>c, <3>1, <3>3 DEF NewestInHand
        <4>3. \A q \in Procs : pc'[q] \in {"ask", "merge"} => hand'[q] # newest'
          BY <1>b, <1>c, <3>3 DEF NewestInHand
        <4> QED  BY <4>1, <4>2, <4>3 DEF NewestInHand
      <3> QED  BY <1>a, <3>2, <3>3 DEF NewestKept
    <2> QED  BY <1>b, <2>1, <2>2
  <1> QED  BY <1>1, <1>2, <1>3 DEF AccountsInv

\* An expired token is noticed.
LEMMA GetActiveAccountStep ==
  ASSUME AccountsInv, NEW p \in Procs, GetActiveAccount(p)
  PROVE  AccountsInv'
  <1>a. TypeOK /\ StatusHolds /\ NewestKept
    BY DEF AccountsInv
  <1>b. /\ pc[p] = "idle" /\ status = "active" /\ Goto(p, "noticed") /\ "noticed" \in Labels
        /\ early' = early \ {p} /\ UNCHANGED <<row, newest, rotates, hand, tries, lost>>
    BY DEF GetActiveAccount, Labels, Background
  <1>c. /\ pc' \in [Procs -> Labels]
        /\ pc'[p] = "noticed" /\ \A q \in Procs \ {p} : pc'[q] = pc[q]
    BY <1>a, <1>b, Gone
  <1>1. TypeOK'
    BY <1>a, <1>b, <1>c DEF TypeOK, Labels, row
  <1>2. StatusHolds'
    BY <1>b, HoldsBegun DEF Refreshable, row
  <1>3. NewestKept'
    <2>1. Holders' = Holders
      BY <1>b, <1>c DEF Holders, Holding
    <2> QED  BY <1>a, <1>b, <1>c, <2>1, TokensStay DEF TypeOK, row
  <1> QED  BY <1>1, <1>2, <1>3 DEF AccountsInv

\* The account gets onto the list.
LEMMA ListExpiringStep ==
  ASSUME AccountsInv, NEW p \in Procs, ListExpiring(p)
  PROVE  AccountsInv'
  <1>a. TypeOK /\ StatusHolds /\ NewestKept
    BY DEF AccountsInv
  <1>b. /\ pc[p] = "idle" /\ Goto(p, "due") /\ "due" \in Labels
        /\ UNCHANGED <<row, newest, rotates, hand, tries, history>>
    BY DEF ListExpiring, Labels
  <1>c. /\ pc' \in [Procs -> Labels]
        /\ pc'[p] = "due" /\ \A q \in Procs \ {p} : pc'[q] = pc[q]
    BY <1>a, <1>b, Gone
  <1>1. TypeOK'
    BY <1>a, <1>b, <1>c DEF TypeOK, Labels, row, history
  <1>2. StatusHolds'
    BY <1>a, <1>b, <1>c, HoldsOn DEF UnderWay, Background, row, history
  <1>3. NewestKept'
    <2>1. Holders' = Holders
      BY <1>b, <1>c DEF Holders, Holding
    <2> QED  BY <1>a, <1>b, <1>c, <2>1, TokensStay DEF TypeOK, row, history
  <1> QED  BY <1>1, <1>2, <1>3 DEF AccountsInv

\* Its credentials are read for a refresh.
LEMMA ReadCredentialsStep ==
  ASSUME AccountsInv, NEW p \in Procs, ReadCredentials(p)
  PROVE  AccountsInv'
  <1>a. TypeOK /\ StatusHolds /\ NewestKept
    BY DEF AccountsInv
  <1>1. CASE status \in Refreshable /\ token # 0
    <2>b. /\ pc[p] \in {"idle", "due"} /\ Goto(p, "ask") /\ "ask" \in Labels
          /\ hand' = [hand EXCEPT ![p] = token] /\ tries' = [tries EXCEPT ![p] = 0]
          /\ early' = early \ {p} /\ UNCHANGED <<row, newest, rotates, lost>>
      BY <1>1 DEF ReadCredentials, Labels, Background
    <2>c. /\ pc' \in [Procs -> Labels]
          /\ pc'[p] = "ask" /\ \A q \in Procs \ {p} : pc'[q] = pc[q]
      BY <1>a, <2>b, Gone
    <2>1. TypeOK'
      <3>1. 0 \in 0 .. MaxRetries
        BY BoundAssumption
      <3> QED  BY <1>a, <2>b, <2>c, <3>1 DEF TypeOK, Labels, row
    <2>2. StatusHolds'
      BY <1>1, <2>b, HoldsBegun DEF row
    <2>3. NewestKept'
      <3>1. Holders' = Holders /\ p \notin Holders
        BY <2>b, <2>c DEF Holders, Holding
      <3> QED  BY <1>a, <2>b, <2>c, <3>1, TokensStay DEF TypeOK, Holders, row
    <2> QED  BY <2>1, <2>2, <2>3 DEF AccountsInv
  <1>2. CASE ~(status \in Refreshable /\ token # 0)
    <2>1. /\ pc[p] \in {"idle", "due"} /\ Return(p) /\ early' = early
          /\ UNCHANGED <<row, newest, rotates, lost>>
      BY <1>2 DEF ReadCredentials
    <2>2. lost' \in BOOLEAN /\ pc[p] \notin Holding
      BY <1>a, <2>1 DEF TypeOK, Holding
    <2> QED  BY <2>1, <2>2, JustReturned
  <1> QED  BY <1>1, <1>2

\* The platform answers with a new token.
LEMMA AnsweredStep ==
  ASSUME AccountsInv, NEW p \in Procs, Answered(p)
  PROVE  AccountsInv'
  <1>a. TypeOK /\ StatusHolds /\ NewestKept
    BY DEF AccountsInv
  <1>b. /\ pc[p] = "ask" /\ Goto(p, "store") /\ "store" \in Labels
        /\ UNCHANGED <<row, rotates, tries, history>>
    BY DEF Answered, Labels, Background
  <1>c. /\ pc' \in [Procs -> Labels]
        /\ pc'[p] = "store" /\ \A q \in Procs \ {p} : pc'[q] = pc[q]
    BY <1>a, <1>b, Gone
  <1>2. StatusHolds'
    BY <1>a, <1>b, <1>c, HoldsOn DEF UnderWay, Background, row, history
  <1>3. CASE Exchange(p) /\ hand' = [hand EXCEPT ![p] = newest']
    <2>d. /\ newest' \in Nat /\ newest' = newest + 1 /\ newest' \in 0 .. newest'
          /\ 0 .. newest \subseteq 0 .. newest'
      BY <1>a, <1>3, Exchanged
    <2>1. TypeOK'
      BY <1>a, <1>b, <1>c, <1>3, <2>d DEF TypeOK, Labels, row, history
    <2>2. NewestKept'
      <3> SUFFICES ASSUME rotates, ~lost PROVE NewestInHand'
        BY <1>b DEF NewestKept, history
      <3>1. NewestInRow
        BY <1>a, <1>b, <1>3 DEF Exchange, NewestKept, NewestInHand
      <3>2. Holders' = {p}
        BY <1>c, <3>1 DEF Holders, Holding, NewestInRow
      <3>3. token' # newest' /\ hand'[p] = newest'
        BY <1>a, <1>b, <1>3, <2>d DEF TypeOK, row
      <3>4. \A q \in Procs : pc'[q] \in {"ask", "merge"} => hand'[q] # newest'
        BY <1>a, <1>3, <1>c, <2>d DEF TypeOK
      <3> QED  BY <3>2, <3>3, <3>4 DEF NewestInHand
    <2> QED  BY <1>2, <2>1, <2>2 DEF AccountsInv
  <1>4. CASE ~rotates /\ UNCHANGED <<newest, hand>>
    <2>1. TypeOK'
      BY <1>a, <1>b, <1>c, <1>4 DEF TypeOK, Labels, row, history
    <2>2. NewestKept'
      BY <1>b, <1>4 DEF NewestKept
    <2> QED  BY <1>2, <2>1, <2>2 DEF AccountsInv
  <1> QED  BY <1>3, <1>4 DEF Answered

\* The attempt fails, at the platform or after it.
LEMMA UnansweredStep ==
  ASSUME AccountsInv, NEW p \in Procs, Unanswered(p)
  PROVE  AccountsInv'
  <1>a. TypeOK /\ StatusHolds /\ NewestKept
    BY DEF AccountsInv
  <1>b. /\ pc[p] = "ask" /\ UNCHANGED <<row, rotates, hand, early>>
        /\ "fail" \in Labels
    BY DEF Unanswered, Labels, Background
  <1>c. /\ pc' \in [Procs -> Labels] /\ tries' \in [Procs -> 0 .. MaxRetries]
        /\ pc'[p] \in {"ask", "fail"} /\ \A q \in Procs \ {p} : pc'[q] = pc[q]
    <2>1. CASE tries[p] < MaxRetries
      <3>1. tries' = [tries EXCEPT ![p] = @ + 1] /\ UNCHANGED pc
        BY <2>1 DEF Unanswered, TryAgain
      <3>2. tries[p] + 1 \in 0 .. MaxRetries
        BY <1>a, <2>1, BoundAssumption DEF TypeOK
      <3> QED  BY <1>a, <1>b, <3>1, <3>2 DEF TypeOK, Labels
    <2>2. CASE ~(tries[p] < MaxRetries)
      <3>1. Goto(p, "fail") /\ UNCHANGED tries
        BY <2>2 DEF Unanswered, TryAgain
      <3> QED  BY <1>a, <1>b, <3>1, Gone DEF TypeOK
    <2> QED  BY <2>1, <2>2
  <1>d. /\ newest' \in Nat /\ 0 .. newest \subseteq 0 .. newest'
        /\ lost' \in BOOLEAN /\ (~lost' => ~lost /\ newest' = newest)
    <2>1. CASE UNCHANGED <<newest, lost>>
      BY <2>1, <1>a DEF TypeOK
    <2>2. CASE Exchange(p) /\ lost' = TRUE
      <3>1. lost' \in BOOLEAN
        BY <2>2
      <3> QED  BY <1>a, <2>2, <3>1, Exchanged
    <2> QED  BY <2>1, <2>2 DEF Unanswered
  <1>1. TypeOK'
    BY <1>a, <1>b, <1>c, <1>d DEF TypeOK, Labels, row
  <1>2. StatusHolds'
    BY <1>a, <1>b, <1>c, HoldsOn DEF UnderWay, Background, row
  <1>3. NewestKept'
    <2>1. Holders' = Holders
      BY <1>b, <1>c DEF Holders, Holding
    <2>2. CASE lost'
      BY <2>2 DEF NewestKept
    <2>3. CASE ~lost'
      BY <1>a, <1>b, <1>c, <1>d, <2>1, <2>3, TokensStay DEF row
    <2> QED  BY <2>2, <2>3
  <1> QED  BY <1>1, <1>2, <1>3 DEF AccountsInv

\* The answer makes no sense.
LEMMA MalformedStep ==
  ASSUME AccountsInv, NEW p \in Procs, Malformed(p)
  PROVE  AccountsInv'
  <1>a. TypeOK /\ StatusHolds /\ NewestKept
    BY DEF AccountsInv
  <1>l. PICK l \in {"fail", "store"} : Goto(p, l)
    BY DEF Malformed
  <1>b. /\ pc[p] = "ask" /\ Exchange(p) /\ lost' = TRUE /\ l \in Labels
        /\ UNCHANGED <<row, rotates, hand, tries, early>>
    BY DEF Malformed, Labels, Background, Holding
  <1>c. /\ pc' \in [Procs -> Labels]
        /\ pc'[p] = l /\ \A q \in Procs \ {p} : pc'[q] = pc[q]
    BY <1>a, <1>b, <1>l, Gone
  <1>d. /\ newest' \in Nat /\ newest' = newest + 1 /\ newest' \in 0 .. newest'
        /\ 0 .. newest \subseteq 0 .. newest'
    BY <1>a, <1>b, Exchanged
  <1>1. TypeOK'
    <2>1. lost' \in BOOLEAN
      BY <1>b
    <2> QED  BY <1>a, <1>b, <1>c, <1>d, <2>1 DEF TypeOK, Labels, row
  <1>2. StatusHolds'
    BY <1>a, <1>b, <1>c, HoldsOn DEF UnderWay, Background, row
  <1>3. NewestKept'
    BY <1>b DEF NewestKept
  <1> QED  BY <1>1, <1>2, <1>3 DEF AccountsInv

\* The answer is stored.
LEMMA StoreCredentialsStep ==
  ASSUME AccountsInv, NEW p \in Procs, StoreCredentials(p)
  PROVE  AccountsInv'
  <1>a. TypeOK /\ StatusHolds /\ NewestKept
    BY DEF AccountsInv
  <1>b. /\ pc[p] = "store" /\ Goto(p, "activate") /\ "activate" \in Labels
        /\ token' = hand[p] /\ expires' = "fresh"
        /\ UNCHANGED <<status, newest, rotates, hand, tries, history>>
    BY DEF StoreCredentials, Labels, Background
  <1>c. /\ pc' \in [Procs -> Labels]
        /\ pc'[p] = "activate" /\ \A q \in Procs \ {p} : pc'[q] = pc[q]
    BY <1>a, <1>b, Gone
  <1>1. TypeOK'
    BY <1>a, <1>b, <1>c DEF TypeOK, Labels, history
  <1>2. StatusHolds'
    BY <1>a, <1>b, <1>c, HoldsOn DEF UnderWay, Background, history
  <1>3. NewestKept'
    <2>1. p \in Holders /\ Holders' = Holders \ {p}
      BY <1>b, <1>c DEF Holders, Holding
    <2> QED  BY <1>a, <1>b, <2>1, Written DEF history
  <1> QED  BY <1>1, <1>2, <1>3 DEF AccountsInv

\* A write of the refresh is refused.
LEMMA RefusedStep ==
  ASSUME AccountsInv, NEW p \in Procs, Refused(p)
  PROVE  AccountsInv'
  <1>a. TypeOK /\ StatusHolds /\ NewestKept
    BY DEF AccountsInv
  <1>b. /\ pc[p] \in {"store", "activate"} /\ Goto(p, "fail") /\ "fail" \in Labels
        /\ lost' = (lost \/ pc[p] = "store")
        /\ UNCHANGED <<row, newest, rotates, hand, tries, early>>
    BY DEF Refused, Labels, Background
  <1>c. /\ pc' \in [Procs -> Labels]
        /\ pc'[p] = "fail" /\ \A q \in Procs \ {p} : pc'[q] = pc[q]
    BY <1>a, <1>b, Gone
  <1>d. lost' \in BOOLEAN
    BY <1>b
  <1>1. TypeOK'
    BY <1>a, <1>b, <1>c, <1>d DEF TypeOK, Labels, row
  <1>2. StatusHolds'
    BY <1>a, <1>b, <1>c, HoldsOn DEF UnderWay, Background, row
  <1>3. NewestKept'
    <2>1. CASE lost'
      BY <2>1 DEF NewestKept
    <2>2. CASE ~lost'
      <3>1. ~lost /\ pc[p] = "activate"
        BY <1>b, <2>2
      <3>2. Holders' = Holders
        BY <1>c, <3>1 DEF Holders, Holding
      <3> QED  BY <1>a, <1>b, <1>c, <1>d, <3>1, <3>2, TokensStay DEF row
    <2> QED  BY <2>1, <2>2
  <1> QED  BY <1>1, <1>2, <1>3 DEF AccountsInv

\* The other steps that end a method.
LEMMA EndStep ==
  ASSUME AccountsInv, NEW p \in Procs,
         SetRegistered(p) \/ SetEnabled(p) \/ SetExpired(p) \/ Activate(p)
           \/ Rejected(p) \/ Abort(p)
  PROVE  AccountsInv'
  <1>1. CASE SetRegistered(p)
    <2>1. "active" \in Statuses
      BY DEF Statuses, STATUS_VALUES
    <2> QED  BY <1>1, <2>1, SetAndReturned DEF SetRegistered, Holding
  <1>2. CASE SetEnabled(p)
    <2>1. "active" \in Statuses /\ "pending_setup" \in Statuses
      BY DEF Statuses, STATUS_VALUES
    <2>2. \E s \in Statuses : SetStatus(s)
      BY <1>2, <2>1 DEF SetEnabled
    <2> QED  BY <1>2, <2>2, SetAndReturned DEF SetEnabled, Holding
  <1>3. CASE SetExpired(p)
    <2>1. "token_expired" \in Statuses
      BY DEF Statuses, STATUS_VALUES
    <2> QED  BY <1>3, <2>1, SetAndReturned DEF SetExpired, Holding
  <1>4. CASE Activate(p)
    <2>1. "active" \in Statuses
      BY DEF Statuses, STATUS_VALUES
    <2> QED  BY <1>4, <2>1, SetAndReturned DEF Activate, Holding
  <1>5. CASE Rejected(p)
    <2>1. lost' \in BOOLEAN /\ pc[p] \notin Holding
      BY <1>5 DEF Rejected, history, Holding, AccountsInv, TypeOK
    <2> QED  BY <1>5, <2>1, JustReturned DEF Rejected, history
  <1>6. CASE Abort(p)
    <2>1. lost' \in BOOLEAN /\ (~lost' => ~lost /\ pc[p] \notin Holding)
      BY <1>6 DEF Abort
    <2> QED  BY <1>6, <2>1, JustReturned DEF Abort
  <1> QED  BY <1>1, <1>2, <1>3, <1>4, <1>5, <1>6

\* Every step keeps the invariant.
LEMMA NextAccounts == AccountsInv /\ [Next]_vars => AccountsInv'
  <1> SUFFICES ASSUME AccountsInv, [Next]_vars PROVE AccountsInv'
    OBVIOUS
  <1>1. ASSUME NEW p \in Procs, OperatorStep(p) PROVE AccountsInv'
    BY <1>1, CreateAccountStep, RegisterStep, SaveCredentialsStep, DeleteCredentialsStep,
       UpdateStatusStep, EnableAccountStep, UpdateTokenStep, WriteMergedStep, EndStep
       DEF OperatorStep
  <1>2. ASSUME NEW p \in Procs, AskStep(p) PROVE AccountsInv'
    BY <1>2, AnsweredStep, UnansweredStep, MalformedStep, EndStep DEF AskStep
  <1>3. ASSUME NEW p \in Procs, WriteStep(p) PROVE AccountsInv'
    BY <1>3, StoreCredentialsStep, EndStep DEF WriteStep
  <1>4. ASSUME NEW p \in Procs,
               GetActiveAccount(p) \/ ListExpiring(p) \/ ReadCredentials(p)
                 \/ Refused(p) \/ Abort(p)
        PROVE  AccountsInv'
    BY <1>4, GetActiveAccountStep, ListExpiringStep, ReadCredentialsStep, RefusedStep, EndStep
  <1>5. CASE Later
    BY <1>5 DEF Later, AccountsInv, TypeOK, StatusHolds, NewestKept, NewestInRow,
                NewestInHand, Holders, UnderWay, locals, history
  <1>6. CASE UNCHANGED vars
    BY <1>6 DEF vars, AccountsInv, TypeOK, StatusHolds, NewestKept, NewestInRow,
                NewestInHand, Holders, UnderWay, row, locals, history
  <1> QED  BY <1>1, <1>2, <1>3, <1>4, <1>5, <1>6 DEF Next

\* The row and the locals of every process keep their types.
THEOREM AccountsTypeCorrect == Spec => []TypeOK
  <1>1. AccountsInv => TypeOK
    BY DEF AccountsInv
  <1> QED  BY <1>1, InitAccounts, NextAccounts, PTL DEF Spec

\* An account that was set aside is overwritten by refreshes and look-ups only if
\* they had read it before, whatever the number of processes.
THEOREM StatusAlwaysHolds == Spec => []StatusHolds
  <1>1. AccountsInv => StatusHolds
    BY DEF AccountsInv
  <1> QED  BY <1>1, InitAccounts, NextAccounts, PTL DEF Spec

\* Racing refreshes never lose the only token a rotating platform still takes; what
\* does lose it is a fault, a deletion, a login that crosses another write or an
\* update_token that writes an older one back.
THEOREM NewestIsAlwaysKept == Spec => []NewestIsKept
  <1>1. AccountsInv => NewestIsKept
    BY DEF AccountsInv, NewestKept, NewestInRow, NewestInHand, NewestIsKept
  <1> QED  BY <1>1, InitAccounts, NextAccounts, PTL DEF Spec
=============================================================================
