-------------------------- MODULE UserRequestsProofs --------------------------
(***************************************************************************)
(* Theorems about the requests that end in the database, for any number of *)
(* them, in any order, failing anywhere.  Accounts: one for an address     *)
(* however long a registration stays between its look-up, its INSERT and   *)
(* its commit; sessions that their users can see, and that do not outlive  *)
(* the password they were opened with; tokens that are spent once.         *)
(* Expenses: what a request has checked still holds when it writes,        *)
(* although nothing is locked in between (categories are only ever added), *)
(* or the damage is bounded (the quota) or takes two overlapping updates   *)
(* (amounts); and paging through the list misses no row.                   *)
(***************************************************************************)
EXTENDS UserRequests, SequenceTheorems, FiniteSetTheorems, WellFoundedInduction, TLAPS

-------------------------------------------------------------------------------
(* The account and its sessions.                                           *)

(* The state of a request has its fields, whatever is in them.             *)
Stated(s) ==
  s = [pc |-> s.pc, kind |-> s.kind, user |-> s.user, password |-> s.password,
       token |-> s.token, sids |-> s.sids]

Requested ==
  /\ req = [r \in Requests |-> req[r]]
  /\ \A r \in Requests : Stated(req[r])

(* A row that is flushed and not committed is the only one, and nobody     *)
(* else's has been committed.                                              *)
OneFlushed ==
  /\ \A p, q \in Inserting : p = q
  /\ Inserting # {} => account = {}

(* Rows of users carry an id and a password, and there is at most one.     *)
OneRow ==
  /\ \A a \in account : a = [id |-> a.id, password |-> a.password]
  /\ \A a, b \in account : a = b

(* What is audited is over; what registered is what registrations audited. *)
AuditedIsDone ==
  /\ audited \subseteq {r \in Requests : req[r].pc = "done"}
  /\ Succeeded({"register"}) = Registered

OneInv == Requested /\ OneFlushed /\ OneRow /\ AuditedIsDone

-------------------------------------------------------------------------------
LEMMA OneInit == AccountsInit => OneInv
BY DEF AccountsInit, OneInv, Requested, Stated, OneFlushed, OneRow, AuditedIsDone, Away,
   Inserting, Succeeded, Registered

(* The steps that neither flush nor commit anything.                       *)
LEMMA NothingCommitted ==
  ASSUME OneInv, Requested', account' = account, audited' = audited,
         NEW r \in Requests, req[r].pc # "done",
         \A q \in Requests \ {r} : req'[q] = req[q],
         r \in Inserting' => r \in Inserting
  PROVE  OneInv'
<1>1. Inserting' \subseteq Inserting
  BY DEF Inserting
<1>2. OneFlushed' /\ OneRow'
  BY <1>1 DEF OneInv, OneFlushed, OneRow
<1>3. r \notin audited
  BY DEF OneInv, AuditedIsDone
<1>4. Succeeded({"register"})' = Succeeded({"register"}) /\ Registered' = Registered
  BY <1>3 DEF Succeeded, Registered, OneInv, AuditedIsDone
<1>5. AuditedIsDone'
  BY <1>3, <1>4 DEF OneInv, AuditedIsDone
<1> QED
  BY <1>2, <1>5 DEF OneInv

LEMMA NobodyMoved ==
  ASSUME OneInv, account' = account, audited' = audited, req' = req
  PROVE  OneInv'
<1>1. Requested'
  BY DEF OneInv, Requested, Stated
<1>2. OneFlushed' /\ OneRow'
  BY DEF OneInv, OneFlushed, OneRow, Inserting
<1>3. AuditedIsDone'
  BY DEF OneInv, AuditedIsDone, Succeeded, Registered
<1> QED
  BY <1>1, <1>2, <1>3 DEF OneInv

(* A request that begins has flushed nothing.                              *)
LEMMA BeginKeeps ==
  ASSUME OneInv, NEW r \in Requests,
         NEW state, Stated(state), Begin(r, state),
         state.kind = "register" => state.pc = "insert"
  PROVE  OneInv'
<1>1. /\ req[r].pc = "away" /\ account' = account /\ audited' = audited
      /\ req' = [req EXCEPT ![r] = state]
  BY DEF Begin, store
<1>2. Requested' /\ \A q \in Requests \ {r} : req'[q] = req[q]
  BY <1>1 DEF OneInv, Requested, Stated
<1>3. r \notin Inserting'
  BY <1>1, <1>2 DEF Inserting, OneInv, Requested, Stated
<1> QED
  BY <1>1, <1>2, <1>3, NothingCommitted

LEMMA ArriveKeeps ==
  ASSUME OneInv, NEW r \in Requests, Arrive(r)
  PROVE  OneInv'
<1>1. PICK state : /\ Stated(state) /\ Begin(r, state)
                   /\ state.kind = "register" => state.pc = "insert"
  <2>1. CASE Register(r)
    <3>1. PICK state : state = [Away EXCEPT !.pc = "insert", !.kind = "register"]
      OBVIOUS
    <3>2. Stated(state) /\ state.pc = "insert"
      BY <3>1 DEF Stated, Away
    <3> QED
      BY <2>1, <3>1, <3>2 DEF Register
  <2>2. CASE Login(r)
    <3>1. PICK state : state = [Away EXCEPT !.pc = "session", !.kind = "login",
                                       !.user = Registered, !.password = Password]
      OBVIOUS
    <3>2. Stated(state) /\ state.kind = "login"
      BY <3>1 DEF Stated, Away
    <3> QED
      BY <2>2, <3>1, <3>2 DEF Login
  <2>3. CASE Logout(r)
    <3>1. PICK u \in Requests, target \in Issued :
            Begin(r, [Away EXCEPT !.pc = "revoke", !.kind = "logout",
                                  !.user = {u}, !.sids = {target}])
      BY <2>3 DEF Logout
    <3>2. PICK state : state = [Away EXCEPT !.pc = "revoke", !.kind = "logout",
                                       !.user = {u}, !.sids = {target}]
      OBVIOUS
    <3>3. Stated(state) /\ state.kind = "logout"
      BY <3>2 DEF Stated, Away
    <3> QED
      BY <3>1, <3>2, <3>3
  <2>4. CASE ChangePassword(r)
    <3>1. PICK u \in Requests :
            Begin(r, [Away EXCEPT !.pc = "read", !.kind = "change", !.user = {u}])
      BY <2>4 DEF ChangePassword
    <3>2. PICK state : state = [Away EXCEPT !.pc = "read", !.kind = "change", !.user = {u}]
      OBVIOUS
    <3>3. Stated(state) /\ state.kind = "change"
      BY <3>2 DEF Stated, Away
    <3> QED
      BY <3>1, <3>2, <3>3
  <2>5. CASE StartReset(r)
    <3>1. PICK state : state = [Away EXCEPT !.pc = IF account = {} THEN "done" ELSE "mail",
                                       !.kind = "start", !.user = Registered]
      OBVIOUS
    <3>2. Stated(state) /\ state.kind = "start"
      BY <3>1 DEF Stated, Away
    <3> QED
      BY <2>5, <3>1, <3>2 DEF StartReset
  <2>6. CASE ConfirmReset(r)
    <3>1. PICK t \in mailed :
            Begin(r, [Away EXCEPT !.pc = IF t \in tokens \ lapsed THEN "write" ELSE "done",
                                  !.kind = "confirm", !.user = req[t].user, !.token = {t}])
      BY <2>6 DEF ConfirmReset
    <3>2. PICK state :
            state = [Away EXCEPT !.pc = IF t \in tokens \ lapsed THEN "write" ELSE "done",
                                 !.kind = "confirm", !.user = req[t].user, !.token = {t}]
      OBVIOUS
    <3>3. Stated(state) /\ state.kind = "confirm"
      BY <3>2 DEF Stated, Away
    <3> QED
      BY <3>1, <3>2, <3>3
  <2> QED
    BY <2>1, <2>2, <2>3, <2>4, <2>5, <2>6 DEF Arrive
<1> QED
  BY <1>1, BeginKeeps

(* The flush waits for one that is not committed and fails after one that  *)
(* is: whoever passes is alone.                                            *)
LEMMA RegistrationInsertKeeps ==
  ASSUME OneInv, NEW r \in Requests, InsertUser(r)
  PROVE  OneInv'
<1>1. /\ req[r].pc = "insert" /\ Inserting = {}
      /\ account' = account /\ audited' = audited
  BY DEF InsertUser, At, store
<1>2. CASE account = {}
  <2>1. req' = [req EXCEPT ![r].pc = "session", ![r].user = {r}, ![r].password = {r}]
    BY <1>2 DEF InsertUser
  <2>2. Requested' /\ \A q \in Requests \ {r} : req'[q] = req[q]
    BY <2>1 DEF OneInv, Requested, Stated
  <2>3. Inserting' \subseteq {r}
    BY <1>1, <2>2 DEF Inserting
  <2>4. OneFlushed' /\ OneRow'
    BY <1>1, <1>2, <2>3 DEF OneInv, OneFlushed, OneRow
  <2>5. r \notin audited
    BY <1>1 DEF OneInv, AuditedIsDone
  <2>6. AuditedIsDone'
    BY <1>1, <2>2, <2>5 DEF OneInv, AuditedIsDone, Succeeded, Registered
  <2> QED
    BY <2>2, <2>4, <2>6 DEF OneInv
<1>3. CASE account # {}
  <2>1. req' = [req EXCEPT ![r].pc = "done"]
    BY <1>3 DEF InsertUser
  <2>2. /\ Requested' /\ req'[r].pc = "done"
        /\ \A q \in Requests \ {r} : req'[q] = req[q]
    BY <2>1 DEF OneInv, Requested, Stated
  <2>3. r \notin Inserting'
    BY <2>2 DEF Inserting
  <2> QED
    BY <1>1, <2>2, <2>3, NothingCommitted
<1> QED
  BY <1>2, <1>3

(* A commit of a registration makes the only row; that of a password       *)
(* changes the row and not its id.                                         *)
LEMMA CommitKeeps ==
  ASSUME OneInv, NEW r \in Requests, Commit(r)
  PROVE  OneInv'
<1>1. /\ req[r].pc = "commit" /\ req' = [req EXCEPT ![r].pc = "done"]
      /\ audited' = audited \cup {r}
  BY DEF Commit, Goto
<1>2. /\ Requested' /\ req'[r].pc = "done" /\ req'[r].kind = req[r].kind
      /\ \A q \in Requests \ {r} : req'[q] = req[q]
  BY <1>1 DEF OneInv, Requested, Stated
<1>3. Inserting' = Inserting \ {r}
  BY <1>2 DEF Inserting
<1>4. r \notin audited
  BY <1>1 DEF OneInv, AuditedIsDone
<1>5. audited' \subseteq {q \in Requests : req[q].pc = "done"}'
  BY <1>1, <1>2, <1>4 DEF OneInv, AuditedIsDone
<1>6. CASE req[r].kind = "register"
  <2>1. r \in Inserting
    BY <1>1, <1>6 DEF Inserting
  <2>2. account = {} /\ Inserting' = {}
    BY <1>3, <2>1 DEF OneInv, OneFlushed
  <2>3. account' = {[id |-> r, password |-> r]}
    BY <1>6, <2>2 DEF Commit
  <2>4. Registered = {} /\ Registered' = {r}
    BY <2>2, <2>3 DEF Registered
  <2>5. Succeeded({"register"})' = Succeeded({"register"}) \cup {r}
    BY <1>1, <1>2, <1>4, <1>6 DEF Succeeded, OneInv, AuditedIsDone
  <2>6. AuditedIsDone'
    BY <1>5, <2>4, <2>5 DEF OneInv, AuditedIsDone
  <2> QED
    BY <1>2, <2>2, <2>3, <2>6 DEF OneInv, OneFlushed, OneRow
<1>7. CASE req[r].kind # "register"
  <2>1. Inserting' = Inserting
    BY <1>2, <1>7 DEF Inserting
  <2>2. Succeeded({"register"})' = Succeeded({"register"})
    BY <1>1, <1>2, <1>4, <1>7 DEF Succeeded, OneInv, AuditedIsDone
  <2>3. CASE req[r].kind \in {"change", "confirm"}
    <3>1. account' = {[a EXCEPT !.password = IF a.id \in req[r].user THEN r ELSE @] :
                        a \in account}
      BY <2>3 DEF Commit
    <3>2. \A b \in account' : \E a \in account :
            b.id = a.id /\ b = [id |-> a.id, password |-> IF a.id \in req[r].user
                                                          THEN r ELSE a.password]
      <4> SUFFICES ASSUME NEW a \in account, NEW b,
                          b = [a EXCEPT !.password = IF a.id \in req[r].user
                                                     THEN r ELSE @]
                   PROVE  b = [id |-> a.id, password |-> IF a.id \in req[r].user
                                                         THEN r ELSE a.password]
        BY <3>1
      <4>1. PICK i, w : a = [id |-> i, password |-> w]
        BY DEF OneInv, OneRow
      <4> QED
        BY <4>1
    <3>3. \A a \in account : \E b \in account' : b.id = a.id
      <4> TAKE a \in account
      <4>1. PICK b : b = [a EXCEPT !.password = IF a.id \in req[r].user THEN r ELSE @]
        OBVIOUS
      <4>2. PICK i, w : a = [id |-> i, password |-> w]
        BY DEF OneInv, OneRow
      <4> QED
        BY <3>1, <4>1, <4>2
    <3>4. OneRow' /\ Registered' = Registered
      BY <3>2, <3>3 DEF OneInv, OneRow, Registered
    <3>5. account = {} => account' = {}
      BY <3>1
    <3> QED
      BY <1>2, <1>5, <2>1, <2>2, <3>4, <3>5 DEF OneInv, OneFlushed, AuditedIsDone
  <2>4. CASE req[r].kind \notin {"change", "confirm"}
    <3>1. account' = account
      BY <1>7, <2>4 DEF Commit
    <3> QED
      BY <1>2, <1>5, <2>1, <2>2, <3>1
      DEF OneInv, OneFlushed, OneRow, AuditedIsDone, Registered
  <2> QED
    BY <2>3, <2>4
<1> QED
  BY <1>6, <1>7

(* The other steps of a request, and its failure.                          *)
LEMMA StepKeeps ==
  ASSUME OneInv, NEW r \in Requests,
         \/ OpenSession(r) \/ Revoke(r) \/ VerifyPassword(r) \/ SendMail(r)
         \/ WritePassword(r) \/ DropToken(r) \/ Scan(r) \/ Wipe(r) \/ Fail(r)
  PROVE  OneInv'
<1>1. /\ account' = account /\ audited' = audited
      /\ req[r].pc # "done"
  BY DEF OpenSession, Revoke, VerifyPassword, SendMail, WritePassword, DropToken, Scan,
     Wipe, Fail, At, UnderWay, store
<1>2. Requested'
  BY DEF OpenSession, Revoke, VerifyPassword, SendMail, WritePassword, DropToken, Scan,
     Wipe, Fail, Goto, OneInv, Requested, Stated
<1>3. \A q \in Requests \ {r} : req'[q] = req[q]
  BY DEF OpenSession, Revoke, VerifyPassword, SendMail, WritePassword, DropToken, Scan,
     Wipe, Fail, Goto, OneInv, Requested, Stated
<1>4. r \in Inserting' => r \in Inserting
  BY DEF OpenSession, Revoke, VerifyPassword, SendMail, WritePassword, DropToken, Scan,
     Wipe, Fail, Goto, At, Inserting, OneInv, Requested, Stated
<1> QED
  BY <1>1, <1>2, <1>3, <1>4, NothingCommitted

LEMMA OneStep ==
  ASSUME OneInv, [AccountsNext]_accountVars
  PROVE  OneInv'
<1>1. ASSUME NEW r \in Requests, SessionExpires(r) \/ TokenLapses(r)
      PROVE  OneInv'
  BY <1>1, NobodyMoved DEF SessionExpires, TokenLapses, store
<1>2. CASE UNCHANGED accountVars
  BY <1>2, NobodyMoved DEF accountVars, store
<1> QED
  BY <1>1, <1>2, ArriveKeeps, RegistrationInsertKeeps, CommitKeeps, StepKeeps
  DEF AccountsNext, AccountsStep

(* users.email is unique: however the registrations of one address         *)
(* interleave, exactly one of those that are over has succeeded, and its   *)
(* account is the only one.                                                *)
THEOREM OneAccount == AccountsSpec => []OneAccountPerAddress
<1>1. OneInv => OneAccountPerAddress
  BY DEF OneInv, OneRow, AuditedIsDone, OneAccountPerAddress
<1> QED
  BY <1>1, OneInit, OneStep, PTL DEF AccountsSpec

-------------------------------------------------------------------------------
(* Types.                                                                  *)

(* Where a request can be is a state of a request.                         *)
LEMMA GotoTypes ==
  ASSUME AccountsTypeOK, NEW r \in Requests, NEW p \in Pcs, Goto(r, p)
  PROVE  /\ req' \in [Requests -> RequestState]
         /\ req'[r].pc = p
         /\ \A q \in Requests : /\ req'[q].kind = req[q].kind
                                /\ req'[q].user = req[q].user
                                /\ req'[q].password = req[q].password
                                /\ req'[q].token = req[q].token
                                /\ req'[q].sids = req[q].sids
         /\ \A q \in Requests \ {r} : req'[q] = req[q]
BY DEF AccountsTypeOK, Goto, RequestState

LEMMA BeginTypes ==
  ASSUME AccountsTypeOK, NEW r \in Requests, NEW state \in RequestState, Begin(r, state)
  PROVE  /\ AccountsTypeOK'
         /\ req'[r] = state
         /\ \A q \in Requests \ {r} : req'[q] = req[q]
<1>1. req' \in [Requests -> RequestState]
  BY DEF AccountsTypeOK, Begin
<1>2. met' \in [Requests -> SUBSET Requests]
  BY DEF AccountsTypeOK, Begin, UnderWay
<1> QED
  BY <1>1, <1>2 DEF AccountsTypeOK, Begin, store, redis

LEMMA TypeInit == AccountsInit => AccountsTypeOK
BY AccountsAssumption DEF AccountsInit, AccountsTypeOK, RequestState, Away, Pcs, RequestKinds

(* What a request that comes is like.                                      *)
Newcomer(state) ==
  /\ state \in RequestState
  /\ state.kind = "register" => state.pc = "insert" /\ state.user = {} /\ account = {}
  /\ state.kind = "login" =>
       state.pc = "session" /\ state.user = Registered /\ state.password = Password
  /\ state.kind = "logout" => state.pc = "revoke"
  /\ state.kind = "change" => state.pc = "read"
  /\ state.kind = "start" => state.pc \in {"mail", "done"}
  /\ state.kind = "confirm" =>
       /\ state.pc \in {"write", "done"}
       /\ \E t \in mailed : state.token = {t} /\ (state.pc = "write" => t \in tokens)

LEMMA Arriving ==
  ASSUME AccountsTypeOK, NEW r \in Requests, Arrive(r)
  PROVE  \E state : Newcomer(state) /\ Begin(r, state)
<1>1. Registered \subseteq Requests /\ Password \subseteq Requests
  BY DEF AccountsTypeOK, Registered, Password
<1>2. CASE Register(r)
  <2>1. account = {} /\ Begin(r, [Away EXCEPT !.pc = "insert", !.kind = "register"])
    BY <1>2 DEF Register
  <2>2. PICK state : state = [Away EXCEPT !.pc = "insert", !.kind = "register"]
    OBVIOUS
  <2>3. Newcomer(state)
    BY <2>1, <2>2 DEF Newcomer, RequestState, Away, Pcs, RequestKinds
  <2> QED
    BY <2>1, <2>2, <2>3
<1>3. CASE Login(r)
  <2>1. Begin(r, [Away EXCEPT !.pc = "session", !.kind = "login", !.user = Registered, !.password = Password])
    BY <1>3 DEF Login
  <2>2. PICK state : state = [Away EXCEPT !.pc = "session", !.kind = "login", !.user = Registered, !.password = Password]
    OBVIOUS
  <2>3. Newcomer(state)
    BY <1>1, <2>2 DEF Newcomer, RequestState, Away, Pcs, RequestKinds
  <2> QED
    BY <2>1, <2>2, <2>3
<1>4. CASE Logout(r)
  <2>1. PICK u \in Requests, target \in Requests :
          Begin(r, [Away EXCEPT !.pc = "revoke", !.kind = "logout", !.user = {u}, !.sids = {target}])
    BY <1>4 DEF Logout, Issued
  <2>2. PICK state : state = [Away EXCEPT !.pc = "revoke", !.kind = "logout", !.user = {u}, !.sids = {target}]
    OBVIOUS
  <2>3. Newcomer(state)
    BY <2>2 DEF Newcomer, RequestState, Away, Pcs, RequestKinds
  <2> QED
    BY <2>1, <2>2, <2>3
<1>5. CASE ChangePassword(r)
  <2>1. PICK u \in Requests : Begin(r, [Away EXCEPT !.pc = "read", !.kind = "change", !.user = {u}])
    BY <1>5 DEF ChangePassword
  <2>2. PICK state : state = [Away EXCEPT !.pc = "read", !.kind = "change", !.user = {u}]
    OBVIOUS
  <2>3. Newcomer(state)
    BY <2>2 DEF Newcomer, RequestState, Away, Pcs, RequestKinds
  <2> QED
    BY <2>1, <2>2, <2>3
<1>6. CASE StartReset(r)
  <2>1. Begin(r, [Away EXCEPT !.pc = IF account = {} THEN "done" ELSE "mail",
                                !.kind = "start", !.user = Registered])
    BY <1>6 DEF StartReset
  <2>2. PICK state : state = [Away EXCEPT !.pc = IF account = {} THEN "done" ELSE "mail",
                                !.kind = "start", !.user = Registered]
    OBVIOUS
  <2>3. Newcomer(state)
    BY <1>1, <2>2 DEF Newcomer, RequestState, Away, Pcs, RequestKinds
  <2> QED
    BY <2>1, <2>2, <2>3
<1>7. CASE ConfirmReset(r)
  <2>1. PICK t \in mailed : Begin(r, [Away EXCEPT !.pc = IF t \in tokens \ lapsed THEN "write" ELSE "done",
                                !.kind = "confirm", !.user = req[t].user, !.token = {t}])
    BY <1>7 DEF ConfirmReset
  <2>4. t \in Requests /\ req[t].user \in SUBSET Requests
    BY DEF AccountsTypeOK, RequestState
  <2>2. PICK state : state = [Away EXCEPT !.pc = IF t \in tokens \ lapsed THEN "write" ELSE "done",
                                !.kind = "confirm", !.user = req[t].user, !.token = {t}]
    OBVIOUS
  <2>3. Newcomer(state)
    BY <2>4, <2>2 DEF Newcomer, RequestState, Away, Pcs, RequestKinds
  <2> QED
    BY <2>1, <2>2, <2>3
<1> QED
  BY <1>2, <1>3, <1>4, <1>5, <1>6, <1>7 DEF Arrive

(* Sessions are saved by registrations and logins, and once.               *)
SavedOnce ==
  \A s \in Issued : req[s].kind \in {"register", "login"} /\ req[s].pc \in {"commit", "done"}

(* One request moves on: what it has read may change with its place.       *)
Moves(r) ==
  /\ \A q \in Requests \ {r} : req'[q] = req[q]
  /\ req'[r].kind = req[r].kind
  /\ req[r].pc \notin {"away", "done"}
  /\ req'[r].pc # "away"
  /\ met' = met

(* A request that has read something and moves on.                         *)
LEMMA MovesTo ==
  ASSUME NEW s \in RequestState, NEW p \in Pcs, NEW u \in SUBSET Requests,
         NEW w \in SUBSET Requests, NEW i \in SUBSET Requests
  PROVE  /\ [s EXCEPT !.pc = p, !.user = u, !.password = w] \in RequestState
         /\ [s EXCEPT !.pc = p, !.password = w] \in RequestState
         /\ [s EXCEPT !.pc = p, !.sids = i] \in RequestState
BY DEF RequestState

LEMMA CommitTypes ==
  ASSUME AccountsTypeOK, NEW r \in Requests, Commit(r)
  PROVE  account' \subseteq [id : Requests, password : Requests]
<1>1. CASE req[r].kind = "register"
  BY <1>1 DEF Commit, AccountsTypeOK
<1>2. CASE req[r].kind \in {"change", "confirm"}
  <2>1. account' = {[a EXCEPT !.password = IF a.id \in req[r].user THEN r ELSE @] : a \in account}
    BY <1>2 DEF Commit
  <2>2. \A a \in account : a \in [id : Requests, password : Requests]
    BY DEF AccountsTypeOK
  <2> QED
    BY <2>1, <2>2
<1>3. CASE req[r].kind \notin {"register", "change", "confirm"}
  BY <1>3 DEF Commit, AccountsTypeOK
<1> QED
  BY <1>1, <1>2, <1>3

LEMMA StepTypes ==
  ASSUME AccountsTypeOK, SavedOnce, NEW r \in Requests, AccountsStep(r) \/ Fail(r)
  PROVE  AccountsTypeOK' /\ Moves(r)
<1> USE DEF Moves, store, redis, At
<1>13. req[r] \in RequestState /\ {"session", "write", "commit", "wipe"} \subseteq Pcs
  BY DEF AccountsTypeOK, Pcs
<1>1. ASSUME NEW p \in Pcs, Goto(r, p), met' = met, p # "away",
             req[r].pc \notin {"away", "done"}
      PROVE  req' \in [Requests -> RequestState] /\ Moves(r)
  BY <1>1, GotoTypes
<1>2. CASE InsertUser(r)
  <2>1. req' \in [Requests -> RequestState] /\ Moves(r)
    <3>1. PICK state : state = [req[r] EXCEPT !.pc = "session", !.user = {r}, !.password = {r}]
      OBVIOUS
    <3>2. state \in RequestState /\ state.kind = req[r].kind /\ state.pc = "session"
      BY <1>13, <3>1, MovesTo DEF RequestState
    <3>3. CASE account = {}
      <4>1. req' = [req EXCEPT ![r] = state]
        BY <1>2, <3>1, <3>3 DEF InsertUser, AccountsTypeOK
      <4> QED
        BY <1>2, <3>2, <4>1 DEF InsertUser, AccountsTypeOK
    <3> QED
      BY <1>1, <1>2, <3>3 DEF InsertUser, Goto, Pcs
  <2> QED
    BY <1>2, <2>1 DEF InsertUser, AccountsTypeOK
<1>3. CASE OpenSession(r)
  <2>1. PICK u \in req[r].user : SaveSession(r, u)
    BY <1>3 DEF OpenSession
  <2>2. u \in Requests
    BY DEF AccountsTypeOK, RequestState
  <2>3. index' \in [Requests -> SUBSET Requests]
    BY <2>1, <2>2 DEF SaveSession, AccountsTypeOK
  <2>4. req' \in [Requests -> RequestState] /\ Moves(r)
    BY <1>1, <1>3 DEF OpenSession, Pcs
  <2>5. r \notin expired
    BY <1>3 DEF OpenSession, SavedOnce, Issued
  <2> QED
    BY <1>3, <2>1, <2>3, <2>4, <2>5 DEF OpenSession, SaveSession, AccountsTypeOK
<1>4. CASE Revoke(r)
  <2>1. req' \in [Requests -> RequestState] /\ Moves(r)
    BY <1>1, <1>4 DEF Revoke, Pcs
  <2>2. index' \in [Requests -> SUBSET Requests]
    BY <1>4 DEF Revoke, AccountsTypeOK
  <2> QED
    BY <1>4, <2>1, <2>2 DEF Revoke, AccountsTypeOK
<1>5. CASE VerifyPassword(r)
  <2>1. Password \subseteq Requests
    BY DEF AccountsTypeOK, Password
  <2>2. req' \in [Requests -> RequestState] /\ Moves(r)
    <3>1. PICK state : state = [req[r] EXCEPT !.pc = "write", !.password = Password]
      OBVIOUS
    <3>2. state \in RequestState /\ state.kind = req[r].kind /\ state.pc = "write"
      BY <1>13, <2>1, <3>1, MovesTo DEF RequestState
    <3>3. CASE Goto(r, "done")
      BY <1>1, <1>5, <3>3 DEF VerifyPassword, Pcs
    <3>4. CASE req' = [req EXCEPT ![r].pc = "write", ![r].password = Password]
      <4>1. req' = [req EXCEPT ![r] = state]
        BY <3>1, <3>4 DEF AccountsTypeOK
      <4> QED
        BY <1>5, <3>2, <4>1 DEF VerifyPassword, AccountsTypeOK
    <3> QED
      BY <1>5, <3>3, <3>4 DEF VerifyPassword
  <2> QED
    BY <1>5, <2>2 DEF VerifyPassword, AccountsTypeOK
<1>6. CASE SendMail(r)
  <2>1. req' \in [Requests -> RequestState] /\ Moves(r)
    BY <1>1, <1>6 DEF SendMail, Pcs
  <2> QED
    BY <1>6, <2>1 DEF SendMail, AccountsTypeOK
<1>7. CASE WritePassword(r)
  <2>1. req' \in [Requests -> RequestState] /\ Moves(r)
    BY <1>1, <1>7 DEF WritePassword, Pcs
  <2> QED
    BY <1>7, <2>1 DEF WritePassword, AccountsTypeOK
<1>8. CASE DropToken(r)
  <2>1. req' \in [Requests -> RequestState] /\ Moves(r)
    BY <1>1, <1>8 DEF DropToken, Pcs
  <2> QED
    BY <1>8, <2>1 DEF DropToken, AccountsTypeOK
<1>9. CASE Scan(r)
  <2>1. UNION {index[u] : u \in req[r].user} \subseteq Requests
    BY DEF AccountsTypeOK, RequestState
  <2>2. req' \in [Requests -> RequestState] /\ Moves(r)
    <3> DEFINE sids == UNION {index[u] : u \in req[r].user}
    <3>1. PICK state : state = [req[r] EXCEPT !.pc = IF sids = {} THEN "commit" ELSE "wipe",
                                              !.sids = sids]
      OBVIOUS
    <3>2. state \in RequestState /\ state.kind = req[r].kind /\ state.pc # "away"
      BY <1>13, <2>1, <3>1, MovesTo DEF RequestState
    <3>3. req' = [req EXCEPT ![r] = state]
      <4>1. req' = [req EXCEPT ![r].pc = IF sids = {} THEN "commit" ELSE "wipe",
                               ![r].sids = sids]
        BY <1>9 DEF Scan
      <4>2. req = [q \in Requests |-> req[q]]
        BY DEF AccountsTypeOK
      <4> HIDE DEF sids
      <4> QED
        BY <3>1, <4>1, <4>2
    <3>4. req \in [Requests -> RequestState] /\ met' = met
          /\ req[r].pc \notin {"away", "done"}
      BY <1>9 DEF Scan, At, AccountsTypeOK
    <3> HIDE DEF sids
    <3> QED
      BY <3>2, <3>3, <3>4 DEF Moves
  <2> QED
    BY <1>9, <2>2 DEF Scan, AccountsTypeOK
<1>10. CASE Wipe(r)
  <2>1. req' \in [Requests -> RequestState] /\ Moves(r)
    BY <1>1, <1>10 DEF Wipe, Pcs
  <2>2. index' \in [Requests -> SUBSET Requests]
    BY <1>10 DEF Wipe, AccountsTypeOK
  <2> QED
    BY <1>10, <2>1, <2>2 DEF Wipe, AccountsTypeOK
<1>11. CASE Commit(r)
  <2>1. req' \in [Requests -> RequestState] /\ Moves(r)
    BY <1>1, <1>11 DEF Commit, Pcs
  <2>2. tokens' \subseteq Requests /\ audited' \subseteq Requests
    BY <1>11 DEF Commit, AccountsTypeOK
  <2> QED
    BY <1>11, <2>1, <2>2, CommitTypes DEF Commit, AccountsTypeOK
<1>12. CASE Fail(r)
  <2>1. req' \in [Requests -> RequestState] /\ Moves(r)
    BY <1>1, <1>12 DEF Fail, Pcs, UnderWay
  <2> QED
    BY <1>12, <2>1, AccountsAssumption DEF Fail, AccountsTypeOK
<1> QED
  BY <1>2, <1>3, <1>4, <1>5, <1>6, <1>7, <1>8, <1>9, <1>10, <1>11, <1>12 DEF AccountsStep

LEMMA LapseTypes ==
  ASSUME AccountsTypeOK, NEW r \in Requests, SessionExpires(r) \/ TokenLapses(r)
  PROVE  AccountsTypeOK'
BY DEF AccountsTypeOK, SessionExpires, TokenLapses, store, redis

(* A session is saved by its request alone.                                *)
LEMMA SaveStep ==
  ASSUME AccountsTypeOK, SavedOnce, NEW r \in Requests, AccountsStep(r) \/ Fail(r)
  PROVE  SavedOnce'
<1>1. CASE OpenSession(r)
  <2>1. PICK u \in req[r].user : SaveSession(r, u)
    BY <1>1 DEF OpenSession
  <2>2. Issued' \subseteq Issued \cup {r}
    BY <2>1 DEF Issued, SaveSession, AccountsTypeOK
  <2>3. req'[r].kind \in {"register", "login"} /\ req'[r].pc = "commit"
    BY <1>1, GotoTypes DEF OpenSession, At, Pcs
  <2> QED
    BY <2>2, <2>3, StepTypes DEF SavedOnce, Moves, Issued
<1>2. CASE ~OpenSession(r)
  <2>1. Issued' \subseteq Issued
    BY <1>2 DEF AccountsStep, InsertUser, Revoke, VerifyPassword, SendMail, WritePassword,
       DropToken, Scan, Wipe, Commit, Fail, Issued, redis, AccountsTypeOK
  <2>2. \A s \in Issued : s = r => req[r].pc = "commit" /\ req'[r].pc = "done"
    <3> SUFFICES ASSUME r \in Issued
                 PROVE  req[r].pc = "commit" /\ req'[r].pc = "done"
      OBVIOUS
    <3>1. req[r].kind \in {"register", "login"} /\ req[r].pc \in {"commit", "done"}
      BY DEF SavedOnce
    <3>2. Commit(r) \/ Fail(r)
      BY <1>2, <3>1 DEF AccountsStep, InsertUser, Revoke, VerifyPassword, SendMail,
         WritePassword, DropToken, Scan, Wipe, At
    <3> QED
      BY <3>1, <3>2, GotoTypes DEF Commit, Fail, UnderWay, Pcs
  <2>3. \A q \in Requests : req'[q].kind = req[q].kind
    BY StepTypes DEF Moves
  <2> QED
    BY <2>1, <2>2, <2>3, StepTypes DEF SavedOnce, Moves, Issued
<1> QED
  BY <1>1, <1>2

Typed == AccountsTypeOK /\ SavedOnce

LEMMA TypedInit == AccountsInit => Typed
BY TypeInit DEF Typed, AccountsInit, SavedOnce, Issued

LEMMA TypedStep ==
  ASSUME Typed, [AccountsNext]_accountVars
  PROVE  Typed'
<1>1. ASSUME NEW r \in Requests, Arrive(r) PROVE Typed'
  <2>1. PICK state : Newcomer(state) /\ Begin(r, state)
    BY <1>1, Arriving DEF Typed
  <2>2. req[r].pc = "away" /\ Issued' = Issued
    BY <2>1 DEF Begin, Issued, redis
  <2>3. r \notin Issued
    BY <2>2 DEF Typed, SavedOnce
  <2> QED
    BY <2>1, <2>2, <2>3, BeginTypes DEF Typed, SavedOnce, Newcomer, Issued
<1>2. ASSUME NEW r \in Requests, SessionExpires(r) \/ TokenLapses(r) PROVE Typed'
  <2>1. Issued' = Issued /\ req' = req
    BY <1>2 DEF SessionExpires, TokenLapses, Issued, redis, Typed, AccountsTypeOK
  <2> QED
    BY <1>2, <2>1, LapseTypes DEF Typed, SavedOnce
<1>3. CASE UNCHANGED accountVars
  BY <1>3 DEF Typed, AccountsTypeOK, SavedOnce, Issued, accountVars, store, redis
<1> QED
  BY <1>1, <1>2, <1>3, StepTypes, SaveStep DEF AccountsNext, Typed

(* Whatever the requests do to the tables, the Redis keys and what they    *)
(* have read stays what it is meant to be.                                 *)
THEOREM AccountsTypeCorrect == AccountsSpec => []AccountsTypeOK
BY TypedInit, TypedStep, PTL DEF AccountsSpec, Typed

-------------------------------------------------------------------------------
(* Who has met whom.                                                       *)

(* Requests that are under way together know of each other.                *)
Acquainted == \A p, q \in UnderWay : p # q => p \in met[q]

(* A request that has not come has read nothing.                           *)
AwayIsAway == \A r \in Requests : req[r].pc = "away" => req[r] = Away

MetInv == Typed /\ Acquainted /\ AwayIsAway

(* A change of password was under way at the same time.                    *)
Excused(s) == met[s] \cap Changing # {}

(* What has begun stays what it is, and has met whom it has met.           *)
Growing ==
  \A q \in Requests : req[q].pc # "away" =>
    /\ req'[q].pc # "away" /\ req'[q].kind = req[q].kind
    /\ met[q] \subseteq met'[q]
    /\ Excused(q) => Excused(q)'

LEMMA Grows ==
  ASSUME MetInv,
         \A q \in Requests : req[q].pc # "away" =>
           req'[q].pc # "away" /\ req'[q].kind = req[q].kind /\ met[q] \subseteq met'[q]
  PROVE  Growing
<1>1. Changing \subseteq Changing'
  <2> SUFFICES ASSUME NEW c \in Changing PROVE c \in Changing'
    OBVIOUS
  <2>1. req[c].pc # "away"
    BY DEF MetInv, AwayIsAway, Away, Changing
  <2> QED
    BY <2>1 DEF Changing
<1> QED
  BY <1>1 DEF Growing, Excused

LEMMA MetInit == AccountsInit => MetInv
BY TypedInit DEF MetInv, AccountsInit, Acquainted, AwayIsAway, UnderWay, Away

LEMMA MetBegin ==
  ASSUME MetInv, NEW r \in Requests, NEW state \in RequestState, Begin(r, state),
         state.pc # "away"
  PROVE  Acquainted' /\ AwayIsAway' /\ Growing
<1>1. /\ req[r].pc = "away" /\ req'[r] = state
      /\ \A q \in Requests \ {r} : req'[q] = req[q]
  BY BeginTypes DEF Begin, MetInv, Typed
<1>2. UnderWay' \subseteq UnderWay \cup {r} /\ r \notin UnderWay
  BY <1>1 DEF UnderWay
<1>3. /\ met'[r] = UnderWay
      /\ \A q \in UnderWay : met'[q] = met[q] \cup {r}
      /\ \A q \in Requests \ {r} : met[q] \subseteq met'[q]
  BY <1>2 DEF Begin, UnderWay
<1>4. Acquainted'
  BY <1>2, <1>3 DEF MetInv, Acquainted
<1>5. AwayIsAway'
  BY <1>1 DEF MetInv, AwayIsAway
<1>6. Growing
  BY <1>1, <1>3, Grows
<1> QED
  BY <1>4, <1>5, <1>6

LEMMA MetMoves ==
  ASSUME MetInv, NEW r \in Requests, Moves(r)
  PROVE  Acquainted' /\ AwayIsAway' /\ Growing
<1>1. UnderWay' \subseteq UnderWay
  BY DEF UnderWay, Moves
<1>2. Acquainted'
  BY <1>1 DEF MetInv, Acquainted, Moves
<1>3. AwayIsAway'
  BY DEF MetInv, AwayIsAway, Moves
<1>4. Growing
  BY Grows DEF Moves
<1> QED
  BY <1>2, <1>3, <1>4

LEMMA MetStays ==
  ASSUME MetInv, req' = req, met' = met
  PROVE  Acquainted' /\ AwayIsAway' /\ Growing
BY Grows DEF MetInv, Acquainted, AwayIsAway, UnderWay

LEMMA MetStep ==
  ASSUME MetInv, [AccountsNext]_accountVars
  PROVE  MetInv' /\ Growing
<1>1. ASSUME NEW r \in Requests, Arrive(r) PROVE Acquainted' /\ AwayIsAway' /\ Growing
  <2>1. PICK state : Newcomer(state) /\ Begin(r, state)
    BY <1>1, Arriving DEF MetInv, Typed
  <2>2. state \in RequestState /\ state.pc # "away"
    BY <2>1 DEF Newcomer, RequestState, RequestKinds
  <2> QED
    BY <2>1, <2>2, MetBegin
<1>2. ASSUME NEW r \in Requests, AccountsStep(r) \/ Fail(r)
      PROVE  Acquainted' /\ AwayIsAway' /\ Growing
  BY <1>2, StepTypes, MetMoves DEF MetInv, Typed
<1>3. ASSUME NEW r \in Requests, SessionExpires(r) \/ TokenLapses(r)
      PROVE  Acquainted' /\ AwayIsAway' /\ Growing
  BY <1>3, MetStays DEF SessionExpires, TokenLapses
<1>4. UNCHANGED accountVars => Acquainted' /\ AwayIsAway' /\ Growing
  BY MetStays DEF accountVars
<1> QED
  BY <1>1, <1>2, <1>3, <1>4, TypedStep DEF AccountsNext, MetInv

-------------------------------------------------------------------------------
(* What a request has read.                                                *)

(* Whom a session is for, and the password it was opened with.             *)
OpenedFor ==
  \A s \in Requests :
    /\ req[s].kind = "login" => req[s].user \subseteq Registered
    /\ req[s].kind = "register" =>
         /\ req[s].user \subseteq {s}
         /\ req[s].user # {} => req[s].password = {s}
         /\ req[s].pc = "insert" => req[s].user = {}

(* What a commit does to the row of the account.                           *)
LEMMA CommittedAccount ==
  ASSUME Typed, OneInv, NEW r \in Requests, Commit(r)
  PROVE  /\ req[r].kind = "register" =>
              account = {} /\ account' = {[id |-> r, password |-> r]}
         /\ req[r].kind \in {"change", "confirm"} =>
              account' = {[id |-> a.id, password |-> IF a.id \in req[r].user THEN r
                                                     ELSE a.password] : a \in account}
         /\ req[r].kind \notin {"register", "change", "confirm"} => account' = account
<1>1. ASSUME req[r].kind = "register"
      PROVE  account = {} /\ account' = {[id |-> r, password |-> r]}
  <2>1. r \in Inserting
    BY <1>1 DEF Commit, Inserting
  <2>2. account = {}
    BY <2>1 DEF OneInv, OneFlushed
  <2> QED
    BY <1>1, <2>2 DEF Commit
<1>2. ASSUME req[r].kind \in {"change", "confirm"}
      PROVE  account' = {[id |-> a.id, password |-> IF a.id \in req[r].user THEN r
                                                    ELSE a.password] : a \in account}
  <2>1. account' = {[a EXCEPT !.password = IF a.id \in req[r].user THEN r ELSE @] : a \in account}
    BY <1>2 DEF Commit
  <2>2. \A a \in account : [a EXCEPT !.password = IF a.id \in req[r].user THEN r ELSE @]
          = [id |-> a.id, password |-> IF a.id \in req[r].user THEN r ELSE a.password]
    <3> SUFFICES ASSUME NEW a \in account
                 PROVE  [a EXCEPT !.password = IF a.id \in req[r].user THEN r ELSE @]
                   = [id |-> a.id, password |-> IF a.id \in req[r].user THEN r ELSE a.password]
      OBVIOUS
    <3>1. PICK i, w : a = [id |-> i, password |-> w]
      BY DEF Typed, AccountsTypeOK
    <3> QED
      BY <3>1
  <2> DEFINE new(a) == [a EXCEPT !.password = IF a.id \in req[r].user THEN r ELSE @]
             row(a) == [id |-> a.id, password |-> IF a.id \in req[r].user THEN r
                                                  ELSE a.password]
  <2>3. account' = {new(a) : a \in account} /\ \A a \in account : new(a) = row(a)
    BY <2>1, <2>2
  <2> HIDE DEF new, row
  <2>4. account' = {row(a) : a \in account}
    BY <2>3
  <2> QED
    BY <2>4 DEF row
<1>3. ASSUME req[r].kind \notin {"register", "change", "confirm"} PROVE account' = account
  BY <1>3 DEF Commit
<1> QED
  BY <1>1, <1>2, <1>3

(* Only a commit changes the account, and no account goes away.            *)
LEMMA AccountsStay ==
  ASSUME MetInv, OneInv, NEW r \in Requests, AccountsStep(r) \/ Fail(r)
  PROVE  /\ Registered \subseteq Registered'
         /\ ~Commit(r) => account' = account
<1>1. CASE Commit(r)
  <2>1. ASSUME NEW a \in account
        PROVE  a.id \in Registered'
    <3>1. CASE req[r].kind \in {"change", "confirm"}
      <4>1. [id |-> a.id, password |-> IF a.id \in req[r].user THEN r ELSE a.password]
              \in account'
        BY <1>1, <3>1, CommittedAccount DEF MetInv
      <4> QED
        BY <4>1 DEF Registered
    <3> QED
      BY <1>1, <3>1, CommittedAccount DEF MetInv, Registered
  <2> QED
    BY <1>1, <2>1 DEF Registered
<1>2. CASE ~Commit(r)
  <2>1. account' = account
    BY <1>2 DEF AccountsStep, InsertUser, OpenSession, Revoke, VerifyPassword, SendMail,
       WritePassword, DropToken, Scan, Wipe, Fail, store
  <2> QED
    BY <2>1 DEF Registered
<1> QED
  BY <1>1, <1>2

(* Nothing but its own steps changes what a request has read, and those of *)
(* a registration or a login only at the INSERT.                           *)
LEMMA WhatWasRead ==
  ASSUME MetInv, NEW r \in Requests, AccountsStep(r) \/ Fail(r)
  PROVE  /\ req'[r].user = req[r].user \/ InsertUser(r)
         /\ req'[r].password = req[r].password \/ InsertUser(r) \/ VerifyPassword(r)
         /\ req'[r].token = req[r].token
         /\ req'[r].sids = req[r].sids \/ Scan(r)
<1> USE DEF MetInv, Typed
<1>1. CASE InsertUser(r)
  BY <1>1 DEF InsertUser, AccountsTypeOK, RequestState
<1>2. CASE VerifyPassword(r)
  BY <1>2, GotoTypes DEF VerifyPassword, AccountsTypeOK, RequestState, Pcs
<1>3. CASE Scan(r)
  BY <1>3 DEF Scan, AccountsTypeOK, RequestState
<1>4. CASE \E p \in Pcs : Goto(r, p)
  BY <1>4, GotoTypes
<1> QED
  BY <1>1, <1>2, <1>3, <1>4 DEF AccountsStep, OpenSession, Revoke, SendMail, WritePassword,
     DropToken, Wipe, Commit, Fail, Pcs

LEMMA OpenedStep ==
  ASSUME MetInv, OneInv, OpenedFor, NEW r \in Requests, AccountsStep(r) \/ Fail(r)
  PROVE  OpenedFor'
<1>1. \A q \in Requests \ {r} : req'[q] = req[q]
  BY StepTypes DEF MetInv, Typed, Moves
<1>2. req'[r].kind = req[r].kind
  BY StepTypes DEF MetInv, Typed, Moves
<1>3. req'[r].pc # "insert"
  <2>1. AccountsTypeOK /\ req \in [Requests -> RequestState]
    BY DEF MetInv, Typed, AccountsTypeOK
  <2>2. CASE InsertUser(r)
    BY <2>1, <2>2 DEF InsertUser, RequestState
  <2>3. CASE VerifyPassword(r)
    BY <2>1, <2>3, GotoTypes DEF VerifyPassword, Pcs, RequestState
  <2>4. CASE Scan(r)
    BY <2>1, <2>4 DEF Scan, RequestState
  <2>5. CASE \E p \in Pcs \ {"insert"} : Goto(r, p)
    BY <2>1, <2>5, GotoTypes
  <2> QED
    BY <2>2, <2>3, <2>4, <2>5 DEF AccountsStep, OpenSession, Revoke, SendMail, WritePassword,
       DropToken, Wipe, Commit, Fail, Pcs
<1>4. CASE InsertUser(r)
  <2>1. req[r].kind = "register" /\ req[r].user = {}
    BY <1>4 DEF InsertUser, At, OpenedFor
  <2>2. (req'[r].user = {r} /\ req'[r].password = {r}) \/ req'[r].user = {}
    BY <1>4, <2>1 DEF InsertUser, MetInv, Typed, AccountsTypeOK, RequestState
  <2> QED
    BY <1>1, <1>2, <1>3, <2>1, <2>2, AccountsStay DEF OpenedFor
<1>5. CASE ~InsertUser(r)
  <2>1. req'[r].user = req[r].user
    BY <1>5, WhatWasRead
  <2>2. req[r].kind = "register" => req'[r].password = req[r].password
    BY <1>5, WhatWasRead DEF VerifyPassword, At
  <2> QED
    BY <1>1, <1>2, <1>3, <2>1, <2>2, AccountsStay DEF OpenedFor
<1> QED
  BY <1>4, <1>5

LEMMA OpenedBegin ==
  ASSUME MetInv, OpenedFor, NEW r \in Requests, NEW state, Newcomer(state), Begin(r, state)
  PROVE  OpenedFor'
<1>1. req'[r] = state /\ \A q \in Requests \ {r} : req'[q] = req[q]
  BY BeginTypes DEF MetInv, Typed, Newcomer
<1>2. Registered' = Registered
  BY DEF Begin, store, Registered
<1> QED
  BY <1>1, <1>2 DEF OpenedFor, Newcomer

-------------------------------------------------------------------------------
(* Sessions and passwords.                                                 *)

(* revoke_all: the sessions it has read are all there are, and once it is  *)
(* over there are none, but for those of logins under way.                 *)
Revoking ==
  \A r \in Changing : \A s \in live :
    /\ req[r].pc \in {"wipe", "commit"}
    /\ req[s].user \cap req[r].user # {}
    => Excused(s) \/ (req[r].pc = "wipe" /\ s \in req[r].sids)

(* A session, or one about to be saved, goes by the password in force.     *)
InForce ==
  \A s \in Requests : \A a \in account :
    /\ s \in live \/ At(s, {"register", "login"}, "session")
    /\ req[s].user = {a.id}
    /\ req[s].password # {a.password}
    => Excused(s)

SessionInv ==
  /\ MetInv /\ OneInv /\ OpenedFor
  /\ SessionsAreListed /\ Revoking /\ InForce

(* A session that is let in was saved.                                     *)
LEMMA LiveIsSaved ==
  ASSUME MetInv, NEW s \in live
  PROVE  /\ s \in Requests
         /\ req[s].kind \in {"register", "login"} /\ req[s].pc \in {"commit", "done"}
         /\ s \notin expired
BY DEF MetInv, Typed, SavedOnce, Issued, AccountsTypeOK

(* A request that is not past its commit and a change of password between  *)
(* its two round trips, or before its commit, have met.                    *)
LEMMA MeetsChange ==
  ASSUME MetInv, NEW s \in UnderWay, NEW r \in Changing, r # s,
         req[r].pc \notin {"away", "done"}
  PROVE  Excused(s)
BY DEF MetInv, Acquainted, Excused, UnderWay, Changing

(* Steps that only take sessions away, and save none.                      *)
LEMMA SaveNothing ==
  ASSUME SessionInv, Typed', Growing,
         live' \subseteq live, account' = account,
         \A s \in live' : /\ req'[s].user = req[s].user
                          /\ \A u \in req[s].user : s \in index[u] => s \in index'[u] \/ Excused(s),
         \A s \in live' : req'[s].password = req[s].password,
         \A s \in Requests : At(s, {"register", "login"}, "session")' =>
            \/ At(s, {"register", "login"}, "session") /\ req'[s] = req[s]
            \/ \A a \in account : req'[s].user = {a.id} => req'[s].password = {a.password}
  PROVE  SessionsAreListed' /\ InForce'
<1>1. \A s \in live : s \in Requests /\ req[s].pc # "away" /\ s \notin expired
  BY LiveIsSaved DEF SessionInv
<1>2. \A s \in live' : s \in Requests /\ s \notin expired'
  BY DEF Typed, AccountsTypeOK
<1>3. \A s \in live' : Excused(s) => Excused(s)'
  BY <1>1 DEF Growing
<1>4. SessionsAreListed'
  <2> SUFFICES ASSUME NEW s \in live', NEW u \in req'[s].user
               PROVE  s \in ListActive(u)' \/ Excused(s)'
    BY DEF SessionsAreListed, Excused
  <2>1. s \in live /\ u \in req[s].user
    OBVIOUS
  <2>2. s \in index[u] \/ Excused(s)
    BY <2>1 DEF SessionInv, SessionsAreListed, ListActive, Excused
  <2>3. s \in index'[u] \/ Excused(s)'
    BY <1>3, <2>1, <2>2
  <2> QED
    BY <1>2, <2>3 DEF ListActive
<1>5. InForce'
  <2> SUFFICES ASSUME NEW s \in Requests, NEW a \in account,
                      s \in live' \/ At(s, {"register", "login"}, "session")',
                      req'[s].user = {a.id}, req'[s].password # {a.password}
               PROVE  Excused(s)'
    BY DEF InForce
  <2>1. CASE s \in live'
    BY <1>3, <2>1 DEF SessionInv, InForce
  <2>2. CASE At(s, {"register", "login"}, "session") /\ req'[s] = req[s]
    BY <2>2 DEF SessionInv, InForce, Growing, At
  <2> QED
    BY <2>1, <2>2
<1> QED
  BY <1>4, <1>5

(* revoke_all leaves alone what Revoking says, whatever else goes on.      *)
LEMMA RevokingStays ==
  ASSUME SessionInv, Typed', Growing,
         live' \subseteq live,
         \A s \in live' : req'[s].user = req[s].user,
         \A r \in Changing' : req'[r].pc \in {"wipe", "commit"} =>
            /\ r \in Changing
            /\ req'[r].user = req[r].user
            /\ \/ req'[r].pc = req[r].pc /\ req'[r].sids = req[r].sids
               \/ \A s \in live' : req[s].user \cap req[r].user # {} =>
                    Excused(s) \/ (req'[r].pc = "wipe" /\ s \in req'[r].sids)
  PROVE  Revoking'
<1>1. \A s \in live' : Excused(s) => Excused(s)'
  BY LiveIsSaved DEF SessionInv, Growing
<1> SUFFICES ASSUME NEW r \in Changing', NEW s \in live', req'[r].pc \in {"wipe", "commit"},
                    req'[s].user \cap req'[r].user # {}
             PROVE  Excused(s)' \/ (req'[r].pc = "wipe" /\ s \in req'[r].sids)
  BY DEF Revoking
<1>2. r \in Changing /\ s \in live /\ req[s].user \cap req[r].user # {}
  OBVIOUS
<1>3. CASE req'[r].pc = req[r].pc /\ req'[r].sids = req[r].sids
  BY <1>1, <1>2, <1>3 DEF SessionInv, Revoking
<1>4. CASE \A q \in live' : req[q].user \cap req[r].user # {} =>
             Excused(q) \/ (req'[r].pc = "wipe" /\ q \in req'[r].sids)
  BY <1>1, <1>2, <1>4
<1> QED
  BY <1>3, <1>4

Sessions == SessionsAreListed /\ Revoking /\ InForce

LEMMA BeginSessions ==
  ASSUME SessionInv, Typed', Growing, NEW r \in Requests, NEW state, Newcomer(state),
         Begin(r, state)
  PROVE  Sessions'
<1>1. req'[r] = state /\ req[r].pc = "away" /\ \A q \in Requests \ {r} : req'[q] = req[q]
  BY BeginTypes DEF SessionInv, MetInv, Typed, Newcomer, Begin
<1>2. live' = live /\ account' = account /\ index' = index
  BY DEF Begin, store, redis
<1>3. \A s \in live : s \in Requests /\ s # r
  BY <1>1, LiveIsSaved DEF SessionInv
<1>4. \A a \in account : state.kind = "login" => state.password = {a.password}
  BY DEF Newcomer, Password, SessionInv, OneInv, OneRow
<1>5. state.kind \in {"register", "login"} /\ state.pc = "session" => state.kind = "login"
  BY DEF Newcomer
<1>6. SessionsAreListed' /\ InForce'
  BY <1>1, <1>2, <1>3, <1>4, <1>5, SaveNothing DEF At
<1>7. \A q \in Changing' : req'[q].pc \in {"wipe", "commit"} => q # r /\ q \in Changing
  BY <1>1 DEF Changing, Newcomer
<1>8. Revoking'
  BY <1>1, <1>2, <1>3, <1>7, RevokingStays DEF Changing
<1> QED
  BY <1>6, <1>8 DEF Sessions

(* revoke_all, first round trip: what it reads is what the index holds.    *)
LEMMA ScanReads ==
  ASSUME Typed, NEW r \in Requests, Scan(r)
  PROVE  /\ req'[r].sids = UNION {index[v] : v \in req[r].user}
         /\ req'[r].pc = IF UNION {index[v] : v \in req[r].user} = {} THEN "commit"
                         ELSE "wipe"
<1> DEFINE sids == UNION {index[u] : u \in req[r].user}
<1>1. PICK state : state = [req[r] EXCEPT !.pc = IF sids = {} THEN "commit" ELSE "wipe",
                                          !.sids = sids]
  OBVIOUS
<1>2. req' = [req EXCEPT ![r] = state]
  BY <1>1 DEF Scan, Typed, AccountsTypeOK
<1>3. req'[r] = state
  BY <1>2 DEF Typed, AccountsTypeOK
<1>4. state.sids = sids /\ state.pc = IF sids = {} THEN "commit" ELSE "wipe"
  <2>1. req[r] \in RequestState
    BY DEF Typed, AccountsTypeOK
  <2> HIDE DEF sids
  <2> QED
    BY <1>1, <2>1 DEF RequestState
<1> QED
  BY <1>3, <1>4

LEMMA VerifyMoves ==
  ASSUME Typed, NEW r \in Requests, VerifyPassword(r)
  PROVE  req'[r].pc \in {"write", "done"}
<1>1. CASE Goto(r, "done")
  BY <1>1, GotoTypes DEF Typed, Pcs
<1>2. CASE req' = [req EXCEPT ![r].pc = "write", ![r].password = Password]
  BY <1>2 DEF Typed, AccountsTypeOK, RequestState
<1> QED
  BY <1>1, <1>2 DEF VerifyPassword

(* The steps that do not save a session, nor commit.                       *)
LEMMA QuietSessions ==
  ASSUME SessionInv, Typed', Growing, NEW r \in Requests,
         \/ InsertUser(r) \/ Revoke(r) \/ VerifyPassword(r) \/ SendMail(r)
         \/ WritePassword(r) \/ DropToken(r) \/ Scan(r) \/ Wipe(r) \/ Fail(r)
  PROVE  Sessions'
<1>1. Moves(r) /\ \A q \in Requests \ {r} : req'[q] = req[q]
  BY StepTypes DEF SessionInv, MetInv, Typed, AccountsStep, Moves
<1>12. account' = account
  BY DEF InsertUser, Revoke, VerifyPassword, SendMail, WritePassword, DropToken,
     Scan, Wipe, Fail, store
<1>13. live' \subseteq live
  BY DEF InsertUser, Revoke, VerifyPassword, SendMail, WritePassword, DropToken,
     Scan, Wipe, Fail, redis
<1>14. \/ InsertUser(r) \/ VerifyPassword(r)
       \/ req'[r].user = req[r].user /\ req'[r].password = req[r].password
  BY WhatWasRead DEF SessionInv, AccountsStep
<1>2. /\ live' \subseteq live /\ account' = account
      /\ \/ InsertUser(r) \/ VerifyPassword(r)
         \/ req'[r].user = req[r].user /\ req'[r].password = req[r].password
  BY <1>12, <1>13, <1>14
<1>3. \A s \in live' : s \in Requests /\ req'[s].user = req[s].user
                       /\ req'[s].password = req[s].password
  <2> SUFFICES ASSUME NEW s \in live'
               PROVE  s \in Requests /\ req'[s].user = req[s].user
                      /\ req'[s].password = req[s].password
    OBVIOUS
  <2>1. s \in Requests /\ req[s].kind \in {"register", "login"}
        /\ req[s].pc \in {"commit", "done"}
    BY <1>2, LiveIsSaved DEF SessionInv
  <2> QED
    BY <1>1, <1>2, <2>1 DEF InsertUser, VerifyPassword, At
<1>4. \A s \in live' : \A u \in req[s].user : s \in index[u] => s \in index'[u] \/ Excused(s)
  <2> SUFFICES ASSUME NEW s \in live', NEW u \in req[s].user, s \in index[u], s \notin index'[u]
               PROVE  Excused(s)
    OBVIOUS
  <2>1. s \in live /\ u \in Requests
    BY <1>2, <1>3 DEF SessionInv, MetInv, Typed, AccountsTypeOK, RequestState
  <2>2. CASE Wipe(r)
    <3>1. r \in Changing /\ req[r].pc = "wipe" /\ u \in req[r].user /\ s \notin req[r].sids
      BY <2>1, <2>2 DEF Wipe, At, Changing
    <3> QED
      BY <2>1, <3>1 DEF SessionInv, Revoking
  <2>3. CASE Revoke(r)
    BY <2>1, <2>3 DEF Revoke
  <2> QED
    BY <2>2, <2>3 DEF InsertUser, VerifyPassword, SendMail, WritePassword, DropToken,
       Scan, Fail, redis
<1>5. \A s \in Requests : At(s, {"register", "login"}, "session")' =>
         \/ At(s, {"register", "login"}, "session") /\ req'[s] = req[s]
         \/ account = {}
  <2>1. CASE InsertUser(r)
    <3>1. req'[r].pc = "session" => account = {}
      BY <2>1, GotoTypes DEF InsertUser, Goto, SessionInv, MetInv, Typed, Pcs
    <3> QED
      BY <1>1, <3>1 DEF At
  <2>2. CASE ~InsertUser(r)
    <3>1. ASSUME Scan(r) PROVE req'[r].pc # "session"
      BY <3>1, ScanReads DEF SessionInv, MetInv
    <3>2. ASSUME VerifyPassword(r) PROVE req'[r].pc # "session"
      BY <3>2, VerifyMoves DEF SessionInv, MetInv
    <3>3. ASSUME NEW p \in Pcs \ {"session"}, Goto(r, p)
          PROVE  req'[r].pc # "session"
      BY <3>3, GotoTypes DEF SessionInv, MetInv, Typed
    <3>4. Scan(r) \/ VerifyPassword(r) \/ \E p \in Pcs \ {"session"} : Goto(r, p)
      BY <2>2 DEF Revoke, SendMail, WritePassword, DropToken, Wipe, Fail, Pcs
    <3>5. req'[r].pc # "session"
      BY <3>1, <3>2, <3>3, <3>4
    <3> QED
      BY <1>1, <3>5 DEF At
  <2> QED
    BY <2>1, <2>2
<1>6. SessionsAreListed' /\ InForce'
  BY <1>2, <1>3, <1>4, <1>5, SaveNothing
<1>7. req[r].kind \in {"change", "confirm"} /\ req'[r].pc \in {"wipe", "commit"} =>
        Scan(r) \/ Wipe(r)
  BY GotoTypes DEF InsertUser, Revoke, VerifyPassword, SendMail, WritePassword,
     DropToken, Fail, At, SessionInv, MetInv, Typed, Pcs, AccountsTypeOK, RequestState
<1>8. ASSUME r \in Changing, req'[r].pc \in {"wipe", "commit"}
      PROVE  \A s \in live' : req[s].user \cap req[r].user # {} =>
               Excused(s) \/ (req'[r].pc = "wipe" /\ s \in req'[r].sids)
  <2> SUFFICES ASSUME NEW s \in live', NEW u \in req[s].user, u \in req[r].user, ~Excused(s)
               PROVE  req'[r].pc = "wipe" /\ s \in req'[r].sids
    OBVIOUS
  <2>1. s \in live /\ s \in index[u]
    BY <1>2 DEF SessionInv, SessionsAreListed, ListActive, Excused
  <2>2. CASE Scan(r)
    <3>1. req'[r].sids = UNION {index[v] : v \in req[r].user}
          /\ req'[r].pc = IF UNION {index[v] : v \in req[r].user} = {} THEN "commit" ELSE "wipe"
      BY <2>2, ScanReads DEF SessionInv, MetInv
    <3>2. s \in UNION {index[v] : v \in req[r].user}
      BY <2>1
    <3> QED
      BY <3>1, <3>2
  <2>3. CASE Wipe(r)
    <3>1. req[r].pc = "wipe" /\ s \notin req[r].sids
      BY <2>3 DEF Wipe, At
    <3> QED
      BY <1>8, <2>1, <3>1 DEF SessionInv, Revoking
  <2> QED
    BY <1>7, <1>8, <2>2, <2>3 DEF Changing
<1>9. req'[r].kind = req[r].kind /\ Changing' = Changing
  BY <1>1 DEF Moves, Changing
<1>10. r \in Changing /\ req'[r].pc \in {"wipe", "commit"} => req'[r].user = req[r].user
  BY <1>7, WhatWasRead DEF SessionInv, AccountsStep, Changing, Scan, Wipe, InsertUser, At
<1>11. Revoking'
  BY <1>1, <1>2, <1>3, <1>8, <1>9, <1>10, RevokingStays DEF Changing
<1> QED
  BY <1>6, <1>11 DEF Sessions

(* Saving a session: for one user, and within reach of the index.          *)
LEMMA OpenKeepsSessions ==
  ASSUME SessionInv, Typed', Growing, NEW r \in Requests, OpenSession(r)
  PROVE  Sessions'
<1>1. /\ Moves(r) /\ \A q \in Requests \ {r} : req'[q] = req[q]
      /\ req'[r].pc = "commit"
  BY StepTypes, GotoTypes
  DEF SessionInv, MetInv, Typed, AccountsStep, Moves, OpenSession, Pcs
<1>2. PICK u \in req[r].user : SaveSession(r, u)
  BY DEF OpenSession
<1>3. r \in UnderWay /\ req[r].kind \in {"register", "login"} /\ req[r].pc = "session"
  BY DEF OpenSession, At, UnderWay
<1>4. req[r].user = {u} /\ u \in Requests
  <2>1. u \in Requests
    BY DEF SessionInv, MetInv, Typed, AccountsTypeOK, RequestState
  <2>2. CASE req[r].kind = "register"
    BY <1>2, <2>2 DEF SessionInv, OpenedFor
  <2>3. CASE req[r].kind = "login"
    <3>1. req[r].user \subseteq Registered
      BY <2>3 DEF SessionInv, OpenedFor
    <3>2. \A v \in Registered : v = u
      BY <1>2, <3>1 DEF SessionInv, OneInv, OneRow, Registered
    <3> QED
      BY <1>2, <2>1, <3>1, <3>2
  <2> QED
    BY <1>3, <2>1, <2>2, <2>3
<1>5. /\ live' = live \cup {r} /\ account' = account /\ expired' = expired
      /\ \A v \in Requests : index'[v] = IF v = u THEN (index[v] \cup {r}) \ expired
                                         ELSE index[v]
  BY <1>2, <1>4 DEF SaveSession, OpenSession, store, SessionInv, MetInv, Typed, AccountsTypeOK
<1>6. r \notin expired
  BY <1>3 DEF SessionInv, MetInv, Typed, SavedOnce, Issued
<1>7. \A s \in Requests : req'[s].user = req[s].user /\ req'[s].password = req[s].password
  BY <1>1, WhatWasRead DEF SessionInv, AccountsStep, InsertUser, VerifyPassword, OpenSession, At
<1>8. \A s \in live : s \in Requests /\ s # r /\ s \notin expired /\ req[s].pc # "away"
  BY <1>3, LiveIsSaved DEF SessionInv
<1>9. \A s \in Requests : req[s].pc # "away" /\ Excused(s) => Excused(s)'
  BY DEF Growing
<1>10. SessionsAreListed'
  <2> SUFFICES ASSUME NEW s \in live', NEW v \in req'[s].user
               PROVE  s \in ListActive(v)' \/ Excused(s)'
    BY DEF SessionsAreListed, Excused
  <2>1. s \in Requests /\ v \in req[s].user /\ v \in Requests
    BY <1>5, <1>7, <1>8 DEF SessionInv, MetInv, Typed, AccountsTypeOK, RequestState
  <2>2. CASE s = r
    BY <1>4, <1>5, <1>6, <2>1, <2>2 DEF ListActive
  <2>3. CASE s \in live
    <3>1. s \in index[v] \/ Excused(s)
      BY <2>1, <2>3 DEF SessionInv, SessionsAreListed, ListActive, Excused
    <3>2. s \in index'[v] \/ Excused(s)'
      BY <1>5, <1>8, <1>9, <2>1, <2>3, <3>1
    <3> QED
      BY <1>5, <1>8, <2>3, <3>2 DEF ListActive
  <2> QED
    BY <1>5, <2>2, <2>3
<1>11. Revoking'
  <2> SUFFICES ASSUME NEW c \in Changing', NEW s \in live', req'[c].pc \in {"wipe", "commit"},
                      req'[s].user \cap req'[c].user # {}
               PROVE  Excused(s)' \/ (req'[c].pc = "wipe" /\ s \in req'[c].sids)
    BY DEF Revoking
  <2>1. c \in Changing /\ c # r /\ req'[c] = req[c]
    BY <1>1, <1>3 DEF Changing, Moves
  <2>2. CASE s = r
    BY <1>3, <1>9, <2>1, <2>2, MeetsChange DEF SessionInv
  <2>3. CASE s \in live
    BY <1>7, <1>8, <1>9, <2>1, <2>3 DEF SessionInv, Revoking
  <2> QED
    BY <1>5, <2>2, <2>3
<1>12. InForce'
  <2> SUFFICES ASSUME NEW s \in Requests, NEW a \in account,
                      s \in live' \/ At(s, {"register", "login"}, "session")',
                      req'[s].user = {a.id}, req'[s].password # {a.password}
               PROVE  Excused(s)'
    BY <1>5 DEF InForce
  <2>1. s \in live \/ At(s, {"register", "login"}, "session")
    BY <1>1, <1>3, <1>5 DEF At
  <2>2. Excused(s)
    BY <1>7, <2>1 DEF SessionInv, InForce
  <2> QED
    BY <1>8, <1>9, <2>1, <2>2 DEF At
<1> QED
  BY <1>10, <1>11, <1>12 DEF Sessions

(* A new password comes into force.                                        *)
LEMMA CommitKeepsSessions ==
  ASSUME SessionInv, Typed', Growing, NEW r \in Requests, Commit(r)
  PROVE  Sessions'
<1>1. /\ Moves(r) /\ \A q \in Requests \ {r} : req'[q] = req[q]
      /\ req[r].pc = "commit" /\ req'[r].pc = "done"
  BY StepTypes, GotoTypes DEF SessionInv, MetInv, Typed, AccountsStep, Moves, Commit, Pcs
<1>2. live' = live /\ index' = index /\ expired' = expired
  BY DEF Commit, redis
<1>3. \A s \in Requests : req'[s].user = req[s].user /\ req'[s].password = req[s].password
  BY <1>1, WhatWasRead DEF SessionInv, AccountsStep, InsertUser, VerifyPassword, At
<1>4. \A s \in live : s \in Requests /\ req[s].kind \in {"register", "login"} /\ req[s].pc # "away"
  BY LiveIsSaved DEF SessionInv
<1>5. \A s \in Requests : req[s].pc # "away" /\ Excused(s) => Excused(s)'
  BY DEF Growing
<1>6. SessionsAreListed'
  BY <1>2, <1>3, <1>4, <1>5 DEF SessionInv, SessionsAreListed, ListActive, Excused
<1>7. Revoking'
  BY <1>1, <1>2, <1>3, <1>4, RevokingStays DEF Changing
<1>8. InForce'
  <2> SUFFICES ASSUME NEW s \in Requests, NEW b \in account',
                      s \in live' \/ At(s, {"register", "login"}, "session")',
                      req'[s].user = {b.id}, req'[s].password # {b.password}
               PROVE  Excused(s)'
    BY DEF InForce
  <2>1. s \in live \/ (s # r /\ At(s, {"register", "login"}, "session"))
    BY <1>1, <1>2 DEF At
  <2>2. req[s].kind \in {"register", "login"} /\ req[s].pc # "away"
    BY <1>4, <2>1 DEF At
  <2>3. CASE req[r].kind = "register"
    <3>1. account = {} /\ b.id = r /\ b.password = r
      BY <2>3, CommittedAccount DEF SessionInv, MetInv
    <3>2. req[s].kind = "register" /\ r \in {s}
      BY <1>3, <2>2, <3>1 DEF SessionInv, OpenedFor, Registered
    <3> QED
      BY <1>3, <3>1, <3>2 DEF SessionInv, OpenedFor
  <2>4. CASE req[r].kind \in {"change", "confirm"}
    <3>1. PICK a \in account : b.id = a.id /\ b.password = IF a.id \in req[r].user THEN r
                                                          ELSE a.password
      BY <2>4, CommittedAccount DEF SessionInv, MetInv
    <3>2. CASE a.id \in req[r].user
      <4>1. r \in Changing /\ req[s].user \cap req[r].user # {}
        BY <1>3, <2>4, <3>1, <3>2 DEF Changing
      <4>2. s \in live => Excused(s)
        BY <1>1, <4>1 DEF SessionInv, Revoking
      <4>3. s # r /\ At(s, {"register", "login"}, "session") => Excused(s)
        BY <1>1, <4>1, MeetsChange DEF SessionInv, At, UnderWay
      <4> QED
        BY <1>5, <2>1, <2>2, <4>2, <4>3
    <3>3. CASE a.id \notin req[r].user
      BY <1>3, <1>5, <2>1, <2>2, <3>1, <3>3 DEF SessionInv, InForce
    <3> QED
      BY <3>2, <3>3
  <2>5. CASE req[r].kind \notin {"register", "change", "confirm"}
    <3>1. b \in account
      BY <2>5, CommittedAccount DEF SessionInv, MetInv
    <3> QED
      BY <1>3, <1>5, <2>1, <2>2, <3>1 DEF SessionInv, InForce
  <2> QED
    BY <2>3, <2>4, <2>5
<1> QED
  BY <1>6, <1>7, <1>8 DEF Sessions

LEMMA LapseKeepsSessions ==
  ASSUME SessionInv, Typed', Growing, live' \subseteq live,
         account' = account, index' = index, req' = req
  PROVE  Sessions'
<1>1. \A s \in live' : s \in Requests
  BY DEF Typed, AccountsTypeOK
<1>2. SessionsAreListed' /\ InForce'
  BY <1>1, SaveNothing DEF At
<1>3. Revoking'
  BY RevokingStays DEF Changing
<1> QED
  BY <1>2, <1>3 DEF Sessions

LEMMA SessionInit == AccountsInit => SessionInv
<1> SUFFICES ASSUME AccountsInit PROVE SessionInv
  OBVIOUS
<1>1. OpenedFor
  BY DEF AccountsInit, OpenedFor, Away
<1>2. SessionsAreListed /\ Revoking /\ InForce
  BY DEF AccountsInit, SessionsAreListed, Revoking, InForce
<1> QED
  BY <1>1, <1>2, MetInit, OneInit DEF SessionInv

LEMMA SessionStep ==
  ASSUME SessionInv, [AccountsNext]_accountVars
  PROVE  SessionInv'
<1>1. MetInv' /\ Growing /\ OneInv' /\ Typed'
  BY MetStep, OneStep DEF SessionInv, MetInv
<1>2. ASSUME NEW r \in Requests, Arrive(r) PROVE OpenedFor' /\ Sessions'
  <2>1. PICK state : Newcomer(state) /\ Begin(r, state)
    BY <1>2, Arriving DEF SessionInv, MetInv, Typed
  <2> QED
    BY <1>1, <2>1, OpenedBegin, BeginSessions DEF SessionInv
<1>3. ASSUME NEW r \in Requests, AccountsStep(r) \/ Fail(r) PROVE OpenedFor' /\ Sessions'
  <2>1. OpenedFor'
    BY <1>3, OpenedStep DEF SessionInv
  <2>2. Sessions'
    BY <1>1, <1>3, OpenKeepsSessions, CommitKeepsSessions, QuietSessions DEF AccountsStep
  <2> QED
    BY <2>1, <2>2
<1>4. ASSUME NEW r \in Requests, SessionExpires(r) \/ TokenLapses(r)
      PROVE  OpenedFor' /\ Sessions'
  <2>1. live' \subseteq live /\ account' = account /\ index' = index /\ req' = req
    BY <1>4 DEF SessionExpires, TokenLapses, store, redis
  <2>2. OpenedFor'
    BY <2>1 DEF SessionInv, OpenedFor, Registered
  <2> QED
    BY <1>1, <2>1, <2>2, LapseKeepsSessions
<1>5. ASSUME UNCHANGED accountVars PROVE OpenedFor' /\ Sessions'
  <2>1. live' \subseteq live /\ account' = account /\ index' = index /\ req' = req
    BY <1>5 DEF accountVars
  <2>2. OpenedFor'
    BY <2>1 DEF SessionInv, OpenedFor, Registered
  <2> QED
    BY <1>1, <2>1, <2>2, LapseKeepsSessions
<1>6. OpenedFor' /\ Sessions'
  BY <1>2, <1>3, <1>4, <1>5 DEF AccountsNext
<1> QED
  BY <1>1, <1>6 DEF SessionInv, Sessions

(* SessionStore.save and revoke_all: every session that lets its user in   *)
(* is in the user's index, unless it was saved while a revoke_all was      *)
(* between its two round trips.                                            *)
THEOREM SessionsListed == AccountsSpec => []SessionsAreListed
BY SessionInit, SessionStep, PTL DEF AccountsSpec, SessionInv

(* ChangePassword and ConfirmPasswordReset: once a new password is in      *)
(* force, a session opened with an earlier one is gone, whatever failed on *)
(* the way, unless its login was under way during a change.                *)
THEOREM OldSessionsGone == AccountsSpec => []OldSessionsAreGone
<1>1. SessionInv => OldSessionsAreGone
  <2> SUFFICES ASSUME SessionInv, NEW s \in live, NEW a \in account,
                      req[s].user = {a.id}, req[s].password # {a.password}
               PROVE  met[s] \cap Changing # {}
    BY DEF OldSessionsAreGone
  <2>1. s \in Requests
    BY LiveIsSaved DEF SessionInv
  <2> QED
    BY <2>1 DEF SessionInv, InForce, Excused
<1> QED
  BY <1>1, SessionInit, SessionStep, PTL DEF AccountsSpec

-------------------------------------------------------------------------------
(* Reset tokens.                                                           *)

(* Confirmations that found their token valid, and have not been undone.   *)
Confirming ==
  {r \in Requests : req[r].kind = "confirm" /\ (r \in UnderWay \/ r \in audited)}

Spent(t) == \E r \in Succeeded({"confirm"}) : req[r].token = {t}

(* A row of password_reset_tokens is there from the commit of its request  *)
(* to the commit of the first confirmation that has read it.               *)
TokenInv ==
  /\ tokens \subseteq Succeeded({"start"})
  /\ \A r \in Confirming : \E t \in Succeeded({"start"}) : req[r].token = {t}
  /\ \A r \in Succeeded({"confirm"}) : req[r].token \cap tokens = {}
  /\ \A q, r \in Confirming : q # r /\ req[q].token = req[r].token => r \in met[q]
  /\ \A t \in Succeeded({"start"}) \ tokens : Spent(t)

LEMMA BeginKeepsTokens ==
  ASSUME MetInv, OneInv, TokenInv, NEW r \in Requests, NEW state, Newcomer(state),
         Begin(r, state)
  PROVE  TokenInv'
<1>1. /\ req[r].pc = "away" /\ req'[r] = state
      /\ \A q \in Requests \ {r} : req'[q] = req[q]
  BY BeginTypes DEF Begin, MetInv, Typed, Newcomer
<1>2. tokens' = tokens /\ audited' = audited /\ audited \subseteq Requests \ {r}
  BY <1>1 DEF Begin, store, OneInv, AuditedIsDone
<1>3. \A k : Succeeded({k})' = Succeeded({k})
  BY <1>1, <1>2 DEF Succeeded
<1>4. \A t : Spent(t)' <=> Spent(t)
  BY <1>1, <1>2, <1>3 DEF Spent, Succeeded
<1>5. UnderWay' \subseteq UnderWay \cup {r} /\ r \notin UnderWay
  BY <1>1 DEF UnderWay
<1>6. /\ met'[r] = UnderWay
      /\ \A q \in UnderWay : r \in met'[q]
      /\ \A q \in Requests \ {r} : met[q] \subseteq met'[q]
  BY <1>5 DEF Begin, UnderWay
<1>7. Confirming' \subseteq Confirming \cup {r} /\ r \notin Confirming
  BY <1>1, <1>2, <1>5 DEF Confirming
<1>8. r \in Confirming' => \E t \in tokens : state.token = {t}
  <2> SUFFICES ASSUME r \in Confirming' PROVE \E t \in tokens : state.token = {t}
    OBVIOUS
  <2>1. state.kind = "confirm" /\ state.pc # "done"
    BY <1>1, <1>2 DEF Confirming, UnderWay
  <2> QED
    BY <2>1 DEF Newcomer
<1>9. \A q \in Confirming' : \E t \in Succeeded({"start"})' : req'[q].token = {t}
  <2> SUFFICES ASSUME NEW q \in Confirming'
               PROVE  \E t \in Succeeded({"start"}) : req'[q].token = {t}
    BY <1>3
  <2>1. CASE q = r
    BY <1>1, <1>8, <2>1 DEF TokenInv
  <2>2. CASE q # r
    <3>1. q \in Confirming /\ q \in Requests
      BY <1>7, <2>2 DEF Confirming
    <3> QED
      BY <1>1, <2>2, <3>1 DEF TokenInv
  <2> QED
    BY <2>1, <2>2
<1>10. ASSUME NEW q \in Confirming, q # r, r \in Confirming', req[q].token = state.token
       PROVE  q \in UnderWay
  <2>1. PICK t \in tokens : state.token = {t}
    BY <1>8, <1>10
  <2>2. q \notin Succeeded({"confirm"})
    BY <1>10, <2>1 DEF TokenInv
  <2> QED
    BY <2>2 DEF Confirming, Succeeded
<1>11. \A p, q \in Confirming' : p # q /\ req'[p].token = req'[q].token => q \in met'[p]
  <2> SUFFICES ASSUME NEW p \in Confirming', NEW q \in Confirming', p # q,
                      req'[p].token = req'[q].token
               PROVE  q \in met'[p]
    OBVIOUS
  <2>1. \A z \in Confirming' : z # r => z \in Confirming /\ z \in Requests /\ req'[z] = req[z]
    BY <1>1, <1>7 DEF Confirming
  <2>2. CASE p = r
    BY <1>1, <1>6, <1>10, <2>1, <2>2
  <2>3. CASE q = r
    BY <1>1, <1>6, <1>10, <2>1, <2>3
  <2>4. CASE p # r /\ q # r
    BY <1>6, <2>1, <2>4 DEF TokenInv
  <2> QED
    BY <2>2, <2>3, <2>4
<1>12. \A q \in Succeeded({"confirm"})' : req'[q].token \cap tokens' = {}
  BY <1>1, <1>2, <1>3 DEF TokenInv, Succeeded
<1> QED
  BY <1>2, <1>3, <1>4, <1>9, <1>11, <1>12 DEF TokenInv

(* The steps that commit nothing.                                          *)
LEMMA QuietTokens ==
  ASSUME MetInv, OneInv, TokenInv, tokens' = tokens, audited' = audited, met' = met,
         \A q \in Requests : /\ req'[q].kind = req[q].kind /\ req'[q].token = req[q].token
                             /\ q \in UnderWay' => q \in UnderWay
  PROVE  TokenInv'
<1>1. audited \subseteq Requests
  BY DEF MetInv, Typed, AccountsTypeOK
<1>2. \A k : Succeeded({k})' = Succeeded({k})
  BY <1>1 DEF Succeeded
<1>3. \A t : Spent(t)' <=> Spent(t)
  BY <1>1, <1>2 DEF Spent, Succeeded
<1>4. Confirming' \subseteq Confirming /\ Confirming \subseteq Requests
  BY DEF Confirming
<1>5. \A q \in Succeeded({"confirm"}) : req'[q].token = req[q].token
  BY <1>1 DEF Succeeded
<1> QED
  BY <1>2, <1>3, <1>4, <1>5 DEF TokenInv

LEMMA CommitKeepsTokens ==
  ASSUME MetInv, OneInv, TokenInv, NEW r \in Requests, Commit(r)
  PROVE  TokenInv'
<1>1. /\ Moves(r) /\ \A q \in Requests \ {r} : req'[q] = req[q]
      /\ req[r].pc = "commit" /\ req'[r].pc = "done" /\ met' = met
  BY StepTypes, GotoTypes DEF MetInv, Typed, AccountsStep, Moves, Commit, Pcs
<1>2. \A q \in Requests : req'[q].kind = req[q].kind /\ req'[q].token = req[q].token
  BY GotoTypes DEF MetInv, Typed, Commit, Pcs
<1>3. /\ audited' = audited \cup {r} /\ audited \subseteq Requests /\ r \notin audited
  BY <1>1 DEF Commit, OneInv, AuditedIsDone
<1>4. \A k : Succeeded({k})' = IF req[r].kind = k THEN Succeeded({k}) \cup {r}
                               ELSE Succeeded({k})
  BY <1>2, <1>3 DEF Succeeded
<1>5. Confirming' = Confirming
  BY <1>1, <1>2, <1>3 DEF Confirming, UnderWay
<1>6. Confirming \subseteq Requests /\ \A k : Succeeded({k}) \subseteq Requests
  BY <1>3 DEF Confirming, Succeeded
<1>7. \A p, q \in Confirming' : p # q /\ req'[p].token = req'[q].token => q \in met'[p]
  BY <1>1, <1>2, <1>5, <1>6 DEF TokenInv
<1>8. \A q \in Confirming' : \E t \in Succeeded({"start"})' : req'[q].token = {t}
  BY <1>2, <1>4, <1>5, <1>6 DEF TokenInv
<1>9. \A t : Spent(t) => Spent(t)'
  <2> SUFFICES ASSUME NEW t, NEW q \in Succeeded({"confirm"}), req[q].token = {t}
               PROVE  Spent(t)'
    BY DEF Spent
  <2> QED
    BY <1>2, <1>4, <1>6 DEF Spent
<1>10. CASE req[r].kind = "start"
  <2>1. tokens' = tokens \cup {r}
    BY <1>10 DEF Commit
  <2>2. Succeeded({"start"})' = Succeeded({"start"}) \cup {r}
        /\ Succeeded({"confirm"})' = Succeeded({"confirm"})
    BY <1>4, <1>10
  <2>3. \A q \in Succeeded({"confirm"}) : q \in Confirming
    BY <1>3 DEF Succeeded, Confirming
  <2>4. \A q \in Succeeded({"confirm"}) : r \notin req[q].token
    BY <1>3, <2>3 DEF TokenInv, Succeeded
  <2>5. \A q \in Succeeded({"confirm"})' : req'[q].token \cap tokens' = {}
    <3>1. \A q \in Succeeded({"confirm"}) : req[q].token \cap tokens = {}
      BY DEF TokenInv
    <3>2. \A q \in Succeeded({"confirm"}) : req'[q].token = req[q].token
      BY <1>2, <1>6
    <3> QED
      BY <2>1, <2>2, <2>4, <3>1, <3>2
  <2> QED
    BY <1>7, <1>8, <1>9, <2>1, <2>2, <2>5 DEF TokenInv
<1>11. CASE req[r].kind = "confirm"
  <2>1. tokens' = tokens \ req[r].token
    BY <1>11 DEF Commit
  <2>2. Succeeded({"start"})' = Succeeded({"start"})
        /\ Succeeded({"confirm"})' = Succeeded({"confirm"}) \cup {r}
    BY <1>4, <1>11
  <2>3. r \in Confirming
    BY <1>1, <1>11 DEF Confirming, UnderWay
  <2>4. PICK u : req[r].token = {u}
    BY <2>3 DEF TokenInv
  <2>5. Spent(u)'
    BY <1>2, <2>2, <2>4 DEF Spent
  <2>6. \A q \in Succeeded({"confirm"})' : req'[q].token \cap tokens' = {}
    BY <1>2, <1>6, <2>1, <2>2 DEF TokenInv
  <2>7. \A t \in Succeeded({"start"})' \ tokens' : Spent(t)'
    BY <1>9, <2>1, <2>2, <2>4, <2>5 DEF TokenInv
  <2> QED
    BY <1>7, <1>8, <2>1, <2>2, <2>6, <2>7 DEF TokenInv
<1>12. CASE req[r].kind \notin {"start", "confirm"}
  <2>1. tokens' = tokens /\ Succeeded({"start"})' = Succeeded({"start"})
        /\ Succeeded({"confirm"})' = Succeeded({"confirm"})
    BY <1>4, <1>12 DEF Commit
  <2> QED
    BY <1>2, <1>6, <1>7, <1>8, <1>9, <2>1 DEF TokenInv
<1> QED
  BY <1>10, <1>11, <1>12

LEMMA TokenInit == AccountsInit => TokenInv
BY DEF AccountsInit, TokenInv, Confirming, UnderWay, Succeeded, Away

LEMMA TokenStep ==
  ASSUME MetInv, OneInv, TokenInv, [AccountsNext]_accountVars
  PROVE  TokenInv'
<1>1. ASSUME NEW r \in Requests, Arrive(r) PROVE TokenInv'
  BY <1>1, Arriving, BeginKeepsTokens DEF MetInv, Typed
<1>2. ASSUME NEW r \in Requests, AccountsStep(r) \/ Fail(r) PROVE TokenInv'
  <2>1. CASE Commit(r)
    BY <2>1, CommitKeepsTokens
  <2>2. CASE ~Commit(r)
    <3>1. tokens' = tokens /\ audited' = audited
      BY <1>2, <2>2 DEF AccountsStep, InsertUser, OpenSession, Revoke, VerifyPassword,
         SendMail, WritePassword, DropToken, Scan, Wipe, Fail, store
    <3>2. \A q \in Requests : req'[q].kind = req[q].kind /\ req'[q].token = req[q].token
      BY <1>2, StepTypes, WhatWasRead DEF MetInv, Typed, Moves
    <3>3. met' = met /\ \A q \in Requests : q \in UnderWay' => q \in UnderWay
      BY <1>2, StepTypes DEF MetInv, Typed, Moves, UnderWay
    <3> QED
      BY <3>1, <3>2, <3>3, QuietTokens
  <2> QED
    BY <2>1, <2>2
<1>3. ASSUME req' = req, tokens' = tokens, audited' = audited, met' = met PROVE TokenInv'
  BY <1>3, QuietTokens DEF UnderWay
<1> QED
  BY <1>1, <1>2, <1>3 DEF AccountsNext, SessionExpires, TokenLapses, store, accountVars

(* ConfirmPasswordReset: a token that has been used is used up, and one    *)
(* whose reset was rolled back is not; only confirmations that overlapped  *)
(* share a token.                                                          *)
THEOREM TokensSpentOnce == AccountsSpec => []TokensAreSpentOnce
<1>1. MetInv /\ TokenInv => TokensAreSpentOnce
  <2> SUFFICES ASSUME MetInv, TokenInv PROVE TokensAreSpentOnce
    OBVIOUS
  <2>1. Succeeded({"confirm"}) \subseteq Confirming
    BY DEF Succeeded, Confirming, MetInv, Typed, AccountsTypeOK
  <2> QED
    BY <2>1 DEF TokenInv, TokensAreSpentOnce, Spent
<1>2. ASSUME MetInv, OneInv, TokenInv, [AccountsNext]_accountVars
      PROVE  MetInv' /\ OneInv' /\ TokenInv'
  BY <1>2, MetStep, OneStep, TokenStep
<1> QED
  BY <1>1, <1>2, MetInit, OneInit, TokenInit, PTL DEF AccountsSpec

-------------------------------------------------------------------------------
(* Transactions and categories.                                            *)

(* Two levels, and a leaf is of the type of its group.                     *)
TwoLevels ==
  \A k \in DOMAIN categories :
    ~IsGroup(k) => MayBeUnder(categories[k].parent, categories[k].type)

NamesDiffer ==
  \A k, l \in DOMAIN categories : categories[k].name = categories[l].name => k = l

(* Transactions are filed under leaves.                                    *)
RowsFiled == \A i \in Live : rows[i].category \in Assignable

(* What a request holds in memory is still right about the categories.     *)
Holds(c) ==
  /\ client[c].pc = "draft" => client[c].category \in Assignable
  /\ client[c].pc = "insert" =>
       client[c].row \in Row /\ client[c].row.category \in Assignable
  /\ client[c].pc = "patch" /\ "category" \in DOMAIN client[c].change =>
       client[c].change["category"] \in Assignable
  /\ client[c].pc = "flush" =>
       LET new == client[c].category
       IN  new \in Category /\ (new.parent # 0 => MayBeUnder(new.parent, new.type))

BookInv ==
  /\ workload \in Workloads /\ month \in 0..MaxMonth
  /\ categories \in Seq(Category) /\ Len(categories) <= MaxCategories
  /\ TwoLevels /\ NamesDiffer
  /\ rows = [i \in Ids |-> rows[i]] /\ RowsFiled
  /\ client = [c \in Clients |-> client[c]] /\ \A c \in Clients : Holds(c)

-------------------------------------------------------------------------------
LEMMA BookInit == Init => BookInv
BY ConstantsAssumption
DEF Init, BookInv, TwoLevels, NamesDiffer, RowsFiled, Live, Holds, Idle

(* A leaf fits into the column of a row.                                   *)
LEMMA LeavesAreNumbers ==
  ASSUME BookInv
  PROVE  Assignable \subseteq 0..MaxCategories
BY ConstantsAssumption DEF BookInv, Assignable

(* Steps that leave the categories alone.                                  *)
LEMMA SameCategories ==
  ASSUME BookInv, categories' = categories, workload' = workload,
         month' \in 0..MaxMonth,
         rows' = [i \in Ids |-> rows'[i]], RowsFiled',
         client' = [c \in Clients |-> client'[c]], \A c \in Clients : Holds(c)'
  PROVE  BookInv'
BY DEF BookInv, TwoLevels, NamesDiffer, IsGroup, MayBeUnder

(* A request takes another state, and the book stays as it is.             *)
LEMMA Decides ==
  ASSUME BookInv, categories' = categories, workload' = workload, month' = month,
         rows' = rows, NEW c \in Clients, NEW s, client' = [client EXCEPT ![c] = s],
         Holds(c)'
  PROVE  BookInv'
<1>1. \A d \in Clients \ {c} : client'[d] = client[d]
  BY DEF BookInv
<1>2. Assignable' = Assignable
  BY DEF Assignable, IsGroup
<1>3. \A d \in Clients : Holds(d)'
  BY <1>1, <1>2 DEF BookInv, Holds, MayBeUnder, IsGroup
<1>4. RowsFiled'
  BY <1>2 DEF BookInv, RowsFiled, Live
<1>5. client' = [d \in Clients |-> client'[d]]
  BY DEF BookInv
<1>6. month' \in 0..MaxMonth /\ rows' = [i \in Ids |-> rows'[i]]
  BY DEF BookInv
<1> QED
  BY <1>3, <1>4, <1>5, <1>6, SameCategories

(* A request writes a row, filed under a leaf or nothing, and is over.     *)
LEMMA Writes ==
  ASSUME BookInv, categories' = categories, workload' = workload, month' = month,
         NEW c \in Clients, client' = [client EXCEPT ![c] = Idle],
         NEW i, NEW row, rows' = [rows EXCEPT ![i] = row],
         row # NoRow => row.category \in Assignable
  PROVE  BookInv'
<1>1. \A d \in Clients \ {c} : client'[d] = client[d]
  BY DEF BookInv
<1>2. client'[c].pc = "idle" /\ client' = [d \in Clients |-> client'[d]]
  BY DEF BookInv, Idle
<1>3. Assignable' = Assignable
  BY DEF Assignable, IsGroup
<1>4. \A d \in Clients : Holds(d)'
  <2>1. Holds(c)'
    BY <1>2 DEF Holds
  <2>2. \A d \in Clients \ {c} : Holds(d)'
    BY <1>1, <1>3 DEF BookInv, Holds, MayBeUnder, IsGroup
  <2> QED
    BY <2>1, <2>2
<1>5. /\ rows' = [k \in Ids |-> rows'[k]]
      /\ \A k \in Ids : rows'[k] = IF k = i THEN row ELSE rows[k]
  BY DEF BookInv
<1>6. RowsFiled'
  BY <1>3, <1>5 DEF BookInv, RowsFiled, Live
<1>7. month' \in 0..MaxMonth
  BY DEF BookInv
<1> QED
  BY <1>2, <1>4, <1>5, <1>6, <1>7, SameCategories

-------------------------------------------------------------------------------
(* A draft names a leaf or none.                                           *)
LEMMA DraftTakes ==
  ASSUME NEW c \in Clients, ParseText(c) \/ ParseReceipt(c)
  PROVE  \E row \in workload.rows, k \in Assignable :
           client' = [client EXCEPT ![c] =
             [pc |-> "draft", places |-> row.places, currency |-> row.currency,
              category |-> k]]
<1>1. PICK S \in SUBSET Assignable : Drafts(c, S)
  <2>1. CASE ParseText(c)
    <3>1. PICK name \in Names :
            LET named == {k \in DOMAIN categories :
                            ~IsGroup(k) /\ categories[k].name = name}
            IN  Drafts(c, IF named = {} THEN {0} ELSE named)
      BY <2>1 DEF ParseText
    <3> DEFINE named == {k \in DOMAIN categories :
                           ~IsGroup(k) /\ categories[k].name = name}
    <3>2. (IF named = {} THEN {0} ELSE named) \in SUBSET Assignable
      BY DEF Assignable
    <3> QED
      BY <3>1, <3>2
  <2>2. CASE ParseReceipt(c)
    BY <2>2 DEF ParseReceipt, Assignable
  <2> QED
    BY <2>1, <2>2
<1>2. PICK row \in workload.rows, k \in S :
        client' = [client EXCEPT ![c] =
          [pc |-> "draft", places |-> row.places, currency |-> row.currency,
           category |-> k]]
  BY <1>1 DEF Drafts
<1> QED
  BY <1>2

LEMMA DraftKeeps ==
  ASSUME BookInv, NEW c \in Clients, ParseText(c) \/ ParseReceipt(c)
  PROVE  BookInv'
<1>1. PICK row \in workload.rows, k \in Assignable :
        client' = [client EXCEPT ![c] =
          [pc |-> "draft", places |-> row.places, currency |-> row.currency,
           category |-> k]]
  BY DraftTakes
<1>2. /\ categories' = categories /\ workload' = workload
      /\ month' = month /\ rows' = rows
  BY DEF ParseText, ParseReceipt
<1>3. client'[c] = [pc |-> "draft", places |-> row.places, currency |-> row.currency,
                    category |-> k]
  BY <1>1 DEF BookInv
<1>4. Holds(c)'
  BY <1>2, <1>3 DEF Holds, Assignable, IsGroup
<1> QED
  BY <1>1, <1>2, <1>4, Decides

LEMMA CreateKeeps ==
  ASSUME BookInv, NEW c \in Clients, CreateCheck(c)
  PROVE  BookInv'
<1>1. PICK row \in workload.rows, k \in Assignable :
        client' = [client EXCEPT ![c] =
          [pc |-> "insert", id |-> issued + 1,
           row |-> [row EXCEPT !.month = month, !.category = k]]]
  BY DEF CreateCheck
<1>2. PICK new : new = [row EXCEPT !.month = month, !.category = k]
  OBVIOUS
<1>3. row \in Row
  BY ConstantsAssumption DEF BookInv
<1>4. new \in Row /\ new.category = k
  BY <1>2, <1>3, LeavesAreNumbers DEF BookInv, Row
<1>5. /\ categories' = categories /\ workload' = workload
      /\ month' = month /\ rows' = rows
  BY DEF CreateCheck
<1>6. client'[c] = [pc |-> "insert", id |-> issued + 1, row |-> new]
  BY <1>1, <1>2 DEF BookInv
<1>7. Holds(c)'
  BY <1>4, <1>5, <1>6 DEF Holds, Assignable, IsGroup
<1> QED
  BY <1>1, <1>5, <1>7, Decides

LEMMA InsertKeeps ==
  ASSUME BookInv, NEW c \in Clients, Insert(c)
  PROVE  BookInv'
<1>1. PICK created \in client[c].row.month..month :
        rows' = [rows EXCEPT ![client[c].id] = [client[c].row EXCEPT !.month = created]]
  BY DEF Insert
<1>2. PICK old : old = client[c].row
  OBVIOUS
<1>3. PICK new : new = [old EXCEPT !.month = created]
  OBVIOUS
<1>4. old \in Row /\ old.category \in Assignable
  BY <1>2 DEF Insert, BookInv, Holds
<1>5. new.category = old.category
  BY <1>3, <1>4 DEF Row
<1>6. rows' = [rows EXCEPT ![client[c].id] = new]
  BY <1>1, <1>2, <1>3
<1> QED
  BY <1>4, <1>5, <1>6, Writes DEF Insert

(* A PATCH may keep the category the row had, or name a leaf.              *)
LEMMA UpdateReadKeeps ==
  ASSUME BookInv, NEW c \in Clients, NEW i \in Ids, UpdateRead(c, i)
  PROVE  BookInv'
<1>1. PICK row \in workload.rows, k \in Assignable \cup {rows[i].category} :
        client' = [client EXCEPT ![c] =
          [pc |-> "patch", id |-> i,
           change |-> Changes(rows[i], [row EXCEPT !.month = rows[i].month,
                                                   !.category = k])]]
  BY DEF UpdateRead
<1>2. PICK new : new = [row EXCEPT !.month = rows[i].month, !.category = k]
  OBVIOUS
<1>3. k \in Assignable
  BY DEF UpdateRead, BookInv, RowsFiled
<1>4. new.category = k
  BY <1>2, ConstantsAssumption DEF BookInv, Row
<1>5. PICK change : change = Changes(rows[i], new)
  OBVIOUS
<1>6. "category" \in DOMAIN change => change["category"] = k
  BY <1>4, <1>5 DEF Changes
<1>7. client' = [client EXCEPT ![c] = [pc |-> "patch", id |-> i, change |-> change]]
  BY <1>1, <1>2, <1>5
<1>8. /\ categories' = categories /\ workload' = workload
      /\ month' = month /\ rows' = rows
  BY DEF UpdateRead
<1>9. client'[c] = [pc |-> "patch", id |-> i, change |-> change]
  BY <1>7 DEF BookInv
<1>10. Holds(c)'
  BY <1>3, <1>6, <1>8, <1>9 DEF Holds, Assignable, IsGroup
<1> QED
  BY <1>7, <1>8, <1>10, Decides

LEMMA UpdateKeeps ==
  ASSUME BookInv, NEW c \in Clients, Update(c)
  PROVE  BookInv'
<1>1. PICK i, change, old :
        i = client[c].id /\ change = client[c].change /\ old = rows[i]
  OBVIOUS
<1>2. PICK new : new = Patched(old, change)
  OBVIOUS
<1>3. i \in Live /\ rows' = [rows EXCEPT ![i] = new]
  BY <1>1, <1>2 DEF Update
<1>4. "category" \in DOMAIN change => change["category"] \in Assignable
  BY <1>1 DEF Update, BookInv, Holds
<1>5. old.category \in Assignable
  BY <1>1, <1>3 DEF BookInv, RowsFiled
<1>6. new.category \in Assignable
  BY <1>2, <1>4, <1>5 DEF Patched, Columns
<1> QED
  BY <1>3, <1>6, Writes DEF Update

(* A category is added behind the others.                                  *)
LEMMA FlushKeeps ==
  ASSUME BookInv, NEW c \in Clients, CategoryFlush(c)
  PROVE  BookInv'
<1>1. PICK new : new = client[c].category
  OBVIOUS
<1>2. /\ new \in Category /\ (new.parent # 0 => MayBeUnder(new.parent, new.type))
      /\ NameIsNew(new.name)
  BY <1>1 DEF CategoryFlush, BookInv, Holds
<1>3. categories' = Append(categories, new) /\ Len(categories) < MaxCategories
  BY <1>1 DEF CategoryFlush
<1>4. PICK n \in Nat : n = Len(categories) /\ DOMAIN categories = 1..n
  BY DEF BookInv
<1>5. /\ categories' \in Seq(Category) /\ Len(categories') = n + 1
      /\ DOMAIN categories' = 1..(n + 1)
      /\ categories'[n + 1] = new
      /\ \A k \in 1..n : categories'[k] = categories[k]
  BY <1>2, <1>3, <1>4 DEF BookInv
<1>6. \A p, t : MayBeUnder(p, t) => MayBeUnder(p, t)'
  BY <1>4, <1>5 DEF MayBeUnder, IsGroup
<1>7. Assignable \subseteq Assignable'
  BY <1>4, <1>5 DEF Assignable, IsGroup
<1>8. TwoLevels'
  <2>1. ASSUME NEW k \in 1..(n + 1), categories'[k].parent # 0
        PROVE  MayBeUnder(categories[k].parent, categories[k].type)'
    <3>1. PICK x : x = categories'[k]
      OBVIOUS
    <3>2. CASE k = n + 1
      <4>1. MayBeUnder(x.parent, x.type)
        BY <1>2, <1>5, <2>1, <3>1, <3>2
      <4> QED
        BY <1>6, <3>1, <4>1
    <3>3. CASE k # n + 1
      <4>1. k \in 1..n /\ x = categories[k]
        BY <1>5, <3>1, <3>3
      <4>2. MayBeUnder(x.parent, x.type)
        BY <1>4, <2>1, <3>1, <4>1 DEF BookInv, TwoLevels, IsGroup
      <4> QED
        BY <1>6, <3>1, <4>2
    <3> QED
      BY <3>2, <3>3
  <2> QED
    BY <1>5, <2>1 DEF TwoLevels, IsGroup
<1>9. NamesDiffer'
  BY <1>2, <1>4, <1>5 DEF BookInv, NamesDiffer, NameIsNew
<1>10. /\ rows' = rows /\ workload' = workload /\ month' = month
       /\ client' = [client EXCEPT ![c] = Idle]
  BY DEF CategoryFlush
<1>11. RowsFiled'
  BY <1>7, <1>10 DEF BookInv, RowsFiled, Live
<1>12. /\ client' = [d \in Clients |-> client'[d]]
       /\ client'[c].pc = "idle"
       /\ \A d \in Clients \ {c} : client'[d] = client[d]
  BY <1>10 DEF BookInv, Idle
<1>13. \A d \in Clients : Holds(d)'
  <2>1. Holds(c)'
    BY <1>12 DEF Holds
  <2>2. ASSUME NEW d \in Clients \ {c}
        PROVE  Holds(d)'
    BY <1>6, <1>7, <1>12 DEF BookInv, Holds
  <2> QED
    BY <2>1, <2>2
<1> QED
  BY <1>3, <1>4, <1>5, <1>8, <1>9, <1>10, <1>11, <1>12, <1>13, ConstantsAssumption
  DEF BookInv

(* The requests that only read, and those that end.                        *)
LEMMA OthersKeep ==
  ASSUME BookInv, NEW c \in Clients,
         \/ CategoryCheck(c) \/ Rollback(c) \/ Delete(c)
         \/ \E i \in Ids : DeleteRead(c, i)
  PROVE  BookInv'
<1>1. CASE CategoryCheck(c)
  <2>1. PICK new \in Category :
          /\ new.parent # 0 => MayBeUnder(new.parent, new.type)
          /\ client' = [client EXCEPT ![c] = [pc |-> "flush", category |-> new]]
    BY <1>1 DEF CategoryCheck
  <2>2. /\ categories' = categories /\ workload' = workload
        /\ month' = month /\ rows' = rows
    BY <1>1 DEF CategoryCheck
  <2>3. client'[c] = [pc |-> "flush", category |-> new]
    BY <2>1 DEF BookInv
  <2>4. Holds(c)'
    BY <2>1, <2>2, <2>3 DEF Holds, MayBeUnder, IsGroup
  <2> QED
    BY <2>1, <2>2, <2>4, Decides
<1>2. CASE Rollback(c)
  <2>1. client' = [client EXCEPT ![c] = Idle] /\ client'[c].pc = "idle"
    BY <1>2 DEF Rollback, BookInv, Idle
  <2>2. Holds(c)'
    BY <2>1 DEF Holds
  <2> QED
    BY <1>2, <2>1, <2>2, Decides DEF Rollback
<1>3. CASE Delete(c)
  BY <1>3, Writes DEF Delete
<1>4. ASSUME NEW i \in Ids, DeleteRead(c, i)
      PROVE  BookInv'
  <2>1. /\ client' = [client EXCEPT ![c] = [pc |-> "drop", id |-> i]]
        /\ client'[c].pc = "drop"
    BY <1>4 DEF DeleteRead, BookInv
  <2>2. Holds(c)'
    BY <2>1 DEF Holds
  <2> QED
    BY <1>4, <2>1, <2>2, Decides DEF DeleteRead
<1> QED
  BY <1>1, <1>2, <1>3, <1>4

LEMMA BookStep ==
  ASSUME BookInv, [Next]_vars
  PROVE  BookInv'
<1>1. CASE NextMonth \/ WalkBegins \/ WalkPage \/ UNCHANGED vars
  <2>1. /\ categories' = categories /\ workload' = workload
        /\ rows' = rows /\ client' = client
    BY <1>1 DEF NextMonth, WalkBegins, WalkPage, vars
  <2>2. month' \in 0..MaxMonth
    <3>1. workload.months \in 0..MaxMonth
      BY ConstantsAssumption DEF BookInv
    <3> QED
      BY <1>1, <3>1, ConstantsAssumption
      DEF NextMonth, WalkBegins, WalkPage, vars, BookInv
  <2> QED
    BY <2>1, <2>2
    DEF BookInv, TwoLevels, NamesDiffer, RowsFiled, Live, Holds, Assignable, IsGroup,
        MayBeUnder
<1> QED
  BY <1>1, DraftKeeps, CreateKeeps, InsertKeeps, UpdateReadKeeps, UpdateKeeps, FlushKeeps,
     OthersKeep
  DEF Next, Step

(* Categories stay two levels deep, each leaf of the type of its group and *)
(* no name twice, and transactions are filed under leaves only, whatever   *)
(* requests race each other from their check to their write.               *)
THEOREM TwoLevelsStay == Spec => []CategoriesStayTwoLevels
<1>1. BookInv => CategoriesStayTwoLevels
  <2> SUFFICES ASSUME BookInv
               PROVE  CategoriesStayTwoLevels
    OBVIOUS
  <2>1. \A k \in DOMAIN categories : ~IsGroup(k) =>
          /\ IsGroup(categories[k].parent)
          /\ categories[categories[k].parent].type = categories[k].type
    BY DEF BookInv, TwoLevels, MayBeUnder
  <2>2. \A i \in Live : rows[i].category # 0 => ~IsGroup(rows[i].category)
    BY DEF BookInv, RowsFiled, Assignable
  <2> QED
    BY <2>1, <2>2 DEF BookInv, NamesDiffer, Holds, CategoriesStayTwoLevels
<1> QED
  BY <1>1, BookInit, BookStep, PTL DEF Spec

-------------------------------------------------------------------------------
(* Rows and the requests that write them.                                  *)

(* What a PATCH may hold: new values for some columns, never for the month *)
(* the row was created in.                                                 *)
Amends(change) ==
  /\ change \in UNION {[S -> Cells] : S \in SUBSET Columns}
  /\ "month" \notin DOMAIN change
  /\ "day" \in DOMAIN change => change["day"] \in Days
  /\ "places" \in DOMAIN change => change["places"] \in Amounts
  /\ "currency" \in DOMAIN change => change["currency"] \in Currencies
  /\ "category" \in DOMAIN change => change["category"] \in 0..MaxCategories

(* What a request is about to write.                                       *)
Stands(c) ==
  /\ client[c].pc = "insert" =>
       /\ client[c].id <= issued /\ client[c].id \notin Live
       /\ client[c].row.month <= month /\ Readable(client[c].row)
  /\ client[c].pc = "patch" => client[c].id <= issued /\ Amends(client[c].change)

(* An id that was given out and is not in the book yet is one request's.   *)
Apart ==
  \A c, d \in Clients :
    c # d /\ client[c].pc = "insert" /\ client[d].pc \in {"insert", "patch"}
      => client[c].id # client[d].id

LedgerInv ==
  /\ month \in 0..MaxMonth /\ issued \in 0..MaxRows /\ workload \in Workloads
  /\ rows \in [Ids -> Row \cup {NoRow}]
  /\ client \in [Clients -> Request]
  /\ \A i \in Live : i <= issued /\ rows[i].month <= month
  /\ \A c \in Clients : Stands(c)
  /\ Apart

LEMMA Bounds ==
  /\ Quota \in Nat \ {0} /\ PageSize \in Nat \ {0}
  /\ MaxRows \in Nat /\ MaxCategories \in Nat /\ MaxMonth \in Nat
  /\ Days \subseteq Nat /\ Amounts \subseteq Nat /\ IsFiniteSet(Clients)
  /\ NoRow \notin Row
  /\ \A w \in Workloads : w.rows \subseteq Row /\ w.months \in 0..MaxMonth
BY ConstantsAssumption

(* The requests that are about to write.                                   *)
LEMMA Writers ==
  ASSUME NEW s \in Request
  PROVE  /\ s.pc = "insert" => s.id \in Ids /\ s.row \in Row
         /\ s.pc = "patch" => s.id \in Ids
         /\ s.pc = "drop" => s.id \in Ids
BY DEF Request, Idle

LEMMA Asked ==
  /\ Idle \in Request
  /\ \A p \in Amounts, m \in Currencies, k \in 0..MaxCategories :
       [pc |-> "draft", places |-> p, currency |-> m, category |-> k] \in Request
  /\ \A i \in Ids, row \in Row : [pc |-> "insert", id |-> i, row |-> row] \in Request
  /\ \A i \in Ids : \A change : Amends(change) =>
       [pc |-> "patch", id |-> i, change |-> change] \in Request
  /\ \A i \in Ids : [pc |-> "drop", id |-> i] \in Request
  /\ \A k \in Category : [pc |-> "flush", category |-> k] \in Request
BY DEF Request, Amends

LEMMA LedgerInit == Init => LedgerInv
<1> SUFFICES ASSUME Init PROVE LedgerInv
  OBVIOUS
<1>1. Live = {}
  BY DEF Init, Live
<1>2. \A c \in Clients : client[c].pc = "idle"
  BY DEF Init, Idle
<1>3. client \in [Clients -> Request]
  BY Asked DEF Init
<1> QED
  BY <1>1, <1>2, <1>3, Bounds DEF Init, LedgerInv, Stands, Apart

(* A request takes another state.                                          *)
LEMMA ClientTakes ==
  ASSUME LedgerInv, NEW c \in Clients, NEW s \in Request,
         client' = [client EXCEPT ![c] = s]
  PROVE  /\ client' \in [Clients -> Request] /\ client'[c] = s
         /\ \A d \in Clients \ {c} : client'[d] = client[d]
BY DEF LedgerInv

LEMMA LedgerRests ==
  ASSUME LedgerInv, NEW c \in Clients, NEW s \in Request, s.pc \notin {"insert", "patch"},
         client' = [client EXCEPT ![c] = s],
         rows' = rows, issued' = issued, month' = month, workload' = workload
  PROVE  LedgerInv'
<1>1. /\ client' \in [Clients -> Request] /\ client'[c] = s
      /\ \A d \in Clients \ {c} : client'[d] = client[d]
  BY ClientTakes
<1>2. Live' = Live
  BY DEF Live
<1>3. \A d \in Clients : Stands(d)'
  BY <1>1, <1>2 DEF LedgerInv, Stands
<1>4. Apart'
  BY <1>1 DEF LedgerInv, Apart
<1> QED
  BY <1>1, <1>2, <1>3, <1>4 DEF LedgerInv

LEMMA LedgerCreates ==
  ASSUME LedgerInv, BookInv, NEW c \in Clients, CreateCheck(c)
  PROVE  /\ LedgerInv'
         /\ client'[c].pc = "insert"
         /\ client'[c].id = issued + 1 /\ client'[c].row.month = month
         /\ \A d \in Clients \ {c} : client'[d] = client[d]
<1>1. PICK row \in workload.rows, k \in Assignable :
        /\ Readable(row)
        /\ client' = [client EXCEPT ![c] =
             [pc |-> "insert", id |-> issued + 1,
              row |-> [row EXCEPT !.month = month, !.category = k]]]
  BY DEF CreateCheck
<1>2. PICK new : new = [row EXCEPT !.month = month, !.category = k]
  OBVIOUS
<1>3. row \in Row
  BY Bounds DEF LedgerInv
<1>4. new \in Row /\ new.month = month /\ Readable(new)
  BY <1>1, <1>2, <1>3, LeavesAreNumbers DEF LedgerInv, Row, Readable
<1>5. PICK s : s = [pc |-> "insert", id |-> issued + 1, row |-> new]
  OBVIOUS
<1>6. issued + 1 \in Ids /\ issued \in Nat /\ issued' = issued + 1
  BY Bounds DEF CreateCheck, LedgerInv, Ids
<1>7. /\ s \in Request /\ s.pc = "insert" /\ s.id = issued + 1 /\ s.row = new
  BY <1>4, <1>5, <1>6, Asked
<1>8. client' = [client EXCEPT ![c] = s]
  BY <1>1, <1>2, <1>5
<1>9. /\ client' \in [Clients -> Request] /\ client'[c] = s
      /\ \A d \in Clients \ {c} : client'[d] = client[d]
  BY <1>7, <1>8, ClientTakes
<1>10. rows' = rows /\ month' = month /\ workload' = workload /\ Live' = Live
  BY DEF CreateCheck, Live
<1>11. \A d \in Clients : client[d].pc \in {"insert", "patch"} =>
         client[d].id \in Ids /\ client[d].id <= issued
  BY Writers DEF LedgerInv, Stands
<1>12. \A i \in Live : i \in Ids /\ i <= issued /\ rows'[i].month <= month
  BY <1>10 DEF LedgerInv, Live
<1>13. \A d \in Clients : Stands(d)'
  <2>1. Stands(c)'
    <3>1. issued + 1 \notin Live
      BY <1>6, <1>12 DEF Ids
    <3>2. month <= month
      BY DEF LedgerInv
    <3> QED
      BY <1>4, <1>6, <1>7, <1>9, <1>10, <3>1, <3>2 DEF Stands, Readable
  <2>2. \A d \in Clients \ {c} : Stands(d)'
    BY <1>6, <1>9, <1>10, <1>11 DEF LedgerInv, Stands, Ids
  <2> QED
    BY <2>1, <2>2
<1>14. Apart'
  BY <1>6, <1>7, <1>9, <1>11 DEF LedgerInv, Apart, Ids
<1>15. \A i \in Live : i <= issued' /\ rows'[i].month <= month'
  BY <1>6, <1>10, <1>12 DEF Ids
<1> QED
  BY <1>4, <1>6, <1>7, <1>9, <1>10, <1>13, <1>14, <1>15, Bounds DEF LedgerInv, Ids

(* The row that is inserted: in the month of its check or a later one.     *)
LEMMA Inserted ==
  ASSUME LedgerInv, NEW c \in Clients, Insert(c)
  PROVE  \E m \in client[c].row.month..month, new \in Row :
           /\ new.month = m /\ Readable(new)
           /\ rows' = [rows EXCEPT ![client[c].id] = new]
<1>1. client[c].pc = "insert" /\ client[c] \in Request
  BY DEF Insert, LedgerInv
<1>2. PICK created \in client[c].row.month..month :
        rows' = [rows EXCEPT ![client[c].id] = [client[c].row EXCEPT !.month = created]]
  BY DEF Insert
<1>3. PICK old : old = client[c].row
  OBVIOUS
<1>4. old \in Row /\ Readable(old)
  BY <1>1, <1>3, Writers DEF LedgerInv, Stands
<1>5. old.month \in Nat /\ created \in 0..MaxMonth
  BY <1>3, <1>4, Bounds DEF LedgerInv, Row
<1>6. PICK new : new = [old EXCEPT !.month = created]
  OBVIOUS
<1>7. new \in Row /\ new.month = created /\ Readable(new)
  BY <1>4, <1>5, <1>6 DEF Row, Readable
<1> QED
  BY <1>2, <1>3, <1>6, <1>7

(* A request writes a row that is there, or its own, and is over.          *)
LEMMA LedgerWrites ==
  ASSUME LedgerInv, NEW c \in Clients, client' = [client EXCEPT ![c] = Idle],
         NEW i \in Ids, NEW row \in Row \cup {NoRow}, rows' = [rows EXCEPT ![i] = row],
         row # NoRow => row.month <= month /\ i <= issued,
         row # NoRow => i \in Live \/ (client[c].pc = "insert" /\ i = client[c].id),
         issued' = issued, month' = month, workload' = workload
  PROVE  /\ LedgerInv'
         /\ client'[c] = Idle /\ \A d \in Clients \ {c} : client'[d] = client[d]
         /\ \A k \in Ids : rows'[k] = IF k = i THEN row ELSE rows[k]
<1>1. /\ client' \in [Clients -> Request] /\ client'[c] = Idle /\ client'[c].pc = "idle"
      /\ \A d \in Clients \ {c} : client'[d] = client[d]
  BY ClientTakes, Asked DEF Idle
<1>2. /\ rows' \in [Ids -> Row \cup {NoRow}]
      /\ \A k \in Ids : rows'[k] = IF k = i THEN row ELSE rows[k]
  BY DEF LedgerInv
<1>3. \A k \in Live' : k \in Live \/ (k = i /\ row # NoRow)
  BY <1>2 DEF Live
<1>4. \A k \in Live' : k <= issued /\ rows'[k].month <= month
  BY <1>2, <1>3 DEF LedgerInv, Live
<1>5. \A d \in Clients \ {c} : client[d].pc = "insert" => client[d].id \notin Live'
  BY <1>3 DEF LedgerInv, Stands, Apart
<1>6. \A d \in Clients : Stands(d)'
  <2>1. Stands(c)'
    BY <1>1 DEF Stands
  <2>2. ASSUME NEW d \in Clients \ {c} PROVE Stands(d)'
    BY <1>1, <1>5 DEF LedgerInv, Stands
  <2> QED
    BY <2>1, <2>2
<1>7. Apart'
  BY <1>1 DEF LedgerInv, Apart
<1> QED
  BY <1>1, <1>2, <1>4, <1>6, <1>7 DEF LedgerInv

LEMMA LedgerInserts ==
  ASSUME LedgerInv, NEW c \in Clients, Insert(c)
  PROVE  LedgerInv'
<1>1. PICK m \in client[c].row.month..month, new \in Row :
        /\ new.month = m
        /\ rows' = [rows EXCEPT ![client[c].id] = new]
  BY Inserted
<1>2. client[c].pc = "insert" /\ client[c].id \in Ids /\ client[c].id <= issued
      /\ client[c].row \in Row
  BY Writers DEF Insert, LedgerInv, Stands
<1>3. m <= month
  BY <1>2, Bounds DEF LedgerInv, Row
<1> QED
  BY <1>1, <1>2, <1>3, LedgerWrites DEF Insert

(* What the UPDATE will carry.                                             *)
LEMMA Differences ==
  ASSUME NEW read \in Row, NEW new \in Row, new.month = read.month
  PROVE  /\ Amends(Changes(read, new))
         /\ Readable(new) => Readable(Patched(read, Changes(read, new)))
<1>1. PICK change : change = Changes(read, new)
  OBVIOUS
<1>2. \A n \in Columns : n # "month" => new[n] \in Cells
  BY DEF Row, Columns, Cells
<1>3. DOMAIN change \subseteq Columns \ {"month"}
      /\ \A n \in DOMAIN change : change[n] = new[n]
  BY <1>1 DEF Changes, Columns
<1>4. change \in [DOMAIN change -> Cells]
  BY <1>1, <1>2, <1>3 DEF Changes
<1>5. change \in UNION {[S -> Cells] : S \in SUBSET Columns}
  BY <1>3, <1>4
<1>6. Amends(change)
  BY <1>3, <1>5 DEF Amends, Row, Columns
<1>7. \A n \in Columns : Patched(read, change)[n] = new[n]
  BY <1>1 DEF Patched, Changes
<1>8. Patched(read, change).places = new.places /\ Patched(read, change).currency = new.currency
  BY <1>7 DEF Columns
<1> QED
  BY <1>1, <1>6, <1>8 DEF Readable

LEMMA LedgerReads ==
  ASSUME LedgerInv, BookInv, NEW c \in Clients, NEW i \in Ids, UpdateRead(c, i)
  PROVE  /\ LedgerInv'
         /\ i \in Live /\ client'[c].pc = "patch" /\ client'[c].id = i
         /\ Readable(Patched(rows[i], client'[c].change))
         /\ \A d \in Clients \ {c} : client'[d] = client[d]
<1>1. PICK row \in workload.rows, k \in Assignable \cup {rows[i].category} :
        /\ Readable([row EXCEPT !.month = rows[i].month, !.category = k])
        /\ client' = [client EXCEPT ![c] =
             [pc |-> "patch", id |-> i,
              change |-> Changes(rows[i], [row EXCEPT !.month = rows[i].month,
                                                      !.category = k])]]
  BY DEF UpdateRead, Accepts
<1>2. PICK new : new = [row EXCEPT !.month = rows[i].month, !.category = k]
  OBVIOUS
<1>3. PICK change : change = Changes(rows[i], new)
  OBVIOUS
<1>4. i \in Live /\ rows[i] \in Row
  BY DEF UpdateRead, LedgerInv, Live
<1>5. row \in Row /\ k \in 0..MaxCategories
  BY <1>4, LeavesAreNumbers, Bounds DEF LedgerInv, Row
<1>6. Amends(change) /\ Readable(Patched(rows[i], change))
  <2>1. PICK read : read = rows[i]
    OBVIOUS
  <2>2. read \in Row /\ Readable(new) /\ new = [row EXCEPT !.month = read.month, !.category = k]
    BY <1>1, <1>2, <1>4, <2>1
  <2>3. new \in Row /\ new.month = read.month
    BY <1>5, <2>2 DEF Row
  <2>4. Amends(Changes(read, new)) /\ Readable(Patched(read, Changes(read, new)))
    BY <2>2, <2>3, Differences
  <2> QED
    BY <1>3, <2>1, <2>4
<1>7. PICK s : s = [pc |-> "patch", id |-> i, change |-> change]
  OBVIOUS
<1>8. s \in Request /\ s.pc = "patch" /\ s.id = i /\ s.change = change
  BY <1>6, <1>7, Asked
<1>9. client' = [client EXCEPT ![c] = s]
  BY <1>1, <1>2, <1>3, <1>7
<1>10. /\ client' \in [Clients -> Request] /\ client'[c] = s
       /\ \A d \in Clients \ {c} : client'[d] = client[d]
  BY <1>8, <1>9, ClientTakes
<1>11. /\ rows' = rows /\ month' = month /\ workload' = workload /\ issued' = issued
       /\ Live' = Live
  BY DEF UpdateRead, Live
<1>12. i <= issued /\ \A d \in Clients : client[d].pc = "insert" => client[d].id # i
  BY <1>4 DEF LedgerInv, Stands
<1>13. \A d \in Clients : Stands(d)'
  BY <1>6, <1>8, <1>10, <1>11, <1>12 DEF LedgerInv, Stands
<1>14. Apart'
  BY <1>8, <1>10, <1>12 DEF LedgerInv, Apart
<1> QED
  BY <1>4, <1>6, <1>8, <1>10, <1>11, <1>13, <1>14 DEF LedgerInv

(* The UPDATE leaves the row what a row is, in the month it was created.   *)
LEMMA Updated ==
  ASSUME LedgerInv, NEW c \in Clients, Update(c)
  PROVE  \E new \in Row :
           /\ client[c].id \in Live /\ new.month = rows[client[c].id].month
           /\ new = Patched(rows[client[c].id], client[c].change)
           /\ "day" \notin DOMAIN client[c].change => new.day = rows[client[c].id].day
           /\ rows' = [rows EXCEPT ![client[c].id] = new]
<1>1. PICK i, change, old :
        i = client[c].id /\ change = client[c].change /\ old = rows[i]
  OBVIOUS
<1>2. client[c].pc = "patch" /\ i \in Live /\ Amends(change)
  BY <1>1 DEF Update, LedgerInv, Stands
<1>3. old \in Row
  BY <1>1, <1>2 DEF LedgerInv, Live
<1>4. PICK new : new = Patched(old, change)
  OBVIOUS
<1>5. new = [n \in Columns |-> IF n \in DOMAIN change THEN change[n] ELSE old[n]]
  BY <1>4 DEF Patched
<1>6. new = [month |-> new.month, day |-> new.day, places |-> new.places,
             currency |-> new.currency, category |-> new.category]
  BY <1>5 DEF Columns
<1>7. /\ new.month = old.month
      /\ "day" \notin DOMAIN change => new.day = old.day
  BY <1>2, <1>5 DEF Amends, Columns
<1>8. /\ new.day \in Days /\ new.places \in Amounts /\ new.currency \in Currencies
      /\ new.category \in 0..MaxCategories /\ new.month \in 0..MaxMonth
  BY <1>2, <1>3, <1>5 DEF Amends, Columns, Row
<1>9. new \in Row
  BY <1>6, <1>8 DEF Row
<1>10. rows' = [rows EXCEPT ![i] = new]
  BY <1>1, <1>4 DEF Update
<1> QED
  BY <1>1, <1>2, <1>4, <1>7, <1>9, <1>10

LEMMA LedgerUpdates ==
  ASSUME LedgerInv, NEW c \in Clients, Update(c)
  PROVE  LedgerInv'
<1>1. PICK new \in Row :
        /\ client[c].id \in Live /\ new.month = rows[client[c].id].month
        /\ rows' = [rows EXCEPT ![client[c].id] = new]
  BY Updated
<1>2. client[c].id \in Ids /\ client[c].id <= issued /\ new.month <= month
  BY <1>1 DEF LedgerInv, Live
<1> QED
  BY <1>1, <1>2, LedgerWrites DEF Update

LEMMA LedgerDeletes ==
  ASSUME LedgerInv, NEW c \in Clients, Delete(c)
  PROVE  LedgerInv'
<1>1. client[c].id \in Ids
  BY Writers DEF Delete, LedgerInv
<1> QED
  BY <1>1, LedgerWrites DEF Delete

(* What does not concern rows to be written.                               *)
LEMMA LedgerElse ==
  ASSUME LedgerInv, BookInv, NEW c \in Clients,
         \/ ParseText(c) \/ ParseReceipt(c) \/ CategoryCheck(c) \/ CategoryFlush(c)
         \/ Rollback(c) \/ \E i \in Ids : DeleteRead(c, i)
  PROVE  /\ \E s \in Request : /\ s.pc \notin {"insert", "patch"}
                               /\ client' = [client EXCEPT ![c] = s]
         /\ rows' = rows /\ issued' = issued /\ month' = month /\ workload' = workload
         /\ walk' = walk /\ mixed' = mixed
<1>1. CASE ParseText(c) \/ ParseReceipt(c)
  <2>1. PICK row \in workload.rows, k \in Assignable :
          client' = [client EXCEPT ![c] =
            [pc |-> "draft", places |-> row.places, currency |-> row.currency,
             category |-> k]]
    BY <1>1, DraftTakes
  <2>2. row \in Row /\ k \in 0..MaxCategories
    BY LeavesAreNumbers, Bounds DEF LedgerInv
  <2>3. PICK s : s = [pc |-> "draft", places |-> row.places, currency |-> row.currency,
                      category |-> k]
    OBVIOUS
  <2>4. s \in Request /\ s.pc = "draft"
    BY <2>2, <2>3, Asked DEF Row
  <2> QED
    BY <1>1, <2>1, <2>3, <2>4 DEF ParseText, ParseReceipt
<1>2. CASE CategoryCheck(c)
  <2>1. PICK new \in Category : client' = [client EXCEPT ![c] = [pc |-> "flush", category |-> new]]
    BY <1>2 DEF CategoryCheck
  <2>2. PICK s : s = [pc |-> "flush", category |-> new]
    OBVIOUS
  <2>3. s \in Request /\ s.pc = "flush"
    BY <2>2, Asked
  <2> QED
    BY <1>2, <2>1, <2>2, <2>3 DEF CategoryCheck
<1>3. CASE CategoryFlush(c) \/ Rollback(c)
  BY <1>3, Asked DEF CategoryFlush, Rollback, Idle
<1>4. ASSUME NEW i \in Ids, DeleteRead(c, i)
      PROVE  /\ \E s \in Request : /\ s.pc \notin {"insert", "patch"}
                                   /\ client' = [client EXCEPT ![c] = s]
             /\ rows' = rows /\ issued' = issued /\ month' = month /\ workload' = workload
             /\ walk' = walk /\ mixed' = mixed
  <2>1. PICK s : s = [pc |-> "drop", id |-> i]
    OBVIOUS
  <2>2. s \in Request /\ s.pc = "drop"
    BY <2>1, Asked
  <2> QED
    BY <1>4, <2>1, <2>2 DEF DeleteRead
<1> QED
  BY <1>1, <1>2, <1>3, <1>4

LEMMA LedgerStep ==
  ASSUME LedgerInv, BookInv, [Next]_vars
  PROVE  LedgerInv'
<1>1. CASE NextMonth
  <2>1. month' \in 0..MaxMonth /\ month <= month'
    BY <1>1, Bounds DEF NextMonth, LedgerInv
  <2>2. Live' = Live /\ rows' = rows /\ client' = client /\ issued' = issued
        /\ workload' = workload
    BY <1>1 DEF NextMonth, Live
  <2>3. \A i \in Live : rows[i].month \in Nat /\ rows[i].month <= month'
    BY <2>1, Bounds DEF LedgerInv, Live, Row
  <2>4. \A c \in Clients : Stands(c)'
    <3> SUFFICES ASSUME NEW c \in Clients PROVE Stands(c)'
      OBVIOUS
    <3>1. client[c].pc = "insert" => client[c].row.month \in Nat
      BY Writers, Bounds DEF LedgerInv, Row
    <3>2. client[c].pc = "insert" => client[c].row.month <= month'
      BY <2>1, <3>1, Bounds DEF LedgerInv, Stands
    <3> QED
      BY <2>2, <3>2 DEF LedgerInv, Stands
  <2> QED
    BY <2>1, <2>2, <2>3, <2>4 DEF LedgerInv, Apart
<1>2. CASE WalkBegins \/ WalkPage \/ UNCHANGED vars
  <2>1. rows' = rows /\ client' = client /\ issued' = issued /\ workload' = workload
        /\ month' = month /\ Live' = Live
    BY <1>2 DEF WalkBegins, WalkPage, vars, Live
  <2> QED
    BY <2>1 DEF LedgerInv, Stands, Apart
<1>3. ASSUME NEW c \in Clients, Step(c) PROVE LedgerInv'
  <2>1. ASSUME NEW i \in Ids, UpdateRead(c, i) PROVE LedgerInv'
    BY <2>1, LedgerReads
  <2>2. ASSUME \/ ParseText(c) \/ ParseReceipt(c) \/ CategoryCheck(c) \/ CategoryFlush(c)
               \/ Rollback(c) \/ \E i \in Ids : DeleteRead(c, i)
        PROVE  LedgerInv'
    BY <2>2, LedgerElse, LedgerRests
  <2> QED
    BY <1>3, <2>1, <2>2, LedgerCreates, LedgerInserts, LedgerUpdates, LedgerDeletes DEF Step
<1> QED
  BY <1>1, <1>2, <1>3 DEF Next

-------------------------------------------------------------------------------
(* Two updates that have read the same row overlap; one alone goes by the  *)
(* row as it is.                                                           *)
AmountsInv ==
  /\ mixed \subseteq Ids
  /\ \A i \in Live \ mixed : Readable(rows[i])
  /\ \A c \in Clients : client[c].pc = "patch" /\ client[c].id \in Live \ mixed
       => Readable(Patched(rows[client[c].id], client[c].change))
  /\ \A c, d \in Clients :
       c # d /\ client[c].pc = "patch" /\ client[d].pc = "patch"
         /\ client[c].id = client[d].id => client[c].id \in mixed

(* A request takes a state in which it holds no change of a row.           *)
LEMMA AmountsRest ==
  ASSUME AmountsInv, LedgerInv, NEW c \in Clients, client'[c].pc # "patch",
         \A d \in Clients \ {c} : client'[d] = client[d],
         rows' = rows, mixed' = mixed
  PROVE  AmountsInv'
<1>1. Live' = Live
  BY DEF Live
<1> QED
  BY <1>1 DEF AmountsInv

LEMMA AmountsWrite ==
  ASSUME AmountsInv, LedgerInv, NEW c \in Clients, client' = [client EXCEPT ![c] = Idle],
         NEW i \in Ids, NEW row \in Row \cup {NoRow}, rows' = [rows EXCEPT ![i] = row],
         row # NoRow /\ i \notin mixed => Readable(row),
         row # NoRow => \A d \in Clients \ {c} : client[d].pc = "patch" =>
                          client[d].id # i \/ i \in mixed,
         mixed' = mixed
  PROVE  AmountsInv'
<1>1. /\ client'[c].pc = "idle" /\ \A d \in Clients \ {c} : client'[d] = client[d]
  BY ClientTakes, Asked DEF Idle
<1>2. \A k \in Ids : rows'[k] = IF k = i THEN row ELSE rows[k]
  BY DEF LedgerInv
<1>3. \A k \in Live' : k \in Ids /\ ((k # i /\ k \in Live) \/ (k = i /\ row # NoRow))
  BY <1>2 DEF Live
<1>4. \A k \in Live' \ mixed : Readable(rows'[k])
  BY <1>2, <1>3 DEF AmountsInv
<1>5. \A d \in Clients : client'[d].pc = "patch" /\ client'[d].id \in Live' \ mixed
        => Readable(Patched(rows'[client'[d].id], client'[d].change))
  <2> SUFFICES ASSUME NEW d \in Clients, client'[d].pc = "patch",
                      client'[d].id \in Live' \ mixed
               PROVE  Readable(Patched(rows'[client'[d].id], client'[d].change))
    OBVIOUS
  <2>1. d # c /\ client'[d] = client[d]
    BY <1>1
  <2>2. client[d].id # i /\ client[d].id \in Live \ mixed
    BY <1>3, <2>1
  <2>3. rows'[client[d].id] = rows[client[d].id]
    BY <1>2, <2>2 DEF Live
  <2> QED
    BY <2>1, <2>2, <2>3 DEF AmountsInv
<1>6. \A d, e \in Clients :
        d # e /\ client'[d].pc = "patch" /\ client'[e].pc = "patch"
          /\ client'[d].id = client'[e].id => client'[d].id \in mixed
  BY <1>1 DEF AmountsInv
<1> QED
  BY <1>4, <1>5, <1>6 DEF AmountsInv

LEMMA AmountsRead ==
  ASSUME AmountsInv, LedgerInv, BookInv, NEW c \in Clients, NEW i \in Ids, UpdateRead(c, i)
  PROVE  AmountsInv'
<1>1. /\ i \in Live /\ client'[c].pc = "patch" /\ client'[c].id = i
      /\ Readable(Patched(rows[i], client'[c].change))
      /\ \A d \in Clients \ {c} : client'[d] = client[d]
  BY LedgerReads
<1>2. rows' = rows /\ Live' = Live /\ client[c].pc = "idle"
  BY DEF UpdateRead, Live, Sends
<1>3. mixed \subseteq mixed' /\ mixed' \subseteq mixed \cup {i}
  BY DEF UpdateRead
<1>4. \A d \in Clients \ {c} : client[d].pc = "patch" /\ client[d].id = i => i \in mixed'
  BY DEF UpdateRead
<1>5. \A k \in Live' \ mixed' : Readable(rows'[k])
  BY <1>2, <1>3 DEF AmountsInv
<1>6. \A d \in Clients : client'[d].pc = "patch" /\ client'[d].id \in Live' \ mixed'
        => Readable(Patched(rows'[client'[d].id], client'[d].change))
  <2> SUFFICES ASSUME NEW d \in Clients, client'[d].pc = "patch",
                      client'[d].id \in Live' \ mixed'
               PROVE  Readable(Patched(rows'[client'[d].id], client'[d].change))
    OBVIOUS
  <2>1. CASE d = c
    BY <1>1, <1>2, <2>1
  <2>2. CASE d # c
    BY <1>1, <1>2, <1>3, <2>2 DEF AmountsInv
  <2> QED
    BY <2>1, <2>2
<1>7. \A d, e \in Clients :
        d # e /\ client'[d].pc = "patch" /\ client'[e].pc = "patch"
          /\ client'[d].id = client'[e].id => client'[d].id \in mixed'
  BY <1>1, <1>3, <1>4 DEF AmountsInv
<1> QED
  BY <1>3, <1>5, <1>6, <1>7 DEF AmountsInv

LEMMA AmountsStep ==
  ASSUME AmountsInv, LedgerInv, BookInv, [Next]_vars
  PROVE  AmountsInv'
<1>1. CASE NextMonth \/ WalkBegins \/ WalkPage \/ UNCHANGED vars
  <2>1. rows' = rows /\ client' = client /\ mixed' = mixed /\ Live' = Live
    BY <1>1 DEF NextMonth, WalkBegins, WalkPage, vars, Live
  <2> QED
    BY <2>1 DEF AmountsInv
<1>2. ASSUME NEW c \in Clients, Step(c) PROVE AmountsInv'
  <2>1. ASSUME NEW i \in Ids, UpdateRead(c, i) PROVE AmountsInv'
    BY <2>1, AmountsRead
  <2>2. ASSUME \/ ParseText(c) \/ ParseReceipt(c) \/ CategoryCheck(c) \/ CategoryFlush(c)
               \/ Rollback(c) \/ \E i \in Ids : DeleteRead(c, i)
        PROVE  AmountsInv'
    <3>1. PICK s \in Request : s.pc \notin {"insert", "patch"}
                               /\ client' = [client EXCEPT ![c] = s]
      BY <2>2, LedgerElse
    <3>2. rows' = rows /\ mixed' = mixed
      BY <2>2, LedgerElse
    <3> QED
      BY <3>1, <3>2, ClientTakes, AmountsRest
  <2>3. ASSUME CreateCheck(c) PROVE AmountsInv'
    BY <2>3, LedgerCreates, AmountsRest DEF CreateCheck
  <2>4. ASSUME Insert(c) PROVE AmountsInv'
    <3>1. PICK new \in Row : Readable(new) /\ rows' = [rows EXCEPT ![client[c].id] = new]
      BY <2>4, Inserted
    <3>2. /\ client[c].id \in Ids /\ client[c].pc = "insert"
          /\ client' = [client EXCEPT ![c] = Idle] /\ mixed' = mixed
      BY <2>4, Writers DEF Insert, LedgerInv
    <3>3. \A d \in Clients \ {c} : client[d].pc = "patch" => client[d].id # client[c].id
      BY <3>2 DEF LedgerInv, Apart
    <3> QED
      BY <3>1, <3>2, <3>3, AmountsWrite
  <2>5. ASSUME Update(c) PROVE AmountsInv'
    <3>1. PICK new \in Row :
            /\ client[c].id \in Live
            /\ new = Patched(rows[client[c].id], client[c].change)
            /\ rows' = [rows EXCEPT ![client[c].id] = new]
      BY <2>5, Updated
    <3>2. /\ client[c].id \in Ids /\ client[c].pc = "patch"
          /\ client' = [client EXCEPT ![c] = Idle] /\ mixed' = mixed
      BY <2>5, <3>1 DEF Update, Live
    <3>3. client[c].id \notin mixed => Readable(new)
      BY <3>1, <3>2 DEF AmountsInv
    <3>4. \A d \in Clients \ {c} : client[d].pc = "patch" =>
            client[d].id # client[c].id \/ client[c].id \in mixed
      BY <3>2 DEF AmountsInv
    <3> QED
      BY <3>1, <3>2, <3>3, <3>4, AmountsWrite
  <2>6. ASSUME Delete(c) PROVE AmountsInv'
    <3>1. client[c].id \in Ids
      BY <2>6, Writers DEF Delete, LedgerInv
    <3> QED
      BY <2>6, <3>1, AmountsWrite DEF Delete
  <2> QED
    BY <1>2, <2>1, <2>2, <2>3, <2>4, <2>5, <2>6 DEF Step
<1> QED
  BY <1>1, <1>2 DEF Next

-------------------------------------------------------------------------------
(* The quota.                                                              *)

CreatedIn(m) == {i \in Live : rows[i].month = m}
Pending(m) == {c \in Clients : client[c].pc = "insert" /\ client[c].row.month <= m}

(* Every row of a month beyond the quota was inserted by a request that    *)
(* had checked the quota before, and each client has one of them at most.  *)
DebtInv ==
  \A m \in 0..month :
    Cardinality(CreatedIn(m)) + Cardinality(Pending(m)) < Quota + Cardinality(Clients)

LEMMA RowsAreFinite ==
  ASSUME NEW S \in SUBSET Ids
  PROVE  IsFiniteSet(S) /\ Cardinality(S) \in Nat
<1>1. IsFiniteSet(Ids)
  BY Bounds, FS_Interval DEF Ids
<1> QED
  BY <1>1, FS_Subset, FS_CardinalityType

LEMMA ClientsAreFinite ==
  ASSUME NEW S \in SUBSET Clients
  PROVE  /\ IsFiniteSet(S) /\ Cardinality(S) \in Nat /\ Cardinality(Clients) \in Nat
         /\ Cardinality(S) <= Cardinality(Clients)
BY Bounds, FS_Subset, FS_CardinalityType

LEMMA Fewer ==
  ASSUME NEW S, NEW T \in SUBSET S, IsFiniteSet(S)
  PROVE  Cardinality(T) \in Nat /\ Cardinality(S) \in Nat /\ Cardinality(T) <= Cardinality(S)
BY FS_Subset, FS_CardinalityType

LEMMA DebtInit == Init => DebtInv
<1> SUFFICES ASSUME Init, NEW m \in 0..month
             PROVE  Cardinality(CreatedIn(m)) + Cardinality(Pending(m))
                      < Quota + Cardinality(Clients)
  BY DEF DebtInv
<1>1. CreatedIn(m) = {}
  BY DEF Init, CreatedIn, Live
<1>2. Pending(m) = {}
  BY DEF Init, Pending, Idle
<1>3. Cardinality(CreatedIn(m)) = 0 /\ Cardinality(Pending(m)) = 0
  BY <1>1, <1>2, FS_EmptySet
<1>4. Cardinality(Clients) \in Nat
  BY ClientsAreFinite
<1> QED
  BY <1>3, <1>4, Bounds

LEMMA DebtShrinks ==
  ASSUME DebtInv, month' = month,
         \A m \in 0..month : CreatedIn(m)' \subseteq CreatedIn(m) /\ Pending(m)' \subseteq Pending(m)
  PROVE  DebtInv'
<1> SUFFICES ASSUME NEW m \in 0..month
             PROVE  Cardinality(CreatedIn(m)') + Cardinality(Pending(m)')
                      < Quota + Cardinality(Clients)
  BY DEF DebtInv
<1>1. CreatedIn(m) \in SUBSET Ids /\ Pending(m) \in SUBSET Clients
  BY DEF CreatedIn, Pending, Live
<1>2. Cardinality(CreatedIn(m)') <= Cardinality(CreatedIn(m))
      /\ Cardinality(CreatedIn(m)') \in Nat /\ Cardinality(CreatedIn(m)) \in Nat
  BY <1>1, RowsAreFinite, Fewer
<1>3. Cardinality(Pending(m)') <= Cardinality(Pending(m))
      /\ Cardinality(Pending(m)') \in Nat /\ Cardinality(Pending(m)) \in Nat
  BY <1>1, ClientsAreFinite, Fewer
<1>4. Cardinality(CreatedIn(m)) + Cardinality(Pending(m)) < Quota + Cardinality(Clients)
  BY DEF DebtInv
<1> QED
  BY <1>2, <1>3, <1>4, Bounds, ClientsAreFinite

(* The check: fewer rows than the quota, and no more to come than clients. *)
LEMMA DebtChecked ==
  ASSUME DebtInv, LedgerInv, BookInv, NEW c \in Clients, CreateCheck(c)
  PROVE  DebtInv'
<1>1. /\ client'[c].pc = "insert" /\ client'[c].row.month = month
      /\ \A d \in Clients \ {c} : client'[d] = client[d]
  BY LedgerCreates
<1>2. rows' = rows /\ month' = month /\ Live' = Live /\ \A m : CreatedIn(m)' = CreatedIn(m)
  BY DEF CreateCheck, CreatedIn, Live
<1> SUFFICES ASSUME NEW m \in 0..month
             PROVE  Cardinality(CreatedIn(m)) + Cardinality(Pending(m)')
                      < Quota + Cardinality(Clients)
  BY <1>2 DEF DebtInv
<1>3. CreatedIn(m) \in SUBSET Ids /\ Pending(m)' \in SUBSET Clients
  BY DEF CreatedIn, Pending, Live
<1>4. Cardinality(CreatedIn(m)) \in Nat
  BY <1>3, RowsAreFinite
<1>5. /\ Cardinality(Pending(m)') \in Nat /\ Cardinality(Clients) \in Nat
      /\ Cardinality(Pending(m)') <= Cardinality(Clients)
  BY <1>3, ClientsAreFinite
<1>6. CASE m = month
  <2>1. Count = Cardinality(CreatedIn(m))
    BY <1>6 DEF Count, CreatedIn
  <2>2. Cardinality(CreatedIn(m)) < Quota
    BY <2>1 DEF CreateCheck
  <2> QED
    BY <1>4, <1>5, <2>2, Bounds
<1>7. CASE m # month
  <2>1. m < month
    BY <1>7, Bounds DEF LedgerInv
  <2>2. ~(month <= m)
    BY <2>1, Bounds DEF LedgerInv
  <2>3. Pending(m)' \subseteq Pending(m)
    BY <1>1, <2>2 DEF Pending
  <2>4. Pending(m) \in SUBSET Clients
    BY DEF Pending
  <2>5. /\ Cardinality(Pending(m)') <= Cardinality(Pending(m))
        /\ Cardinality(Pending(m)) \in Nat
    BY <2>3, <2>4, ClientsAreFinite, Fewer
  <2>6. Cardinality(CreatedIn(m)) + Cardinality(Pending(m)) < Quota + Cardinality(Clients)
    BY DEF DebtInv
  <2> QED
    BY <1>4, <1>5, <2>5, <2>6, Bounds
<1> QED
  BY <1>6, <1>7

(* The insert: one row more, one less to come.                             *)
LEMMA DebtPaid ==
  ASSUME DebtInv, LedgerInv, NEW c \in Clients, Insert(c)
  PROVE  DebtInv'
<1>1. PICK created \in client[c].row.month..month, new \in Row :
        new.month = created /\ rows' = [rows EXCEPT ![client[c].id] = new]
  BY Inserted
<1>2. /\ client[c].pc = "insert" /\ client[c].id \in Ids /\ client[c].row.month \in Nat
      /\ client[c].id \notin Live
      /\ client' = [client EXCEPT ![c] = Idle] /\ month' = month
  BY Writers, Bounds DEF Insert, LedgerInv, Stands, Row
<1>3. /\ client'[c].pc = "idle" /\ \A d \in Clients \ {c} : client'[d] = client[d]
      /\ \A k \in Ids : rows'[k] = IF k = client[c].id THEN new ELSE rows[k]
  BY <1>1, <1>2, ClientTakes, Asked DEF Idle, LedgerInv
<1>4. \A m : Pending(m)' = Pending(m) \ {c}
  BY <1>3 DEF Pending
<1>5. \A m : CreatedIn(m)' \subseteq CreatedIn(m) \cup {client[c].id}
  BY <1>3 DEF CreatedIn, Live
<1>6. \A m : m # created => CreatedIn(m)' \subseteq CreatedIn(m)
  BY <1>1, <1>3 DEF CreatedIn, Live
<1> SUFFICES ASSUME NEW m \in 0..month
             PROVE  Cardinality(CreatedIn(m)') + Cardinality(Pending(m)')
                      < Quota + Cardinality(Clients)
  BY <1>2 DEF DebtInv
<1>7. CreatedIn(m) \in SUBSET Ids /\ Pending(m) \in SUBSET Clients
      /\ CreatedIn(m)' \in SUBSET Ids
  BY DEF CreatedIn, Pending, Live
<1>8. IsFiniteSet(CreatedIn(m)) /\ Cardinality(CreatedIn(m)) \in Nat
      /\ Cardinality(CreatedIn(m)') \in Nat
  BY <1>7, RowsAreFinite
<1>9. /\ IsFiniteSet(Pending(m)) /\ Cardinality(Pending(m)) \in Nat
      /\ Cardinality(Clients) \in Nat
  BY <1>7, ClientsAreFinite
<1>10. Cardinality(CreatedIn(m)) + Cardinality(Pending(m)) < Quota + Cardinality(Clients)
  BY DEF DebtInv
<1>11. CASE m = created
  <2>1. c \in Pending(m)
    BY <1>2, <1>11, Bounds DEF Pending, LedgerInv
  <2>2. Cardinality(Pending(m)') = Cardinality(Pending(m)) - 1
    BY <1>4, <1>9, <2>1, FS_RemoveElement
  <2>3. /\ IsFiniteSet(CreatedIn(m) \cup {client[c].id})
        /\ Cardinality(CreatedIn(m) \cup {client[c].id}) <= Cardinality(CreatedIn(m)) + 1
    BY <1>8, FS_AddElement
  <2>4. /\ Cardinality(CreatedIn(m)') <= Cardinality(CreatedIn(m) \cup {client[c].id})
        /\ Cardinality(CreatedIn(m) \cup {client[c].id}) \in Nat
    BY <1>5, <2>3, Fewer
  <2>5. Cardinality(CreatedIn(m)') <= Cardinality(CreatedIn(m)) + 1
    BY <1>8, <2>3, <2>4
  <2> QED
    BY <1>8, <1>9, <1>10, <2>2, <2>5, Bounds
<1>12. CASE m # created
  <2>1. Cardinality(CreatedIn(m)') <= Cardinality(CreatedIn(m))
    BY <1>6, <1>8, <1>12, Fewer
  <2>2. Pending(m)' \subseteq Pending(m)
    BY <1>4
  <2>3. Cardinality(Pending(m)') <= Cardinality(Pending(m)) /\ Cardinality(Pending(m)') \in Nat
    BY <1>9, <2>2, Fewer
  <2> QED
    BY <1>8, <1>9, <1>10, <2>1, <2>3, Bounds
<1> QED
  BY <1>11, <1>12

LEMMA DebtStep ==
  ASSUME DebtInv, LedgerInv, BookInv, [Next]_vars
  PROVE  DebtInv'
<1>1. CASE NextMonth
  <2>1. rows' = rows /\ client' = client /\ month' = month + 1 /\ month \in Nat
    BY <1>1, Bounds DEF NextMonth, LedgerInv
  <2>2. \A m : CreatedIn(m)' = CreatedIn(m) /\ Pending(m)' = Pending(m)
    BY <2>1 DEF CreatedIn, Pending, Live
  <2> SUFFICES ASSUME NEW m \in 0..(month + 1)
               PROVE  Cardinality(CreatedIn(m)) + Cardinality(Pending(m))
                        < Quota + Cardinality(Clients)
    BY <2>1, <2>2 DEF DebtInv
  <2>3. CASE m = month + 1
    <3>1. \A i \in Live : rows[i].month \in Nat /\ rows[i].month <= month
      BY Bounds DEF LedgerInv, Live, Row
    <3>2. CreatedIn(m) = {}
      BY <2>1, <2>3, <3>1 DEF CreatedIn
    <3>3. Pending(m) \in SUBSET Clients
      BY DEF Pending
    <3>4. Cardinality(Pending(m)) <= Cardinality(Clients) /\ Cardinality(Pending(m)) \in Nat
          /\ Cardinality(Clients) \in Nat
      BY <3>3, ClientsAreFinite
    <3>5. Cardinality(CreatedIn(m)) = 0
      BY <3>2, FS_EmptySet
    <3> QED
      BY <3>4, <3>5, Bounds
  <2>4. CASE m # month + 1
    BY <2>1, <2>4 DEF DebtInv
  <2> QED
    BY <2>3, <2>4
<1>2. CASE WalkBegins \/ WalkPage \/ UNCHANGED vars
  <2>1. rows' = rows /\ client' = client /\ month' = month
    BY <1>2 DEF WalkBegins, WalkPage, vars
  <2>2. \A m : CreatedIn(m)' = CreatedIn(m) /\ Pending(m)' = Pending(m)
    BY <2>1 DEF CreatedIn, Pending, Live
  <2> QED
    BY <2>1, <2>2, DebtShrinks
<1>3. ASSUME NEW c \in Clients, client'[c].pc # "insert",
             \A d \in Clients \ {c} : client'[d] = client[d], month' = month,
             \A m \in 0..month : CreatedIn(m)' \subseteq CreatedIn(m)
      PROVE  DebtInv'
  <2>1. \A m : Pending(m)' \subseteq Pending(m)
    BY <1>3 DEF Pending
  <2> QED
    BY <1>3, <2>1, DebtShrinks
<1>4. ASSUME NEW c \in Clients, Step(c) PROVE DebtInv'
  <2>1. ASSUME NEW i \in Ids, UpdateRead(c, i) PROVE DebtInv'
    <3>1. rows' = rows /\ month' = month /\ client'[c].pc = "patch"
          /\ \A d \in Clients \ {c} : client'[d] = client[d]
      BY <2>1, LedgerReads DEF UpdateRead
    <3>2. \A m : CreatedIn(m)' = CreatedIn(m)
      BY <3>1 DEF CreatedIn, Live
    <3> QED
      BY <1>3, <3>1, <3>2
  <2>2. ASSUME \/ ParseText(c) \/ ParseReceipt(c) \/ CategoryCheck(c) \/ CategoryFlush(c)
               \/ Rollback(c) \/ \E i \in Ids : DeleteRead(c, i)
        PROVE  DebtInv'
    <3>1. PICK s \in Request : s.pc \notin {"insert", "patch"}
                               /\ client' = [client EXCEPT ![c] = s]
      BY <2>2, LedgerElse
    <3>2. rows' = rows /\ month' = month
      BY <2>2, LedgerElse
    <3>3. \A m : CreatedIn(m)' = CreatedIn(m)
      BY <3>2 DEF CreatedIn, Live
    <3> QED
      BY <1>3, <3>1, <3>2, <3>3, ClientTakes
  <2>3. ASSUME Update(c) PROVE DebtInv'
    <3>1. PICK new \in Row :
            /\ client[c].id \in Live /\ new.month = rows[client[c].id].month
            /\ rows' = [rows EXCEPT ![client[c].id] = new]
      BY <2>3, Updated
    <3>2. \A k \in Ids : rows'[k] = IF k = client[c].id THEN new ELSE rows[k]
      BY <3>1 DEF LedgerInv
    <3>3. \A m : CreatedIn(m)' \subseteq CreatedIn(m)
      BY <3>1, <3>2 DEF CreatedIn, Live
    <3>4. /\ client'[c].pc = "idle" /\ \A d \in Clients \ {c} : client'[d] = client[d]
          /\ month' = month
      BY <2>3, ClientTakes, Asked DEF Update, Idle
    <3> QED
      BY <1>3, <3>3, <3>4
  <2>4. ASSUME Delete(c) PROVE DebtInv'
    <3>1. \A k \in Ids : rows'[k] = IF k = client[c].id THEN NoRow ELSE rows[k]
      BY <2>4 DEF LedgerInv, Delete
    <3>2. \A m : CreatedIn(m)' \subseteq CreatedIn(m)
      BY <3>1 DEF CreatedIn, Live
    <3>3. /\ client'[c].pc = "idle" /\ \A d \in Clients \ {c} : client'[d] = client[d]
          /\ month' = month
      BY <2>4, ClientTakes, Asked DEF Delete, Idle
    <3> QED
      BY <1>3, <3>2, <3>3
  <2> QED
    BY <1>4, <2>1, <2>2, <2>3, <2>4, DebtChecked, DebtPaid DEF Step
<1> QED
  BY <1>1, <1>2, <1>4 DEF Next

-------------------------------------------------------------------------------
(* Paging.                                                                 *)

(* A set of numbers has a least one.                                       *)
LEMMA LeastOf ==
  ASSUME NEW S \in SUBSET Nat, S # {}
  PROVE  \E n \in S : \A m \in S : n <= m
<1> DEFINE R == {p \in Nat \X Nat : p[1] < p[2]}
<1>1. R = OpToRel(<, Nat)
  BY DEF OpToRel
<1>2. IsWellFoundedOn(R, Nat)
  BY <1>1, NatLessThanWellFounded
<1>3. \A x, y \in Nat : y < x => <<y, x>> \in R
  OBVIOUS
<1> HIDE DEF R
<1>4. PICK x \in S : \A y \in S : ~ (<<y, x>> \in R)
  <2>1. \E x \in S : \A y \in S : ~ (<<y, x>> \in R)
    BY <1>2, WFMin
  <2> QED
    BY <2>1
<1>5. \A y \in S : ~(y < x)
  BY <1>3, <1>4
<1>6. \A y \in S : x <= y
  BY <1>5
<1> QED
  BY <1>6

LEMMA StrictlyFewer ==
  ASSUME NEW S, NEW T \in SUBSET S, IsFiniteSet(S), NEW x \in S \ T
  PROVE  Cardinality(T) < Cardinality(S)
BY FS_Subset, FS_CardinalityType

-------------------------------------------------------------------------------
(* ORDER BY date DESC, created_at DESC, id DESC is a total order.          *)
LEMMA InOrder ==
  ASSUME LedgerInv
  PROVE  /\ Live \subseteq Ids /\ \A i \in Live : i \in Nat /\ rows[i].day \in Nat
                                                  /\ rows[i].day \in Days
         /\ \A i \in Live : ~Before(i, i)
         /\ \A i, j, k \in Live : Before(i, j) /\ Before(j, k) => Before(i, k)
         /\ \A i, j \in Live : i # j => Before(i, j) \/ Before(j, i)
         /\ \A i, j \in Live : ~(Before(i, j) /\ Before(j, i))
<1>1. Live \subseteq Ids /\ \A i \in Live : i \in Nat /\ rows[i].day \in Nat
                                            /\ rows[i].day \in Days
  <2>1. \A i \in Live : i \in Ids /\ rows[i] \in Row
    BY DEF LedgerInv, Live
  <2>2. \A i \in Live : rows[i].day \in Days
    BY <2>1 DEF Row
  <2>3. Ids \subseteq Nat /\ Days \subseteq Nat
    BY Bounds DEF Ids
  <2> QED
    BY <2>1, <2>2, <2>3
<1> QED
  BY <1>1 DEF Before

LEMMA FirstOf ==
  ASSUME LedgerInv, NEW S \in SUBSET Live, S # {}
  PROVE  \E i \in S : \A k \in S \ {i} : Before(i, k)
<1> DEFINE ahead(i) == {k \in S : Before(k, i)}
           N == {Cardinality(ahead(i)) : i \in S}
<1>1. \A i \in S : ahead(i) \in SUBSET Ids
  BY InOrder
<1>2. \A i \in S : IsFiniteSet(ahead(i)) /\ Cardinality(ahead(i)) \in Nat
  BY <1>1, RowsAreFinite
<1>3. N \in SUBSET Nat /\ N # {}
  BY <1>2
<1>4. PICK n \in N : \A m \in N : n <= m
  BY <1>3, LeastOf
<1>5. PICK i \in S : n = Cardinality(ahead(i))
  OBVIOUS
<1>6. ASSUME NEW k \in S \ {i}, ~Before(i, k)
      PROVE  FALSE
  <2>1. Before(k, i)
    BY <1>6, InOrder
  <2>2. k \in ahead(i) \ ahead(k) /\ ahead(k) \subseteq ahead(i)
    BY <2>1, InOrder
  <2>3. Cardinality(ahead(k)) < Cardinality(ahead(i))
    <3> HIDE DEF ahead
    <3> QED
      BY <1>2, <2>2, StrictlyFewer
  <2>4. Cardinality(ahead(i)) <= Cardinality(ahead(k))
    BY <1>4, <1>5
  <2> HIDE DEF ahead
  <2> QED
    BY <1>2, <2>3, <2>4
<1> QED
  BY <1>6

LEMMA LastOf ==
  ASSUME LedgerInv, NEW S \in SUBSET Live, S # {}
  PROVE  \E i \in S : \A k \in S \ {i} : Before(k, i)
<1> DEFINE after(i) == {k \in S : Before(i, k)}
           N == {Cardinality(after(i)) : i \in S}
<1>1. \A i \in S : after(i) \in SUBSET Ids
  BY InOrder
<1>2. \A i \in S : IsFiniteSet(after(i)) /\ Cardinality(after(i)) \in Nat
  BY <1>1, RowsAreFinite
<1>3. N \in SUBSET Nat /\ N # {}
  BY <1>2
<1>4. PICK n \in N : \A m \in N : n <= m
  BY <1>3, LeastOf
<1>5. PICK i \in S : n = Cardinality(after(i))
  OBVIOUS
<1>6. ASSUME NEW k \in S \ {i}, ~Before(k, i)
      PROVE  FALSE
  <2>1. Before(i, k)
    BY <1>6, InOrder
  <2>2. k \in after(i) \ after(k) /\ after(k) \subseteq after(i)
    BY <2>1, InOrder
  <2>3. Cardinality(after(k)) < Cardinality(after(i))
    <3> HIDE DEF after
    <3> QED
      BY <1>2, <2>2, StrictlyFewer
  <2>4. Cardinality(after(i)) <= Cardinality(after(k))
    BY <1>4, <1>5
  <2> HIDE DEF after
  <2> QED
    BY <1>2, <2>3, <2>4
<1> QED
  BY <1>6

-------------------------------------------------------------------------------
(* A page: the first rows of what is left; a page that is not full is all  *)
(* that is left.                                                           *)
FirstPage(rest) == {i \in rest : Cardinality({k \in rest : Before(k, i)}) < PageSize}

LEMMA Pages ==
  ASSUME LedgerInv, NEW rest \in SUBSET Live
  PROVE  LET page == FirstPage(rest) IN
         /\ \A i \in page, k \in rest : Before(k, i) => k \in page
         /\ Cardinality(page) # PageSize => page = rest
         /\ Cardinality(page) = PageSize =>
              \E i \in page : \A k \in page \ {i} : Before(k, i)
<1> DEFINE ahead(i) == {k \in rest : Before(k, i)}
           page == FirstPage(rest)
<1>1. \A i \in rest : ahead(i) \in SUBSET Ids
  BY InOrder
<1>2. \A i \in rest : IsFiniteSet(ahead(i)) /\ Cardinality(ahead(i)) \in Nat
  BY <1>1, RowsAreFinite
<1>3. page \subseteq rest /\ \A i \in rest : i \in page <=> Cardinality(ahead(i)) < PageSize
  BY DEF FirstPage
<1> HIDE DEF page
<1>4. page \in SUBSET Ids /\ page \in SUBSET Live
  BY <1>3, InOrder
<1>5. IsFiniteSet(page) /\ Cardinality(page) \in Nat
  BY <1>4, RowsAreFinite
<1>6. ASSUME NEW i \in page, NEW k \in rest, Before(k, i) PROVE k \in page
  <2>1. ahead(k) \subseteq ahead(i)
    BY <1>3, <1>6, InOrder
  <2> HIDE DEF ahead
  <2>2. Cardinality(ahead(k)) <= Cardinality(ahead(i))
    BY <1>2, <1>3, <2>1, Fewer
  <2> QED
    BY <1>2, <1>3, <2>2, Bounds
<1>7. Cardinality(page) <= PageSize
  <2>1. CASE page = {}
    <3>1. Cardinality(page) = 0
      BY <2>1, FS_EmptySet
    <3> HIDE DEF ahead
    <3> QED
      BY <3>1, Bounds
  <2>2. CASE page # {}
    <3>1. PICK i \in page : \A k \in page \ {i} : Before(k, i)
      BY <1>4, <2>2, LastOf
    <3>2. page \ {i} \subseteq ahead(i)
      BY <1>3, <3>1
    <3> HIDE DEF ahead
    <3>3. Cardinality(page \ {i}) <= Cardinality(ahead(i))
      BY <1>2, <1>3, <3>2, Fewer
    <3>4. Cardinality(page \ {i}) = Cardinality(page) - 1
      BY <1>5, FS_RemoveElement
    <3> QED
      BY <1>2, <1>3, <1>5, <3>3, <3>4, Bounds
  <2> QED
    BY <2>1, <2>2
<1>8. ASSUME Cardinality(page) # PageSize, page # rest PROVE FALSE
  <2>1. rest \ page \in SUBSET Live /\ rest \ page # {}
    BY <1>3, <1>8
  <2>2. PICK i \in rest \ page : \A k \in (rest \ page) \ {i} : Before(i, k)
    BY <2>1, FirstOf
  <2>3. ahead(i) \subseteq page
    BY <2>2, InOrder
  <2> HIDE DEF ahead
  <2>4. Cardinality(ahead(i)) <= Cardinality(page)
    BY <1>5, <2>3, Fewer
  <2>5. Cardinality(page) < PageSize
    BY <1>5, <1>7, <1>8, Bounds
  <2> QED
    BY <1>2, <1>3, <1>5, <2>4, <2>5, Bounds
<1>9. Cardinality(page) = PageSize => page # {}
  BY FS_EmptySet, Bounds
<1>10. page # {} => \E i \in page : \A k \in page \ {i} : Before(k, i)
  BY <1>4, LastOf
<1> QED
  BY <1>6, <1>8, <1>9, <1>10 DEF page

(* The keyset: what comes after a row that is behind the cursor is, too.   *)
LEMMA Cursors ==
  ASSUME LedgerInv, NEW i \in Live, NEW k \in Live
  PROVE  /\ Behind(i, <<rows[k].day, k>>) <=> Before(k, i)
         /\ \A cursor \in {<<>>} \cup (Days \X Ids) :
              Behind(k, cursor) /\ Before(k, i) => Behind(i, cursor)
<1>1. i \in Nat /\ k \in Nat /\ rows[i].day \in Nat /\ rows[k].day \in Nat
  BY InOrder
<1>2. <<rows[k].day, k>> # <<>>
  OBVIOUS
<1>3. Behind(i, <<rows[k].day, k>>) <=> Before(k, i)
  BY <1>1, <1>2 DEF Behind, Before
<1>4. ASSUME NEW cursor \in {<<>>} \cup (Days \X Ids), Behind(k, cursor), Before(k, i)
      PROVE  Behind(i, cursor)
  <2>1. CASE cursor = <<>>
    BY <2>1 DEF Behind
  <2>2. CASE cursor # <<>>
    <3>1. PICK d \in Days, n \in Ids : cursor = <<d, n>>
      BY <2>2
    <3>2. d \in Nat /\ n \in Nat /\ cursor[1] = d /\ cursor[2] = n
      BY <3>1, Bounds DEF Ids
    <3> QED
      BY <1>1, <1>4, <2>2, <3>2 DEF Behind, Before
  <2> QED
    BY <2>1, <2>2
<1> QED
  BY <1>3, <1>4

(* The walk has shown those of the rows that stayed that are not behind    *)
(* its cursor.                                                             *)
PagingInv ==
  /\ walk \in Walk
  /\ walk.stayed \subseteq Live
  /\ walk.pc = "next" =>
       \A i \in walk.stayed : i \in walk.seen <=> ~Behind(i, walk.cursor)
  /\ PagingSeesEveryRow

LEMMA PagingInit == Init => PagingInv
BY DEF Init, PagingInv, NoWalk, Walk, Live, PagingSeesEveryRow

LEMMA NoWalkIsOne == NoWalk \in Walk
BY DEF NoWalk, Walk

(* Rows come, go and change, and the walk loses those that did not stay.   *)
LEMMA PagingStays ==
  ASSUME PagingInv, NEW S \in SUBSET walk.stayed,
         walk' = [walk EXCEPT !.stayed = S],
         S \subseteq Live',
         \A i \in S : rows'[i].day = rows[i].day
  PROVE  PagingInv'
<1>1. /\ walk' \in Walk /\ walk'.stayed = S /\ walk'.pc = walk.pc /\ walk'.seen = walk.seen
      /\ walk'.twice = walk.twice /\ walk'.cursor = walk.cursor
  BY DEF PagingInv, Walk
<1>2. \A i \in S : Behind(i, walk.cursor)' <=> Behind(i, walk.cursor)
  BY <1>1 DEF Behind
<1> QED
  BY <1>1, <1>2 DEF PagingInv, PagingSeesEveryRow

LEMMA PagingSame ==
  ASSUME PagingInv, walk' = walk, walk.stayed \subseteq Live',
         \A i \in walk.stayed : rows'[i].day = rows[i].day
  PROVE  PagingInv'
<1>1. \A i \in walk.stayed : Behind(i, walk.cursor)' <=> Behind(i, walk.cursor)
  BY DEF Behind
<1> QED
  BY <1>1 DEF PagingInv, PagingSeesEveryRow

(* The next page.                                                          *)
LEMMA PagingGoesOn ==
  ASSUME PagingInv, LedgerInv, WalkPage
  PROVE  PagingInv'
<1> DEFINE cursor == walk.cursor
           rest == {i \in Live : Behind(i, cursor)}
           page == FirstPage(rest)
           full == Cardinality(page) = PageSize
           last == CHOOSE i \in page : \A k \in page \ {i} : Before(k, i)
<1>1. /\ rows' = rows /\ Live' = Live /\ walk.pc = "next"
      /\ walk' = IF \E i \in page : ~Readable(rows[i]) THEN NoWalk
                 ELSE [walk EXCEPT
                   !.pc = IF full THEN "next" ELSE "done",
                   !.cursor = IF full THEN <<rows[last].day, last>> ELSE @,
                   !.twice = @ \cup (page \cap walk.seen),
                   !.seen = @ \cup page]
  BY DEF WalkPage, Live, FirstPage
<1>2. rest \in SUBSET Live /\ page \in SUBSET rest
  BY DEF FirstPage
<1>3. /\ \A i \in page, k \in rest : Before(k, i) => k \in page
      /\ ~full => page = rest
      /\ full => last \in page /\ \A k \in page \ {last} : Before(k, last)
  <2> HIDE DEF rest
  <2>1. full => \E i \in page : \A k \in page \ {i} : Before(k, i)
    BY <1>2, Pages
  <2> QED
    BY <1>2, <2>1, Pages
<1>4. walk \in Walk /\ cursor \in {<<>>} \cup (Days \X Ids) /\ walk.stayed \subseteq Live
      /\ walk.twice \cap walk.stayed = {}
      /\ \A i \in walk.stayed : i \in walk.seen <=> ~Behind(i, cursor)
  BY <1>1 DEF PagingInv, Walk, PagingSeesEveryRow
<1>5. \A i \in Live : i \in rest <=> Behind(i, cursor)
  OBVIOUS
<1> HIDE DEF cursor, rest, page, full, last
<1>6. CASE \E i \in page : ~Readable(rows[i])
  BY <1>1, <1>6, NoWalkIsOne DEF PagingInv, NoWalk, PagingSeesEveryRow
<1>7. CASE ~ \E i \in page : ~Readable(rows[i])
  <2>1. PICK new : new = IF full THEN <<rows[last].day, last>> ELSE cursor
    OBVIOUS
  <2>2. new \in {<<>>} \cup (Days \X Ids)
    BY <1>2, <1>3, <1>4, <2>1, InOrder
  <2>3. page \subseteq Ids
    BY <1>2, InOrder
  <2>4. /\ walk' \in Walk /\ walk'.stayed = walk.stayed
        /\ walk'.seen = walk.seen \cup page
        /\ walk'.twice = walk.twice \cup (page \cap walk.seen)
        /\ walk'.cursor = new /\ walk'.pc = IF full THEN "next" ELSE "done"
    <3>1. walk' = [walk EXCEPT !.pc = IF full THEN "next" ELSE "done", !.cursor = new,
                               !.twice = @ \cup (page \cap walk.seen), !.seen = @ \cup page]
      BY <1>1, <1>7, <2>1 DEF cursor
    <3> QED
      BY <1>4, <2>2, <2>3, <3>1 DEF Walk
  <2>5. walk'.twice \cap walk'.stayed = {}
    BY <1>2, <1>4, <1>5, <2>4
  <2>6. CASE full
    <3>1. last \in Live /\ last \in rest
      BY <1>2, <1>3, <2>6
    <3>2. \A i \in walk.stayed : Behind(i, new) <=> Before(last, i)
      BY <1>4, <2>1, <2>6, <3>1, Cursors
    <3>3. ASSUME NEW i \in walk.stayed PROVE i \in walk.seen \cup page <=> ~Before(last, i)
      <4>1. i \in Live
        BY <1>4
      <4>2. CASE i \in walk.seen
        <5>1. ~Behind(i, cursor) /\ Behind(last, cursor)
          BY <1>4, <1>5, <3>1, <4>2
        <5>2. ~Before(last, i)
          BY <1>4, <3>1, <4>1, <5>1, Cursors
        <5> QED
          BY <4>2, <5>2
      <4>3. CASE i \notin walk.seen
        <5>1. i \in rest
          BY <1>4, <1>5, <4>1, <4>3
        <5>2. i \in page => ~Before(last, i)
          BY <1>3, <2>6, <3>1, <4>1, InOrder
        <5>3. i \notin page => Before(last, i)
          BY <1>3, <2>6, <3>1, <4>1, <5>1, InOrder
        <5> QED
          BY <4>3, <5>2, <5>3
      <4> QED
        BY <4>2, <4>3
    <3>4. \A i \in walk'.stayed : i \in walk'.seen <=> ~Behind(i, walk.cursor)'
      BY <1>1, <2>4, <3>2, <3>3 DEF Behind
    <3> QED
      BY <1>1, <1>4, <2>4, <2>5, <2>6, <3>4 DEF PagingInv, PagingSeesEveryRow
  <2>7. CASE ~full
    <3>1. walk.stayed \subseteq walk.seen \cup page
      BY <1>3, <1>4, <1>5, <2>7
    <3> QED
      BY <1>1, <1>4, <2>4, <2>5, <2>7, <3>1 DEF PagingInv, PagingSeesEveryRow
  <2> QED
    BY <2>6, <2>7
<1> QED
  BY <1>6, <1>7

LEMMA PagingStep ==
  ASSUME PagingInv, LedgerInv, BookInv, [Next]_vars
  PROVE  PagingInv'
<1>1. CASE NextMonth \/ UNCHANGED vars
  <2>1. rows' = rows /\ walk' = walk /\ Live' = Live
    BY <1>1 DEF NextMonth, vars, Live
  <2> QED
    BY <2>1, PagingSame DEF PagingInv
<1>2. CASE WalkBegins
  <2>1. rows' = rows /\ Live' = Live /\ walk' = [NoWalk EXCEPT !.pc = "next", !.stayed = Live]
    BY <1>2 DEF WalkBegins, Live
  <2>2. /\ walk' \in Walk /\ walk'.stayed = Live /\ walk'.seen = {} /\ walk'.twice = {}
        /\ walk'.pc = "next" /\ walk'.cursor = <<>>
    BY <2>1, InOrder DEF NoWalk, Walk
  <2>3. \A i \in Live : Behind(i, walk.cursor)'
    BY <2>2 DEF Behind
  <2> QED
    BY <2>1, <2>2, <2>3 DEF PagingInv, PagingSeesEveryRow
<1>3. ASSUME NEW c \in Clients, Step(c) PROVE PagingInv'
  <2>1. ASSUME rows' = rows, walk' = walk PROVE PagingInv'
    <3>1. Live' = Live
      BY <2>1 DEF Live
    <3> QED
      BY <2>1, <3>1, PagingSame DEF PagingInv
  <2>2. ASSUME Insert(c) PROVE PagingInv'
    <3>1. PICK new \in Row : rows' = [rows EXCEPT ![client[c].id] = new]
      BY <2>2, Inserted
    <3>2. client[c].id \notin Live /\ walk' = walk
      BY <2>2 DEF Insert, LedgerInv, Stands
    <3>3. \A i \in Live : i \in Live' /\ rows'[i] = rows[i]
      BY <3>1, <3>2 DEF LedgerInv, Live
    <3> QED
      BY <3>2, <3>3, PagingSame DEF PagingInv
  <2>3. ASSUME Update(c) PROVE PagingInv'
    <3>1. PICK new \in Row :
            /\ client[c].id \in Live
            /\ "day" \notin DOMAIN client[c].change => new.day = rows[client[c].id].day
            /\ rows' = [rows EXCEPT ![client[c].id] = new]
      BY <2>3, Updated
    <3>2. \A i \in Live : rows'[i] = IF i = client[c].id THEN new ELSE rows[i]
      BY <3>1 DEF LedgerInv, Live
    <3>3. Live \subseteq Live'
      BY <3>1, <3>2, Bounds DEF Live
    <3>4. CASE "day" \in DOMAIN client[c].change
      <4>1. walk' = [walk EXCEPT !.stayed = walk.stayed \ {client[c].id}]
        BY <2>3, <3>4 DEF Update
      <4>2. \A i \in walk.stayed \ {client[c].id} : i \in Live' /\ rows'[i].day = rows[i].day
        BY <3>2, <3>3 DEF PagingInv
      <4> QED
        BY <4>1, <4>2, PagingStays
    <3>5. CASE "day" \notin DOMAIN client[c].change
      <4>1. walk' = walk
        BY <2>3, <3>5 DEF Update
      <4>2. \A i \in walk.stayed : i \in Live' /\ rows'[i].day = rows[i].day
        BY <3>1, <3>2, <3>3, <3>5 DEF PagingInv
      <4> QED
        BY <4>1, <4>2, PagingSame
    <3> QED
      BY <3>4, <3>5
  <2>4. ASSUME Delete(c) PROVE PagingInv'
    <3>1. /\ rows' = [rows EXCEPT ![client[c].id] = NoRow]
          /\ walk' = [walk EXCEPT !.stayed = walk.stayed \ {client[c].id}]
      BY <2>4 DEF Delete
    <3>2. \A i \in Live \ {client[c].id} : i \in Live' /\ rows'[i] = rows[i]
      BY <3>1 DEF LedgerInv, Live
    <3>3. \A i \in walk.stayed \ {client[c].id} : i \in Live' /\ rows'[i].day = rows[i].day
      BY <3>2 DEF PagingInv
    <3> QED
      BY <3>1, <3>3, PagingStays
  <2> QED
    BY <1>3, <2>1, <2>2, <2>3, <2>4
    DEF Step, ParseText, ParseReceipt, CreateCheck, CategoryCheck, CategoryFlush, Rollback,
        UpdateRead, DeleteRead
<1> QED
  BY <1>1, <1>2, <1>3, PagingGoesOn DEF Next

-------------------------------------------------------------------------------
Ledgers == BookInv /\ LedgerInv /\ AmountsInv /\ DebtInv /\ PagingInv

LEMMA LedgersInit == Init => Ledgers
<1>1. Init => AmountsInv
  BY DEF Init, AmountsInv, Live, Idle
<1> QED
  BY <1>1, BookInit, LedgerInit, DebtInit, PagingInit DEF Ledgers

LEMMA LedgersStep == Ledgers /\ [Next]_vars => Ledgers'
BY BookStep, LedgerStep, AmountsStep, DebtStep, PagingStep DEF Ledgers

LEMMA LedgersHold == Spec => []Ledgers
BY LedgersInit, LedgersStep, PTL DEF Spec

(* Whatever the requests do, rows, requests and the walk stay what they    *)
(* are meant to be.                                                        *)
THEOREM BookTypeCorrect == Spec => []TypeOK
<1>1. Ledgers => TypeOK
  BY DEF Ledgers, BookInv, LedgerInv, AmountsInv, PagingInv, TypeOK
<1> QED
  BY <1>1, LedgersHold, PTL

(* CreateTransaction checks the quota before it inserts: it is overshot by *)
(* no more than the requests that run side by side.                        *)
THEOREM QuotaOvershootBounded == Spec => []QuotaOvershootIsBounded
<1>1. Ledgers => QuotaOvershootIsBounded
  <2> SUFFICES ASSUME Ledgers, NEW m \in 0..MaxMonth
               PROVE  Cardinality(CreatedIn(m)) < Quota + Cardinality(Clients)
    BY DEF QuotaOvershootIsBounded, CreatedIn
  <2>1. CreatedIn(m) \in SUBSET Ids /\ Pending(m) \in SUBSET Clients
    BY DEF CreatedIn, Pending, Live
  <2>2. /\ Cardinality(CreatedIn(m)) \in Nat /\ Cardinality(Pending(m)) \in Nat
        /\ Cardinality(Clients) \in Nat
    BY <2>1, RowsAreFinite, ClientsAreFinite
  <2>3. CASE m \in 0..month
    <3>1. Cardinality(CreatedIn(m)) + Cardinality(Pending(m)) < Quota + Cardinality(Clients)
      BY <2>3 DEF Ledgers, DebtInv
    <3> QED
      BY <2>2, <3>1, Bounds
  <2>4. CASE m \notin 0..month
    <3>1. month \in Nat /\ m \in Nat /\ ~(m <= month)
      BY <2>4, Bounds DEF Ledgers, LedgerInv
    <3>2. CreatedIn(m) = {}
      BY <3>1 DEF Ledgers, LedgerInv, CreatedIn
    <3>3. Cardinality(CreatedIn(m)) = 0
      BY <3>2, FS_EmptySet
    <3> QED
      BY <2>2, <3>3, Bounds
  <2> QED
    BY <2>3, <2>4
<1> QED
  BY <1>1, LedgersHold, PTL

(* Money: a row whose amount does not fit its currency is one that two     *)
(* overlapping updates have written.                                       *)
THEOREM AmountsFit == Spec => []AmountsFitTheirCurrency
<1>1. Ledgers => AmountsFitTheirCurrency
  BY DEF Ledgers, AmountsInv, AmountsFitTheirCurrency
<1> QED
  BY <1>1, LedgersHold, PTL

(* The keyset of the list: whatever is added, deleted or moved meanwhile,  *)
(* paging shows every row that stayed where it was, once.                  *)
THEOREM PagingIsComplete == Spec => []PagingSeesEveryRow
<1>1. Ledgers => PagingSeesEveryRow
  BY DEF Ledgers, PagingInv
<1> QED
  BY <1>1, LedgersHold, PTL

-------------------------------------------------------------------------------
(* The two together.                                                       *)

(* A behaviour of the requests is one of the account and one of the book,  *)
(* one of the two standing still: no request about the one is a step of    *)
(* the other, so the theorems above hold of RequestsSpec.                  *)
THEOREM EachBookByItself == RequestsSpec => AccountsSpec /\ Spec
<1>1. RequestsInit => AccountsInit /\ Init
  BY DEF RequestsInit
<1>2. [RequestsNext]_requestVars => [AccountsNext]_accountVars /\ [Next]_vars
  BY DEF RequestsNext, requestVars
<1> QED
  BY <1>1, <1>2, PTL DEF RequestsSpec, AccountsSpec, Spec

===============================================================================
