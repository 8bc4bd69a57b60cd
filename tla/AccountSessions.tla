---------------------------- MODULE AccountSessions ----------------------------
(***************************************************************************)
(* One e-mail address: its account and password reset tokens in Postgres,  *)
(* its sessions in Redis, and the requests that register, log in and out,  *)
(* change and reset the password.                                          *)
(*                                                                         *)
(* The two stores move at different moments of a request.  What Redis is   *)
(* told takes effect at once; what Postgres is told takes effect when the  *)
(* request's container is closed, or not at all.  In between, a flushed    *)
(* row is locked and nobody else sees it.                                  *)
(*                                                                         *)
(* A request's name also names what it makes: the user id of a             *)
(* registration, the session of a login, a new password, a reset token.    *)
(***************************************************************************)
EXTENDS Naturals

CONSTANTS
  Requests,   \* HTTP requests, numbered in the order they come
  MaxFaults   \* bound of the model: requests that fail half-way

ASSUME AccountsAssumption == Requests \subseteq Nat /\ MaxFaults \in Nat

VARIABLES
  account,   \* {}, or the committed row of the e-mail address: id, password
  tokens,    \* committed password_reset_tokens
  lapsed,    \* tokens older than _TOKEN_TTL
  mailed,    \* tokens sent by mail
  live,      \* keys session:{sid}
  index,     \* members of sessions:{uid}, per user id
  expired,   \* sessions older than session_ttl
  audited,   \* requests whose audit event is committed
  req,       \* where each request stands and what it has read
  met,       \* requests that were under way at the same time, for each one
  faults     \* failures so far (bound of the model)

store == <<account, tokens>>
redis == <<live, index, expired>>
accountVars == <<account, tokens, lapsed, mailed, live, index, expired, audited, req,
                 met, faults>>

RequestKinds == {"register", "login", "logout", "change", "start", "confirm"}
Pcs == {"away", "insert", "session", "read", "write", "drop", "scan", "wipe",
        "revoke", "mail", "commit", "done"}

(* user, password, token: what the request has read and will go by; sids:  *)
(* what revoke_all has read of the index.  Sets of at most one, or empty.  *)
RequestState ==
  [pc : Pcs, kind : RequestKinds, user : SUBSET Requests, password : SUBSET Requests,
   token : SUBSET Requests, sids : SUBSET Requests]

Away == [pc |-> "away", kind |-> "login", user |-> {}, password |-> {},
         token |-> {}, sids |-> {}]

At(r, kinds, p) == req[r].kind \in kinds /\ req[r].pc = p
Goto(r, p) == req' = [req EXCEPT ![r].pc = p]
UnderWay == {r \in Requests : req[r].pc \notin {"away", "done"}}

(* What the database shows to everybody else.                              *)
Registered == {a.id : a \in account}
Password == {a.password : a \in account}

(* Requests that have flushed a row of users and hold its lock.            *)
Inserting == {r \in Requests : req[r].kind = "register" /\ req[r].pc \in {"session", "commit"}}
Updating == {r \in Requests : req[r].pc \in {"drop", "scan", "wipe"} \/
                              At(r, {"change", "confirm"}, "commit")}

Issued == {s \in Requests : s \in live \/ s \in expired \/ \E u \in Requests : s \in index[u]}

AccountsInit ==
  /\ account = {}
  /\ tokens = {}
  /\ lapsed = {}
  /\ mailed = {}
  /\ live = {}
  /\ index = [u \in Requests |-> {}]
  /\ expired = {}
  /\ audited = {}
  /\ req = [r \in Requests |-> Away]
  /\ met = [r \in Requests |-> {}]
  /\ faults = 0

(* The first thing a request reads; from here on it overlaps with others.  *)
Begin(r, state) ==
  /\ req[r].pc = "away"
  /\ \A q \in Requests : q < r => req[q].pc # "away"
  /\ req' = [req EXCEPT ![r] = state]
  /\ met' = [q \in Requests |->
               IF q = r THEN UnderWay
               ELSE IF q \in UnderWay THEN met[q] \cup {r} ELSE met[q]]
  /\ UNCHANGED <<store, lapsed, mailed, redis, audited, faults>>

-------------------------------------------------------------------------------
(* Sessions in Redis.                                                      *)

(* One MULTI: the key, its index entry, and the expired entries go.        *)
SaveSession(s, u) ==
  /\ live' = live \cup {s}
  /\ index' = [index EXCEPT ![u] = (@ \cup {s}) \ expired]
  /\ UNCHANGED expired

Authenticated(s, u) == s \in live /\ req[s].user = {u}

(* GET /users/me/sessions: the members of the index whose key exists.      *)
ListActive(u) == (index[u] \ expired) \cap live

SessionExpires(s) ==
  /\ s \in live
  /\ live' = live \ {s}
  /\ expired' = expired \cup {s}
  /\ UNCHANGED <<store, lapsed, mailed, index, audited, req, met, faults>>

-------------------------------------------------------------------------------
(* Registration.                                                           *)

(* get_by_email sees committed rows; an address that is taken is refused.  *)
Register(r) ==
  /\ account = {}
  /\ Begin(r, [Away EXCEPT !.pc = "insert", !.kind = "register"])

(* Mutant: no unique constraint on the address.                            *)
InsertUserUnchecked(r) ==
  /\ At(r, {"register"}, "insert")
  /\ req' = [req EXCEPT ![r].pc = "session", ![r].user = {r}, ![r].password = {r}]
  /\ UNCHANGED <<store, lapsed, mailed, redis, audited, met, faults>>

(* The flush.  The unique index makes it wait for another uncommitted row  *)
(* of the same address, and fail once such a row is committed.             *)
InsertUser(r) ==
  /\ At(r, {"register"}, "insert")
  /\ Inserting = {}
  /\ req' = IF account = {}
            THEN [req EXCEPT ![r].pc = "session", ![r].user = {r}, ![r].password = {r}]
            ELSE [req EXCEPT ![r].pc = "done"]
  /\ UNCHANGED <<store, lapsed, mailed, redis, audited, met, faults>>

(* The controllers of registration and login save the session before the   *)
(* transaction commits.                                                    *)
OpenSession(r) ==
  /\ At(r, {"register", "login"}, "session")
  /\ \E u \in req[r].user : SaveSession(r, u)
  /\ Goto(r, "commit")
  /\ UNCHANGED <<store, lapsed, mailed, audited, met, faults>>

-------------------------------------------------------------------------------
(* The password that was given is checked against the row just read; the   *)
(* slow hash leaves time for others before the session is saved.           *)
Login(r) ==
  /\ account # {}
  /\ Begin(r, [Away EXCEPT !.pc = "session", !.kind = "login",
                           !.user = Registered, !.password = Password])

(* POST /auth/logout, DELETE /users/me/sessions/{id}: the caller's own     *)
(* session has to be there, and any session may be named.                  *)
Logout(r) ==
  \E s \in Requests, u \in Requests, target \in Issued :
    /\ Authenticated(s, u)
    /\ Begin(r, [Away EXCEPT !.pc = "revoke", !.kind = "logout",
                             !.user = {u}, !.sids = {target}])

Revoke(r) ==
  /\ At(r, {"logout"}, "revoke")
  /\ live' = live \ req[r].sids
  /\ index' = [u \in Requests |-> IF u \in req[r].user THEN index[u] \ req[r].sids
                                  ELSE index[u]]
  /\ Goto(r, "commit")
  /\ UNCHANGED <<store, lapsed, mailed, expired, audited, met, faults>>

-------------------------------------------------------------------------------
(* Changing and resetting the password.                                    *)
ChangePassword(r) ==
  \E s \in Requests, u \in Requests :
    /\ Authenticated(s, u)
    /\ Begin(r, [Away EXCEPT !.pc = "read", !.kind = "change", !.user = {u}])

(* The user may be gone from the database, the password may be wrong.      *)
VerifyPassword(r) ==
  /\ At(r, {"change"}, "read")
  /\ \/ /\ req[r].user = Registered
        /\ req' = [req EXCEPT ![r].pc = "write", ![r].password = Password]
     \/ Goto(r, "done")
  /\ UNCHANGED <<store, lapsed, mailed, redis, audited, met, faults>>

(* An unknown address is answered like a known one.                        *)
StartReset(r) ==
  Begin(r, [Away EXCEPT !.pc = IF account = {} THEN "done" ELSE "mail",
                        !.kind = "start", !.user = Registered])

(* The row of the token is not committed when the mail leaves.             *)
SendMail(r) ==
  /\ At(r, {"start"}, "mail")
  /\ mailed' = mailed \cup {r}
  /\ Goto(r, "commit")
  /\ UNCHANGED <<store, lapsed, redis, audited, met, faults>>

ConfirmReset(r) ==
  \E t \in mailed :
    Begin(r, [Away EXCEPT !.pc = IF t \in tokens \ lapsed THEN "write" ELSE "done",
                          !.kind = "confirm", !.user = req[t].user, !.token = {t}])

TokenLapses(t) ==
  /\ t \in tokens \ lapsed
  /\ lapsed' = lapsed \cup {t}
  /\ UNCHANGED <<store, mailed, redis, audited, req, met, faults>>

(* Mutant: a changed password leaves the sessions alone.                   *)
WritePasswordOnly(r) ==
  /\ At(r, {"change", "confirm"}, "write")
  /\ Updating = {}
  /\ Goto(r, IF req[r].kind = "change" THEN "commit" ELSE "drop")
  /\ UNCHANGED <<store, lapsed, mailed, redis, audited, met, faults>>

(* The UPDATE waits for the lock of the row and overwrites what it finds.  *)
WritePassword(r) ==
  /\ At(r, {"change", "confirm"}, "write")
  /\ Updating = {}
  /\ Goto(r, IF req[r].kind = "change" THEN "scan" ELSE "drop")
  /\ UNCHANGED <<store, lapsed, mailed, redis, audited, met, faults>>

(* Mutant: the token is not deleted.                                       *)
KeepToken(r) ==
  /\ At(r, {"confirm"}, "drop")
  /\ req' = [req EXCEPT ![r].pc = "scan", ![r].token = {}]
  /\ UNCHANGED <<store, lapsed, mailed, redis, audited, met, faults>>

(* DELETE, of no row if another confirmation has deleted it meanwhile.     *)
DropToken(r) ==
  /\ At(r, {"confirm"}, "drop")
  /\ Goto(r, "scan")
  /\ UNCHANGED <<store, lapsed, mailed, redis, audited, met, faults>>

(* revoke_all, first round trip: nothing to revoke, nothing more to do.    *)
Scan(r) ==
  LET sids == UNION {index[u] : u \in req[r].user}
  IN  /\ At(r, {"change", "confirm"}, "scan")
      /\ req' = [req EXCEPT ![r].pc = IF sids = {} THEN "commit" ELSE "wipe",
                            ![r].sids = sids]
      /\ UNCHANGED <<store, lapsed, mailed, redis, audited, met, faults>>

(* Mutant: the index goes, the keys are left to their TTL.                 *)
WipeIndexOnly(r) ==
  /\ At(r, {"change", "confirm"}, "wipe")
  /\ index' = [u \in Requests |-> IF u \in req[r].user THEN {} ELSE index[u]]
  /\ Goto(r, "commit")
  /\ UNCHANGED <<store, lapsed, mailed, live, expired, audited, met, faults>>

(* Second round trip: the sessions read in the first, and the whole index. *)
Wipe(r) ==
  /\ At(r, {"change", "confirm"}, "wipe")
  /\ live' = live \ req[r].sids
  /\ index' = [u \in Requests |-> IF u \in req[r].user THEN {} ELSE index[u]]
  /\ Goto(r, "commit")
  /\ UNCHANGED <<store, lapsed, mailed, expired, audited, met, faults>>

-------------------------------------------------------------------------------
(* The container is closed: the transaction takes effect, with the audit   *)
(* event of the use case.                                                  *)
Commit(r) ==
  /\ req[r].pc = "commit"
  /\ account' = CASE req[r].kind = "register" ->
                       account \cup {[id |-> r, password |-> r]}
                  [] req[r].kind \in {"change", "confirm"} ->
                       {[a EXCEPT !.password = IF a.id \in req[r].user THEN r ELSE @] :
                           a \in account}
                  [] OTHER -> account
  /\ tokens' = CASE req[r].kind = "start" -> tokens \cup {r}
                 [] req[r].kind = "confirm" -> tokens \ req[r].token
                 [] OTHER -> tokens
  /\ audited' = audited \cup {r}
  /\ Goto(r, "done")
  /\ UNCHANGED <<lapsed, mailed, redis, met, faults>>

(* A call to Redis, the mail server or Postgres raises, the commit fails,  *)
(* or the process dies: the transaction is rolled back, and what Redis or  *)
(* the mail server were told stays told.                                   *)
Fail(r) ==
  /\ r \in UnderWay
  /\ faults < MaxFaults
  /\ faults' = faults + 1
  /\ Goto(r, "done")
  /\ UNCHANGED <<store, lapsed, mailed, redis, audited, met>>

Arrive(r) ==
  \/ Register(r) \/ Login(r) \/ Logout(r)
  \/ ChangePassword(r) \/ StartReset(r) \/ ConfirmReset(r)

AccountsStep(r) ==
  \/ InsertUser(r) \/ OpenSession(r) \/ Revoke(r) \/ VerifyPassword(r)
  \/ SendMail(r) \/ WritePassword(r) \/ DropToken(r) \/ Scan(r) \/ Wipe(r)
  \/ Commit(r)

AccountsNext ==
  \E r \in Requests :
    \/ Arrive(r) \/ AccountsStep(r) \/ Fail(r)
    \/ SessionExpires(r) \/ TokenLapses(r)

AccountsSpec == AccountsInit /\ [][AccountsNext]_accountVars

-------------------------------------------------------------------------------
AccountsTypeOK ==
  /\ account \subseteq [id : Requests, password : Requests]
  /\ \A S \in {tokens, lapsed, mailed, live, expired, audited} : S \subseteq Requests
  /\ live \cap expired = {}
  /\ index \in [Requests -> SUBSET Requests]
  /\ req \in [Requests -> RequestState]
  /\ met \in [Requests -> SUBSET Requests]
  /\ faults \in 0..MaxFaults

Succeeded(kinds) == {r \in audited : req[r].kind \in kinds}
Changing == {r \in Requests : req[r].kind \in {"change", "confirm"}}

(* users.email is unique: however two registrations of one address         *)
(* interleave between the look-up and the commit, one of them succeeds.    *)
OneAccountPerAddress ==
  /\ \A a, b \in account : a = b
  /\ Succeeded({"register"}) = Registered

(* Every session that lets its user in is listed to that user, and within  *)
(* reach of the next revoke_all, unless it was saved while a revoke_all    *)
(* was between its two round trips.                                        *)
SessionsAreListed ==
  \A s \in live : \A u \in req[s].user :
    s \in ListActive(u) \/ met[s] \cap Changing # {}

(* "Change password: all sessions revoked": once the new password is in    *)
(* force, a session opened with an earlier one is gone, whatever failed,   *)
(* unless its login was under way during a change.                         *)
OldSessionsAreGone ==
  \A s \in live : \A a \in account :
    req[s].user = {a.id} /\ req[s].password # {a.password}
      => met[s] \cap Changing # {}

(* A token that has been used is used up, and one whose reset was rolled   *)
(* back is not: only confirmations that overlapped share a token.          *)
TokensAreSpentOnce ==
  /\ \A q, r \in Succeeded({"confirm"}) :
       q # r /\ req[q].token = req[r].token => r \in met[q]
  /\ \A t \in Succeeded({"start"}) \ tokens :
       \E r \in Succeeded({"confirm"}) : req[r].token = {t}

===============================================================================
