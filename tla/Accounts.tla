------------------------------ MODULE Accounts ------------------------------
(***************************************************************************)
(* One creator account and everything that changes its password or its     *)
(* sessions (api/auth.py, password_reset.py, invites.py, login_limits.py,  *)
(* attempt_limits.py, pipeline/early_access_invites.py, the creator form   *)
(* of /admin).  Every request reads the row, does something slow (bcrypt)  *)
(* and writes, in transactions of its own.                                 *)
(*                                                                         *)
(* A password is named after the request that set it; a session token is   *)
(* its token_version together with the password it was obtained with.  All *)
(* requests come from one address.  must_change_password is left out: the  *)
(* requests here are the ones it lets through.  One tick, WindowPasses, is *)
(* longer than every counting window.                                      *)
(***************************************************************************)
EXTENDS Integers, FiniteSets

CONSTANTS
    Calls,          \* HTTP requests and runs of the invitation script
    MaxPerEmail,    \* MAX_FAILURES_PER_EMAIL, also _PER_EMAIL and LOGOUT_ALL_LIMIT
    MaxPerIp,       \* MAX_FAILURES_PER_IP
    MaxForgotPerIp  \* password_reset._PER_IP

None == "none"

ASSUME AccountsAssumption ==
    /\ IsFiniteSet(Calls) /\ None \notin Calls
    /\ MaxPerEmail \in Nat \ {0}
    /\ MaxPerIp \in Nat \ {0}
    /\ MaxForgotPerIp \in Nat \ {0}

VARIABLES
    account,     \* the creator_profiles row
    hits,        \* hits[k]: login_failures rows under key k in the window
    link,        \* link[t]: the one row of password_reset_tokens, account_invites
    rowlock,     \* rowlock[t]: the request that holds that row FOR UPDATE
    mailed,      \* mailed[t]: the links that arrived
    tokens,      \* the login cookies handed out
    call,        \* call[r]: what request r is
    at,          \* at[r]: its next step
    seen,        \* seen[r]: the account as r read it
    spentOn,     \* spentOn[t]: pairs of a link and the request that used it
    outdated     \* a request has written over a change it had not read

accountsVars == <<account, hits, link, rowlock, mailed, tokens, call, at, seen, spentOn, outdated>>

First == "first"         \* the password of an account that was there before
Stranger == "stranger"   \* a link nobody was sent
Passwords == {First} \cup Calls

NoAccount == [exists |-> FALSE, pw |-> None, tv |-> 0, active |-> FALSE, weak |-> FALSE]
Accounts == [exists : {TRUE}, pw : Passwords, tv : Nat, active : BOOLEAN, weak : BOOLEAN]
                \cup {NoAccount}

Tables == {"reset", "invite"}
NoLink == [id |-> None, used |-> FALSE, expired |-> FALSE]
Links == [id : Calls, used : BOOLEAN, expired : BOOLEAN] \cup {NoLink}

CallKinds == {"login", "change", "logout-all", "forgot", "reset", "accept", "invite", "admin"}
Keys == {"login", "logout-all", "forgot", "forgot-ip", "reset", "invite"}
Steps == {"start", "read", "verify", "write", "finish", "over"}

AccountsTypeOK ==
    /\ account \in Accounts
    /\ hits \in [Keys -> Nat]
    /\ link \in [Tables -> Links]
    /\ rowlock \in [Tables -> Calls \cup {None}]
    /\ mailed \in [Tables -> SUBSET Calls]
    /\ tokens \subseteq [tv : Nat, pw : Passwords]
    /\ call \in [Calls -> CallKinds]
    /\ at \in [Calls -> Steps]
    /\ seen \in [Calls -> Accounts]
    /\ spentOn \in [Tables -> SUBSET (Calls \X Calls)]
    /\ outdated \in BOOLEAN

AccountsInit ==
    /\ account \in {NoAccount} \cup
         [exists : {TRUE}, pw : {First}, tv : {0}, active : {TRUE}, weak : BOOLEAN]
    /\ hits = [k \in Keys |-> 0]
    /\ link = [t \in Tables |-> NoLink]
    /\ rowlock = [t \in Tables |-> None]
    /\ mailed = [t \in Tables |-> {}]
    /\ tokens = IF account.exists THEN {[tv |-> 0, pw |-> First]} ELSE {}
    /\ call \in [Calls -> CallKinds]
    /\ at = [r \in Calls |-> "start"]
    /\ seen = [r \in Calls |-> NoAccount]
    /\ spentOn = [t \in Tables |-> {}]
    /\ outdated = FALSE

-----------------------------------------------------------------------------
(* The failure counters.                                                   *)

AtStep(r, kind, s) == call[r] = kind /\ at[r] = s
Move(r, s) == at' = [at EXCEPT ![r] = s]

\* The rows of every key count against the address.
IpHits == hits["login"] + hits["logout-all"] + hits["forgot"] + hits["forgot-ip"]
            + hits["reset"] + hits["invite"]

\* locked_for_seconds is not 0.
LockedOut(k) == hits[k] >= MaxPerEmail \/ IpHits >= MaxPerIp

RecordFailure(k) == hits' = [hits EXCEPT ![k] = @ + 1]
ClearFailures == hits' = [hits EXCEPT !["login"] = 0]

-----------------------------------------------------------------------------
(* POST /auth/login                                                        *)

LoginStart(r) ==
    /\ AtStep(r, "login", "start")
    /\ Move(r, IF LockedOut("login") THEN "over" ELSE "read")
    /\ UNCHANGED <<account, hits, link, rowlock, mailed, tokens, call, seen, spentOn, outdated>>

LoginRead(r) ==
    /\ AtStep(r, "login", "read")
    /\ seen' = [seen EXCEPT ![r] = account]
    /\ Move(r, "verify")
    /\ UNCHANGED <<account, hits, link, rowlock, mailed, tokens, call, spentOn, outdated>>

\* A wrong password, or an unknown email, is recorded; a right one for a
\* deactivated account is refused; otherwise the counter starts again.
LoginVerify(r) ==
    /\ AtStep(r, "login", "verify")
    /\ \/ RecordFailure("login") /\ Move(r, "over")
       \/ /\ seen[r].exists /\ ~seen[r].active
          /\ Move(r, "over")
          /\ UNCHANGED hits
       \/ /\ seen[r].exists /\ seen[r].active
          /\ ClearFailures
          /\ Move(r, IF seen[r].weak THEN "write" ELSE "finish")
    /\ UNCHANGED <<account, link, rowlock, mailed, tokens, call, seen, spentOn, outdated>>

\* needs_rehash: the password that was typed is stored again, at today's cost.
LoginRehash(r) ==
    /\ AtStep(r, "login", "write")
    /\ account' = [account EXCEPT !.pw = seen[r].pw, !.weak = FALSE]
    /\ outdated' = (outdated \/ account.pw # seen[r].pw)
    /\ Move(r, "finish")
    /\ UNCHANGED <<hits, link, rowlock, mailed, tokens, call, seen, spentOn>>

\* Mutant: the version is read again when the cookie is made.
LoginTokenFresh(r) == [tv |-> account.tv, pw |-> seen[r].pw]

\* The cookie carries the version of the row as it was read.
LoginToken(r) == [tv |-> seen[r].tv, pw |-> seen[r].pw]

LoginFinish(r) ==
    /\ AtStep(r, "login", "finish")
    /\ tokens' = tokens \cup {LoginToken(r)}
    /\ Move(r, "over")
    /\ UNCHANGED <<account, hits, link, rowlock, mailed, call, seen, spentOn, outdated>>

-----------------------------------------------------------------------------
(* Requests with a session: POST /auth/change-password, /auth/logout-all.  *)

Accepted(t) == account.exists /\ account.active /\ t.tv = account.tv

\* get_current_user, then the counter of the request.
SessionStart(r) ==
    /\ call[r] \in {"change", "logout-all"}
    /\ at[r] = "start"
    /\ \E t \in tokens : Accepted(t)
    /\ seen' = [seen EXCEPT ![r] = account]
    /\ Move(r, CASE call[r] = "change" /\ ~LockedOut("login") -> "verify"
                 [] call[r] = "logout-all" /\ hits["logout-all"] < MaxPerEmail -> "verify"
                 [] OTHER -> "over")
    /\ UNCHANGED <<account, hits, link, rowlock, mailed, tokens, call, spentOn, outdated>>

\* verify_password(body.current_password, ...) on the hash that was read.
ChangeVerify(r) ==
    /\ AtStep(r, "change", "verify")
    /\ \/ RecordFailure("login") /\ Move(r, "over")
       \/ Move(r, "write") /\ UNCHANGED hits
    /\ UNCHANGED <<account, link, rowlock, mailed, tokens, call, seen, spentOn, outdated>>

\* Mutant: the password changes and the sessions stay.
ChangedAccountKept(r) == [account EXCEPT !.pw = r, !.weak = FALSE]

\* The new hash and token_version + 1, by the database, in one transaction.
ChangedAccount(r) == [account EXCEPT !.pw = r, !.weak = FALSE, !.tv = @ + 1]

ChangeWrite(r) ==
    /\ AtStep(r, "change", "write")
    /\ account' = ChangedAccount(r)
    /\ seen' = [seen EXCEPT ![r] = account']
    /\ Move(r, "finish")
    /\ UNCHANGED <<hits, link, rowlock, mailed, tokens, call, spentOn, outdated>>

\* clear_failures and a cookie with the version of the UPDATE.
ChangeFinish(r) ==
    /\ AtStep(r, "change", "finish")
    /\ ClearFailures
    /\ tokens' = tokens \cup {LoginToken(r)}
    /\ Move(r, "over")
    /\ UNCHANGED <<account, link, rowlock, mailed, call, seen, spentOn, outdated>>

LogoutAllCount(r) ==
    /\ AtStep(r, "logout-all", "verify")
    /\ RecordFailure("logout-all")
    /\ Move(r, "write")
    /\ UNCHANGED <<account, link, rowlock, mailed, tokens, call, seen, spentOn, outdated>>

LogoutAllBump(r) ==
    /\ AtStep(r, "logout-all", "write")
    /\ account' = [account EXCEPT !.tv = @ + 1]
    /\ Move(r, "over")
    /\ UNCHANGED <<hits, link, rowlock, mailed, tokens, call, seen, spentOn, outdated>>

-----------------------------------------------------------------------------
(* The links: POST /auth/forgot-password and the invitation script make    *)
(* one, replacing the one before; the mail may get lost.                   *)

ForgotStart(r) ==
    /\ AtStep(r, "forgot", "start")
    /\ IF hits["forgot-ip"] >= MaxForgotPerIp
         THEN Move(r, "over") /\ UNCHANGED hits
         ELSE RecordFailure("forgot-ip") /\ Move(r, "read")
    /\ UNCHANGED <<account, link, rowlock, mailed, tokens, call, seen, spentOn, outdated>>

ForgotRead(r) ==
    /\ AtStep(r, "forgot", "read")
    /\ IF account.active /\ hits["forgot"] < MaxPerEmail
         THEN RecordFailure("forgot") /\ Move(r, "write")
         ELSE Move(r, "over") /\ UNCHANGED hits
    /\ UNCHANGED <<account, link, rowlock, mailed, tokens, call, seen, spentOn, outdated>>

\* people_for_emails leaves out an email that has an account.
InviteStart(r) ==
    /\ AtStep(r, "invite", "start")
    /\ Move(r, IF account.exists THEN "over" ELSE "write")
    /\ UNCHANGED <<account, hits, link, rowlock, mailed, tokens, call, seen, spentOn, outdated>>

\* The upsert by email, which waits for a request that holds the row.
StoreLink(r, t) ==
    /\ at[r] = "write"
    /\ rowlock[t] = None
    /\ link' = [link EXCEPT ![t] = [id |-> r, used |-> FALSE, expired |-> FALSE]]
    /\ mailed' \in {mailed, [mailed EXCEPT ![t] = @ \cup {r}]}
    /\ Move(r, "over")
    /\ UNCHANGED <<account, hits, rowlock, tokens, call, seen, spentOn, outdated>>

ForgotWrite(r) == call[r] = "forgot" /\ StoreLink(r, "reset")
InviteWrite(r) == call[r] = "invite" /\ StoreLink(r, "invite")

-----------------------------------------------------------------------------
(* POST /auth/password-reset and /auth/invite/accept                       *)

Table(r) == IF call[r] = "reset" THEN "reset" ELSE "invite"

\* Mutant: _find without FOR UPDATE.
RowFreeUnlocked(t) == TRUE

RowFree(t) == rowlock[t] = None

\* _status of a row that was found.
LinkStatus(t) ==
    IF t = "reset" /\ ~account.active THEN "invalid"
    ELSE IF link[t].used \/ (t = "invite" /\ account.exists) THEN "used"
    ELSE IF link[t].expired THEN "expired" ELSE "valid"

\* attempt_limits.check; a failing database does not enforce it.
LinkStart(r) ==
    /\ call[r] \in {"reset", "accept"}
    /\ at[r] = "start"
    /\ \/ Move(r, "read")
       \/ LockedOut(Table(r)) /\ Move(r, "over")
    /\ UNCHANGED <<account, hits, link, rowlock, mailed, tokens, call, seen, spentOn, outdated>>

\* _find(lock=True) and _status; the rollback of a refusal frees the row.
LinkOpen(r, l) ==
    /\ call[r] \in {"reset", "accept"}
    /\ at[r] = "read"
    /\ LET t == Table(r)
           status == IF link[t].id = l THEN LinkStatus(t) ELSE "invalid"
       IN /\ link[t].id = l => RowFree(t)
          /\ IF status = "valid"
               THEN /\ rowlock' = [rowlock EXCEPT ![t] = r]
                    /\ seen' = [seen EXCEPT ![r] = account]
                    /\ spentOn' = [spentOn EXCEPT ![t] = @ \cup {<<l, r>>}]
                    /\ Move(r, "write")
                    /\ UNCHANGED hits
               ELSE /\ Move(r, "over")
                    /\ IF status = "invalid" THEN RecordFailure(t) ELSE UNCHANGED hits
                    /\ UNCHANGED <<rowlock, seen, spentOn, outdated>>
    /\ UNCHANGED <<account, link, mailed, tokens, call, outdated>>

Spend(r, t) ==
    /\ link' = [link EXCEPT ![t].used = TRUE]
    /\ rowlock' = [rowlock EXCEPT ![t] = None]

\* The version is that of the row as it was read, plus 1.
ResetWrite(r) ==
    /\ AtStep(r, "reset", "write")
    /\ account' = [account EXCEPT !.pw = r, !.weak = FALSE, !.tv = seen[r].tv + 1]
    /\ outdated' = (outdated \/ account.tv # seen[r].tv)
    /\ Spend(r, "reset")
    /\ Move(r, "finish")
    /\ UNCHANGED <<hits, mailed, tokens, call, seen, spentOn>>

ResetFinish(r) ==
    /\ AtStep(r, "reset", "finish")
    /\ ClearFailures
    /\ Move(r, "over")
    /\ UNCHANGED <<account, link, rowlock, mailed, tokens, call, seen, spentOn, outdated>>

\* The account, unless one with this email appeared meanwhile (IntegrityError).
AcceptWrite(r) ==
    /\ AtStep(r, "accept", "write")
    /\ IF account.exists
         THEN /\ rowlock' = [rowlock EXCEPT !["invite"] = None]
              /\ UNCHANGED <<account, link>>
         ELSE /\ account' = [exists |-> TRUE, pw |-> r, tv |-> 0, active |-> TRUE, weak |-> FALSE]
              /\ Spend(r, "invite")
    /\ Move(r, "over")
    /\ UNCHANGED <<hits, mailed, tokens, call, seen, spentOn, outdated>>

-----------------------------------------------------------------------------
(* /admin, and time.                                                       *)

AdminRead(r) ==
    /\ AtStep(r, "admin", "start")
    /\ seen' = [seen EXCEPT ![r] = account]
    /\ Move(r, "write")
    /\ UNCHANGED <<account, hits, link, rowlock, mailed, tokens, call, spentOn, outdated>>

\* on_model_change: a typed password or another is_active ends the sessions.
\* The form of a new account needs a password, and its email must be free.
AdminWrite(r) ==
    /\ AtStep(r, "admin", "write")
    /\ \E typed \in BOOLEAN, active \in BOOLEAN :
         LET old == seen[r]
             ends == old.exists /\ (typed \/ active # old.active)
         IN /\ account' =
                 CASE ends -> [account EXCEPT !.pw = IF typed THEN r ELSE @, !.weak = IF typed THEN FALSE ELSE @,
                                              !.active = IF active # old.active THEN active ELSE @,
                                              !.tv = old.tv + 1]
                   [] ~old.exists /\ ~account.exists /\ typed ->
                        [exists |-> TRUE, pw |-> r, tv |-> 0, active |-> active, weak |-> FALSE]
                   [] OTHER -> account
            /\ outdated' = (outdated \/ (ends /\ account.tv # old.tv))
    /\ Move(r, "over")
    /\ UNCHANGED <<hits, link, rowlock, mailed, tokens, call, seen, spentOn>>

LinkExpires(t) ==
    /\ link[t] # NoLink /\ ~link[t].expired
    /\ link' = [link EXCEPT ![t].expired = TRUE]
    /\ UNCHANGED <<account, hits, rowlock, mailed, tokens, call, at, seen, spentOn, outdated>>

WindowPasses ==
    /\ IpHits > 0
    /\ hits' = [k \in Keys |-> 0]
    /\ UNCHANGED <<account, link, rowlock, mailed, tokens, call, at, seen, spentOn, outdated>>

AccountsNext ==
    \/ \E r \in Calls :
         \/ LoginStart(r) \/ LoginRead(r) \/ LoginVerify(r) \/ LoginRehash(r) \/ LoginFinish(r)
         \/ SessionStart(r) \/ ChangeVerify(r) \/ ChangeWrite(r) \/ ChangeFinish(r)
         \/ LogoutAllCount(r) \/ LogoutAllBump(r)
         \/ ForgotStart(r) \/ ForgotRead(r) \/ ForgotWrite(r)
         \/ InviteStart(r) \/ InviteWrite(r)
         \/ LinkStart(r) \/ ResetWrite(r) \/ ResetFinish(r) \/ AcceptWrite(r)
         \/ \E l \in mailed[Table(r)] \cup {Stranger} : LinkOpen(r, l)
         \/ AdminRead(r) \/ AdminWrite(r)
    \/ \E t \in Tables : LinkExpires(t)
    \/ WindowPasses

AccountsSpec == AccountsInit /\ [][AccountsNext]_accountsVars

-----------------------------------------------------------------------------
(* What must hold.                                                         *)

\* A session that is accepted was obtained with the password the account has
\* now: whatever replaces the password (a change, a reset, /admin), and however
\* slow the sign-ins that overlap it are, ends every session of the old one
\* (auth.py:239, password_reset.py:143, app.py:899) - unless a reset, a form of
\* /admin or a sign-in that upgrades a hash wrote over a change it had not read.
SessionsKnowPassword ==
    ~outdated => \A t \in tokens : Accepted(t) => t.pw = account.pw

\* A link from a mail sets a password once, however many requests open it at
\* the same time (the FOR UPDATE of password_reset.py:134 and invites.py:82).
LinksWorkOnce ==
    \A t \in Tables : \A u, v \in spentOn[t] : u[1] = v[1] => u = v
=============================================================================
