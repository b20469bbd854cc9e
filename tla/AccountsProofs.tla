--------------------------- MODULE AccountsProofs ---------------------------
(* SessionsKnowPassword and LinksWorkOnce, for any number of requests and    *)
(* any limits of the counters.                                               *)
EXTENDS Accounts, TLAPS

\* A request past one of these steps has read an account that was there.
HasAccount(r) ==
    \/ call[r] = "login" /\ at[r] \in {"write", "finish"}
    \/ call[r] = "change" /\ at[r] \in {"verify", "write", "finish"}
    \/ call[r] = "logout-all" /\ at[r] \in {"verify", "write"}
    \/ call[r] = "reset" /\ at[r] = "write"

\* What was obtained with a version is of the password of that version.
Knows(tv, pw) == tv <= account.tv /\ (tv = account.tv => pw = account.pw)

\* The row is never deleted, and what a session or a request knows of its password is right or
\* of an earlier version, unless somebody wrote over a change.  A sign-in in flight must be in
\* the invariant: its cookie is made from what it read.
SessionsInv ==
    /\ tokens # {} => account.exists
    /\ \A r \in Calls : seen[r].exists => account.exists
    /\ \A r \in Calls : HasAccount(r) => seen[r].exists
    /\ ~outdated => /\ \A t \in tokens : Knows(t.tv, t.pw)
                    /\ \A r \in Calls : seen[r].exists => Knows(seen[r].tv, seen[r].pw)

\* A link is made by a request that is over, so never twice; one that was opened with
\* success stays held, or is spent, until another replaces it.
Spent(t) == link[t].used \/ (t = "invite" /\ account.exists)

Opened(r) == call[r] \in {"reset", "accept"} /\ at[r] = "write"

LinksInv ==
    /\ \A r \in Calls : Opened(r) => link[Table(r)] # NoLink
    /\ \A t \in Tables : link[t] # NoLink => at[link[t].id] = "over"
    /\ \A t \in Tables : \A p \in spentOn[t] : at[p[1]] = "over"
    /\ \A t \in Tables : \A p \in spentOn[t] : link[t].id = p[1] => rowlock[t] = p[2] \/ Spent(t)
    /\ LinksWorkOnce

AccountsInv == AccountsTypeOK /\ SessionsInv /\ LinksInv

-----------------------------------------------------------------------------
LEMMA AccountFacts ==
    ASSUME NEW a \in Accounts
    PROVE  /\ a.tv \in Nat /\ a.exists \in BOOLEAN
           /\ a.exists => a \in [exists : {TRUE}, pw : Passwords, tv : Nat, active : BOOLEAN, weak : BOOLEAN]
           /\ a.active => a.exists
           /\ ~a.exists => a = NoAccount
<1>1. CASE a = NoAccount
  BY <1>1 DEF NoAccount
<1>2. CASE a \in [exists : {TRUE}, pw : Passwords, tv : Nat, active : BOOLEAN, weak : BOOLEAN]
  BY <1>2
<1> QED BY <1>1, <1>2 DEF Accounts

LEMMA InitInv == AccountsInit => AccountsInv
<1> SUFFICES ASSUME AccountsInit PROVE AccountsInv
  OBVIOUS
<1> DEFINE first == [exists : {TRUE}, pw : {First}, tv : {0}, active : {TRUE}, weak : BOOLEAN]
<1>a. account \in {NoAccount} \cup first
  BY DEF AccountsInit
<1>b. ~NoAccount.exists /\ \A a \in first : a.exists /\ a.tv = 0 /\ a.pw = First /\ a \in Accounts
  <2>1. ~NoAccount.exists
    BY DEF NoAccount
  <2>2. \A a \in first : a.exists /\ a.tv = 0 /\ a.pw = First /\ a \in Accounts
    <3> SUFFICES ASSUME NEW a \in first PROVE a.exists /\ a.tv = 0 /\ a.pw = First /\ a \in Accounts
      OBVIOUS
    <3>1. a.exists /\ a.tv = 0 /\ a.pw = First
      OBVIOUS
    <3>2. {First} \subseteq Passwords /\ {0} \subseteq Nat /\ {TRUE} \subseteq BOOLEAN
      BY DEF Passwords
    <3>3. a \in [exists : {TRUE}, pw : Passwords, tv : Nat, active : BOOLEAN, weak : BOOLEAN]
      BY <3>2
    <3> QED BY <3>1, <3>3 DEF Accounts
  <2> QED BY <2>1, <2>2
<1>c. tokens = IF account.exists THEN {[tv |-> 0, pw |-> First]} ELSE {}
  BY DEF AccountsInit
<1>d. account.exists => account.tv = 0 /\ account.pw = First
  BY <1>a, <1>b
<1> HIDE DEF first
<1>1. account \in Accounts /\ tokens \subseteq [tv : Nat, pw : Passwords]
  <2>1. account \in Accounts
    BY <1>a, <1>b DEF Accounts
  <2>2. [tv |-> 0, pw |-> First] \in [tv : Nat, pw : Passwords]
    BY DEF Passwords
  <2> QED BY <1>c, <2>1, <2>2
<1>2. AccountsTypeOK
  BY <1>1 DEF AccountsInit, AccountsTypeOK, Accounts, Links, Steps
<1>3. SessionsInv
  <2>1. \A t \in tokens : Knows(t.tv, t.pw)
    BY <1>c, <1>d DEF Knows
  <2> QED BY <1>c, <2>1 DEF AccountsInit, SessionsInv, HasAccount, NoAccount
<1>4. LinksInv
  BY DEF AccountsInit, LinksInv, LinksWorkOnce, NoLink, Opened
<1> QED BY <1>2, <1>3, <1>4 DEF AccountsInv

-----------------------------------------------------------------------------
(* The steps of one request r, sorted by what they disturb.                *)

\* They count, send or only go on.
Quiet(r) ==
    \/ LoginStart(r) \/ LoginVerify(r) \/ ChangeVerify(r) \/ LogoutAllCount(r)
    \/ ForgotStart(r) \/ ForgotRead(r) \/ InviteStart(r) \/ LinkStart(r) \/ ResetFinish(r)

Reads(r) == LoginRead(r) \/ SessionStart(r) \/ AdminRead(r)

SignsIn(r) == LoginFinish(r) \/ ChangeFinish(r)

\* The steps that write the account.
Writes(r) ==
    LoginRehash(r) \/ ChangeWrite(r) \/ LogoutAllBump(r) \/ ResetWrite(r) \/ AcceptWrite(r) \/ AdminWrite(r)

MakesLink(r) == ForgotWrite(r) \/ InviteWrite(r)

LEMMA Moves ==
    ASSUME AccountsTypeOK, NEW r \in Calls, NEW s \in Steps, Move(r, s)
    PROVE  at' \in [Calls -> Steps] /\ at'[r] = s /\ \A q \in Calls : q # r => at'[q] = at[q]
BY DEF AccountsTypeOK, Move

LEMMA QuietInv ==
    ASSUME AccountsInv, NEW r \in Calls, Quiet(r)
    PROVE  AccountsInv'
<1>0. AccountsTypeOK /\ SessionsInv /\ LinksInv
  BY DEF AccountsInv
<1>1. UNCHANGED <<account, link, rowlock, mailed, tokens, call, seen, spentOn, outdated>>
  BY DEF Quiet, LoginStart, LoginVerify, ChangeVerify, LogoutAllCount, ForgotStart, ForgotRead, InviteStart,
         LinkStart, ResetFinish
<1>2. hits' \in [Keys -> Nat]
  BY <1>0 DEF Quiet, LoginStart, LoginVerify, ChangeVerify, LogoutAllCount, ForgotStart, ForgotRead, InviteStart,
              LinkStart, ResetFinish, RecordFailure, ClearFailures, AccountsTypeOK
<1>3. PICK s \in Steps : /\ Move(r, s)
                         /\ at[r] # "over"
                         /\ (call[r] = "login" /\ s \in {"write", "finish"}) => seen[r].exists
                         /\ (call[r] = "change" /\ s \in {"verify", "write", "finish"}) => HasAccount(r)
                         /\ (call[r] = "logout-all" /\ s \in {"verify", "write"}) => HasAccount(r)
                         /\ s = "write" => call[r] \notin {"reset", "accept"}
  <2>1. CASE LoginStart(r) \/ LoginVerify(r)
    BY <2>1 DEF LoginStart, LoginVerify, AtStep, Steps
  <2>2. CASE ChangeVerify(r) \/ LogoutAllCount(r)
    BY <2>2 DEF ChangeVerify, LogoutAllCount, AtStep, Steps, HasAccount
  <2>3. CASE ForgotStart(r) \/ ForgotRead(r) \/ InviteStart(r)
    BY <2>3 DEF ForgotStart, ForgotRead, InviteStart, AtStep, Steps
  <2>4. CASE LinkStart(r) \/ ResetFinish(r)
    BY <2>4 DEF LinkStart, ResetFinish, AtStep, Steps
  <2> QED BY <2>1, <2>2, <2>3, <2>4 DEF Quiet
<1>4. at' \in [Calls -> Steps] /\ at'[r] = s /\ \A q \in Calls : q # r => at'[q] = at[q]
  BY <1>0, <1>3, Moves
<1>5. AccountsTypeOK'
  BY <1>0, <1>1, <1>2, <1>4 DEF AccountsTypeOK
<1>6. SessionsInv'
  <2>1. \A q \in Calls : HasAccount(q)' => seen'[q].exists
    BY <1>0, <1>1, <1>3, <1>4 DEF HasAccount, SessionsInv
  <2> QED BY <1>0, <1>1, <2>1 DEF SessionsInv, Knows
<1>7. LinksInv'
  <2>1. \A q : q \in Calls /\ at[q] = "over" => at'[q] = "over"
    BY <1>3, <1>4
  <2>2. \A t \in Tables : (link[t] # NoLink => link[t].id \in Calls) /\ \A p \in spentOn[t] : p[1] \in Calls
    BY <1>0 DEF AccountsTypeOK, Links
  <2>3. \A q \in Calls : Opened(q)' => Opened(q)
    BY <1>1, <1>3, <1>4 DEF Opened
  <2> QED BY <1>0, <1>1, <2>1, <2>2, <2>3 DEF LinksInv, LinksWorkOnce, Spent, Table
<1> QED BY <1>5, <1>6, <1>7 DEF AccountsInv

\* A request reads the account; a reset or an invitation also takes its link.
LEMMA ReadsInv ==
    ASSUME AccountsInv, NEW r \in Calls, Reads(r)
    PROVE  AccountsInv'
<1>0. AccountsTypeOK /\ SessionsInv /\ LinksInv
  BY DEF AccountsInv
<1>1. UNCHANGED <<account, hits, link, rowlock, mailed, tokens, call, spentOn, outdated>>
  BY DEF Reads, LoginRead, SessionStart, AdminRead
<1>2. PICK s \in Steps : /\ Move(r, s) /\ at[r] # "over"
                         /\ s # "finish"
                         /\ s \in {"verify", "write"} /\ call[r] # "login" /\ call[r] # "admin" => account.exists
                         /\ call[r] = "login" => s = "verify"
                         /\ call[r] \notin {"reset", "accept"}
  BY DEF Reads, LoginRead, SessionStart, AdminRead, AtStep, Steps, Accepted
<1>3. seen' = [seen EXCEPT ![r] = account] /\ call[r] # "reset"
  BY DEF Reads, LoginRead, SessionStart, AdminRead, AtStep
<1>4. at' \in [Calls -> Steps] /\ at'[r] = s /\ \A q \in Calls : q # r => at'[q] = at[q]
  BY <1>0, <1>2, Moves
<1>5. seen'[r] = account /\ \A q \in Calls : q # r => seen'[q] = seen[q]
  BY <1>0, <1>3 DEF AccountsTypeOK
<1>6. AccountsTypeOK'
  BY <1>0, <1>1, <1>3, <1>4 DEF AccountsTypeOK
<1>7. SessionsInv'
  <2>1. \A q \in Calls : seen'[q].exists => account'.exists
    BY <1>0, <1>1, <1>5 DEF SessionsInv
  <2>2. \A q \in Calls : HasAccount(q)' => seen'[q].exists
    <3> SUFFICES ASSUME NEW q \in Calls, HasAccount(q)' PROVE seen'[q].exists
      OBVIOUS
    <3>1. CASE q = r
      BY <1>1, <1>2, <1>3, <1>4, <1>5, <3>1 DEF HasAccount
    <3>2. CASE q # r
      BY <1>0, <1>1, <1>4, <1>5, <3>2 DEF HasAccount, SessionsInv
    <3> QED BY <3>1, <3>2
  <2>3. account.tv \in Nat
    BY <1>0, AccountFacts DEF AccountsTypeOK
  <2>4. ASSUME ~outdated', NEW q \in Calls, seen'[q].exists PROVE Knows(seen[q].tv, seen[q].pw)'
    <3>1. CASE q = r
      BY <1>1, <1>5, <2>3, <3>1 DEF Knows
    <3>2. CASE q # r
      BY <1>0, <1>1, <1>5, <2>4, <3>2 DEF SessionsInv, Knows
    <3> QED BY <3>1, <3>2
  <2> QED BY <1>0, <1>1, <2>1, <2>2, <2>4 DEF SessionsInv, Knows
<1>8. LinksInv'
  <2>1. \A q : q \in Calls /\ at[q] = "over" => at'[q] = "over"
    BY <1>2, <1>4
  <2>2. \A t \in Tables : (link[t] # NoLink => link[t].id \in Calls) /\ \A p \in spentOn[t] : p[1] \in Calls
    BY <1>0 DEF AccountsTypeOK, Links
  <2>3. \A q \in Calls : Opened(q)' => Opened(q)
    BY <1>1, <1>2, <1>4 DEF Opened
  <2> QED BY <1>0, <1>1, <2>1, <2>2, <2>3 DEF LinksInv, LinksWorkOnce, Spent, Table
<1> QED BY <1>6, <1>7, <1>8 DEF AccountsInv

LEMMA SignsInInv ==
    ASSUME AccountsInv, NEW r \in Calls, SignsIn(r)
    PROVE  AccountsInv'
<1>0. AccountsTypeOK /\ SessionsInv /\ LinksInv
  BY DEF AccountsInv
<1>1. UNCHANGED <<account, link, rowlock, mailed, call, seen, spentOn, outdated>>
  BY DEF SignsIn, LoginFinish, ChangeFinish
<1>2. /\ tokens' = tokens \cup {[tv |-> seen[r].tv, pw |-> seen[r].pw]}
      /\ hits' \in [Keys -> Nat] /\ Move(r, "over") /\ HasAccount(r)
  BY <1>0 DEF SignsIn, LoginFinish, ChangeFinish, LoginToken, ClearFailures, AtStep, HasAccount, AccountsTypeOK
<1>3. at' \in [Calls -> Steps] /\ at'[r] = "over" /\ \A q \in Calls : q # r => at'[q] = at[q]
  BY <1>0, <1>2, Moves DEF Steps
<1>4. seen[r].exists /\ account.exists /\ seen[r] \in Accounts
  BY <1>0, <1>2 DEF SessionsInv, AccountsTypeOK
<1>5. seen[r].tv \in Nat /\ seen[r].pw \in Passwords
  BY <1>4, AccountFacts
<1>6. AccountsTypeOK'
  BY <1>0, <1>1, <1>2, <1>3, <1>5 DEF AccountsTypeOK
<1>7. SessionsInv'
  <2>1. \A q \in Calls : HasAccount(q)' => seen'[q].exists
    BY <1>0, <1>1, <1>3 DEF HasAccount, SessionsInv
  <2>2. ~outdated' => \A t \in tokens' : Knows(t.tv, t.pw)'
    BY <1>0, <1>1, <1>2, <1>4 DEF SessionsInv, Knows
  <2> QED BY <1>0, <1>1, <1>4, <2>1, <2>2 DEF SessionsInv, Knows
<1>8. LinksInv'
  <2>1. \A q : q \in Calls /\ at[q] = "over" => at'[q] = "over"
    BY <1>3
  <2>2. \A t \in Tables : (link[t] # NoLink => link[t].id \in Calls) /\ \A p \in spentOn[t] : p[1] \in Calls
    BY <1>0 DEF AccountsTypeOK, Links
  <2>3. \A q \in Calls : Opened(q)' => Opened(q)
    BY <1>1, <1>3 DEF Opened
  <2> QED BY <1>0, <1>1, <2>1, <2>2, <2>3 DEF LinksInv, LinksWorkOnce, Spent, Table
<1> QED BY <1>6, <1>7, <1>8 DEF AccountsInv

-----------------------------------------------------------------------------
\* A step that writes the account ends what was known of it: it moves to a version of its own,
\* or leaves the password of the version, or there was no account.
LEMMA WritesSessions ==
    ASSUME AccountsInv, NEW r \in Calls, Writes(r)
    PROVE  /\ account' \in Accounts
           /\ account.exists => account'.exists
           /\ ~outdated' => ~outdated /\
                \/ ~account.exists
                \/ account'.exists /\ account'.tv > account.tv
                \/ account'.tv = account.tv /\ account'.pw = account.pw
<1>0. AccountsTypeOK /\ SessionsInv
  BY DEF AccountsInv
<1> DEFINE full == [exists : {TRUE}, pw : Passwords, tv : Nat, active : BOOLEAN, weak : BOOLEAN]
<1>1. /\ account \in Accounts /\ seen[r] \in Accounts /\ r \in Passwords
      /\ account.tv \in Nat /\ seen[r].tv \in Nat
      /\ account.exists => account \in full
      /\ seen[r].exists => seen[r] \in full
      /\ \A a \in full : a \in Accounts /\ a.exists
  BY <1>0, AccountFacts DEF AccountsTypeOK, Accounts, Passwords
<1>2. HasAccount(r) => account.exists /\ account \in full /\ seen[r] \in full
  BY <1>0, <1>1 DEF SessionsInv
<1>3. CASE LoginRehash(r)
  <2>1. account' = [account EXCEPT !.pw = seen[r].pw, !.weak = FALSE]
        /\ outdated' = (outdated \/ account.pw # seen[r].pw) /\ account \in full /\ seen[r] \in full
    BY <1>2, <1>3 DEF LoginRehash, AtStep, HasAccount
  <2>2. account' \in full /\ account'.tv = account.tv /\ account'.pw = seen[r].pw
    BY <2>1
  <2> QED BY <1>1, <2>1, <2>2
<1>4. CASE ChangeWrite(r) \/ LogoutAllBump(r)
  <2>1. account \in full /\ outdated' = outdated
        /\ (account' = [account EXCEPT !.pw = r, !.weak = FALSE, !.tv = @ + 1]
              \/ account' = [account EXCEPT !.tv = @ + 1])
    BY <1>2, <1>4 DEF ChangeWrite, LogoutAllBump, AtStep, HasAccount, ChangedAccount
  <2>2. account.tv + 1 \in Nat /\ account.tv + 1 > account.tv
    BY <1>1
  <2> DEFINE v == account.tv + 1
  <2>3. account' = [account EXCEPT !.pw = r, !.weak = FALSE, !.tv = v] \/ account' = [account EXCEPT !.tv = v]
    BY <2>1
  <2> HIDE DEF v
  <2>4. v \in Nat /\ r \in Passwords
    BY <1>1, <2>2 DEF v
  <2>5. account' \in full
    BY <2>1, <2>3, <2>4
  <2>6. account'.tv = v
    BY <2>1, <2>3
  <2> QED BY <1>1, <2>1, <2>2, <2>5, <2>6 DEF v
<1>5. CASE ResetWrite(r)
  <2>1. account \in full /\ outdated' = (outdated \/ account.tv # seen[r].tv)
        /\ account' = [account EXCEPT !.pw = r, !.weak = FALSE, !.tv = seen[r].tv + 1]
    BY <1>2, <1>5 DEF ResetWrite, AtStep, HasAccount
  <2> DEFINE v == seen[r].tv + 1
  <2>2. v \in Nat /\ r \in Passwords /\ (account.tv = seen[r].tv => v > account.tv)
    BY <1>1
  <2>3. account' = [account EXCEPT !.pw = r, !.weak = FALSE, !.tv = v]
    BY <2>1
  <2> HIDE DEF v
  <2>4. account' \in full
    BY <2>1, <2>2, <2>3
  <2>5. account'.tv = v
    BY <2>1, <2>3
  <2> QED BY <1>1, <2>1, <2>2, <2>4, <2>5
<1>6. CASE AcceptWrite(r)
  <2>1. CASE account.exists
    BY <1>1, <1>6, <2>1 DEF AcceptWrite
  <2>2. CASE ~account.exists
    <3>1. account' = [exists |-> TRUE, pw |-> r, tv |-> 0, active |-> TRUE, weak |-> FALSE] /\ outdated' = outdated
      BY <1>6, <2>2 DEF AcceptWrite
    <3>2. account' \in full
      BY <1>1, <3>1
    <3> QED BY <1>1, <2>2, <3>1, <3>2
  <2> QED BY <2>1, <2>2
<1>7. CASE AdminWrite(r)
  <2>1. PICK typed \in BOOLEAN, active \in BOOLEAN :
          LET ends == seen[r].exists /\ (typed \/ active # seen[r].active)
          IN /\ account' =
                 CASE ends -> [account EXCEPT !.pw = IF typed THEN r ELSE @, !.weak = IF typed THEN FALSE ELSE @,
                                              !.active = IF active # seen[r].active THEN active ELSE @,
                                              !.tv = seen[r].tv + 1]
                   [] ~seen[r].exists /\ ~account.exists /\ typed ->
                        [exists |-> TRUE, pw |-> r, tv |-> 0, active |-> active, weak |-> FALSE]
                   [] OTHER -> account
             /\ outdated' = (outdated \/ (ends /\ account.tv # seen[r].tv))
    BY <1>7 DEF AdminWrite
  <2>1a. /\ seen[r].exists /\ (typed \/ active # seen[r].active) =>
              account' = [account EXCEPT !.pw = IF typed THEN r ELSE @, !.weak = IF typed THEN FALSE ELSE @,
                                         !.active = IF active # seen[r].active THEN active ELSE @,
                                         !.tv = seen[r].tv + 1]
         /\ ~(seen[r].exists /\ (typed \/ active # seen[r].active)) =>
              /\ ~seen[r].exists /\ ~account.exists /\ typed =>
                   account' = [exists |-> TRUE, pw |-> r, tv |-> 0, active |-> active, weak |-> FALSE]
              /\ ~(~seen[r].exists /\ ~account.exists /\ typed) => account' = account
              /\ outdated' = outdated
    BY <2>1, <1>0 DEF AccountsTypeOK
  <2> DEFINE ends == seen[r].exists /\ (typed \/ active # seen[r].active)
  <2>2. CASE ends
    <3>1. account.exists /\ account \in full
      BY <1>0, <1>1, <2>2 DEF SessionsInv
    <3> DEFINE p == IF typed THEN r ELSE account.pw
               w == IF typed THEN FALSE ELSE account.weak
               c == IF active # seen[r].active THEN active ELSE account.active
               v == seen[r].tv + 1
    <3>2. account' = [account EXCEPT !.pw = p, !.weak = w, !.active = c, !.tv = v]
          /\ outdated' = (outdated \/ account.tv # seen[r].tv)
      BY <2>1, <2>2
    <3>3. p \in Passwords /\ w \in BOOLEAN /\ c \in BOOLEAN
          /\ v \in Nat /\ (account.tv = seen[r].tv => v > account.tv)
      <4>1. account.pw \in Passwords /\ account.weak \in BOOLEAN /\ account.active \in BOOLEAN
        BY <3>1
      <4>2. v \in Nat /\ (account.tv = seen[r].tv => v > account.tv)
        BY <1>1
      <4>3. p \in Passwords
        BY <1>1, <4>1
      <4>4. w \in BOOLEAN /\ c \in BOOLEAN
        BY <4>1, Zenon
      <4> QED BY <4>2, <4>3, <4>4
    <3> HIDE DEF p, w, c, v
    <3>4. account' \in full
      BY <3>1, <3>2, <3>3
    <3>5. account'.tv = v
      BY <3>1, <3>2
    <3> QED BY <1>1, <3>1, <3>2, <3>3, <3>4, <3>5
  <2>3. CASE ~ends /\ ~seen[r].exists /\ ~account.exists /\ typed
    <3>1. account' = [exists |-> TRUE, pw |-> r, tv |-> 0, active |-> active, weak |-> FALSE] /\ outdated' = outdated
      BY <2>1a, <2>3
    <3>2. account' \in full
      BY <1>1, <3>1
    <3> QED BY <1>1, <2>3, <3>1, <3>2
  <2>4. CASE ~ends /\ ~(~seen[r].exists /\ ~account.exists /\ typed)
    <3>1. account' = account /\ outdated' = outdated
      BY <2>1a, <2>4
    <3> QED BY <1>1, <3>1
  <2> QED BY <2>2, <2>3, <2>4
<1> QED BY <1>3, <1>4, <1>5, <1>6, <1>7 DEF Writes

LEMMA WritesInv ==
    ASSUME AccountsInv, NEW r \in Calls, Writes(r)
    PROVE  AccountsInv'
<1>0. AccountsTypeOK /\ SessionsInv /\ LinksInv
  BY DEF AccountsInv
<1>1. UNCHANGED <<hits, mailed, tokens, call, spentOn>>
  BY DEF Writes, LoginRehash, ChangeWrite, LogoutAllBump, ResetWrite, AcceptWrite, AdminWrite
<1>2. PICK s \in Steps : Move(r, s) /\ at[r] = "write" /\ s \in {"finish", "over"}
                         /\ (s = "finish" => call[r] # "logout-all")
                         /\ (s = "finish" /\ call[r] \in {"login", "change"} => HasAccount(r))
  BY DEF Writes, LoginRehash, ChangeWrite, LogoutAllBump, ResetWrite, AcceptWrite, AdminWrite, AtStep, Steps,
         HasAccount
<1>3. at' \in [Calls -> Steps] /\ at'[r] = s /\ \A q \in Calls : q # r => at'[q] = at[q]
  BY <1>0, <1>2, Moves
<1>4. /\ account' \in Accounts /\ (account.exists => account'.exists)
      /\ account.tv \in Nat /\ account'.tv \in Nat /\ account'.exists \in BOOLEAN
      /\ ~outdated' => ~outdated /\
           \/ ~account.exists
           \/ account'.exists /\ account'.tv > account.tv
           \/ account'.tv = account.tv /\ account'.pw = account.pw
  BY <1>0, WritesSessions, AccountFacts DEF AccountsTypeOK
<1>5. seen' = [seen EXCEPT ![r] = account'] \/ seen' = seen
  BY DEF Writes, LoginRehash, ChangeWrite, LogoutAllBump, ResetWrite, AcceptWrite, AdminWrite
<1>6. /\ \A q \in Calls : q # r => seen'[q] = seen[q]
      /\ seen'[r] = account' \/ seen'[r] = seen[r]
      /\ seen' \in [Calls -> Accounts]
  BY <1>0, <1>4, <1>5 DEF AccountsTypeOK
<1>7. outdated' \in BOOLEAN
  BY <1>0 DEF Writes, LoginRehash, ChangeWrite, LogoutAllBump, ResetWrite, AcceptWrite, AdminWrite, AccountsTypeOK
<1>8. \/ UNCHANGED <<link, rowlock>>
      \/ /\ call[r] = "accept" /\ account'.exists /\ link' = link
         /\ rowlock' = [rowlock EXCEPT !["invite"] = None]
      \/ \E t \in Tables : t = Table(r) /\ Opened(r) /\ Spend(r, t)
  <2>1. CASE LoginRehash(r) \/ ChangeWrite(r) \/ LogoutAllBump(r) \/ AdminWrite(r)
    BY <2>1 DEF LoginRehash, ChangeWrite, LogoutAllBump, AdminWrite
  <2>2. CASE ResetWrite(r)
    BY <2>2 DEF ResetWrite, AtStep, Table, Opened, Tables
  <2>3. CASE AcceptWrite(r)
    BY <1>4, <2>3 DEF AcceptWrite, AtStep, Table, Opened, Tables
  <2> QED BY <2>1, <2>2, <2>3 DEF Writes
<1>9. /\ \A t \in Tables : link'[t].id = link[t].id /\ (link[t].used => link'[t].used)
                           /\ (link'[t] # NoLink <=> link[t] # NoLink)
      /\ link' \in [Tables -> Links] /\ rowlock' \in [Tables -> Calls \cup {None}]
      /\ \A t \in Tables : rowlock'[t] = rowlock[t] \/ Spent(t)'
  <2>1. CASE UNCHANGED <<link, rowlock>>
    BY <1>0, <2>1 DEF AccountsTypeOK
  <2>2. CASE /\ call[r] = "accept" /\ account'.exists /\ link' = link
             /\ rowlock' = [rowlock EXCEPT !["invite"] = None]
    BY <1>0, <2>2 DEF AccountsTypeOK, Spent
  <2>3. CASE \E t \in Tables : t = Table(r) /\ Opened(r) /\ Spend(r, t)
    <3> PICK t \in Tables : t = Table(r) /\ Opened(r) /\ Spend(r, t)
      BY <2>3
    <3>1. link[t] # NoLink /\ link[t] \in [id : Calls, used : BOOLEAN, expired : BOOLEAN]
      BY <1>0 DEF LinksInv, AccountsTypeOK, Links
    <3>2. link' = [link EXCEPT ![t] = [link[t] EXCEPT !.used = TRUE]] /\ rowlock' = [rowlock EXCEPT ![t] = None]
      BY DEF Spend
    <3> DEFINE l == [link[t] EXCEPT !.used = TRUE]
    <3>3. l \in [id : Calls, used : BOOLEAN, expired : BOOLEAN] /\ l.id = link[t].id /\ l.used
      BY <3>1
    <3>4. NoLink.id \notin Calls
      BY AccountsAssumption DEF NoLink
    <3>5. l # NoLink /\ l \in Links
      BY <3>3, <3>4 DEF Links
    <3> HIDE DEF l
    <3>6. link' = [link EXCEPT ![t] = l] /\ link \in [Tables -> Links] /\ rowlock \in [Tables -> Calls \cup {None}]
      BY <1>0, <3>2 DEF AccountsTypeOK, l
    <3>7. link'[t] = l /\ \A u \in Tables : u # t => link'[u] = link[u] /\ rowlock'[u] = rowlock[u]
      BY <3>2, <3>6
    <3>8. link' \in [Tables -> Links] /\ rowlock' \in [Tables -> Calls \cup {None}]
      BY <3>2, <3>5, <3>6
    <3> QED BY <3>1, <3>3, <3>5, <3>7, <3>8 DEF Spent
  <2> QED BY <1>8, <2>1, <2>2, <2>3
<1>10. AccountsTypeOK'
  BY <1>0, <1>1, <1>3, <1>4, <1>6, <1>7, <1>9 DEF AccountsTypeOK
<1>11. SessionsInv'
  <2>1. \A q \in Calls : HasAccount(q)' => seen'[q].exists
    <3> SUFFICES ASSUME NEW q \in Calls, HasAccount(q)' PROVE seen'[q].exists
      OBVIOUS
    <3>1. CASE q # r
      BY <1>0, <1>1, <1>3, <1>6, <3>1 DEF HasAccount, SessionsInv
    <3>2. CASE q = r
      <4>1. HasAccount(r)
        BY <1>1, <1>2, <1>3, <3>2 DEF HasAccount
      <4> QED BY <1>0, <1>4, <1>6, <3>2, <4>1 DEF SessionsInv
    <3> QED BY <3>1, <3>2
  <2>2. (tokens' # {} => account'.exists) /\ \A q \in Calls : seen'[q].exists => account'.exists
    BY <1>0, <1>1, <1>4, <1>6 DEF SessionsInv
  <2>3. \A t \in tokens : t.tv \in Nat
    BY <1>0 DEF AccountsTypeOK
  <2>4. \A q \in Calls : seen[q].tv \in Nat
    BY <1>0, AccountFacts DEF AccountsTypeOK
  <2>5. ~outdated' => \A t \in tokens' : Knows(t.tv, t.pw)'
    <3> SUFFICES ASSUME ~outdated', NEW t \in tokens PROVE Knows(t.tv, t.pw)'
      BY <1>1
    <3> QED BY <1>0, <1>4, <2>3 DEF SessionsInv, Knows
  <2>6. ~outdated' => \A q \in Calls : seen'[q].exists => Knows(seen[q].tv, seen[q].pw)'
    <3> SUFFICES ASSUME ~outdated', NEW q \in Calls, seen'[q].exists PROVE Knows(seen[q].tv, seen[q].pw)'
      OBVIOUS
    <3>1. CASE seen'[q] = seen[q]
      BY <1>0, <1>4, <2>4, <3>1 DEF SessionsInv, Knows
    <3>2. CASE seen'[q] = account'
      BY <1>4, <3>2 DEF Knows
    <3> QED BY <1>6, <3>1, <3>2
  <2> QED BY <2>1, <2>2, <2>5, <2>6 DEF SessionsInv
<1>12. LinksInv'
  <2>1. \A q : q \in Calls /\ at[q] = "over" => at'[q] = "over"
    BY <1>2, <1>3
  <2>2. \A t \in Tables : (link[t] # NoLink => link[t].id \in Calls) /\ \A p \in spentOn[t] : p[1] \in Calls
    BY <1>0 DEF AccountsTypeOK, Links
  <2>3. \A q \in Calls : Opened(q)' => Opened(q)
    BY <1>1, <1>2, <1>3 DEF Opened
  <2>4. \A t \in Tables : Spent(t) => Spent(t)'
    BY <1>4, <1>9 DEF Spent
  <2>5. \A q \in Calls : Table(q)' = Table(q) /\ Table(q) \in Tables
    BY <1>1 DEF Table, Tables
  <2>6. \A t \in Tables : \A p \in spentOn'[t] : link'[t].id = p[1] => rowlock'[t] = p[2] \/ Spent(t)'
    BY <1>0, <1>1, <1>9, <2>4 DEF LinksInv
  <2> QED BY <1>0, <1>1, <1>9, <2>1, <2>2, <2>3, <2>5, <2>6 DEF LinksInv, LinksWorkOnce
<1> QED BY <1>10, <1>11, <1>12 DEF AccountsInv

-----------------------------------------------------------------------------
\* The upsert of a link: its request was not over before, so nothing was opened with it.
LEMMA MakesLinkInv ==
    ASSUME AccountsInv, NEW r \in Calls, MakesLink(r)
    PROVE  AccountsInv'
<1>0. AccountsTypeOK /\ SessionsInv /\ LinksInv
  BY DEF AccountsInv
<1>1. UNCHANGED <<account, hits, rowlock, tokens, call, seen, spentOn, outdated>>
  BY DEF MakesLink, ForgotWrite, InviteWrite, StoreLink
<1> PICK t \in Tables : /\ at[r] = "write" /\ Move(r, "over") /\ call[r] \in {"forgot", "invite"}
                        /\ link' = [link EXCEPT ![t] = [id |-> r, used |-> FALSE, expired |-> FALSE]]
                        /\ mailed' \in {mailed, [mailed EXCEPT ![t] = @ \cup {r}]}
  BY DEF MakesLink, ForgotWrite, InviteWrite, StoreLink, Tables
<1>2. at' \in [Calls -> Steps] /\ at'[r] = "over" /\ \A q \in Calls : q # r => at'[q] = at[q]
  BY <1>0, Moves DEF Steps
<1> DEFINE l == [id |-> r, used |-> FALSE, expired |-> FALSE]
<1>3. l \in Links /\ l # NoLink /\ l.id = r
  <2>1. l \in [id : Calls, used : BOOLEAN, expired : BOOLEAN] /\ l.id = r /\ NoLink.id = None
    BY DEF NoLink
  <2> QED BY <2>1, AccountsAssumption DEF Links
<1>4. link' = [link EXCEPT ![t] = l]
  OBVIOUS
<1> HIDE DEF l
<1>5. link'[t] = l /\ (\A u \in Tables : u # t => link'[u] = link[u]) /\ link' \in [Tables -> Links]
  <2>1. link \in [Tables -> Links] /\ l \in Links
    BY <1>0, <1>3 DEF AccountsTypeOK
  <2> QED BY <1>4, <2>1
<1>6. mailed' \in [Tables -> SUBSET Calls]
  BY <1>0 DEF AccountsTypeOK
<1>7. AccountsTypeOK'
  BY <1>0, <1>1, <1>2, <1>5, <1>6 DEF AccountsTypeOK
<1>8. SessionsInv'
  <2>1. \A q \in Calls : HasAccount(q)' => HasAccount(q)
    BY <1>1, <1>2 DEF HasAccount
  <2> QED BY <1>0, <1>1, <2>1 DEF SessionsInv, Knows
<1>9. LinksInv'
  <2>1. \A q : q \in Calls /\ at[q] = "over" => at'[q] = "over"
    BY <1>2
  <2>2. \A u \in Tables : (link[u] # NoLink => link[u].id \in Calls) /\ \A p \in spentOn[u] : p[1] \in Calls
    BY <1>0 DEF AccountsTypeOK, Links
  <2>3. \A q \in Calls : Opened(q)' => Opened(q) /\ link[Table(q)] # NoLink
    BY <1>0, <1>1, <1>2 DEF Opened, LinksInv
  <2>4. \A q \in Calls : Table(q)' = Table(q) /\ Table(q) \in Tables
    BY <1>1 DEF Table, Tables
  <2>5. \A u \in Tables : \A p \in spentOn[u] : p[1] # r
    BY <1>0 DEF LinksInv
  <2>6. \A u \in Tables : u # t => (Spent(u) => Spent(u)')
    BY <1>1, <1>5 DEF Spent
  <2>7. \A u \in Tables : \A p \in spentOn'[u] : link'[u].id = p[1] => rowlock'[u] = p[2] \/ Spent(u)'
    BY <1>0, <1>1, <1>3, <1>5, <2>5, <2>6 DEF LinksInv
  <2>8. \A u \in Tables : link'[u] # NoLink => at'[link'[u].id] = "over"
    BY <1>0, <1>2, <1>3, <1>5, <2>1, <2>2 DEF LinksInv
  <2>9. \A q \in Calls : Opened(q)' => link'[Table(q)'] # NoLink
    BY <1>3, <1>5, <2>3, <2>4
  <2> QED BY <1>0, <1>1, <2>1, <2>2, <2>7, <2>8, <2>9 DEF LinksInv, LinksWorkOnce
<1> QED BY <1>7, <1>8, <1>9 DEF AccountsInv

\* FOR UPDATE: a link that is opened with success is neither held nor spent, so nobody opened it
\* with success before.
LEMMA LinkOpenInv ==
    ASSUME AccountsInv, NEW r \in Calls, NEW l \in mailed[Table(r)] \cup {Stranger}, LinkOpen(r, l)
    PROVE  AccountsInv'
<1>0. AccountsTypeOK /\ SessionsInv /\ LinksInv
  BY DEF AccountsInv
<1>1. UNCHANGED <<account, link, mailed, tokens, call, outdated>> /\ at[r] = "read"
      /\ call[r] \in {"reset", "accept"}
  BY DEF LinkOpen
<1> DEFINE t == Table(r)
<1>2. t \in Tables
  BY DEF Table, Tables
<1>3. hits' \in [Keys -> Nat]
  BY <1>0, <1>2 DEF LinkOpen, RecordFailure, Keys, AccountsTypeOK, Tables
<1>4. CASE Move(r, "over") /\ UNCHANGED <<rowlock, seen, spentOn>>
  <2>1. at' \in [Calls -> Steps] /\ at'[r] = "over" /\ \A q \in Calls : q # r => at'[q] = at[q]
    BY <1>0, <1>4, Moves DEF Steps
  <2>2. AccountsTypeOK'
    BY <1>0, <1>1, <1>3, <1>4, <2>1 DEF AccountsTypeOK
  <2>3. \A q \in Calls : (HasAccount(q)' => HasAccount(q)) /\ (Opened(q)' => Opened(q))
    BY <1>1, <2>1 DEF HasAccount, Opened
  <2>4. \A q : q \in Calls /\ at[q] = "over" => at'[q] = "over"
    BY <2>1
  <2>5. \A u \in Tables : (link[u] # NoLink => link[u].id \in Calls) /\ \A p \in spentOn[u] : p[1] \in Calls
    BY <1>0 DEF AccountsTypeOK, Links
  <2>6. SessionsInv'
    BY <1>0, <1>1, <1>4, <2>3 DEF SessionsInv, Knows
  <2>7. LinksInv'
    BY <1>0, <1>1, <1>4, <2>3, <2>4, <2>5 DEF LinksInv, LinksWorkOnce, Spent, Table
  <2> QED BY <2>2, <2>6, <2>7 DEF AccountsInv
<1>5. CASE /\ link[t].id = l /\ RowFree(t) /\ LinkStatus(t) = "valid"
           /\ rowlock' = [rowlock EXCEPT ![t] = r]
           /\ seen' = [seen EXCEPT ![r] = account]
           /\ spentOn' = [spentOn EXCEPT ![t] = @ \cup {<<l, r>>}]
           /\ Move(r, "write")
  <2>1. at' \in [Calls -> Steps] /\ at'[r] = "write" /\ \A q \in Calls : q # r => at'[q] = at[q]
    BY <1>0, <1>5, Moves DEF Steps
  <2>2. /\ seen' \in [Calls -> Accounts] /\ seen'[r] = account /\ \A q \in Calls : q # r => seen'[q] = seen[q]
        /\ rowlock' \in [Tables -> Calls \cup {None}] /\ rowlock'[t] = r
        /\ \A u \in Tables : u # t => rowlock'[u] = rowlock[u]
        /\ \A u \in Tables : u # t => spentOn'[u] = spentOn[u]
        /\ spentOn'[t] = spentOn[t] \cup {<<l, r>>}
    BY <1>0, <1>2, <1>5 DEF AccountsTypeOK
  <2>3. link[t] # NoLink /\ l \in Calls /\ at[l] = "over"
    <3>1. l \in Calls \cup {Stranger} /\ NoLink.id = None /\ Stranger # None
      BY <1>0, <1>2 DEF AccountsTypeOK, NoLink, None, Stranger
    <3>2. link[t] # NoLink
      BY <1>5, <3>1, AccountsAssumption
    <3>3. link[t].id \in Calls
      BY <1>0, <1>2, <3>2 DEF AccountsTypeOK, Links
    <3> QED BY <1>0, <1>2, <1>5, <3>2, <3>3 DEF LinksInv
  <2>4. ~Spent(t) /\ rowlock[t] = None /\ (call[r] = "reset" => account.exists)
    <3>1. account.active => account.exists
      BY <1>0, AccountFacts DEF AccountsTypeOK
    <3> QED BY <1>1, <1>5, <3>1 DEF LinkStatus, RowFree, Spent, Table
  <2>5. \A p \in spentOn[t] : p[1] # l
    BY <1>0, <1>2, <1>5, <2>4, AccountsAssumption DEF LinksInv, AccountsTypeOK
  <2>6. AccountsTypeOK'
    <3>1. spentOn' \in [Tables -> SUBSET (Calls \X Calls)]
      BY <1>0, <1>2, <1>5, <2>3 DEF AccountsTypeOK
    <3> QED BY <1>0, <1>1, <1>3, <1>5, <2>1, <2>2, <3>1 DEF AccountsTypeOK
  <2>7. SessionsInv'
    <3>1. \A q \in Calls : HasAccount(q)' => seen'[q].exists
      BY <1>0, <1>1, <2>1, <2>2, <2>4 DEF HasAccount, SessionsInv
    <3>2. account.tv \in Nat
      BY <1>0, AccountFacts DEF AccountsTypeOK
    <3>3. ~outdated' => \A q \in Calls : seen'[q].exists => Knows(seen[q].tv, seen[q].pw)'
      BY <1>0, <1>1, <2>2, <3>2 DEF SessionsInv, Knows
    <3> QED BY <1>0, <1>1, <2>2, <3>1, <3>3 DEF SessionsInv, Knows
  <2>8. LinksInv'
    <3>1. \A q : q \in Calls /\ at[q] = "over" => at'[q] = "over"
      BY <1>1, <2>1
    <3>2. \A u \in Tables : (link[u] # NoLink => link[u].id \in Calls) /\ \A p \in spentOn[u] : p[1] \in Calls
      BY <1>0 DEF AccountsTypeOK, Links
    <3>3. \A q \in Calls : Table(q)' = Table(q) /\ Table(q) \in Tables
      BY <1>1 DEF Table, Tables
    <3>4. \A q \in Calls : Opened(q)' => link'[Table(q)'] # NoLink
      BY <1>0, <1>1, <2>1, <2>3, <3>3 DEF Opened, LinksInv
    <3>5. \A u \in Tables : link'[u] # NoLink => at'[link'[u].id] = "over"
      BY <1>0, <1>1, <3>1, <3>2 DEF LinksInv
    <3>6. \A u \in Tables : \A p \in spentOn'[u] : p \in spentOn[u] \/ (u = t /\ p = <<l, r>>)
      BY <2>2
    <3>7. \A u \in Tables : \A p \in spentOn'[u] : at'[p[1]] = "over"
      BY <1>0, <2>3, <3>1, <3>2, <3>6 DEF LinksInv
    <3>8. \A u \in Tables : \A p \in spentOn'[u] : link'[u].id = p[1] => rowlock'[u] = p[2] \/ Spent(u)'
      BY <1>0, <1>1, <1>5, <2>2, <2>5, <3>6 DEF LinksInv, Spent
    <3>9. LinksWorkOnce'
      BY <1>0, <2>5, <3>6 DEF LinksInv, LinksWorkOnce
    <3> QED BY <3>4, <3>5, <3>7, <3>8, <3>9 DEF LinksInv
  <2> QED BY <2>6, <2>7, <2>8 DEF AccountsInv
<1> QED BY <1>1, <1>4, <1>5 DEF LinkOpen

\* Time: a link expires, or the counting windows pass.
LEMMA TimeInv ==
    ASSUME AccountsInv, (\E t \in Tables : LinkExpires(t)) \/ WindowPasses
    PROVE  AccountsInv'
<1>0. AccountsTypeOK /\ SessionsInv /\ LinksInv
  BY DEF AccountsInv
<1>1. UNCHANGED <<account, rowlock, mailed, tokens, call, at, seen, spentOn, outdated>>
  BY DEF LinkExpires, WindowPasses
<1>2. hits' \in [Keys -> Nat]
  BY <1>0 DEF LinkExpires, WindowPasses, AccountsTypeOK
<1>3. /\ link' \in [Tables -> Links]
      /\ \A t \in Tables : link'[t].id = link[t].id /\ link'[t].used = link[t].used
                           /\ (link'[t] # NoLink <=> link[t] # NoLink)
  <2>1. CASE WindowPasses
    BY <1>0, <2>1 DEF WindowPasses, AccountsTypeOK
  <2>2. CASE \E t \in Tables : LinkExpires(t)
    <3> PICK t \in Tables : LinkExpires(t)
      BY <2>2
    <3> DEFINE l == [link[t] EXCEPT !.expired = TRUE]
    <3>1. link[t] # NoLink /\ link[t] \in [id : Calls, used : BOOLEAN, expired : BOOLEAN]
      BY <1>0 DEF LinkExpires, AccountsTypeOK, Links
    <3>2. l \in [id : Calls, used : BOOLEAN, expired : BOOLEAN] /\ l.id = link[t].id /\ l.used = link[t].used
      BY <3>1
    <3>3. NoLink.id \notin Calls
      BY AccountsAssumption DEF NoLink
    <3>4. l # NoLink /\ l \in Links
      BY <3>2, <3>3 DEF Links
    <3>5. link' = [link EXCEPT ![t] = l] /\ link \in [Tables -> Links]
      BY <1>0 DEF LinkExpires, AccountsTypeOK
    <3> HIDE DEF l
    <3> QED BY <3>1, <3>2, <3>4, <3>5
  <2> QED BY <2>1, <2>2
<1>4. AccountsTypeOK'
  BY <1>0, <1>1, <1>2, <1>3 DEF AccountsTypeOK
<1>5. SessionsInv'
  BY <1>0, <1>1 DEF SessionsInv, HasAccount, Knows
<1>6. LinksInv'
  BY <1>0, <1>1, <1>3 DEF LinksInv, LinksWorkOnce, Spent, Opened, Table, Tables
<1> QED BY <1>4, <1>5, <1>6 DEF AccountsInv

LEMMA NextInv == AccountsInv /\ [AccountsNext]_accountsVars => AccountsInv'
<1> SUFFICES ASSUME AccountsInv, [AccountsNext]_accountsVars PROVE AccountsInv'
  OBVIOUS
<1>1. CASE UNCHANGED accountsVars
  BY <1>1 DEF accountsVars, AccountsInv, AccountsTypeOK, SessionsInv, HasAccount, Knows, LinksInv, LinksWorkOnce,
              Opened, Spent, Table
<1>2. ASSUME NEW r \in Calls,
             \/ Quiet(r) \/ Reads(r) \/ SignsIn(r) \/ Writes(r) \/ MakesLink(r)
             \/ \E l \in mailed[Table(r)] \cup {Stranger} : LinkOpen(r, l)
      PROVE  AccountsInv'
  BY <1>2, QuietInv, ReadsInv, SignsInInv, WritesInv, MakesLinkInv, LinkOpenInv
<1>3. CASE (\E t \in Tables : LinkExpires(t)) \/ WindowPasses
  BY <1>3, TimeInv
<1> QED BY <1>1, <1>2, <1>3 DEF AccountsNext, Quiet, Reads, SignsIn, Writes, MakesLink

\* However slow the requests are that overlap a change of the password, a reset, a form of
\* /admin or a sign-in, an accepted session knows the password of today, unless somebody wrote
\* over a change he had not read (auth.py:239, password_reset.py:143, app.py:899).
THEOREM SessionsEnd == AccountsSpec => []SessionsKnowPassword
<1>1. AccountsInv => SessionsKnowPassword
  BY DEF AccountsInv, SessionsInv, SessionsKnowPassword, Accepted, Knows
<1> QED BY InitInv, NextInv, <1>1, PTL DEF AccountsSpec

\* A link from a mail sets one password, for any number of requests that open it at the same
\* time (password_reset.py:134, invites.py:82).
THEOREM OneUsePerLink == AccountsSpec => []LinksWorkOnce
<1>1. AccountsInv => LinksWorkOnce
  BY DEF AccountsInv, LinksInv
<1> QED BY InitInv, NextInv, <1>1, PTL DEF AccountsSpec

\* The account, the links, the counters and the requests have their types in every state
\* (auth.py, password_reset.py, invites.py, login_limits.py).
THEOREM TypeCorrect == AccountsSpec => []AccountsTypeOK
<1>1. AccountsInv => AccountsTypeOK
  BY DEF AccountsInv
<1> QED BY InitInv, NextInv, <1>1, PTL DEF AccountsSpec
=============================================================================
