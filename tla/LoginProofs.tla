---------------------------- MODULE LoginProofs ----------------------------
(***************************************************************************)
(* Logging in, for any number of threads, accounts, emails and users: the  *)
(* types, that two people are never one user, and that an email has one    *)
(* row.                                                                    *)
(***************************************************************************)
EXTENDS Login, FiniteSetTheorems, WellFoundedInduction, TLAPS

----------------------------------------------------------------------------
(* Rows *)

(* Ids are given from 1 on, as AUTO_INCREMENT does when nothing is deleted.*)
Numbered(rows) ==
    /\ IsFiniteSet(rows)
    /\ {r.id : r \in rows} = 1..Cardinality(rows)
    /\ \A r, s \in rows : r.id = s.id => r = s

LEMMA InsertNumbered ==
    ASSUME NEW rows, Numbered(rows), NEW r, r.id = Cardinality(rows) + 1
    PROVE  /\ Numbered(rows \cup {r})
           /\ \A s \in rows : s.id # r.id /\ s.id \in Nat
  <1>1. Cardinality(rows) \in Nat
    BY FS_CardinalityType DEF Numbered
  <1>2. \A s \in rows : s.id \in 1..Cardinality(rows)
    BY DEF Numbered
  <1>3. r \notin rows
    BY <1>1, <1>2
  <1>4. /\ IsFiniteSet(rows \cup {r})
        /\ Cardinality(rows \cup {r}) = Cardinality(rows) + 1
    BY <1>3, FS_AddElement DEF Numbered
  <1>5. {s.id : s \in rows \cup {r}} = 1..Cardinality(rows) \cup {r.id}
    BY DEF Numbered
  <1>6. 1..Cardinality(rows) \cup {r.id} = 1..(Cardinality(rows) + 1)
    BY <1>1
  <1>7. \A s \in rows : s.id # r.id /\ s.id \in Nat
    BY <1>1, <1>2
  <1>8. \A s, q \in rows \cup {r} : s.id = q.id => s = q
    BY <1>7 DEF Numbered
  <1> QED BY <1>4, <1>5, <1>6, <1>7, <1>8 DEF Numbered

LEMMA FirstLeast ==
    ASSUME NEW rows, rows # {}, \A r \in rows : r.id \in Nat
    PROVE  \E r \in rows : \A s \in rows : r.id <= s.id
  <1> DEFINE ids == {r.id : r \in rows}
             Less == OpToRel(<, Nat)
  <1>1. ids \subseteq Nat /\ ids # {}
    OBVIOUS
  <1> HIDE DEF ids, Less
  <1>2. PICK m \in ids : \A n \in ids : ~ (<<n, m>> \in Less)
    <2>1. IsWellFoundedOn(Less, Nat)
      BY NatLessThanWellFounded DEF Less
    <2> QED BY <1>1, <2>1, WFMin
  <1>3. \A n \in ids : m <= n
    <2>1. ASSUME NEW n \in ids PROVE m <= n
      <3>1. m \in Nat /\ n \in Nat /\ ~ (<<n, m>> \in Less)
        BY <1>1, <1>2
      <3>2. <<n, m>> \in Nat \X Nat /\ <<n, m>>[1] = n /\ <<n, m>>[2] = m
        BY <3>1
      <3>3. ASSUME n < m PROVE FALSE
        <4>1. <<n, m>> \in {ss \in Nat \X Nat : ss[1] < ss[2]}
          BY <3>2, <3>3
        <4> QED BY <3>1, <4>1 DEF Less, OpToRel
      <3> QED BY <3>1, <3>3
    <2> QED BY <2>1
  <1> QED BY <1>2, <1>3 DEF ids

LEMMA FirstIn ==
    ASSUME NEW rows, rows # {}, \A r \in rows : r.id \in Nat
    PROVE  First(rows) \in rows
  <1>1. PICK r \in rows : \A s \in rows : r.id <= s.id
    BY FirstLeast
  <1> QED BY <1>1 DEF First

----------------------------------------------------------------------------
(* Types and owners *)

(* The id is that of a user whose account is owned by o. *)
OwnedBy(id, o) == \E u \in users : u.id = id /\ Owner[u.openid] = o

UserSteps == {"emails", "insert_email", "token"}

Fits(c) ==
    /\ c.list \subseteq EmailsOf[c.account]
    /\ c.todo \subseteq c.list
    /\ c.step = "insert_email" => c.email \in c.list
    /\ c.step \in UserSteps => OwnedBy(c.user, Owner[c.account])
    /\ Provider[c.account] = "mysql" => c.step = "token"

UsersOK == users \subseteq UserRows /\ Numbered(users)

EmailsOK ==
    /\ emails \subseteq EmailRows /\ Numbered(emails)
    /\ \A e \in emails : \E a \in Accounts :
         e.email \in EmailsOf[a] /\ OwnedBy(e.user, Owner[a])

TokensOK ==
    /\ tokens \subseteq Tokens
    /\ \A x \in tokens : OwnedBy(x.user, Owner[x.account])

CallsOK ==
    /\ call \in [Threads -> Calls \cup {None}]
    /\ \A t \in Threads : call[t] # None => Fits(call[t])

OwnInv == UsersOK /\ EmailsOK /\ TokensOK /\ CallsOK

LEMMA OwnInvTypes == OwnInv => TypeOK /\ OwnUser
  BY DEF OwnInv, UsersOK, EmailsOK, TokensOK, CallsOK, TypeOK, OwnUser, Numbered,
     OwnedBy

LEMMA OwnInvInit == Init => OwnInv
  <1> SUFFICES ASSUME Init PROVE OwnInv
    OBVIOUS
  <1>1. Numbered(emails)
    BY FS_EmptySet DEF Init, Numbered
  <1>2. Numbered(users)
    BY LoginAssumption DEF Init, Numbered
  <1> QED BY <1>1, <1>2, LoginAssumption
      DEF Init, OwnInv, UsersOK, EmailsOK, TokensOK, CallsOK

LEMMA AtFits ==
    ASSUME OwnInv, NEW t \in Threads, call[t] # None
    PROVE  call[t] \in Calls /\ Fits(call[t])
  BY DEF OwnInv, CallsOK

LEMMA OwnedKept ==
    ASSUME users \subseteq users', NEW id, NEW o, OwnedBy(id, o)
    PROVE  OwnedBy(id, o)'
  BY DEF OwnedBy

LEMMA CallsKept ==
    ASSUME OwnInv, users \subseteq users', NEW t \in Threads,
           NEW c \in Calls \cup {None}, c # None => Fits(c)',
           call' = [call EXCEPT ![t] = c]
    PROVE  CallsOK'
  <1>1. call' \in [Threads -> Calls \cup {None}]
    BY DEF OwnInv, CallsOK
  <1>2. ASSUME NEW s \in Threads, call[s]' # None PROVE Fits(call[s])'
    <2>1. CASE s = t
      BY <1>2, <2>1 DEF OwnInv, CallsOK, Fits
    <2>2. CASE s # t
      <3>1. PICK d : d = call[s] /\ d = call[s]'
        BY <2>2 DEF OwnInv, CallsOK
      <3>2. Fits(d)
        BY <3>1, <1>2, AtFits
      <3>3. Fits(d)'
        BY <3>2, OwnedKept DEF Fits
      <3> QED BY <3>1, <3>3
    <2> QED BY <2>1, <2>2
  <1> QED BY <1>1, <1>2 DEF CallsOK

LEMMA OthersKept ==
    ASSUME OwnInv, UNCHANGED <<users, emails, tokens>>
    PROVE  (UsersOK /\ EmailsOK /\ TokensOK)'
  BY DEF OwnInv, UsersOK, EmailsOK, TokensOK, OwnedBy

LEMMA LoginOwns ==
    ASSUME OwnInv, NEW t \in Threads, NEW a \in Accounts,
           \/ QQLogin(t, a) \/ GithubLogin(t, a) \/ GitcafeLogin(t, a)
           \/ LiveLogin(t, a) \/ MySQLLogin(t, a)
    PROVE  OwnInv'
  <1> USE DEF Steps
  <1>1. ASSUME NEW list \in SUBSET EmailsOf[a], OAuthLogin(t, a, list),
               Provider[a] # "mysql"
        PROVE  OwnInv'
    <2> DEFINE c == [step |-> IF list = {} THEN "by_openid" ELSE "by_email",
                     account |-> a, list |-> list, todo |-> list,
                     email |-> None, user |-> None]
    <2>1. list \subseteq Emails
      BY LoginAssumption
    <2>2. /\ c \in Calls /\ Fits(c)' /\ call' = [call EXCEPT ![t] = c]
          /\ UNCHANGED <<users, emails, tokens>>
      BY <1>1, <2>1 DEF OAuthLogin, Calls, Fits, UserSteps
    <2> HIDE DEF c
    <2> QED BY <2>2, CallsKept, OthersKept DEF OwnInv
  <1>2. ASSUME MySQLLogin(t, a) PROVE OwnInv'
    <2>1. PICK u \in users : /\ u.openid = a
                             /\ call' = [call EXCEPT ![t] =
                                   [step |-> "token", account |-> a,
                                    list |-> {}, todo |-> {},
                                    email |-> None, user |-> u.id]]
      BY <1>2 DEF MySQLLogin
    <2> DEFINE c == [step |-> "token", account |-> a, list |-> {}, todo |-> {},
                     email |-> None, user |-> u.id]
    <2>2. UNCHANGED <<users, emails, tokens>> /\ u.id \in Ids
      BY <1>2 DEF MySQLLogin, OwnInv, UsersOK, UserRows
    <2>3. c \in Calls /\ call' = [call EXCEPT ![t] = c]
      BY <2>1, <2>2 DEF Calls
    <2>4. Fits(c)'
      BY <2>1, <2>2 DEF Fits, UserSteps, OwnedBy
    <2> HIDE DEF c
    <2> QED BY <2>2, <2>3, <2>4, CallsKept, OthersKept DEF OwnInv
  <1> QED BY <1>1, <1>2
      DEF QQLogin, GithubLogin, GitcafeLogin, LiveLogin

LEMMA FoundOwns ==
    ASSUME OwnInv, users \subseteq users', NEW t \in Threads, call[t] # None,
           NEW u \in Ids, NEW o, o = Owner[call[t].account], OwnedBy(u, o)',
           Found(t, u),
           call[t].step # "token"
    PROVE  CallsOK'
  <1> USE DEF Steps
  <1>1. PICK c : c = call[t] /\ c \in Calls /\ Fits(c)
    BY AtFits
  <1>2. PICK d : d = [c EXCEPT !.user = u,
                               !.step = IF c.list = {} THEN "token" ELSE "emails"]
    OBVIOUS
  <1>3. /\ d \in Calls /\ d.user = u /\ d.list = c.list /\ d.todo = c.todo
        /\ d.account = c.account
        /\ d.step = IF c.list = {} THEN "token" ELSE "emails"
    BY <1>1, <1>2 DEF Calls
  <1>4. call' = [call EXCEPT ![t] = d]
    BY <1>1, <1>2 DEF Found, Calls
  <1>5. OwnedBy(u, Owner[d.account])'
    BY <1>1, <1>3 DEF OwnedBy
  <1>6. Fits(d)'
    BY <1>1, <1>3, <1>5 DEF Fits
  <1> QED BY <1>3, <1>4, <1>6, CallsKept

LEMMA GotoOwns ==
    ASSUME OwnInv, users \subseteq users', NEW t \in Threads, call[t] # None,
           NEW step \in Steps \ {"insert_email"}, Goto(t, step),
           step \in UserSteps => call[t].step \in UserSteps,
           call[t].step # "token"
    PROVE  CallsOK'
  <1>1. PICK c : c = call[t] /\ c \in Calls /\ Fits(c)
    BY AtFits
  <1>2. PICK d : d = [c EXCEPT !.step = step]
    OBVIOUS
  <1>3. /\ d \in Calls /\ d.user = c.user /\ d.list = c.list /\ d.todo = c.todo
        /\ d.account = c.account /\ d.step = step
    BY <1>1, <1>2 DEF Calls
  <1>4. call' = [call EXCEPT ![t] = d]
    BY <1>1, <1>2 DEF Goto
  <1>5. step \in UserSteps => OwnedBy(d.user, Owner[d.account])
    BY <1>1, <1>3 DEF Fits
  <1>6. step \in UserSteps => OwnedBy(d.user, Owner[d.account])'
    BY <1>5, OwnedKept
  <1>7. Fits(d)'
    BY <1>1, <1>3, <1>6 DEF Fits
  <1> QED BY <1>3, <1>4, <1>7, CallsKept

LEMMA FindOwns ==
    ASSUME OwnInv, NEW t \in Threads, FindByEmail(t) \/ FindByOpenid(t)
    PROVE  OwnInv'
  <1>0. /\ UNCHANGED <<users, emails, tokens>> /\ call[t] # None
        /\ call[t].step \in {"by_email", "by_openid"}
        /\ call[t] \in Calls /\ Fits(call[t])
    BY AtFits DEF FindByEmail, FindByOpenid, At
  <1>1. CASE FindByEmail(t)
    <2> DEFINE rows == Listed(call[t].list)
    <2>1. CASE rows = {}
      BY <1>0, <1>1, <2>1, GotoOwns, OthersKept
      DEF FindByEmail, OwnInv, Steps, UserSteps
    <2>2. CASE rows # {}
      <3>1. \A e \in rows : e.id \in Nat /\ e \in emails /\ e.email \in call[t].list
        BY DEF Listed, OwnInv, EmailsOK, EmailRows, Ids
      <3>2. First(rows) \in rows
        <4> HIDE DEF rows
        <4> QED BY <2>2, <3>1, FirstIn
      <3>3. PICK e : e = First(rows)
        OBVIOUS
      <3>4. e \in emails /\ e.email \in EmailsOf[call[t].account]
        BY <1>0, <3>1, <3>2, <3>3 DEF Fits
      <3>5. PICK a \in Accounts :
              e.email \in EmailsOf[a] /\ OwnedBy(e.user, Owner[a])
        BY <3>4 DEF OwnInv, EmailsOK
      <3>6. Owner[a] = Owner[call[t].account]
        BY <1>0, <3>4, <3>5, LoginAssumption DEF Calls
      <3>7. OwnedBy(e.user, Owner[call[t].account]) /\ e.user \in Ids
        BY <3>4, <3>5, <3>6 DEF OwnInv, EmailsOK, EmailRows
      <3>8. Found(t, e.user)
        BY <1>1, <2>2, <3>3 DEF FindByEmail
      <3>9. CallsOK'
        <4>1. PICK u, o : u = e.user /\ o = Owner[call[t].account]
          OBVIOUS
        <4>2. OwnedBy(u, o)'
          BY <1>0, <3>7, <4>1, OwnedKept
        <4> QED BY <1>0, <3>7, <3>8, <4>1, <4>2, FoundOwns
      <3> QED BY <1>0, <3>9, OthersKept DEF OwnInv
    <2> QED BY <2>1, <2>2
  <1>2. CASE FindByOpenid(t)
    <2> DEFINE rows == {u \in users : u.openid = call[t].account}
    <2>1. CASE rows = {}
      BY <1>0, <1>2, <2>1, GotoOwns, OthersKept
      DEF FindByOpenid, OwnInv, Steps, UserSteps
    <2>2. CASE rows # {}
      <3>1. \A u \in rows : /\ u.id \in Nat /\ u.id \in Ids /\ u \in users
                            /\ u.openid = call[t].account
        BY DEF OwnInv, UsersOK, UserRows, Ids
      <3>2. PICK u : u = First(rows) /\ u \in rows
        <4> HIDE DEF rows
        <4> QED BY <2>2, <3>1, FirstIn
      <3>3. Found(t, u.id)
        BY <1>2, <2>2, <3>2 DEF FindByOpenid
      <3>4. CallsOK'
        <4>1. PICK i, o : i = u.id /\ o = Owner[call[t].account]
          OBVIOUS
        <4>2. OwnedBy(i, o)'
          BY <1>0, <3>1, <3>2, <4>1 DEF OwnedBy
        <4> QED BY <1>0, <3>1, <3>2, <3>3, <4>1, <4>2, FoundOwns
      <3> QED BY <1>0, <3>4, OthersKept DEF OwnInv
    <2> QED BY <2>1, <2>2
  <1> QED BY <1>0, <1>1, <1>2

LEMMA InsertUserOwns ==
    ASSUME OwnInv, NEW t \in Threads, InsertUser(t) PROVE OwnInv'
  <1>0. /\ UNCHANGED <<emails, tokens>> /\ call[t] # None
        /\ call[t].step = "insert" /\ call[t] \in Calls
    BY AtFits DEF InsertUser, At
  <1>1. PICK r : /\ r = [id |-> Cardinality(users) + 1,
                         openid |-> call[t].account]
    OBVIOUS
  <1>2. /\ users' = users \cup {r} /\ Found(t, r.id)
        /\ r.id = Cardinality(users) + 1 /\ r.openid = call[t].account
    BY <1>1 DEF InsertUser
  <1>3. Cardinality(users) \in Nat
    BY FS_CardinalityType DEF OwnInv, UsersOK, Numbered
  <1>4. r \in UserRows /\ r.id \in Ids
    BY <1>0, <1>1, <1>3 DEF UserRows, Ids, Calls
  <1>5. UsersOK'
    <2>1. Numbered(users \cup {r})
      BY <1>2, InsertNumbered DEF OwnInv, UsersOK
    <2> QED BY <1>2, <1>4, <2>1 DEF OwnInv, UsersOK, Numbered
  <1>6. EmailsOK' /\ TokensOK'
    <2>1. \A id, o : OwnedBy(id, o) => OwnedBy(id, o)'
      BY <1>2, OwnedKept
    <2> QED BY <1>0, <2>1 DEF OwnInv, EmailsOK, TokensOK, Numbered
  <1>7. CallsOK'
    <2>1. PICK o : o = Owner[call[t].account]
      OBVIOUS
    <2>2. OwnedBy(r.id, o)'
      BY <1>2, <2>1 DEF OwnedBy
    <2> QED BY <1>0, <1>2, <1>4, <2>1, <2>2, FoundOwns
  <1> QED BY <1>5, <1>6, <1>7 DEF OwnInv

(* The email that is looked for, and whether it is written next. *)
LEMMA FindEmailOwns ==
    ASSUME OwnInv, NEW t \in Threads, FindEmail(t) PROVE OwnInv'
  <1>0. /\ UNCHANGED <<users, emails, tokens>> /\ call[t] # None
        /\ call[t].step = "emails"
    BY DEF FindEmail, At
  <1>1. PICK c : c = call[t] /\ c \in Calls /\ Fits(c)
    BY <1>0, AtFits
  <1>2. PICK e \in c.todo, step \in {"insert_email", "token", "emails"} :
          call' = [call EXCEPT ![t].step = step, ![t].email = e,
                               ![t].todo = @ \ {e}]
    BY <1>1 DEF FindEmail
  <1>3. PICK d : d = [c EXCEPT !.step = step, !.email = e, !.todo = @ \ {e}]
    OBVIOUS
  <1>4. /\ d \in Calls /\ d.user = c.user /\ d.list = c.list
        /\ d.todo = c.todo \ {e} /\ d.account = c.account /\ d.step = step
        /\ d.email = e
    BY <1>1, <1>3 DEF Calls, Steps
  <1>5. call' = [call EXCEPT ![t] = d]
    BY <1>1, <1>2, <1>3 DEF Calls
  <1>6. OwnedBy(d.user, Owner[d.account])
    BY <1>0, <1>1, <1>4 DEF Fits, UserSteps
  <1>7. OwnedBy(d.user, Owner[d.account])'
    BY <1>0, <1>6, OwnedKept
  <1>8. Fits(d)'
    BY <1>0, <1>1, <1>4, <1>7 DEF Fits
  <1> QED BY <1>0, <1>4, <1>5, <1>8, CallsKept, OthersKept DEF OwnInv

LEMMA InsertEmailOwns ==
    ASSUME OwnInv, NEW t \in Threads, InsertEmail(t) PROVE OwnInv'
  <1>0. /\ UNCHANGED <<users, tokens>> /\ call[t] # None
        /\ call[t].step = "insert_email" /\ call[t] \in Calls /\ Fits(call[t])
    BY AtFits DEF InsertEmail, At
  <1>1. PICK r : r = [id |-> Cardinality(emails) + 1,
                      email |-> call[t].email, user |-> call[t].user]
    OBVIOUS
  <1>2. /\ emails' = emails \cup {r} /\ r.id = Cardinality(emails) + 1
        /\ r.email = call[t].email /\ r.user = call[t].user
    BY <1>1 DEF InsertEmail
  <1>3. Cardinality(emails) \in Nat
    BY FS_CardinalityType DEF OwnInv, EmailsOK, Numbered
  <1>4. /\ r.email \in EmailsOf[call[t].account]
        /\ OwnedBy(r.user, Owner[call[t].account])
        /\ call[t].account \in Accounts
    BY <1>0, <1>2 DEF Fits, UserSteps, Calls
  <1>5. r \in EmailRows
    <2>1. r.user \in Ids
      BY <1>4 DEF OwnedBy, OwnInv, UsersOK, UserRows
    <2>2. r.email \in Emails
      BY <1>4, LoginAssumption
    <2> QED BY <1>1, <1>2, <1>3, <2>1, <2>2 DEF EmailRows, Ids
  <1>6. EmailsOK'
    <2>1. Numbered(emails \cup {r})
      BY <1>2, InsertNumbered DEF OwnInv, EmailsOK
    <2>2. \A id, o : OwnedBy(id, o) => OwnedBy(id, o)'
      BY <1>0, OwnedKept
    <2>3. \A e \in emails \cup {r} : \E a \in Accounts :
            e.email \in EmailsOf[a] /\ OwnedBy(e.user, Owner[a])'
      <3>1. ASSUME NEW e \in emails
            PROVE  \E a \in Accounts :
                     e.email \in EmailsOf[a] /\ OwnedBy(e.user, Owner[a])'
        BY <2>2 DEF OwnInv, EmailsOK
      <3>2. PICK i, a : i = r.user /\ a = call[t].account
        OBVIOUS
      <3>3. r.email \in EmailsOf[a] /\ OwnedBy(i, Owner[a])' /\ a \in Accounts
        BY <1>4, <2>2, <3>2
      <3> QED BY <3>1, <3>2, <3>3
    <2>4. emails' \subseteq EmailRows
      BY <1>2, <1>5 DEF OwnInv, EmailsOK
    <2>5. Numbered(emails)'
      BY <1>2, <2>1 DEF Numbered
    <2> QED BY <1>2, <2>3, <2>4, <2>5 DEF EmailsOK
  <1>7. UsersOK' /\ TokensOK'
    BY <1>0 DEF OwnInv, UsersOK, TokensOK, OwnedBy, Numbered
  <1>8. CallsOK'
    <2>1. PICK step \in {"token", "emails"} : Goto(t, step)
      BY DEF InsertEmail
    <2> QED BY <1>0, <2>1, GotoOwns DEF Steps, UserSteps
  <1> QED BY <1>6, <1>7, <1>8 DEF OwnInv

LEMMA TokenOwns ==
    ASSUME OwnInv, NEW t \in Threads, GenerateToken(t) PROVE OwnInv'
  <1>0. /\ UNCHANGED <<users, emails>> /\ call[t] # None
        /\ call[t].step = "token" /\ call[t] \in Calls /\ Fits(call[t])
    BY AtFits DEF GenerateToken, At
  <1>1. PICK r : r = [user |-> call[t].user, account |-> call[t].account]
    OBVIOUS
  <1>2. OwnedBy(r.user, Owner[r.account]) /\ r.account \in Accounts
    BY <1>0, <1>1 DEF Fits, UserSteps, Calls
  <1>3. r \in Tokens
    <2>1. r.user \in Ids
      BY <1>2 DEF OwnedBy, OwnInv, UsersOK, UserRows
    <2> QED BY <1>1, <1>2, <2>1 DEF Tokens
  <1>4. TokensOK'
    <2>1. tokens' = tokens \cup {r}
      BY <1>1 DEF GenerateToken
    <2> QED BY <1>0, <1>2, <1>3, <2>1 DEF OwnInv, TokensOK, OwnedBy
  <1>5. CallsOK'
    BY <1>0, CallsKept DEF GenerateToken
  <1> QED BY <1>0, <1>4, <1>5 DEF OwnInv, UsersOK, EmailsOK, OwnedBy, Numbered

LEMMA OwnInvStep == OwnInv /\ [Next]_vars => OwnInv'
  <1> SUFFICES ASSUME OwnInv, [Next]_vars PROVE OwnInv'
    OBVIOUS
  <1>1. CASE UNCHANGED vars
    BY <1>1, OthersKept DEF vars, OwnInv, CallsOK, Fits, OwnedBy
  <1>2. ASSUME NEW t \in Threads, Abort(t) PROVE OwnInv'
    BY <1>2, CallsKept, OthersKept DEF Abort, OwnInv
  <1>3. ASSUME NEW t \in Threads, Step(t) PROVE OwnInv'
    BY <1>3, LoginOwns, FindOwns, InsertUserOwns, FindEmailOwns,
       InsertEmailOwns, TokenOwns DEF Step
  <1> QED BY <1>1, <1>2, <1>3 DEF Next

(* However logins interleave and wherever they are cut off, rows and calls *)
(* keep their types, and every email and token refers to a user.           *)
THEOREM LoginTypeCorrect == Spec => []TypeOK
  BY OwnInvInit, OwnInvStep, OwnInvTypes, PTL DEF Spec

(* Two people never are one user, whether they wait for each other or not. *)
THEOREM OwnUserAlways == Spec => []OwnUser
  BY OwnInvInit, OwnInvStep, OwnInvTypes, PTL DEF Spec

----------------------------------------------------------------------------
(* People who log in once at a time *)

Mail(a) == Listed(EmailsOf[a])

Holders(a) == {u \in users : u.openid = a}

(* The user whom the next login of the account will find. *)
Whose(a, id) ==
    IF EmailsOf[a] # {}
    THEN Mail(a) # {} /\ First(Mail(a)).user = id
    ELSE Holders(a) # {} /\ First(Holders(a)).id = id

Known(c) ==
    /\ c.list = EmailsOf[c.account]
    /\ c.step \in {"by_openid", "insert"} => Mail(c.account) = {}
    /\ c.step = "insert" => Holders(c.account) = {}
    /\ c.step \in {"emails", "insert_email"} =>
         /\ c.list # {}
         /\ Mail(c.account) # {} => First(Mail(c.account)).user = c.user
    /\ c.step = "insert_email" => Listed({c.email}) = {}
    /\ c.step = "token" => Whose(c.account, c.user)

Apart ==
    \A s, t \in Threads :
        s # t /\ call[s] # None /\ call[t] # None =>
            Owner[call[s].account] # Owner[call[t].account]

OneRow == \A e, f \in emails : e.email = f.email => e = f

PasswordsPreset == \A u \in users : Provider[u.openid] = "mysql" => u \in Presets

KnownInv ==
    /\ Apart /\ OneRow /\ PasswordsPreset
    /\ \A x \in tokens : Whose(x.account, x.user)
    /\ \A t \in Threads : call[t] # None => Known(call[t])

LEMMA KnownFacts ==
    ASSUME OwnInv, KnownInv
    PROVE  SameAccount /\ LinkedByEmail /\ EmailHasOneRow
  <1>1. SameAccount
    BY DEF KnownInv, SameAccount, Whose
  <1>2. LinkedByEmail
    BY DEF KnownInv, LinkedByEmail, Whose, Mail
  <1>3. EmailHasOneRow
    BY DEF KnownInv, OneRow, EmailHasOneRow
  <1> QED BY <1>1, <1>2, <1>3

LEMMA KnownInit == Init => KnownInv
  BY DEF Init, KnownInv, Apart, OneRow, PasswordsPreset

(* The row with the lowest id is one row, and stays when others come. *)
LEMMA FirstIs ==
    ASSUME NEW rows, NEW r \in rows, \A q \in rows : q.id \in Nat,
           \A q \in rows : r.id <= q.id, \A q \in rows : q.id = r.id => q = r
    PROVE  First(rows) = r
  <1>1. PICK q : q = First(rows)
    OBVIOUS
  <1>2. q \in rows /\ \A x \in rows : q.id <= x.id
    BY <1>1 DEF First
  <1>3. q.id = r.id
    BY <1>2
  <1> QED BY <1>1, <1>2, <1>3

LEMMA FirstStays ==
    ASSUME NEW rows, rows # {}, \A q \in rows : q.id \in Nat,
           \A q, x \in rows : q.id = x.id => q = x,
           NEW r, r.id \in Nat, \A q \in rows : q.id < r.id
    PROVE  First(rows \cup {r}) = First(rows)
  <1>1. PICK q : q = First(rows)
    OBVIOUS
  <1>2. \E x \in rows : \A y \in rows : x.id <= y.id
    BY FirstLeast
  <1>3. q \in rows /\ \A x \in rows : q.id <= x.id
    BY <1>1, <1>2 DEF First
  <1>4. PICK all : all = rows \cup {r}
    OBVIOUS
  <1>5. \A x \in all : q.id <= x.id /\ x.id \in Nat /\ (x.id = q.id => x = q)
    BY <1>3, <1>4
  <1>6. q \in all
    BY <1>3, <1>4
  <1>7. First(all) = q
    BY <1>5, <1>6, FirstIs
  <1> QED BY <1>1, <1>4, <1>7

(* A step that inserts neither a user nor an email. *)
LEMMA RestKnown ==
    ASSUME OwnInv, KnownInv, UNCHANGED <<users, emails>>, NEW t \in Threads,
           NEW d, call' = [call EXCEPT ![t] = d], d # None => Known(d),
           d # None => \A s \in Threads :
               s # t /\ call[s] # None => Owner[call[s].account] # Owner[d.account],
           \A x \in tokens' : x \in tokens \/ Whose(x.account, x.user)
    PROVE  KnownInv'
  <1>1. call'[t] = d /\ \A s \in Threads : s # t => call'[s] = call[s]
    BY DEF OwnInv, CallsOK
  <1>2. Apart'
    BY <1>1 DEF KnownInv, Apart
  <1>3. \A x \in tokens' : Whose(x.account, x.user)'
    BY DEF KnownInv, Whose, Mail, Holders, Listed
  <1>4. ASSUME NEW s \in Threads, call'[s] # None PROVE Known(call[s])'
    <2>1. PICK c : c = call'[s] /\ c # None /\ Known(c)
      BY <1>1, <1>4 DEF KnownInv
    <2>2. Known(c)'
      BY <2>1 DEF Known, Whose, Mail, Holders, Listed
    <2> QED BY <2>1, <2>2
  <1> QED BY <1>2, <1>3, <1>4 DEF KnownInv, OneRow, PasswordsPreset

LEMMA NobodyElse ==
    ASSUME KnownInv, NEW t \in Threads, call[t] # None
    PROVE  \A s \in Threads :
             s # t /\ call[s] # None => Owner[call[s].account] # Owner[call[t].account]
  BY DEF KnownInv, Apart

LEMMA LoginKnown ==
    ASSUME OwnInv, KnownInv, Patient, NEW t \in Threads, NEW a \in Accounts,
           \/ QQLogin(t, a) \/ GithubLogin(t, a) \/ GitcafeLogin(t, a)
           \/ LiveLogin(t, a) \/ MySQLLogin(t, a)
    PROVE  KnownInv'
  <1>0. \A s \in Threads : s # t /\ call[s] # None =>
            Owner[call[s].account] # Owner[a]
    BY DEF QQLogin, GithubLogin, GitcafeLogin, LiveLogin, MySQLLogin,
       OAuthLogin, Busy
  <1>1. ASSUME OAuthLogin(t, a, EmailsOf[a]) PROVE KnownInv'
    <2> DEFINE c == [step |-> IF EmailsOf[a] = {} THEN "by_openid" ELSE "by_email",
                     account |-> a, list |-> EmailsOf[a],
                     todo |-> EmailsOf[a], email |-> None, user |-> None]
    <2>1. /\ call' = [call EXCEPT ![t] = c]
          /\ UNCHANGED <<users, emails, tokens>>
      BY <1>1 DEF OAuthLogin
    <2>2. Known(c) /\ c.account = a
      BY DEF Known, Mail, Listed
    <2> HIDE DEF c
    <2> QED BY <1>0, <2>1, <2>2, RestKnown
  <1>2. ASSUME MySQLLogin(t, a) PROVE KnownInv'
    <2>1. PICK u \in users : /\ u.openid = a
                             /\ call' = [call EXCEPT ![t] =
                                   [step |-> "token", account |-> a,
                                    list |-> {}, todo |-> {},
                                    email |-> None, user |-> u.id]]
      BY <1>2 DEF MySQLLogin
    <2> DEFINE c == [step |-> "token", account |-> a, list |-> {}, todo |-> {},
                     email |-> None, user |-> u.id]
    <2>2. UNCHANGED <<users, emails, tokens>> /\ Provider[a] = "mysql"
      BY <1>2 DEF MySQLLogin
    <2>3. EmailsOf[a] = {}
      BY <2>2, LoginAssumption
    <2>4. \A v \in Holders(a) : v = u /\ v.id \in Nat
      BY <2>1, <2>2, LoginAssumption
      DEF KnownInv, PasswordsPreset, Holders, OwnInv, UsersOK, UserRows, Ids
    <2>5. u \in Holders(a)
      BY <2>1 DEF Holders
    <2>6. First(Holders(a)) = u
      BY <2>4, <2>5, FirstIs
    <2>7. Whose(a, u.id)
      BY <2>3, <2>5, <2>6 DEF Whose
    <2>8. Known(c) /\ c.account = a
      BY <2>3, <2>7 DEF Known
    <2>9. call' = [call EXCEPT ![t] = c]
      BY <2>1
    <2> HIDE DEF c
    <2> QED BY <1>0, <2>2, <2>8, <2>9, RestKnown
  <1>3. Provider[a] = "qq" => EmailsOf[a] = {}
    BY LoginAssumption
  <1> QED BY <1>1, <1>2, <1>3
      DEF QQLogin, GithubLogin, GitcafeLogin, LiveLogin

LEMMA FindKnown ==
    ASSUME OwnInv, KnownInv, NEW t \in Threads,
           FindByEmail(t) \/ FindByOpenid(t)
    PROVE  KnownInv'
  <1>0. /\ UNCHANGED <<users, emails, tokens>> /\ call[t] # None
        /\ call[t].step \in {"by_email", "by_openid"}
    BY DEF FindByEmail, FindByOpenid, At
  <1>1. PICK c : c = call[t] /\ c \in Calls /\ Known(c)
    BY <1>0, AtFits DEF KnownInv
  <1>2. ASSUME NEW step, Goto(t, step),
               step \in {"by_openid", "insert"}, Mail(c.account) = {},
               step = "insert" => Holders(c.account) = {}
        PROVE  KnownInv'
    <2>1. PICK d : d = [c EXCEPT !.step = step]
      OBVIOUS
    <2>2. /\ d.step = step /\ d.list = c.list /\ d.account = c.account
      BY <1>1, <2>1 DEF Calls
    <2>3. Known(d)
      BY <1>1, <1>2, <2>2 DEF Known
    <2>4. call' = [call EXCEPT ![t] = d]
      BY <1>1, <1>2, <2>1 DEF Goto
    <2> QED BY <1>0, <1>1, <2>2, <2>3, <2>4, NobodyElse, RestKnown
  <1>3. ASSUME NEW u, Found(t, u), Whose(c.account, u) PROVE KnownInv'
    <2>1. PICK d : d = [c EXCEPT !.user = u,
                          !.step = IF c.list = {} THEN "token" ELSE "emails"]
      OBVIOUS
    <2>2. /\ d.step = IF c.list = {} THEN "token" ELSE "emails"
          /\ d.list = c.list /\ d.account = c.account /\ d.user = u
      BY <1>1, <2>1 DEF Calls
    <2>3. Known(d)
      BY <1>1, <1>3, <2>2 DEF Known, Whose
    <2>4. call' = [call EXCEPT ![t] = d]
      BY <1>1, <1>3, <2>1 DEF Found, Calls
    <2> QED BY <1>0, <1>1, <2>2, <2>3, <2>4, NobodyElse, RestKnown
  <1>4. CASE FindByEmail(t)
    <2>1. Listed(c.list) = Mail(c.account) /\ c.step = "by_email"
      BY <1>1, <1>4 DEF Known, Mail, FindByEmail, At
    <2>2. CASE Mail(c.account) = {}
      BY <1>1, <1>2, <1>4, <2>1, <2>2 DEF FindByEmail
    <2>3. CASE Mail(c.account) # {}
      <3>1. EmailsOf[c.account] # {}
        BY <2>3 DEF Mail, Listed
      <3>2. Whose(c.account, First(Mail(c.account)).user)
        BY <2>3, <3>1 DEF Whose
      <3> QED BY <1>1, <1>3, <1>4, <2>1, <2>3, <3>2 DEF FindByEmail
    <2> QED BY <2>2, <2>3
  <1>5. CASE FindByOpenid(t)
    <2>1. c.step = "by_openid" /\ Mail(c.account) = {}
      BY <1>1, <1>5 DEF Known, FindByOpenid, At
    <2>2. CASE Holders(c.account) = {}
      BY <1>1, <1>2, <1>5, <2>1, <2>2 DEF FindByOpenid, Holders
    <2>3. CASE Holders(c.account) # {}
      <3>1. Found(t, First(Holders(c.account)).id)
        BY <1>1, <1>5, <2>3 DEF FindByOpenid, Holders
      <3>2. CASE c.list = {}
        BY <1>1, <1>3, <2>3, <3>1, <3>2 DEF Whose, Known
      <3>3. CASE c.list # {}
        <4>1. PICK d : d = [c EXCEPT !.user = First(Holders(c.account)).id,
                                     !.step = "emails"]
          OBVIOUS
        <4>2. /\ d.step = "emails" /\ d.list = c.list /\ d.account = c.account
              /\ d.user = First(Holders(c.account)).id
          BY <1>1, <4>1 DEF Calls
        <4>3. Known(d)
          BY <1>1, <2>1, <3>3, <4>2 DEF Known
        <4>4. call' = [call EXCEPT ![t] = d]
          BY <1>1, <3>1, <3>3, <4>1 DEF Found, Calls
        <4> QED BY <1>0, <1>1, <4>2, <4>3, <4>4, NobodyElse, RestKnown
      <3> QED BY <3>2, <3>3
    <2> QED BY <2>2, <2>3
  <1> QED BY <1>4, <1>5

LEMMA FindEmailKnown ==
    ASSUME OwnInv, KnownInv, NEW t \in Threads, FindEmail(t) PROVE KnownInv'
  <1>0. /\ UNCHANGED <<users, emails, tokens>> /\ call[t] # None
        /\ call[t].step = "emails"
    BY DEF FindEmail, At
  <1>1. PICK c : c = call[t] /\ c \in Calls /\ Known(c) /\ Fits(c)
    BY <1>0, AtFits DEF KnownInv
  <1>2. PICK e \in c.todo, step \in {"insert_email", "token", "emails"} :
          /\ call' = [call EXCEPT ![t].step = step, ![t].email = e,
                                  ![t].todo = @ \ {e}]
          /\ step = "insert_email" <=> Listed({e}) = {}
    BY <1>1 DEF FindEmail
  <1>3. PICK d : d = [c EXCEPT !.step = step, !.email = e, !.todo = @ \ {e}]
    OBVIOUS
  <1>4. /\ d.user = c.user /\ d.list = c.list /\ d.account = c.account
        /\ d.step = step /\ d.email = e
    BY <1>1, <1>3 DEF Calls
  <1>5. call' = [call EXCEPT ![t] = d]
    BY <1>1, <1>2, <1>3 DEF Calls
  <1>6. /\ c.list # {} /\ c.list = EmailsOf[c.account]
        /\ Mail(c.account) # {} => First(Mail(c.account)).user = c.user
    BY <1>0, <1>1 DEF Known
  <1>7. step # "insert_email" => Mail(c.account) # {}
    BY <1>1, <1>2, <1>6 DEF Fits, Mail, Listed
  <1>8. Known(d)
    BY <1>2, <1>4, <1>6, <1>7 DEF Known, Whose
  <1> QED BY <1>0, <1>1, <1>4, <1>5, <1>8, NobodyElse, RestKnown

LEMMA TokenKnown ==
    ASSUME OwnInv, KnownInv, NEW t \in Threads, GenerateToken(t)
    PROVE  KnownInv'
  <1>1. /\ UNCHANGED <<users, emails>> /\ call[t] # None
        /\ call[t].step = "token" /\ call' = [call EXCEPT ![t] = None]
    BY DEF GenerateToken, At
  <1>2. Whose(call[t].account, call[t].user)
    BY <1>1 DEF KnownInv, Known
  <1>3. \A x \in tokens' : x \in tokens \/ Whose(x.account, x.user)
    BY <1>2 DEF GenerateToken
  <1> QED BY <1>1, <1>3, RestKnown

LEMMA AbortKnown ==
    ASSUME OwnInv, KnownInv, NEW t \in Threads, Abort(t) PROVE KnownInv'
  BY RestKnown DEF Abort

(* Who was found is found again when a row is inserted. *)
LEMMA HoldersStay ==
    ASSUME OwnInv, NEW r, users' = users \cup {r}, r.id = Cardinality(users) + 1,
           r.id \in Nat, UNCHANGED emails
    PROVE  \A a, id : Whose(a, id) => Whose(a, id)'
  <1> SUFFICES ASSUME NEW a, NEW id, Whose(a, id) PROVE Whose(a, id)'
    OBVIOUS
  <1>1. Mail(a)' = Mail(a)
    BY DEF Mail, Listed
  <1>2. CASE EmailsOf[a] # {}
    BY <1>1, <1>2 DEF Whose
  <1>3. CASE EmailsOf[a] = {}
    <2>1. PICK old : old = Holders(a)
      OBVIOUS
    <2>2. old # {} /\ First(old).id = id
      BY <1>3, <2>1 DEF Whose
    <2>3. /\ \A q \in old : q.id \in Nat /\ q.id \in 1..Cardinality(users)
          /\ \A q, x \in old : q.id = x.id => q = x
      BY <2>1 DEF Holders, OwnInv, UsersOK, Numbered
    <2>4. Cardinality(users) \in Nat
      BY FS_CardinalityType DEF OwnInv, UsersOK, Numbered
    <2>5. \A q \in old : q.id < r.id
      BY <2>3, <2>4
    <2>6. First(old \cup {r}) = First(old)
      BY <2>2, <2>3, <2>5, FirstStays
    <2>7. Holders(a)' = old \/ Holders(a)' = old \cup {r}
      BY <2>1 DEF Holders
    <2> QED BY <1>3, <2>2, <2>6, <2>7 DEF Whose
  <1> QED BY <1>2, <1>3

LEMMA MailStays ==
    ASSUME OwnInv, NEW r, emails' = emails \cup {r},
           r.id = Cardinality(emails) + 1, r.id \in Nat, NEW a, Mail(a) # {}
    PROVE  Mail(a)' # {} /\ First(Mail(a)') = First(Mail(a))
  <1>1. PICK old : old = Mail(a)
    OBVIOUS
  <1>2. /\ \A q \in old : q.id \in Nat /\ q.id \in 1..Cardinality(emails)
        /\ \A q, x \in old : q.id = x.id => q = x
    BY <1>1 DEF Mail, Listed, OwnInv, EmailsOK, Numbered
  <1>3. Cardinality(emails) \in Nat
    BY FS_CardinalityType DEF OwnInv, EmailsOK, Numbered
  <1>4. \A q \in old : q.id < r.id
    BY <1>2, <1>3
  <1>5. First(old \cup {r}) = First(old)
    BY <1>1, <1>2, <1>4, FirstStays
  <1>6. Mail(a)' = old \/ Mail(a)' = old \cup {r}
    BY <1>1 DEF Mail, Listed
  <1> QED BY <1>1, <1>5, <1>6

LEMMA InsertUserKnown ==
    ASSUME OwnInv, KnownInv, NEW t \in Threads, InsertUser(t) PROVE KnownInv'
  <1>0. /\ UNCHANGED <<emails, tokens>> /\ call[t] # None
        /\ call[t].step = "insert"
    BY DEF InsertUser, At
  <1>1. PICK c : c = call[t] /\ c \in Calls /\ Known(c) /\ Fits(c)
    BY <1>0, AtFits DEF KnownInv
  <1>2. PICK r : r = [id |-> Cardinality(users) + 1, openid |-> c.account]
    OBVIOUS
  <1>3. /\ users' = users \cup {r} /\ Found(t, r.id)
        /\ r.id = Cardinality(users) + 1 /\ r.openid = c.account /\ r.id \in Nat
    BY <1>1, <1>2, FS_CardinalityType
    DEF InsertUser, OwnInv, UsersOK, Numbered
  <1>4. PICK d : d = [c EXCEPT !.user = r.id,
                        !.step = IF c.list = {} THEN "token" ELSE "emails"]
    OBVIOUS
  <1>5. /\ d.step = IF c.list = {} THEN "token" ELSE "emails"
        /\ d.list = c.list /\ d.account = c.account /\ d.user = r.id
    BY <1>1, <1>4 DEF Calls
  <1>6. call' = [call EXCEPT ![t] = d]
    BY <1>1, <1>3, <1>4 DEF Found, Calls
  <1>7. call'[t] = d /\ \A s \in Threads : s # t => call'[s] = call[s]
    BY <1>6 DEF OwnInv, CallsOK
  <1>8. /\ c.list = EmailsOf[c.account] /\ Mail(c.account) = {}
        /\ Holders(c.account) = {}
    BY <1>0, <1>1 DEF Known
  <1>9. \A a : Mail(a)' = Mail(a)
    BY <1>0 DEF Mail, Listed
  <1>10. Known(d)'
    <2>1. PICK a : a = c.account
      OBVIOUS
    <2>2. Holders(a)' = {r}
      BY <1>3, <1>8, <2>1 DEF Holders
    <2>3. First({r}) = r
      <3>1. PICK ones : ones = {r}
        OBVIOUS
      <3>2. r \in ones /\ \A q \in ones : q = r /\ q.id \in Nat /\ r.id <= q.id
        BY <1>3, <3>1
      <3>3. First(ones) = r
        BY <3>2, FirstIs
      <3> QED BY <3>1, <3>3
    <2>4. EmailsOf[a] = {} => Whose(a, r.id)'
      BY <2>2, <2>3 DEF Whose
    <2>5. Mail(a)' = {}
      BY <1>8, <1>9, <2>1
    <2> QED BY <1>5, <1>8, <2>1, <2>4, <2>5 DEF Known
  <1>11. ASSUME NEW s \in Threads, s # t, call[s] # None PROVE Known(call[s])'
    <2>1. PICK x : x = call'[s] /\ x = call[s] /\ Known(x)
      BY <1>7, <1>11 DEF KnownInv
    <2>2. x.account # c.account
      BY <1>0, <1>1, <1>11, <2>1 DEF KnownInv, Apart
    <2>3. Holders(x.account)' = Holders(x.account)
      BY <1>3, <2>1, <2>2 DEF Holders
    <2>4. Listed({x.email})' = Listed({x.email})
      BY <1>0 DEF Listed
    <2>5. Whose(x.account, x.user) => Whose(x.account, x.user)'
      BY <1>9, <2>3 DEF Whose
    <2> QED BY <1>9, <2>1, <2>3, <2>4, <2>5 DEF Known
  <1>12. Apart'
    BY <1>0, <1>1, <1>5, <1>7 DEF KnownInv, Apart
  <1>13. \A x \in tokens' : Whose(x.account, x.user)'
    BY <1>0, <1>3, HoldersStay DEF KnownInv
  <1>14. PasswordsPreset'
    BY <1>0, <1>1, <1>3 DEF KnownInv, PasswordsPreset, Fits
  <1>15. ASSUME NEW s \in Threads, call'[s] # None PROVE Known(call[s])'
    <2>1. CASE s = t
      BY <1>7, <1>10, <2>1
    <2>2. CASE s # t
      BY <1>7, <1>11, <1>15, <2>2
    <2> QED BY <2>1, <2>2
  <1> QED BY <1>0, <1>12, <1>13, <1>14, <1>15 DEF KnownInv, OneRow

LEMMA InsertEmailKnown ==
    ASSUME OwnInv, KnownInv, NEW t \in Threads, InsertEmail(t) PROVE KnownInv'
  <1>0. /\ UNCHANGED <<users, tokens>> /\ call[t] # None
        /\ call[t].step = "insert_email"
    BY DEF InsertEmail, At
  <1>1. PICK c : c = call[t] /\ c \in Calls /\ Known(c) /\ Fits(c)
    BY <1>0, AtFits DEF KnownInv
  <1>2. PICK r : r = [id |-> Cardinality(emails) + 1, email |-> c.email,
                      user |-> c.user]
    OBVIOUS
  <1>3. /\ emails' = emails \cup {r} /\ r.id = Cardinality(emails) + 1
        /\ r.email = c.email /\ r.user = c.user /\ r.id \in Nat
    BY <1>1, <1>2, FS_CardinalityType
    DEF InsertEmail, OwnInv, EmailsOK, Numbered
  <1>4. PICK step \in {"token", "emails"} : Goto(t, step)
    BY DEF InsertEmail
  <1>5. PICK d : d = [c EXCEPT !.step = step]
    OBVIOUS
  <1>6. /\ d.step = step /\ d.list = c.list /\ d.account = c.account
        /\ d.user = c.user
    BY <1>1, <1>5 DEF Calls
  <1>7. call' = [call EXCEPT ![t] = d]
    BY <1>1, <1>4, <1>5 DEF Goto
  <1>8. call'[t] = d /\ \A s \in Threads : s # t => call'[s] = call[s]
    BY <1>7 DEF OwnInv, CallsOK
  <1>9. /\ c.list # {} /\ c.list = EmailsOf[c.account] /\ c.email \in c.list
        /\ Mail(c.account) # {} => First(Mail(c.account)).user = c.user
        /\ Listed({c.email}) = {}
    BY <1>0, <1>1 DEF Known, Fits
  <1>10. Mail(c.account)' # {} /\ First(Mail(c.account)').user = c.user
    <2>1. CASE Mail(c.account) # {}
      BY <1>3, <1>9, <2>1, MailStays
    <2>2. CASE Mail(c.account) = {}
      <3>1. PICK one : one = Mail(c.account)'
        OBVIOUS
      <3>2. one = {r}
        BY <1>3, <1>9, <2>2, <3>1 DEF Mail, Listed
      <3>3. First({r}) = r
        <4>1. PICK ones : ones = {r}
          OBVIOUS
        <4>2. r \in ones /\ \A q \in ones : q = r /\ q.id \in Nat /\ r.id <= q.id
          BY <1>3, <4>1
        <4>3. First(ones) = r
          BY <4>2, FirstIs
        <4> QED BY <4>1, <4>3
      <3> QED BY <1>3, <3>1, <3>2, <3>3
    <2> QED BY <2>1, <2>2
  <1>11. Known(d)'
    <2>1. PICK a : a = c.account
      OBVIOUS
    <2>2. Mail(a)' # {} /\ First(Mail(a))'.user = c.user
      BY <1>10, <2>1 DEF First
    <2> QED BY <1>6, <1>9, <2>1, <2>2 DEF Known, Whose
  <1>12. \A a, id : Whose(a, id) => Whose(a, id)'
    <2>1. ASSUME NEW a, NEW id, Whose(a, id) PROVE Whose(a, id)'
      <3>1. Holders(a)' = Holders(a)
        BY <1>0 DEF Holders
      <3>2. CASE EmailsOf[a] = {}
        BY <2>1, <3>1, <3>2 DEF Whose
      <3>3. CASE EmailsOf[a] # {}
        BY <1>3, <2>1, <3>3, MailStays DEF Whose, First
      <3> QED BY <3>2, <3>3
    <2> QED BY <2>1
  <1>13. ASSUME NEW s \in Threads, s # t, call[s] # None PROVE Known(call[s])'
    <2>1. PICK x : /\ x = call'[s] /\ x = call[s] /\ Known(x) /\ Fits(x)
                   /\ x \in Calls
      BY <1>8, <1>13, AtFits DEF KnownInv
    <2>2. Owner[x.account] # Owner[c.account]
      BY <1>0, <1>1, <1>13, <2>1 DEF KnownInv, Apart
    <2>3. c.email \notin EmailsOf[x.account]
      BY <1>1, <1>9, <2>1, <2>2, LoginAssumption DEF Calls
    <2>4. Mail(x.account)' = Mail(x.account)
      BY <1>3, <2>3 DEF Mail, Listed
    <2>5. x.step = "insert_email" => x.email # c.email
      BY <2>1, <2>3 DEF Fits, Known
    <2>6. x.step = "insert_email" => Listed({x.email})' = {}
      BY <1>3, <2>1, <2>5 DEF Listed, Known
    <2>7. Holders(x.account)' = Holders(x.account)
      BY <1>0 DEF Holders
    <2>8. Whose(x.account, x.user) => Whose(x.account, x.user)'
      BY <1>12
    <2> QED BY <2>1, <2>4, <2>6, <2>7, <2>8 DEF Known
  <1>14. Apart'
    BY <1>0, <1>1, <1>6, <1>8 DEF KnownInv, Apart
  <1>15. OneRow'
    BY <1>3, <1>9 DEF KnownInv, OneRow, Listed
  <1>16. ASSUME NEW s \in Threads, call'[s] # None PROVE Known(call[s])'
    <2>1. CASE s = t
      BY <1>8, <1>11, <2>1
    <2>2. CASE s # t
      BY <1>8, <1>13, <1>16, <2>2
    <2> QED BY <2>1, <2>2
  <1>17. \A x \in tokens' : Whose(x.account, x.user)'
    BY <1>0, <1>12 DEF KnownInv
  <1> QED BY <1>0, <1>14, <1>15, <1>16, <1>17 DEF KnownInv, PasswordsPreset

LEMMA KnownAlways == ASSUME Patient PROVE Spec => [](OwnInv /\ KnownInv)
  <1>1. ASSUME OwnInv, KnownInv, [Next]_vars PROVE KnownInv'
    <2>1. CASE UNCHANGED vars
      <3>1. UNCHANGED <<users, emails, tokens, call>>
        BY <2>1 DEF vars
      <3>2. \A c : Known(c) => Known(c)'
        BY <3>1 DEF Known, Whose, Mail, Holders, Listed
      <3>3. \A a, id : Whose(a, id) => Whose(a, id)'
        BY <3>1 DEF Whose, Mail, Holders, Listed
      <3>4. \A t \in Threads : call'[t] # None => Known(call[t])'
        BY <1>1, <3>1, <3>2 DEF KnownInv
      <3> QED BY <1>1, <3>1, <3>3, <3>4
          DEF KnownInv, Apart, OneRow, PasswordsPreset
    <2>2. ASSUME NEW t \in Threads, Step(t) \/ Abort(t) PROVE KnownInv'
      BY <1>1, <2>2, LoginKnown, FindKnown, InsertUserKnown, FindEmailKnown,
         InsertEmailKnown, TokenKnown, AbortKnown DEF Step
    <2> QED BY <1>1, <2>1, <2>2 DEF Next
  <1> QED BY <1>1, OwnInvInit, OwnInvStep, KnownInit, PTL DEF Spec

(* Who logs in once at a time is, with one account, always the same user.  *)
THEOREM SameAccountAlways == ASSUME Patient PROVE Spec => []SameAccount
  <1>1. OwnInv /\ KnownInv => SameAccount
    BY KnownFacts
  <1> QED BY <1>1, KnownAlways, PTL

(* And with several accounts of the same emails as well.                   *)
THEOREM LinkedByEmailAlways == ASSUME Patient PROVE Spec => []LinkedByEmail
  <1>1. OwnInv /\ KnownInv => LinkedByEmail
    BY KnownFacts
  <1> QED BY <1>1, KnownAlways, PTL

(* And no email of theirs has two rows, so that the look-up is no choice.  *)
THEOREM EmailAlwaysHasOneRow == ASSUME Patient PROVE Spec => []EmailHasOneRow
  <1>1. OwnInv /\ KnownInv => EmailHasOneRow
    BY KnownFacts
  <1> QED BY <1>1, KnownAlways, PTL

============================================================================
