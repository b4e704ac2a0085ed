------------------------------- MODULE Login -------------------------------
(***************************************************************************)
(* Logging in to the web client (client/user/login.py, client/user/        *)
(* user_mgr.py): an account at an OAuth provider, or a password, is turned *)
(* into a user of the platform and a token for its API, which the server   *)
(* looks up (hackathon/user/user_manager.py) in the same tables.  Names,   *)
(* avatars and the flags of emails and users are left out, and with them   *)
(* the updates of rows that exist.  What a provider answers about an       *)
(* account, its openid and its emails, does not change; WeiboLogin always  *)
(* fails (it stores a dictionary in the column access_token).              *)
(***************************************************************************)
EXTENDS Naturals, FiniteSets

CONSTANTS
    Threads,    \* threads of the web client
    Accounts,   \* accounts at the providers, told apart by their openid
    Provider,   \* Provider[a]: "qq", "github", "gitcafe", "live" or "mysql"
    Emails,     \* email addresses
    EmailsOf,   \* EmailsOf[a]: those the provider of a lists for it
    Owner,      \* Owner[a]: whose account a is
    Presets,    \* rows of user with a password, there from the beginning
    Patient,    \* TRUE: nobody logs in twice at a time
    CanRestart, \* TRUE: the web client may crash and restart
    None

Ids == Nat \ {0}

UserRows == [id : Ids, openid : Accounts]

Providers == {"qq", "github", "gitcafe", "live", "mysql"}

ASSUME LoginAssumption ==
    /\ IsFiniteSet(Accounts)
    /\ Provider \in [Accounts -> Providers]
    /\ EmailsOf \in [Accounts -> SUBSET Emails]
    /\ \A a \in Accounts : /\ IsFiniteSet(EmailsOf[a])
                           /\ Provider[a] \in {"qq", "mysql"} => EmailsOf[a] = {}
    /\ \A a, b \in Accounts : EmailsOf[a] \cap EmailsOf[b] # {} =>
                                  Owner[a] = Owner[b]
    /\ Presets \subseteq UserRows /\ IsFiniteSet(Presets)
    /\ {u.id : u \in Presets} = 1..Cardinality(Presets)
    /\ \A u, v \in Presets : u.id = v.id \/ u.openid = v.openid => u = v
    /\ \A a \in Accounts :
         Provider[a] = "mysql" <=> \E u \in Presets : u.openid = a
    /\ Patient \in BOOLEAN /\ CanRestart \in BOOLEAN
    /\ None \notin Nat

VARIABLES
    users,  \* rows of user: id, openid
    emails, \* rows of user_email: id, email, user_id
    tokens, \* rows of user_token: user_id, and, as history, the account that
            \* was logged in
    call    \* call[t]: the login that thread t serves

vars == <<users, emails, tokens, call>>

EmailRows == [id : Ids, email : Emails, user : Ids]

Tokens == [user : Ids, account : Accounts]

Steps == {"by_email", "by_openid", "insert", "emails", "insert_email", "token"}

(* list: the emails given to oauth_db_login; todo: those not yet written;  *)
(* email: the one being written; user: the id of the user.                 *)
Calls == [step : Steps, account : Accounts, list : SUBSET Emails,
          todo : SUBSET Emails, email : Emails \cup {None},
          user : Ids \cup {None}]

ASSUME NoneAssumption == None \notin Calls

Init ==
    /\ users = Presets /\ emails = {} /\ tokens = {}
    /\ call = [t \in Threads |-> None]

At(t, step) == call[t] # None /\ call[t].step = step

Goto(t, step) == call' = [call EXCEPT ![t].step = step]

(* The user is known: its emails are written next, then the token.         *)
Found(t, u) ==
    call' = [call EXCEPT ![t].user = u,
                         ![t].step = IF call[t].list = {} THEN "token"
                                                          ELSE "emails"]

Busy(o) == \E t \in Threads : call[t] # None /\ Owner[call[t].account] = o

----------------------------------------------------------------------------
(* login of the providers, up to the answers to the remote calls; nothing  *)
(* has changed when one of them fails.                                     *)

(* oauth_db_login, from its start on, with this list of emails             *)
OAuthLogin(t, a, list) ==
    /\ call[t] = None
    /\ Patient => ~Busy(Owner[a])
    /\ call' = [call EXCEPT ![t] =
           [step |-> IF list = {} THEN "by_openid" ELSE "by_email",
            account |-> a, list |-> list, todo |-> list, email |-> None,
            user |-> None]]
    /\ UNCHANGED <<users, emails, tokens>>

(* Mutant of QQLogin: one email for everybody, as in WeiboLogin.           *)
QQAsWeibo(t, a) ==
    Provider[a] = "qq" /\ OAuthLogin(t, a, {CHOOSE e \in Emails : TRUE})

QQLogin(t, a) == Provider[a] = "qq" /\ OAuthLogin(t, a, {})

GithubLogin(t, a) == Provider[a] = "github" /\ OAuthLogin(t, a, EmailsOf[a])

GitcafeLogin(t, a) == Provider[a] = "gitcafe" /\ OAuthLogin(t, a, EmailsOf[a])

LiveLogin(t, a) == Provider[a] = "live" /\ OAuthLogin(t, a, EmailsOf[a])

(* mysql_login: the user with this name and password                       *)
MySQLLogin(t, a) ==
    /\ Provider[a] = "mysql"
    /\ call[t] = None
    /\ Patient => ~Busy(Owner[a])
    /\ \E u \in users :
         /\ u.openid = a
         /\ call' = [call EXCEPT ![t] =
               [step |-> "token", account |-> a, list |-> {}, todo |-> {},
                email |-> None, user |-> u.id]]
    /\ UNCHANGED <<users, emails, tokens>>

----------------------------------------------------------------------------
(* oauth_db_login *)

(* find_first_object: the row with the lowest id                           *)
First(rows) == CHOOSE r \in rows : \A s \in rows : r.id <= s.id

Listed(list) == {e \in emails : e.email \in list}

(* Mutant of FindByEmail: only the openid is looked for.                   *)
SkipFindByEmail(t) ==
    /\ At(t, "by_email")
    /\ Goto(t, "by_openid")
    /\ UNCHANGED <<users, emails, tokens>>

(* __get_existing_user *)
FindByEmail(t) ==
    /\ At(t, "by_email")
    /\ LET rows == Listed(call[t].list)
       IN  IF rows # {} THEN Found(t, First(rows).user)
                        ELSE Goto(t, "by_openid")
    /\ UNCHANGED <<users, emails, tokens>>

(* Mutant of FindByOpenid: only emails are looked for.                     *)
SkipFindByOpenid(t) ==
    /\ At(t, "by_openid")
    /\ Goto(t, "insert")
    /\ UNCHANGED <<users, emails, tokens>>

FindByOpenid(t) ==
    /\ At(t, "by_openid")
    /\ LET rows == {u \in users : u.openid = call[t].account}
       IN  IF rows # {} THEN Found(t, First(rows).id) ELSE Goto(t, "insert")
    /\ UNCHANGED <<users, emails, tokens>>

(* Mutant of InsertUser: the email is written before the user has an id.   *)
InsertLater(t) ==
    /\ At(t, "insert")
    /\ Found(t, Cardinality(users) + 1)
    /\ UNCHANGED <<users, emails, tokens>>

InsertUser(t) ==
    /\ At(t, "insert")
    /\ LET id == Cardinality(users) + 1
       IN  /\ users' = users \cup {[id |-> id, openid |-> call[t].account]}
           /\ Found(t, id)
    /\ UNCHANGED <<emails, tokens>>

(* Mutant of FindEmail: the look-up is left out.                           *)
SkipFindEmail(t) ==
    /\ At(t, "emails")
    /\ \E e \in call[t].todo :
        call' = [call EXCEPT ![t].step = "insert_email", ![t].email = e,
                             ![t].todo = @ \ {e}]
    /\ UNCHANGED <<users, emails, tokens>>

(* __create_or_update_email: a row of that email keeps its user.           *)
FindEmail(t) ==
    /\ At(t, "emails")
    /\ \E e \in call[t].todo :
        call' = [call EXCEPT
            ![t].step = IF Listed({e}) = {} THEN "insert_email"
                        ELSE IF call[t].todo = {e} THEN "token" ELSE "emails",
            ![t].email = e, ![t].todo = @ \ {e}]
    /\ UNCHANGED <<users, emails, tokens>>

InsertEmail(t) ==
    /\ At(t, "insert_email")
    /\ emails' = emails \cup {[id |-> Cardinality(emails) + 1,
                               email |-> call[t].email, user |-> call[t].user]}
    /\ Goto(t, IF call[t].todo = {} THEN "token" ELSE "emails")
    /\ UNCHANGED <<users, tokens>>

(* __generate_api_token, and the answer                                    *)
GenerateToken(t) ==
    /\ At(t, "token")
    /\ tokens' = tokens \cup {[user |-> call[t].user, account |-> call[t].account]}
    /\ call' = [call EXCEPT ![t] = None]
    /\ UNCHANGED <<users, emails>>

----------------------------------------------------------------------------
Step(t) ==
    \/ \E a \in Accounts :
        \/ QQLogin(t, a) \/ GithubLogin(t, a) \/ GitcafeLogin(t, a)
        \/ LiveLogin(t, a) \/ MySQLLogin(t, a)
    \/ FindByEmail(t) \/ FindByOpenid(t) \/ InsertUser(t) \/ FindEmail(t)
    \/ InsertEmail(t) \/ GenerateToken(t)

(* A login is cut off: its process ends, or the database refuses.          *)
Abort(t) ==
    /\ CanRestart
    /\ call[t] # None
    /\ call' = [call EXCEPT ![t] = None]
    /\ UNCHANGED <<users, emails, tokens>>

Next == \E t \in Threads : Step(t) \/ Abort(t)

Spec == Init /\ [][Next]_vars

----------------------------------------------------------------------------
TypeOK ==
    /\ users \subseteq UserRows
    /\ {u.id : u \in users} = 1..Cardinality(users)
    /\ emails \subseteq EmailRows
    /\ {e.id : e \in emails} = 1..Cardinality(emails)
    /\ \A e \in emails : \E u \in users : u.id = e.user
    /\ tokens \subseteq Tokens
    /\ call \in [Threads -> Calls \cup {None}]

(* Whoever logs in with an account again, also after logins that were cut  *)
(* off half way and logins with other accounts that share an email, is the *)
(* user it was: validate_token then finds its registrations and teams.     *)
SameAccount ==
    Patient => \A x, y \in tokens : x.account = y.account => x.user = y.user

(* __get_existing_user: "find user by email first in case that email       *)
(* registered in multiple oauth providers": accounts with the same emails  *)
(* are one user.                                                           *)
LinkedByEmail ==
    Patient =>
        \A x, y \in tokens :
            /\ EmailsOf[x.account] = EmailsOf[y.account]
            /\ EmailsOf[x.account] # {}
            => x.user = y.user

(* Two people are never one user.                                          *)
OwnUser ==
    \A x, y \in tokens : x.user = y.user => Owner[x.account] = Owner[y.account]

(* __create_or_update_email looks for the row before it inserts one, in    *)
(* another transaction, and no constraint backs it up: an email has one    *)
(* row, so that get_user_by_email is not a choice.                         *)
EmailHasOneRow ==
    Patient => \A e, f \in emails : e.email = f.email => e = f
=============================================================================
