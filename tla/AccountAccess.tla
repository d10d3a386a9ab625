---------------------------- MODULE AccountAccess ----------------------------
(***************************************************************************)
(* The access to the mailboxes of the users: the sign-in flow              *)
(* (routes/auth.rs, auth/session_store.rs), the stored tokens and their    *)
(* refresh (model/user.rs, email/client.rs), and those who need a client:  *)
(* the job that makes processors (email/tasks.rs) and the routes that      *)
(* check a connection and refresh a token.                                 *)
(*                                                                         *)
(* Access tokens are numbered in the order Google issues them, refresh     *)
(* tokens by the consent they come from; 0 is none, which the database     *)
(* holds as an empty string.  Users with a row are subscribed and have     *)
(* quota left: the filter of the query of the job (user.rs:172-174) is not *)
(* here.                                                                   *)
(*                                                                         *)
(* The queries that join user and user_account_access do not select        *)
(* needs_reauthentication, which the structs they are read into require:   *)
(* they fail on any row.  FlagIsSelected = FALSE is that code.  TRUE adds  *)
(* the column, so that the code behind the queries can be studied.         *)
(***************************************************************************)
EXTENDS Integers, Sequences, FiniteSets

CONSTANTS
    Users,                  \* mail accounts
    SignIns,                \* sign-in flows, each with a session of its own
    Jobs,                   \* runs of add_users_to_processing at a time
    Requests,               \* requests to the other two routes at a time
    None,                   \* no user
    FlagIsSelected,         \* the queries of model/user.rs yield needs_reauthentication
    UnkeyedUpdatePanics,    \* an update by sea_orm without its primary key panics
    MaxConsents,            \* bound on the consents of a user
    MaxExpiries,            \* bound on the access tokens that grow old
    MaxFailures,            \* bound on failing calls of services
    MaxRestarts             \* bound on restarts of the server

Callers == Jobs \cup Requests

ASSUME AccessAssumption ==
    /\ Jobs \cap Requests = {} /\ None \notin Users
    /\ {FlagIsSelected, UnkeyedUpdatePanics} \subseteq BOOLEAN
    /\ {MaxConsents, MaxExpiries, MaxFailures, MaxRestarts} \subseteq Nat

VARIABLES
    \* Google
    grant,          \* user -> the consent that stands
    consents,       \* user -> consents given so far
    issued,         \* for each access token, its user and consent
    old,            \* access tokens whose lifetime has passed
    \* database
    account,        \* user -> the row of user_account_access
    \* memory of the server
    sessions,       \* the sign-ins with a session in the store that is not expired
    signin,         \* sign-in -> the callback in progress
    call,           \* caller -> what it does
    status,         \* user -> its processor: "none", "running", "stopped"
    client,         \* user -> the access token of the processor's client
    caught_up,      \* users whose processor's last fetch ran out of emails
    let_in,         \* user -> the consent of its last sign-in that succeeded
    failures, restarts

google == <<grant, consents, issued, old>>
memory == <<sessions, signin, call, status, client, caught_up, let_in>>
bounds == <<failures, restarts>>
signInFrame == <<call, status, client, caught_up>>
vars == <<google, account, memory, bounds>>

Token == [user : Users, grant : 1..MaxConsents]
Tokens == 1..Len(issued)
NoRow == [access_token |-> 0, refresh_token |-> 0, expires_at |-> 0, needs_reauthentication |-> FALSE]
Row == [access_token : 0..Len(issued), refresh_token : 0..MaxConsents,
        expires_at : 0..Len(issued), needs_reauthentication : BOOLEAN]
HasRow(u) == account[u] # NoRow

\* The time a token expires at is named by the token.
IsExpired(row) == row.expires_at \in old

SignIn == [pc : {"start", "consent", "exchange", "session", "profile", "lookup", "access", "done"},
           user : Users \cup {None}, grant : 0..MaxConsents, refresh : 0..MaxConsents,
           token : 0..Len(issued)]
Call == [pc : {"idle", "query", "next", "token", "update", "client", "scopes"},
         kind : {"none", "job", "check", "refresh"}, todo : SUBSET Users,
         user : Users \cup {None}, copy : [Users -> Row], token : 0..Len(issued)]

NoSignIn == [pc |-> "start", user |-> None, grant |-> 0, refresh |-> 0, token |-> 0]
NoCall == [pc |-> "idle", kind |-> "none", todo |-> {}, user |-> None, copy |-> [u \in Users |-> NoRow], token |-> 0]

Doing(c, pc) == call[c].pc = pc

Fails == failures < MaxFailures /\ failures' = failures + 1 /\ UNCHANGED restarts
Works == UNCHANGED bounds

-----------------------------------------------------------------------------
(* Google *)

Accepted(t) ==
    /\ t \in Tokens \ old
    /\ issued[t].grant = grant[issued[t].user]

Issue(u) == issued' = Append(issued, [user |-> u, grant |-> grant[u]])
NewToken == Len(issued) + 1

\* A token lives an hour and a request a few seconds: none grows old before those
\* it was issued to have stored it.  One read from a row may have seconds left
\* when it is taken, as access_is_expired asks for no margin.
Expire(t) ==
    /\ t \in Tokens \ old /\ Cardinality(old) < MaxExpiries
    /\ \A s \in SignIns : signin[s].token # t
    /\ \A c \in Callers : Doing(c, "update") => call[c].token # t
    /\ old' = old \cup {t}
    /\ UNCHANGED <<grant, consents, issued, account, memory, bounds>>

\* The user takes the consent back in the settings of the Google account.
Withdraw(u) ==
    /\ grant[u] # 0
    /\ grant' = [grant EXCEPT ![u] = 0]
    /\ UNCHANGED <<consents, issued, old, account, memory, bounds>>

\* The user picks an account on Google's page and is sent back with a code.  A
\* refresh token comes with the code of a consent that is new.
Consent(s, u) ==
    LET new == grant[u] = 0
        g == IF new THEN consents[u] + 1 ELSE grant[u]
    IN
    /\ signin[s].pc = "consent"
    /\ g <= MaxConsents
    /\ grant' = [grant EXCEPT ![u] = g]
    /\ consents' = [consents EXCEPT ![u] = IF new THEN g ELSE @]
    /\ signin' = [signin EXCEPT ![s] = [pc |-> "exchange", user |-> u, grant |-> g,
                                        refresh |-> IF new THEN g ELSE 0, token |-> 0]]
    /\ UNCHANGED <<issued, old, account, sessions, signInFrame, let_in, bounds>>

-----------------------------------------------------------------------------
(* Sign-in: handler_auth_gmail and handler_auth_gmail_callback *)

At(s, pc) == signin[s].pc = pc
GoTo(s, pc) == signin' = [signin EXCEPT ![s].pc = pc]
SignInEnds(s) == signin' = [signin EXCEPT ![s] = [NoSignIn EXCEPT !.pc = "done"]]
SignInSucceeds(s) == SignInEnds(s) /\ let_in' = [let_in EXCEPT ![signin[s].user] = signin[s].grant]

StartSignIn(s) ==
    /\ At(s, "start") /\ GoTo(s, "consent")
    /\ sessions' = sessions \cup {s}
    /\ UNCHANGED <<google, account, signInFrame, let_in, bounds>>

\* The code is exchanged; that of a consent taken back is refused.
ExchangeCode(s) ==
    /\ At(s, "exchange") /\ Works
    /\ IF grant[signin[s].user] = signin[s].grant
       THEN /\ Issue(signin[s].user)
            /\ signin' = [signin EXCEPT ![s].pc = "session", ![s].token = NewToken]
       ELSE SignInEnds(s) /\ UNCHANGED issued
    /\ UNCHANGED <<grant, consents, old, account, sessions, signInFrame, let_in>>

\* Only now the session is looked up, and destroyed when it is live.  These are
\* two acquisitions of the lock of the store; the state of a sign-in comes back
\* in one callback, so nothing but its expiry could come between them.
CheckSession(s) ==
    /\ At(s, "session") /\ Works
    /\ IF s \in sessions
       THEN GoTo(s, "profile") /\ sessions' = sessions \ {s}
       ELSE SignInEnds(s) /\ UNCHANGED sessions
    /\ UNCHANGED <<google, account, signInFrame, let_in>>

GetProfile(s) ==
    /\ At(s, "profile") /\ Works
    /\ IF Accepted(signin[s].token) THEN GoTo(s, "lookup") ELSE SignInEnds(s)
    /\ UNCHANGED <<google, account, sessions, signInFrame, let_in>>

\* A user whose stored access looks good is let in, and the new tokens are
\* dropped; everybody else goes on, also when the query fails.
LookUpUser(s) ==
    LET row == account[signin[s].user] IN
    /\ At(s, "lookup")
    /\ \/ /\ Works
          /\ IF FlagIsSelected /\ HasRow(signin[s].user) /\ ~row.needs_reauthentication /\ ~IsExpired(row)
             THEN SignInSucceeds(s) ELSE GoTo(s, "access") /\ UNCHANGED let_in
       \/ Fails /\ GoTo(s, "access") /\ UNCHANGED let_in
    /\ UNCHANGED <<google, account, sessions, signInFrame>>

\* Mutant: the columns to update leave out the access token.
UpsertExpiryOnly(s) ==
    LET u == signin[s].user
        t == signin[s].token
    IN
    /\ At(s, "access") /\ SignInSucceeds(s) /\ Works
    /\ account' = [account EXCEPT ![u].expires_at = t,
                      ![u].access_token = IF HasRow(u) THEN @ ELSE t,
                      ![u].refresh_token = IF signin[s].refresh # 0 THEN signin[s].refresh ELSE @]
    /\ UNCHANGED <<google, sessions, signInFrame>>

\* Mutant: the columns to update do not depend on the answer having a refresh token.
UpsertAllColumns(s) ==
    LET u == signin[s].user
        t == signin[s].token
    IN
    /\ At(s, "access") /\ SignInSucceeds(s) /\ Works
    /\ account' = [account EXCEPT ![u].access_token = t, ![u].expires_at = t,
                                  ![u].refresh_token = signin[s].refresh]
    /\ UNCHANGED <<google, sessions, signInFrame>>

\* The row of the table user, which shows nowhere without one of
\* user_account_access, then this: inserts the row, or updates it but for
\* needs_reauthentication, and for the refresh token if there is no new one.
UpsertAccess(s) ==
    LET u == signin[s].user
        t == signin[s].token
    IN
    /\ At(s, "access") /\ SignInSucceeds(s) /\ Works
    /\ account' = [account EXCEPT ![u].access_token = t, ![u].expires_at = t,
                      ![u].refresh_token = IF signin[s].refresh # 0 THEN signin[s].refresh ELSE @]
    /\ UNCHANGED <<google, sessions, signInFrame>>

\* Google's page was refused, or a call fails.
SignInFails(s) ==
    /\ SignInEnds(s)
    /\ \/ At(s, "consent") /\ Works
       \/ signin[s].pc \in {"exchange", "profile", "access"} /\ Fails
    /\ UNCHANGED <<google, account, sessions, signInFrame, let_in>>

\* 120 seconds pass.  Whether clean_store has removed it makes no difference.
SessionExpires(s) ==
    /\ s \in sessions
    /\ sessions' = sessions \ {s}
    /\ UNCHANGED <<google, account, signin, signInFrame, let_in, bounds>>

SignInStep(s) ==
    \/ StartSignIn(s) \/ ExchangeCode(s) \/ CheckSession(s) \/ GetProfile(s)
    \/ LookUpUser(s) \/ UpsertAccess(s) \/ SignInFails(s)

-----------------------------------------------------------------------------
(* get_new_token and EmailClient::new *)

Copy(c) == call[c].copy[call[c].user]
processors == <<status, client, caught_up>>

\* A job goes on with the next user; the other calls are over.
Leave(c) ==
    LET todo == call[c].todo \ {call[c].user} IN
    call' = [call EXCEPT ![c] = IF todo = {} THEN NoCall
                                ELSE [@ EXCEPT !.pc = "next", !.todo = todo, !.user = None, !.token = 0]]

\* What the caller wanted the token for.
Continue(c, t) ==
    IF call[c].kind = "refresh" THEN Leave(c)
    ELSE call' = [call EXCEPT ![c].token = t,
                              ![c].pc = IF call[c].kind = "job" THEN "client" ELSE "scopes"]

callFrame == <<grant, consents, old, sessions, signin, let_in>>

\* The scheduler starts a run of the job.
StartJob(c) ==
    /\ c \in Jobs /\ Doing(c, "idle") /\ Works
    /\ call' = [call EXCEPT ![c].pc = "query", ![c].kind = "job"]
    /\ UNCHANGED <<callFrame, issued, account, processors>>

\* all_with_available_quota reads the users once, the job takes them one by one.
\* A query that fails, on any row if it lacks the column, ends the job.
ReadUsers(c) ==
    LET connected == {u \in Users : HasRow(u)} IN
    /\ Doing(c, "query")
    /\ \/ /\ FlagIsSelected /\ connected # {} /\ Works
          /\ call' = [call EXCEPT ![c].pc = "next", ![c].todo = connected, ![c].copy = account]
       \/ /\ (~(FlagIsSelected /\ connected # {}) /\ Works) \/ Fails
          /\ call' = [call EXCEPT ![c] = NoCall]
    /\ UNCHANGED <<callFrame, issued, account, processors>>

\* handler_refresh_user_token and check_account_connection, as far as the query;
\* one that fails is answered with an error and changes nothing.
StartRequest(c, u, kind) ==
    /\ c \in Requests /\ Doing(c, "idle") /\ HasRow(u) /\ FlagIsSelected /\ Works
    /\ call' = [call EXCEPT ![c] = [NoCall EXCEPT !.pc = "token", !.kind = kind, !.user = u,
                                                  !.copy = [NoCall.copy EXCEPT ![u] = account[u]]]]
    /\ UNCHANGED <<callFrame, issued, account, processors>>

\* insert_processor leaves a processor that runs as it is; any other is replaced.
VisitUser(c, u) ==
    /\ Doing(c, "next") /\ u \in call[c].todo /\ Works
    /\ IF status[u] = "running"
       THEN LET rest == call[c].todo \ {u} IN
            call' = [call EXCEPT ![c] = IF rest = {} THEN NoCall ELSE [@ EXCEPT !.todo = rest]]
       ELSE call' = [call EXCEPT ![c].pc = "token", ![c].user = u]
    /\ UNCHANGED <<callFrame, issued, account, processors>>

\* The refresh token is decrypted whether it is needed or not, and there is
\* nothing to decrypt: the task panics.
Panic(c) ==
    /\ Doing(c, "token") /\ Copy(c).refresh_token = 0 /\ Works
    /\ call' = [call EXCEPT ![c] = NoCall]
    /\ UNCHANGED <<callFrame, issued, account, processors>>

UseStoredToken(c) ==
    /\ Doing(c, "token") /\ Copy(c).refresh_token # 0 /\ ~IsExpired(Copy(c)) /\ Works
    /\ Continue(c, Copy(c).access_token)
    /\ UNCHANGED <<callFrame, issued, account, processors>>

Refreshes(c) == Doing(c, "token") /\ Copy(c).refresh_token # 0 /\ IsExpired(Copy(c))

\* exchange_refresh_token
ExchangeRefreshToken(c) ==
    /\ Refreshes(c) /\ Copy(c).refresh_token = grant[call[c].user] /\ Works
    /\ Issue(call[c].user)
    /\ call' = [call EXCEPT ![c].pc = "update", ![c].token = NewToken]
    /\ UNCHANGED <<callFrame, account, processors>>

\* The consent was taken back.  EmailClient::new tries to flag the user, but by
\* an update without the primary key, which changes nothing and may panic.
RefreshRefused(c) ==
    /\ Refreshes(c) /\ Copy(c).refresh_token # grant[call[c].user] /\ Works
    /\ IF UnkeyedUpdatePanics /\ call[c].kind # "refresh"
       THEN call' = [call EXCEPT ![c] = NoCall] ELSE Leave(c)
    /\ UNCHANGED <<callFrame, issued, account, processors>>

\* Mutant: the row expires later than its token.
UpdateLateExpiry(c) ==
    LET t == call[c].token IN
    /\ Doing(c, "update") /\ Works
    /\ account' = [account EXCEPT ![call[c].user].access_token = t, ![call[c].user].expires_at = t + 1,
                                  ![call[c].user].needs_reauthentication = FALSE]
    /\ Continue(c, t)
    /\ UNCHANGED <<callFrame, issued, processors>>

\* update_account_access
UpdateAccess(c) ==
    LET t == call[c].token IN
    /\ Doing(c, "update") /\ Works
    /\ account' = [account EXCEPT ![call[c].user].access_token = t, ![call[c].user].expires_at = t,
                                  ![call[c].user].needs_reauthentication = FALSE]
    /\ Continue(c, t)
    /\ UNCHANGED <<callFrame, issued, processors>>

\* EmailProcessor::new and the insertion in the map.
CreateProcessor(c) ==
    /\ Doing(c, "client") /\ Works
    /\ status' = [status EXCEPT ![call[c].user] = "running"]
    /\ client' = [client EXCEPT ![call[c].user] = call[c].token]
    /\ caught_up' = caught_up \ {call[c].user}
    /\ Leave(c)
    /\ UNCHANGED <<callFrame, issued, account>>

\* A service fails: the row is not updated, the processor not made.
CallFails(c) ==
    /\ Refreshes(c) \/ Doing(c, "update") \/ Doing(c, "client")
    /\ Fails /\ Leave(c)
    /\ UNCHANGED <<callFrame, issued, account, processors>>

\* _missing_scopes asks about the token of the row as it was read.  When it is
\* not accepted, or the call fails, the answer is NotConnected.
SaysNotConnected(c) ==
    /\ Doing(c, "scopes")
    /\ (~Accepted(Copy(c).access_token) /\ Works) \/ Fails
    /\ Leave(c)
    /\ UNCHANGED <<callFrame, issued, account, processors>>

\* The profile, the messages and the labels are read with the token of the
\* client; Good or FailedChecks, the answer changes no state.
ChecksAccess(c) ==
    /\ Doing(c, "scopes") /\ Accepted(Copy(c).access_token) /\ Works
    /\ Leave(c)
    /\ UNCHANGED <<callFrame, issued, account, processors>>

JobStep(c) ==
    \/ StartJob(c) \/ ReadUsers(c)
    \/ \E u \in Users : VisitUser(c, u)
    \/ Panic(c) \/ UseStoredToken(c) \/ ExchangeRefreshToken(c) \/ RefreshRefused(c)
    \/ UpdateAccess(c) \/ CreateProcessor(c) \/ CallFails(c)

RequestStep(c) ==
    \/ \E u \in Users, kind \in {"check", "refresh"} : StartRequest(c, u, kind)
    \/ SaysNotConnected(c) \/ ChecksAccess(c)

-----------------------------------------------------------------------------
(* Processors, of which EmailPipeline has the rest *)

\* A page of the list: an answer that is an error reads as a page without
\* messages and without a next page.
FetchEmailIds(u) ==
    /\ status[u] = "running"
    /\ caught_up' \in {caught_up \cup {u}, IF Accepted(client[u]) THEN caught_up \ {u} ELSE caught_up \cup {u}}
    /\ UNCHANGED <<google, account, sessions, signin, call, status, client, let_in, bounds>>

\* The quota is reached, a rule or the usage has changed, or a call failed.
ProcessorStops(u) ==
    /\ status[u] = "running"
    /\ status' = [status EXCEPT ![u] = "stopped"]
    /\ client' = [client EXCEPT ![u] = 0]
    /\ caught_up' = caught_up \ {u}
    /\ UNCHANGED <<google, account, sessions, signin, call, let_in, bounds>>

\* Only the database is left of the server.
Restart ==
    /\ restarts < MaxRestarts /\ restarts' = restarts + 1
    /\ sessions' = {}
    /\ signin' = [s \in SignIns |-> IF At(s, "exchange") \/ signin[s].token # 0
                                    THEN [NoSignIn EXCEPT !.pc = "done"] ELSE signin[s]]
    /\ call' = [c \in Callers |-> NoCall]
    /\ status' = [u \in Users |-> "none"]
    /\ client' = [u \in Users |-> 0]
    /\ caught_up' = {}
    /\ UNCHANGED <<google, account, let_in, failures>>

-----------------------------------------------------------------------------

Init ==
    /\ grant = [u \in Users |-> 0] /\ consents = [u \in Users |-> 0]
    /\ issued = <<>> /\ old = {}
    /\ account = [u \in Users |-> NoRow]
    /\ sessions = {}
    /\ signin = [s \in SignIns |-> NoSignIn]
    /\ call = [c \in Callers |-> NoCall]
    /\ status = [u \in Users |-> "none"] /\ client = [u \in Users |-> 0]
    /\ caught_up = {} /\ let_in = [u \in Users |-> 0]
    /\ failures = 0 /\ restarts = 0

Next ==
    \/ \E t \in Tokens : Expire(t)
    \/ \E u \in Users : Withdraw(u) \/ FetchEmailIds(u) \/ ProcessorStops(u)
    \/ \E s \in SignIns : SignInStep(s) \/ SessionExpires(s)
    \/ \E s \in SignIns, u \in Users : Consent(s, u)
    \/ \E c \in Callers : JobStep(c) \/ RequestStep(c)
    \/ Restart

Spec == Init /\ [][Next]_vars

\* The scheduler starts the job every minute, and its run goes on to its end.
FairSpec == Spec /\ \A c \in Jobs : WF_vars(JobStep(c))

-----------------------------------------------------------------------------
(* Properties *)

\* Types: rows, sign-ins and calls have the values of their definitions.
TypeOK ==
    /\ {grant, consents, let_in} \subseteq [Users -> 0..MaxConsents]
    /\ issued \in Seq(Token) /\ old \subseteq Tokens
    /\ account \in [Users -> Row]
    /\ sessions \subseteq SignIns
    /\ signin \in [SignIns -> SignIn]
    /\ call \in [Callers -> Call]
    /\ status \in [Users -> {"none", "running", "stopped"}]
    /\ client \in [Users -> 0..Len(issued)]
    /\ caught_up \subseteq Users
    /\ failures \in 0..MaxFailures /\ restarts \in 0..MaxRestarts

\* A refresh token that was stored is not lost again, although most sign-ins
\* come without one and refreshes race with them (auth.rs, update_columns).
RefreshTokenKept ==
    [][\A u \in Users : account[u].refresh_token # 0 => account'[u].refresh_token # 0]_vars

\* The token a call goes on with has not expired when it is taken, however long ago
\* the job read the row it comes from and whoever wrote to this row since; and the
\* client of a processor that starts has a token of the processor's user, whichever
\* users the job has been through before (get_new_token, EmailClient::new).
StartsWithAccess ==
    [][/\ \A c \in Callers :
            (call[c].pc \notin {"client", "scopes"} /\ call'[c].pc \in {"client", "scopes"}) =>
               call'[c].token \in Tokens \ old
       /\ \A u \in Users : (status[u] # "running" /\ status'[u] = "running") =>
            /\ client'[u] \in Tokens
            /\ issued[client'[u]].user = u]_vars

\* A row the job does not get past.
StopsTheJob(u) ==
    /\ HasRow(u)
    /\ \/ account[u].refresh_token = 0
       \/ UnkeyedUpdatePanics /\ account[u].refresh_token # grant[u]

\* The stored refresh token is the one Google accepts.
Refreshable(u) == grant[u] # 0 /\ account[u].refresh_token = grant[u]

\* "Start of every minute, create processors for active users" (main.rs:140):
\* every user whose stored access is good gets one, unless the access is lost.
EveryMinuteEveryUser ==
    \A u \in Users : Refreshable(u) ~> (status[u] = "running" \/ ~Refreshable(u))

\* "User needs to reauthenticate" (client.rs:89): a user who was let in under the
\* consent that stands is served.
ReauthenticationHeals ==
    \A u \in Users : (grant[u] # 0 /\ let_in[u] = grant[u]) ~>
        (status[u] = "running" \/ grant[u] # let_in[u] \/ \E v \in Users : StopsTheJob(v))

\* "Collect at least 500 unprocessed emails or until there are no more emails"
\* (processor.rs:256): a fetch that finds no more emails was answered by Google,
\* as long as the consent stands.
CollectsUntilNoMore ==
    [][\A u \in caught_up' \ caught_up :
         Accepted(client[u]) \/ issued[client[u]].grant # grant[u]]_vars

\* test_check_account_connection_ok (account_connection.rs): a user whose access
\* works is not told otherwise.
NotConnectedIsTrue ==
    [][\A c \in Requests : SaysNotConnected(c) => ~Accepted(call[c].token)]_vars
=============================================================================
