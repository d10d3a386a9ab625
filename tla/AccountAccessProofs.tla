------------------------- MODULE AccountAccessProofs -------------------------
(***************************************************************************)
(* Proofs about AccountAccess, for every value of its constants.           *)
(*                                                                         *)
(* StartsWithAccess is about the steps in which a call takes a token and a *)
(* processor starts with it, but the token comes a long way: from Google   *)
(* through a sign-in or a refresh to a row, from there to the copy of a    *)
(* job, or to the job itself.  Inv says at each of these places whose      *)
(* token it is, and that the expiry of a row is that of its token.         *)
(***************************************************************************)
EXTENDS AccountAccess, TLAPS

\* A row of u: its expiry is that of its token, its token is one of u, and only
\* a row with a token has a refresh token.
RowOf(u, row) ==
    /\ row \in Row
    /\ row.access_token = row.expires_at
    /\ row.access_token # 0 => issued[row.access_token].user = u
    /\ row.access_token = 0 => row.refresh_token = 0

\* A sign-in that came back from Google has a consent, and later a token.
SignInOK(r) ==
    /\ r \in SignIn
    /\ r.pc \notin {"start", "consent", "done"} => r.user \in Users /\ r.grant # 0
    /\ r.pc \in {"session", "profile", "lookup", "access"} =>
          r.token # 0 /\ issued[r.token].user = r.user

\* A call has rows of the users, a user to look after, and later a token of this
\* user, which has not expired while it is new.
CallOK(r) ==
    /\ r \in Call
    /\ \A u \in Users : RowOf(u, r.copy[u])
    /\ r.pc \notin {"idle", "query", "next"} => r.user \in Users
    /\ r.pc \in {"update", "client", "scopes"} =>
          /\ r.token \in Tokens
          /\ issued[r.token].user = r.user
    /\ r.pc = "update" => r.token \notin old

GoogleOK ==
    /\ grant \in [Users -> 0..MaxConsents] /\ consents \in [Users -> 0..MaxConsents]
    /\ issued \in Seq(Token) /\ old \subseteq Tokens

RowsOK == account \in [Users -> Row] /\ \A u \in Users : RowOf(u, account[u])

SignInsOK ==
    /\ sessions \subseteq SignIns /\ let_in \in [Users -> 0..MaxConsents]
    /\ signin \in [SignIns -> SignIn] /\ \A s \in SignIns : SignInOK(signin[s])

CallsOK == call \in [Callers -> Call] /\ \A c \in Callers : CallOK(call[c])

ProcessorsOK ==
    /\ status \in [Users -> {"none", "running", "stopped"}]
    /\ client \in [Users -> 0..Len(issued)]
    /\ caught_up \subseteq Users

BoundsOK == failures \in 0..MaxFailures /\ restarts \in 0..MaxRestarts

Inv == GoogleOK /\ RowsOK /\ SignInsOK /\ CallsOK /\ ProcessorsOK /\ BoundsOK

LEMMA InvImpliesTypeOK == Inv => TypeOK
BY DEF Inv, GoogleOK, RowsOK, SignInsOK, CallsOK, ProcessorsOK, BoundsOK, TypeOK

LEMMA BoundsAreNaturals ==
    MaxConsents \in Nat /\ MaxExpiries \in Nat /\ MaxFailures \in Nat /\ MaxRestarts \in Nat
BY AccessAssumption

-----------------------------------------------------------------------------
(* What is said of a row, a sign-in or a call stays true while no token is *)
(* issued or grows old; and when one is issued, what is said of old ones.  *)

LEMMA NothingIssued ==
    ASSUME UNCHANGED issued
    PROVE  /\ \A u \in Users : \A row : RowOf(u, row) => RowOf(u, row)'
           /\ \A r : SignInOK(r) => SignInOK(r)'
           /\ UNCHANGED old => \A r : CallOK(r) => CallOK(r)'
           /\ Row' = Row /\ SignIn' = SignIn /\ Call' = Call /\ Tokens' = Tokens
BY DEF RowOf, SignInOK, CallOK, Row, SignIn, Call, Tokens

\* A new token is appended: the tokens there were are what they were.
LEMMA IssueFacts ==
    ASSUME issued \in Seq(Token), NEW u \in Users, grant[u] \in 1..MaxConsents, Issue(u)
    PROVE  /\ issued' \in Seq(Token)
           /\ Len(issued) \in Nat /\ Len(issued') = Len(issued) + 1
           /\ \A t \in Tokens : issued'[t] = issued[t]
           /\ issued'[NewToken].user = u
BY DEF Issue, Token, Tokens, NewToken

LEMMA OneIssued ==
    ASSUME GoogleOK, NEW u \in Users, grant[u] \in 1..MaxConsents, Issue(u), UNCHANGED old
    PROVE  /\ \A v \in Users : \A row : RowOf(v, row) => RowOf(v, row)'
           /\ \A r : SignInOK(r) => SignInOK(r)'
           /\ \A r : CallOK(r) => CallOK(r)'
           /\ Row \subseteq Row' /\ SignIn \subseteq SignIn' /\ Call \subseteq Call'
           /\ NewToken \in Tokens' \ old' /\ NewToken \in 0..Len(issued') /\ NewToken # 0
<1>1. /\ Len(issued) \in Nat /\ Len(issued') = Len(issued) + 1
      /\ \A t \in Tokens : issued'[t] = issued[t]
      /\ old \subseteq Tokens
  BY IssueFacts DEF GoogleOK
<1>2. Row \subseteq Row' /\ SignIn \subseteq SignIn'
  BY <1>1 DEF Row, SignIn
<1>3. Call \subseteq Call'
  BY <1>1, <1>2 DEF Call
<1>4. NewToken \in Tokens' \ old' /\ NewToken \in 0..Len(issued') /\ NewToken # 0
  BY <1>1 DEF NewToken, Tokens
<1>5. ASSUME NEW v \in Users, NEW row, RowOf(v, row) PROVE RowOf(v, row)'
  <2>1. row \in Row' /\ row.access_token \in 0..Len(issued)
    BY <1>2, <1>5 DEF RowOf, Row
  <2>2. row.access_token # 0 => row.access_token \in Tokens
    BY <1>1, <2>1 DEF Tokens
  <2>3. QED
    BY <1>1, <1>5, <2>1, <2>2 DEF RowOf
<1>6. ASSUME NEW r, SignInOK(r) PROVE SignInOK(r)'
  <2>1. r \in SignIn' /\ r.token \in 0..Len(issued)
    BY <1>2, <1>6 DEF SignInOK, SignIn
  <2>2. r.token # 0 => r.token \in Tokens
    BY <1>1, <2>1 DEF Tokens
  <2>3. QED
    BY <1>1, <1>6, <2>1, <2>2 DEF SignInOK
<1>7. ASSUME NEW r, CallOK(r) PROVE CallOK(r)'
  <2>1. r \in Call' /\ \A v \in Users : RowOf(v, r.copy[v])'
    BY <1>3, <1>5, <1>7 DEF CallOK
  <2>2. Tokens \subseteq Tokens'
    BY <1>1 DEF Tokens
  <2>3. QED
    BY <1>1, <1>7, <2>1, <2>2 DEF CallOK
<1>8. QED
  BY <1>2, <1>3, <1>4, <1>5, <1>6, <1>7

LEMMA BoundsKept ==
    ASSUME BoundsOK, Works \/ Fails
    PROVE  BoundsOK'
BY BoundsAreNaturals DEF BoundsOK, Works, Fails, bounds

-----------------------------------------------------------------------------
(* Steps of a sign-in *)

\* A step of one sign-in that issues nothing and leaves the rows alone.
LEMMA SignInMoves ==
    ASSUME Inv, NEW s \in SignIns, NEW r, signin' = [signin EXCEPT ![s] = r], SignInOK(r),
           UNCHANGED <<google, account, signInFrame>>,
           sessions' \subseteq SignIns, let_in' \in [Users -> 0..MaxConsents],
           Works \/ Fails
    PROVE  Inv'
<1>1. GoogleOK'
  BY DEF Inv, GoogleOK, google, Tokens
<1>2. RowsOK' /\ CallsOK' /\ ProcessorsOK'
  BY NothingIssued DEF Inv, RowsOK, CallsOK, ProcessorsOK, google, signInFrame
<1>3. SignInsOK'
  <2>1. SignInOK(r)' /\ r \in SignIn' /\ SignIn' = SignIn
    BY NothingIssued DEF google, SignInOK
  <2>2. \A q \in SignIns : SignInOK(signin[q])'
    BY NothingIssued, <2>1 DEF Inv, SignInsOK, google
  <2>3. QED
    BY <2>1, <2>2 DEF Inv, SignInsOK
<1>4. QED
  BY <1>1, <1>2, <1>3, BoundsKept DEF Inv

LEMMA DoneSignIn == SignInOK([NoSignIn EXCEPT !.pc = "done"])
BY BoundsAreNaturals DEF SignInOK, SignIn, NoSignIn

\* The fields of a sign-in.
LEMMA SignInFacts ==
    ASSUME Inv, NEW s \in SignIns
    PROVE  SignInOK(signin[s]) /\ signin[s] \in SignIn
BY DEF Inv, SignInsOK, SignInOK

LEMMA StartSignInKeeps == ASSUME Inv, NEW s \in SignIns, StartSignIn(s) PROVE Inv'
<1>1. SignInOK([signin[s] EXCEPT !.pc = "consent"])
  BY SignInFacts DEF SignInOK, SignIn
<1>2. QED
  BY <1>1, SignInMoves DEF StartSignIn, GoTo, Inv, SignInsOK, google, signInFrame, bounds, Works

LEMMA CheckSessionKeeps == ASSUME Inv, NEW s \in SignIns, CheckSession(s) PROVE Inv'
<1>1. SignInOK([signin[s] EXCEPT !.pc = "profile"])
  BY SignInFacts DEF SignInOK, SignIn, CheckSession, At
<1>2. QED
  BY <1>1, DoneSignIn, SignInMoves DEF CheckSession, GoTo, SignInEnds, Inv, SignInsOK

LEMMA GetProfileKeeps == ASSUME Inv, NEW s \in SignIns, GetProfile(s) PROVE Inv'
<1>1. SignInOK([signin[s] EXCEPT !.pc = "lookup"])
  BY SignInFacts DEF SignInOK, SignIn, GetProfile, At
<1>2. QED
  BY <1>1, DoneSignIn, SignInMoves DEF GetProfile, GoTo, SignInEnds, Inv, SignInsOK

LEMMA LetIn ==
    ASSUME Inv, NEW s \in SignIns
    PROVE  [let_in EXCEPT ![signin[s].user] = signin[s].grant] \in [Users -> 0..MaxConsents]
BY SignInFacts DEF Inv, SignInsOK, SignIn

LEMMA LookUpUserKeeps == ASSUME Inv, NEW s \in SignIns, LookUpUser(s) PROVE Inv'
<1>1. SignInOK([signin[s] EXCEPT !.pc = "access"])
  BY SignInFacts DEF SignInOK, SignIn, LookUpUser, At
<1>2. CASE SignInSucceeds(s)
  BY <1>2, DoneSignIn, LetIn, SignInMoves DEF LookUpUser, SignInSucceeds, SignInEnds, Inv, SignInsOK
<1>3. CASE GoTo(s, "access") /\ UNCHANGED let_in
  BY <1>1, <1>3, SignInMoves DEF LookUpUser, GoTo, Inv, SignInsOK
<1>4. QED
  BY <1>2, <1>3 DEF LookUpUser

LEMMA SignInFailsKeeps == ASSUME Inv, NEW s \in SignIns, SignInFails(s) PROVE Inv'
BY DoneSignIn, SignInMoves DEF SignInFails, SignInEnds, Inv, SignInsOK

LEMMA ExchangeCodeKeeps == ASSUME Inv, NEW s \in SignIns, ExchangeCode(s) PROVE Inv'
<1>1. CASE SignInEnds(s) /\ UNCHANGED issued
  BY <1>1, DoneSignIn, SignInMoves DEF ExchangeCode, SignInEnds, Inv, SignInsOK, google
<1>2. CASE /\ grant[signin[s].user] = signin[s].grant
           /\ Issue(signin[s].user)
           /\ signin' = [signin EXCEPT ![s].pc = "session", ![s].token = NewToken]
  <2>u. PICK u : u = signin[s].user
    OBVIOUS
  <2>r. PICK r : r = [signin[s] EXCEPT !.pc = "session", !.token = NewToken]
    OBVIOUS
  <2>1. u \in Users /\ grant[u] \in 1..MaxConsents /\ signin[s].grant # 0
    <3>1. signin[s].user \in Users /\ signin[s].grant # 0
      BY SignInFacts DEF ExchangeCode, At, SignInOK
    <3>2. grant[signin[s].user] \in 1..MaxConsents
      BY <1>2, <3>1, BoundsAreNaturals DEF Inv, GoogleOK
    <3>3. QED
      BY <3>1, <3>2, <2>u
  <2>2. Issue(u) /\ GoogleOK /\ UNCHANGED old
    BY <1>2, <2>u DEF ExchangeCode, Inv
  <2>3. /\ issued' \in Seq(Token) /\ issued'[NewToken].user = u
        /\ Len(issued') = Len(issued) + 1 /\ Len(issued) \in Nat
    BY <2>1, <2>2, IssueFacts DEF GoogleOK
  <2>4. GoogleOK'
    BY <2>2, <2>3 DEF GoogleOK, ExchangeCode, Tokens
  <2>5. RowsOK' /\ CallsOK'
    BY <2>1, <2>2, OneIssued DEF ExchangeCode, signInFrame, Inv, RowsOK, CallsOK
  <2>6. ProcessorsOK'
    BY <2>3 DEF ExchangeCode, signInFrame, Inv, ProcessorsOK
  <2>7. SignInsOK'
    <3>1. r \in SignIn' /\ SignInOK(r)'
      <4>1. signin[s] \in SignIn' /\ NewToken \in 0..Len(issued') /\ NewToken # 0
        BY <2>1, <2>2, OneIssued, SignInFacts
      <4>2. r \in SignIn'
        BY <4>1, <2>r DEF SignIn
      <4>3. r.user = u /\ r.grant # 0 /\ r.token = NewToken
        BY <2>1, <2>u, <2>r, SignInFacts DEF SignIn
      <4>4. QED
        BY <4>1, <4>2, <4>3, <2>1, <2>3 DEF SignInOK
    <3>2. signin' = [signin EXCEPT ![s] = r]
      BY <1>2, <2>r, SignInFacts DEF Inv, SignInsOK
    <3>3. \A q \in SignIns : SignInOK(signin[q])' /\ signin'[q] \in SignIn'
      <4>1. \A q \in SignIns : signin[q] \in SignIn' /\ (q # s => signin'[q] = signin[q])
        BY <3>2, <2>1, <2>2, OneIssued DEF Inv, SignInsOK
      <4>2. \A q \in SignIns : q # s => SignInOK(signin[q])'
        BY <4>1, <2>1, <2>2, OneIssued DEF Inv, SignInsOK
      <4>3. QED
        BY <3>1, <3>2, <4>1, <4>2 DEF Inv, SignInsOK
    <3>4. QED
      BY <3>2, <3>3 DEF Inv, SignInsOK, ExchangeCode
  <2>8. QED
    BY <2>4, <2>5, <2>6, <2>7, BoundsKept DEF Inv, ExchangeCode
<1>3. QED
  BY <1>1, <1>2 DEF ExchangeCode

\* The row of one user is set to a row of this user.
LEMMA RowSet ==
    ASSUME Inv, NEW u \in Users, NEW row, RowOf(u, row), account' = [account EXCEPT ![u] = row],
           UNCHANGED issued
    PROVE  RowsOK'
<1>1. RowOf(u, row)' /\ row \in Row' /\ Row' = Row
  BY NothingIssued DEF RowOf
<1>2. \A v \in Users : RowOf(v, account[v])'
  <2>1. \A v \in Users : v # u => account'[v] = account[v] /\ RowOf(v, account[v])
    BY DEF Inv, RowsOK
  <2>2. \A v \in Users : \A any : RowOf(v, any) => RowOf(v, any)'
    BY NothingIssued
  <2>3. account'[u] = row
    BY DEF Inv, RowsOK
  <2>4. QED
    BY <1>1, <2>1, <2>2, <2>3
<1>3. QED
  BY <1>1, <1>2 DEF Inv, RowsOK

LEMMA UpsertAccessKeeps == ASSUME Inv, NEW s \in SignIns, UpsertAccess(s) PROVE Inv'
<1>u. PICK u : u = signin[s].user
  OBVIOUS
<1>t. PICK t : t = signin[s].token
  OBVIOUS
<1>1. /\ u \in Users /\ t \in 0..Len(issued) /\ t # 0 /\ issued[t].user = u
      /\ signin[s].refresh \in 0..MaxConsents
  BY <1>u, <1>t, SignInFacts DEF UpsertAccess, At, SignInOK, SignIn
<1>2. account[u] \in Row
  BY <1>1 DEF Inv, RowsOK
<1>3. PICK row : row = [account[u] EXCEPT !.access_token = t, !.expires_at = t,
                          !.refresh_token = IF signin[s].refresh # 0 THEN signin[s].refresh ELSE @]
  OBVIOUS
<1>4. RowOf(u, row)
  BY <1>1, <1>2, <1>3 DEF RowOf, Row
<1>5. account' = [account EXCEPT ![u] = row]
  BY <1>2, <1>3, <1>u, <1>t DEF UpsertAccess, Inv, RowsOK
<1>6. RowsOK'
  BY <1>1, <1>4, <1>5, RowSet DEF UpsertAccess, google
<1>7. GoogleOK' /\ CallsOK' /\ ProcessorsOK' /\ BoundsOK'
  BY NothingIssued, BoundsKept
  DEF UpsertAccess, Inv, GoogleOK, CallsOK, ProcessorsOK, google, signInFrame, Tokens
<1>8. SignInsOK'
  <2>1. PICK r : r = [NoSignIn EXCEPT !.pc = "done"]
    OBVIOUS
  <2>2. signin' = [signin EXCEPT ![s] = r] /\ SignInOK(r)
    BY <2>1, DoneSignIn DEF UpsertAccess, SignInSucceeds, SignInEnds
  <2>3. \A q \in SignIns : SignInOK(signin'[q])
    BY <2>2 DEF Inv, SignInsOK
  <2>4. \A q \in SignIns : SignInOK(signin[q])'
    BY <2>3, NothingIssued DEF UpsertAccess, google
  <2>5. let_in' \in [Users -> 0..MaxConsents]
    BY LetIn DEF UpsertAccess, SignInSucceeds
  <2>6. QED
    BY <2>4, <2>5 DEF Inv, SignInsOK, UpsertAccess, SignInSucceeds, SignInEnds, SignInOK
<1>9. QED
  BY <1>6, <1>7, <1>8 DEF Inv

-----------------------------------------------------------------------------
(* Steps of a call *)

\* A step of one call that issues nothing and leaves the rows alone.
LEMMA CallMoves ==
    ASSUME Inv, NEW c \in Callers, NEW r, call' = [call EXCEPT ![c] = r], CallOK(r),
           UNCHANGED <<callFrame, issued, account>>, ProcessorsOK', Works \/ Fails
    PROVE  Inv'
<1>1. GoogleOK' /\ RowsOK' /\ SignInsOK'
  BY NothingIssued DEF Inv, GoogleOK, RowsOK, SignInsOK, callFrame, Tokens
<1>2. CallsOK'
  <2>1. CallOK(r)' /\ r \in Call' /\ Call' = Call
    BY NothingIssued DEF callFrame, CallOK
  <2>2. \A d \in Callers : CallOK(call[d])'
    BY NothingIssued, <2>1 DEF Inv, CallsOK, callFrame
  <2>3. QED
    BY <2>1, <2>2 DEF Inv, CallsOK
<1>3. QED
  BY <1>1, <1>2, BoundsKept DEF Inv

LEMMA ProcessorsKept ==
    ASSUME Inv, UNCHANGED <<issued, processors>>
    PROVE  ProcessorsOK'
BY DEF Inv, ProcessorsOK, processors

LEMMA CallFacts ==
    ASSUME Inv, NEW c \in Callers
    PROVE  CallOK(call[c]) /\ call[c] \in Call
BY DEF Inv, CallsOK, CallOK

LEMMA NoCallOK == ASSUME GoogleOK PROVE CallOK(NoCall) /\ NoRow \in Row
<1>1. 0 \in 0..Len(issued) /\ 0 \in 0..MaxConsents
  BY BoundsAreNaturals DEF GoogleOK
<1>2. NoRow \in Row
  BY <1>1 DEF NoRow, Row
<1>3. NoCall \in Call
  BY <1>1, <1>2 DEF NoCall, Call
<1>4. QED
  BY <1>2, <1>3 DEF CallOK, NoCall, RowOf, NoRow

\* What a call becomes when it leaves a user.
LEMMA LeaveOK ==
    ASSUME Inv, NEW c \in Callers, Leave(c)
    PROVE  \E r : call' = [call EXCEPT ![c] = r] /\ CallOK(r)
<1>1. PICK todo : todo = call[c].todo \ {call[c].user}
  OBVIOUS
<1>2. PICK next : next = [call[c] EXCEPT !.pc = "next", !.todo = todo, !.user = None, !.token = 0]
  OBVIOUS
<1>3. todo \subseteq Users /\ 0 \in 0..Len(issued)
  BY <1>1, CallFacts DEF Call, Inv, GoogleOK
<1>4. CallOK(next)
  BY <1>2, <1>3, CallFacts DEF CallOK, Call
<1>5. call' = [call EXCEPT ![c] = IF todo = {} THEN NoCall ELSE next]
  BY <1>1, <1>2 DEF Leave, Inv, CallsOK
<1>6. QED
  BY <1>4, <1>5, NoCallOK DEF Inv

LEMMA LeaveKeeps ==
    ASSUME Inv, NEW c \in Callers, Leave(c), UNCHANGED <<callFrame, issued, account>>,
           ProcessorsOK', Works \/ Fails
    PROVE  Inv'
BY LeaveOK, CallMoves

LEMMA StartJobKeeps == ASSUME Inv, NEW c \in Callers, StartJob(c) PROVE Inv'
<1>1. PICK r : r = [call[c] EXCEPT !.pc = "query", !.kind = "job"]
  OBVIOUS
<1>2. CallOK(r)
  BY <1>1, CallFacts DEF CallOK, Call
<1>3. call' = [call EXCEPT ![c] = r]
  BY <1>1 DEF StartJob, Inv, CallsOK
<1>4. QED
  BY <1>2, <1>3, CallMoves, ProcessorsKept DEF StartJob

LEMMA ReadUsersKeeps == ASSUME Inv, NEW c \in Callers, ReadUsers(c) PROVE Inv'
<1>1. PICK connected : connected = {u \in Users : HasRow(u)}
  OBVIOUS
<1>2. PICK r : r = [call[c] EXCEPT !.pc = "next", !.todo = connected, !.copy = account]
  OBVIOUS
<1>3. call[c] \in Call /\ connected \subseteq Users
  BY <1>1, CallFacts
<1>4. account \in [Users -> Row] /\ \A u \in Users : RowOf(u, account[u])
  BY DEF Inv, RowsOK
<1>5. r \in Call
  BY <1>2, <1>3, <1>4 DEF Call
<1>6. CallOK(r)
  BY <1>2, <1>3, <1>4, <1>5 DEF CallOK, Call
<1>7. CASE call' = [call EXCEPT ![c] = r]
  BY <1>6, <1>7, CallMoves, ProcessorsKept DEF ReadUsers
<1>8. CASE call' = [call EXCEPT ![c] = NoCall]
  BY <1>8, NoCallOK, CallMoves, ProcessorsKept DEF ReadUsers, Inv
<1>9. call' = [call EXCEPT ![c] = r] \/ call' = [call EXCEPT ![c] = NoCall]
  BY <1>1, <1>2 DEF ReadUsers, Inv, CallsOK
<1>10. QED
  BY <1>7, <1>8, <1>9

LEMMA StartRequestKeeps ==
    ASSUME Inv, NEW c \in Callers, NEW u \in Users, NEW kind \in {"check", "refresh"},
           StartRequest(c, u, kind)
    PROVE  Inv'
<1>1. PICK r : r = [NoCall EXCEPT !.pc = "token", !.kind = kind, !.user = u,
                                  !.copy = [NoCall.copy EXCEPT ![u] = account[u]]]
  OBVIOUS
<1>2. NoCall \in Call /\ \A v \in Users : RowOf(v, NoCall.copy[v])
  BY NoCallOK DEF Inv, CallOK
<1>3. RowOf(u, account[u]) /\ account[u] \in Row
  BY DEF Inv, RowsOK
<1>4. r \in Call
  BY <1>1, <1>2, <1>3 DEF Call
<1>5. \A v \in Users : r.copy[v] = IF v = u THEN account[u] ELSE NoCall.copy[v]
  BY <1>1, <1>2 DEF Call
<1>6. CallOK(r)
  BY <1>1, <1>2, <1>3, <1>4, <1>5 DEF CallOK, Call
<1>7. QED
  BY <1>1, <1>6, CallMoves, ProcessorsKept DEF StartRequest

LEMMA VisitUserKeeps == ASSUME Inv, NEW c \in Callers, NEW u \in Users, VisitUser(c, u) PROVE Inv'
<1>1. PICK rest : rest = call[c].todo \ {u}
  OBVIOUS
<1>2. PICK skip : skip = [call[c] EXCEPT !.todo = rest]
  OBVIOUS
<1>3. PICK look : look = [call[c] EXCEPT !.pc = "token", !.user = u]
  OBVIOUS
<1>4. call[c] \in Call /\ call[c].pc = "next" /\ rest \subseteq Users
  BY <1>1, CallFacts DEF VisitUser, Doing, Call
<1>5. CallOK(skip) /\ CallOK(look)
  BY <1>2, <1>3, <1>4, CallFacts DEF CallOK, Call
<1>6. \/ call' = [call EXCEPT ![c] = NoCall] \/ call' = [call EXCEPT ![c] = skip]
      \/ call' = [call EXCEPT ![c] = look]
  BY <1>1, <1>2, <1>3 DEF VisitUser, Inv, CallsOK
<1>7. QED
  BY <1>5, <1>6, NoCallOK, CallMoves, ProcessorsKept DEF VisitUser, Inv

LEMMA PanicKeeps == ASSUME Inv, NEW c \in Callers, Panic(c) PROVE Inv'
BY NoCallOK, CallMoves, ProcessorsKept DEF Panic, Inv

LEMMA RefreshRefusedKeeps == ASSUME Inv, NEW c \in Callers, RefreshRefused(c) PROVE Inv'
<1>1. CASE Leave(c)
  BY <1>1, LeaveKeeps, ProcessorsKept DEF RefreshRefused
<1>2. CASE call' = [call EXCEPT ![c] = NoCall]
  BY <1>2, NoCallOK, CallMoves, ProcessorsKept DEF RefreshRefused, Inv
<1>3. QED
  BY <1>1, <1>2 DEF RefreshRefused

LEMMA CallFailsKeeps == ASSUME Inv, NEW c \in Callers, CallFails(c) PROVE Inv'
BY LeaveKeeps, ProcessorsKept DEF CallFails

LEMMA SaysNotConnectedKeeps == ASSUME Inv, NEW c \in Callers, SaysNotConnected(c) PROVE Inv'
BY LeaveKeeps, ProcessorsKept DEF SaysNotConnected

LEMMA ChecksAccessKeeps == ASSUME Inv, NEW c \in Callers, ChecksAccess(c) PROVE Inv'
BY LeaveKeeps, ProcessorsKept DEF ChecksAccess

LEMMA CreateProcessorKeeps == ASSUME Inv, NEW c \in Callers, CreateProcessor(c) PROVE Inv'
<1>1. call[c].token \in 0..Len(issued)
  BY CallFacts DEF Call
<1>2. ProcessorsOK'
  BY <1>1 DEF CreateProcessor, Inv, ProcessorsOK
<1>3. QED
  BY <1>2, LeaveKeeps DEF CreateProcessor

\* A token the caller goes on with is the user's and has not expired.
LEMMA ContinueOK ==
    ASSUME Inv, NEW c \in Callers, call[c].user \in Users, NEW t \in Tokens \ old,
           issued[t].user = call[c].user, Continue(c, t)
    PROVE  \E r : call' = [call EXCEPT ![c] = r] /\ CallOK(r)
<1>1. CASE Leave(c)
  BY <1>1, LeaveOK
<1>2. CASE ~Leave(c)
  <2>1. PICK r : r = [call[c] EXCEPT !.token = t,
                                     !.pc = IF call[c].kind = "job" THEN "client" ELSE "scopes"]
    OBVIOUS
  <2>2. call[c] \in Call /\ t \in 0..Len(issued)
    BY CallFacts DEF Tokens, Inv, GoogleOK
  <2>3. CallOK(r)
    BY <2>1, <2>2, CallFacts DEF CallOK, Call
  <2>4. call' = [call EXCEPT ![c] = r]
    BY <1>2, <2>1 DEF Continue, Inv, CallsOK
  <2>5. QED
    BY <2>3, <2>4
<1>3. QED
  BY <1>1, <1>2

LEMMA UseStoredTokenKeeps == ASSUME Inv, NEW c \in Callers, UseStoredToken(c) PROVE Inv'
<1>u. PICK u : u = call[c].user
  OBVIOUS
<1>t. PICK t : t = Copy(c).access_token
  OBVIOUS
<1>1. u \in Users /\ RowOf(u, Copy(c))
  BY <1>u, CallFacts DEF UseStoredToken, Doing, CallOK, Copy
<1>2. t # 0 /\ t \in 0..Len(issued) /\ t \notin old /\ issued[t].user = u
  BY <1>t, <1>1 DEF UseStoredToken, RowOf, Row, IsExpired
<1>3. t \in Tokens \ old
  BY <1>2 DEF Tokens, Inv, GoogleOK
<1>4. \E r : call' = [call EXCEPT ![c] = r] /\ CallOK(r)
  BY <1>u, <1>t, <1>1, <1>2, <1>3, ContinueOK DEF UseStoredToken
<1>5. QED
  BY <1>4, CallMoves, ProcessorsKept DEF UseStoredToken

LEMMA UpdateAccessKeeps == ASSUME Inv, NEW c \in Callers, UpdateAccess(c) PROVE Inv'
<1>u. PICK u : u = call[c].user
  OBVIOUS
<1>t. PICK t : t = call[c].token
  OBVIOUS
<1>1. /\ u \in Users /\ t \in Tokens \ old /\ issued[t].user = u
      /\ t \in 0..Len(issued) /\ t # 0
  <2>1. u \in Users /\ t \in Tokens \ old /\ issued[t].user = u
    BY <1>u, <1>t, CallFacts DEF UpdateAccess, Doing, CallOK
  <2>2. t \in 0..Len(issued) /\ t # 0
    BY <2>1 DEF Tokens, Inv, GoogleOK
  <2>3. QED
    BY <2>1, <2>2
<1>2. account[u] \in Row
  BY <1>1 DEF Inv, RowsOK
<1>3. PICK row : row = [account[u] EXCEPT !.access_token = t, !.expires_at = t,
                                          !.needs_reauthentication = FALSE]
  OBVIOUS
<1>4. RowOf(u, row)
  BY <1>1, <1>2, <1>3 DEF RowOf, Row
<1>5. account' = [account EXCEPT ![u] = row]
  BY <1>2, <1>3, <1>u, <1>t DEF UpdateAccess, Inv, RowsOK
<1>6. RowsOK'
  BY <1>1, <1>4, <1>5, RowSet DEF UpdateAccess
<1>7. GoogleOK' /\ SignInsOK' /\ ProcessorsOK' /\ BoundsOK'
  BY NothingIssued, BoundsKept, ProcessorsKept
  DEF UpdateAccess, Inv, GoogleOK, SignInsOK, callFrame, Tokens
<1>8. CallsOK'
  <2>1. PICK r : call' = [call EXCEPT ![c] = r] /\ CallOK(r)
    BY <1>u, <1>t, <1>1, ContinueOK DEF UpdateAccess
  <2>2. \A d \in Callers : CallOK(call'[d])
    BY <2>1 DEF Inv, CallsOK
  <2>3. \A d \in Callers : CallOK(call[d])'
    BY <2>2, NothingIssued DEF UpdateAccess, callFrame
  <2>4. QED
    BY <2>1, <2>3 DEF Inv, CallsOK, CallOK
<1>9. QED
  BY <1>6, <1>7, <1>8 DEF Inv

LEMMA ExchangeRefreshTokenKeeps ==
    ASSUME Inv, NEW c \in Callers, ExchangeRefreshToken(c)
    PROVE  Inv'
<1>u. PICK u : u = call[c].user
  OBVIOUS
<1>r. PICK r : r = [call[c] EXCEPT !.pc = "update", !.token = NewToken]
  OBVIOUS
<1>1. u \in Users /\ RowOf(u, Copy(c))
  BY <1>u, CallFacts DEF ExchangeRefreshToken, Refreshes, Doing, CallOK, Copy
<1>2. grant[u] \in 1..MaxConsents /\ Issue(u) /\ GoogleOK /\ UNCHANGED old
  BY <1>1, <1>u, BoundsAreNaturals
  DEF ExchangeRefreshToken, Refreshes, callFrame, Inv, GoogleOK
<1>3. /\ issued' \in Seq(Token) /\ issued'[NewToken].user = u
      /\ Len(issued') = Len(issued) + 1 /\ Len(issued) \in Nat
  BY <1>1, <1>2, IssueFacts DEF GoogleOK
<1>4. GoogleOK'
  BY <1>2, <1>3 DEF GoogleOK, ExchangeRefreshToken, callFrame, Tokens
<1>5. RowsOK' /\ SignInsOK'
  BY <1>1, <1>2, OneIssued DEF ExchangeRefreshToken, callFrame, Inv, RowsOK, SignInsOK
<1>6. ProcessorsOK'
  BY <1>3 DEF ExchangeRefreshToken, processors, Inv, ProcessorsOK
<1>7. CallsOK'
  <2>1. CallOK(r)' /\ r \in Call'
    <3>1. CallOK(call[c]) /\ call[c] \in Call' /\ \A v \in Users : RowOf(v, call[c].copy[v])
      BY <1>1, <1>2, OneIssued, CallFacts DEF CallOK
    <3>2. /\ \A v \in Users : \A row : RowOf(v, row) => RowOf(v, row)'
          /\ NewToken \in Tokens' \ old' /\ NewToken \in 0..Len(issued')
      BY <1>1, <1>2, OneIssued
    <3>3. r \in Call' /\ r.copy = call[c].copy /\ r.user = u /\ r.token = NewToken
      BY <3>1, <3>2, <1>u, <1>r DEF Call
    <3>4. QED
      BY <3>1, <3>2, <3>3, <1>1, <1>3 DEF CallOK
  <2>2. call' = [call EXCEPT ![c] = r]
    BY <1>r DEF ExchangeRefreshToken, Inv, CallsOK
  <2>3. \A d \in Callers : call[d] \in Call' /\ (d # c => call'[d] = call[d])
    BY <2>2, <1>1, <1>2, OneIssued DEF Inv, CallsOK
  <2>4. \A d \in Callers : d # c => CallOK(call[d])'
    BY <2>3, <1>1, <1>2, OneIssued DEF Inv, CallsOK
  <2>5. QED
    BY <2>1, <2>2, <2>3, <2>4 DEF Inv, CallsOK
<1>8. QED
  BY <1>4, <1>5, <1>6, <1>7, BoundsKept DEF ExchangeRefreshToken, Inv

-----------------------------------------------------------------------------
(* Google's and the processors' steps, and the restart *)

\* A token that grows old is not one a call has just been issued.
LEMMA ExpireKeeps == ASSUME Inv, NEW t \in Tokens, Expire(t) PROVE Inv'
<1>1. GoogleOK' /\ RowsOK' /\ SignInsOK' /\ ProcessorsOK' /\ BoundsOK'
  BY NothingIssued
  DEF Expire, Inv, GoogleOK, RowsOK, SignInsOK, ProcessorsOK, BoundsOK, memory, bounds, Tokens
<1>2. Call' = Call /\ Tokens' = Tokens /\ call' = call
  BY NothingIssued DEF Expire, memory
<1>3. ASSUME NEW c \in Callers PROVE CallOK(call[c])'
  <2>1. CallOK(call[c]) /\ (call[c].pc = "update" => call[c].token # t)
    BY CallFacts DEF Expire, Doing
  <2>2. \A u \in Users : RowOf(u, call[c].copy[u])'
    BY <1>2, <2>1, NothingIssued DEF Expire, CallOK
  <2>3. QED
    BY <1>2, <2>1, <2>2 DEF CallOK, Expire
<1>4. QED
  BY <1>1, <1>2, <1>3 DEF Inv, CallsOK

LEMMA WithdrawKeeps == ASSUME Inv, NEW u \in Users, Withdraw(u) PROVE Inv'
BY NothingIssued, BoundsAreNaturals
DEF Withdraw, Inv, GoogleOK, RowsOK, SignInsOK, CallsOK, ProcessorsOK, BoundsOK, memory,
    bounds, Tokens

LEMMA ConsentKeeps == ASSUME Inv, NEW s \in SignIns, NEW u \in Users, Consent(s, u) PROVE Inv'
<1>1. PICK g : g = IF grant[u] = 0 THEN consents[u] + 1 ELSE grant[u]
  OBVIOUS
<1>2. g \in 1..MaxConsents
  BY <1>1, BoundsAreNaturals DEF Consent, Inv, GoogleOK
<1>3. PICK r : r = [pc |-> "exchange", user |-> u, grant |-> g,
                    refresh |-> IF grant[u] = 0 THEN g ELSE 0, token |-> 0]
  OBVIOUS
<1>4. SignInOK(r) /\ signin' = [signin EXCEPT ![s] = r]
  <2>1. r \in SignIn
    <3>1. 0 \in 0..Len(issued) /\ 0 \in 0..MaxConsents /\ g \in 0..MaxConsents
      BY <1>2, BoundsAreNaturals DEF Inv, GoogleOK
    <3>2. QED
      BY <1>3, <3>1 DEF SignIn
  <2>2. SignInOK(r)
    BY <1>2, <1>3, <2>1 DEF SignInOK
  <2>3. signin' = [signin EXCEPT ![s] = r]
    BY <1>1, <1>3 DEF Consent
  <2>4. QED
    BY <2>2, <2>3
<1>5. GoogleOK' /\ RowsOK' /\ CallsOK' /\ ProcessorsOK' /\ BoundsOK'
  BY <1>1, <1>2, NothingIssued
  DEF Consent, Inv, GoogleOK, RowsOK, CallsOK, ProcessorsOK, BoundsOK, signInFrame, bounds, Tokens
<1>6. SignInsOK'
  <2>1. \A q \in SignIns : SignInOK(signin'[q])
    BY <1>4 DEF Inv, SignInsOK
  <2>2. \A q \in SignIns : SignInOK(signin[q])'
    BY <2>1, NothingIssued DEF Consent
  <2>3. QED
    BY <1>4, <2>2 DEF Inv, SignInsOK, Consent, SignInOK
<1>7. QED
  BY <1>5, <1>6 DEF Inv

LEMMA SessionExpiresKeeps == ASSUME Inv, NEW s \in SignIns, SessionExpires(s) PROVE Inv'
BY NothingIssued
DEF SessionExpires, Inv, GoogleOK, RowsOK, SignInsOK, CallsOK, ProcessorsOK, BoundsOK,
    google, signInFrame, bounds, Tokens

LEMMA FetchEmailIdsKeeps == ASSUME Inv, NEW u \in Users, FetchEmailIds(u) PROVE Inv'
<1>1. ProcessorsOK'
  BY DEF FetchEmailIds, Inv, ProcessorsOK, google
<1>2. QED
  BY <1>1, NothingIssued
  DEF FetchEmailIds, Inv, GoogleOK, RowsOK, SignInsOK, CallsOK, BoundsOK, google, bounds, Tokens

LEMMA ProcessorStopsKeeps == ASSUME Inv, NEW u \in Users, ProcessorStops(u) PROVE Inv'
<1>1. ProcessorsOK'
  BY DEF ProcessorStops, Inv, GoogleOK, ProcessorsOK, google
<1>2. QED
  BY <1>1, NothingIssued
  DEF ProcessorStops, Inv, GoogleOK, RowsOK, SignInsOK, CallsOK, BoundsOK, google, bounds, Tokens

LEMMA RestartKeeps == ASSUME Inv, Restart PROVE Inv'
<1>1. GoogleOK' /\ RowsOK' /\ BoundsOK'
  BY NothingIssued, BoundsAreNaturals
  DEF Restart, Inv, GoogleOK, RowsOK, BoundsOK, google, Tokens
<1>2. ProcessorsOK'
  BY DEF Restart, Inv, GoogleOK, ProcessorsOK, google
<1>3. CallsOK'
  <2>1. CallOK(NoCall)' /\ NoCall \in Call'
    BY NoCallOK, NothingIssued DEF Inv, Restart, google, CallOK
  <2>2. QED
    BY <2>1 DEF Restart, CallsOK
<1>4. SignInsOK'
  <2>1. PICK done : done = [NoSignIn EXCEPT !.pc = "done"]
    OBVIOUS
  <2>2. \A s \in SignIns : signin'[s] \in {done, signin[s]}
    BY <2>1 DEF Restart
  <2>3. \A s \in SignIns : SignInOK(signin'[s])
    BY <2>1, <2>2, DoneSignIn DEF Inv, SignInsOK
  <2>4. \A s \in SignIns : SignInOK(signin[s])'
    BY <2>3, NothingIssued DEF Restart, google
  <2>5. QED
    BY <2>4 DEF Restart, Inv, SignInsOK, SignInOK
<1>5. QED
  BY <1>1, <1>2, <1>3, <1>4 DEF Inv

-----------------------------------------------------------------------------
(* The theorems *)

LEMMA InitInv == Init => Inv
<1> SUFFICES ASSUME Init PROVE Inv
  OBVIOUS
<1>1. GoogleOK /\ BoundsOK /\ ProcessorsOK /\ 0 \in 0..MaxConsents
  BY BoundsAreNaturals DEF Init, GoogleOK, BoundsOK, ProcessorsOK, Tokens
<1>2. CallsOK
  BY <1>1, NoCallOK DEF Init, CallsOK, CallOK
<1>3. RowsOK
  BY <1>1, NoCallOK DEF Init, RowsOK, RowOf, NoRow
<1>4. SignInsOK
  BY <1>1 DEF Init, SignInsOK, SignInOK, SignIn, NoSignIn, GoogleOK
<1>5. QED
  BY <1>1, <1>2, <1>3, <1>4 DEF Inv

LEMMA NextInv == Inv /\ [Next]_vars => Inv'
<1> SUFFICES ASSUME Inv, [Next]_vars PROVE Inv'
  OBVIOUS
<1>1. CASE UNCHANGED vars
  BY <1>1, NothingIssued
  DEF vars, google, memory, bounds, Inv, GoogleOK, RowsOK, SignInsOK, CallsOK, ProcessorsOK,
      BoundsOK, Tokens
<1>2. ASSUME NEW t \in Tokens, Expire(t) PROVE Inv'
  BY <1>2, ExpireKeeps
<1>3. ASSUME NEW u \in Users, Withdraw(u) \/ FetchEmailIds(u) \/ ProcessorStops(u) PROVE Inv'
  BY <1>3, WithdrawKeeps, FetchEmailIdsKeeps, ProcessorStopsKeeps
<1>4. ASSUME NEW s \in SignIns, SignInStep(s) \/ SessionExpires(s) PROVE Inv'
  BY <1>4, StartSignInKeeps, ExchangeCodeKeeps, CheckSessionKeeps, GetProfileKeeps,
     LookUpUserKeeps, UpsertAccessKeeps, SignInFailsKeeps, SessionExpiresKeeps
  DEF SignInStep
<1>5. ASSUME NEW s \in SignIns, NEW u \in Users, Consent(s, u) PROVE Inv'
  BY <1>5, ConsentKeeps
<1>6. ASSUME NEW c \in Callers, JobStep(c) PROVE Inv'
  BY <1>6, StartJobKeeps, ReadUsersKeeps, VisitUserKeeps, PanicKeeps, UseStoredTokenKeeps,
     ExchangeRefreshTokenKeeps, RefreshRefusedKeeps, UpdateAccessKeeps, CreateProcessorKeeps,
     CallFailsKeeps
  DEF JobStep
<1>7. ASSUME NEW c \in Callers, RequestStep(c) PROVE Inv'
  BY <1>7, StartRequestKeeps, SaysNotConnectedKeeps, ChecksAccessKeeps DEF RequestStep
<1>8. CASE Restart
  BY <1>8, RestartKeeps
<1>9. QED
  BY <1>1, <1>2, <1>3, <1>4, <1>5, <1>6, <1>7, <1>8 DEF Next

\* Rows, sign-ins and calls keep their types, for any users, sign-ins and calls.
THEOREM AccessTyping == Spec => []TypeOK
<1>1. Spec => []Inv
  BY InitInv, NextInv, PTL DEF Spec
<1>2. QED
  BY <1>1, InvImpliesTypeOK, PTL

\* Only a job gives a user a processor, with the token it has in hand.
LEMMA StepStartsWithAccess ==
    ASSUME Inv, Next, NEW u \in Users, status[u] # "running", status'[u] = "running"
    PROVE  client'[u] \in Tokens /\ issued[client'[u]].user = u
<1>1. PICK c \in Callers : CreateProcessor(c)
  <2>1. \A v \in Users :
           /\ Withdraw(v) \/ FetchEmailIds(v) => UNCHANGED status
           /\ ProcessorStops(v) => status' = [status EXCEPT ![v] = "stopped"]
           /\ \A c \in Callers : VisitUser(c, v) => UNCHANGED status
           /\ \A c \in Callers, kind \in {"check", "refresh"} :
                 StartRequest(c, v, kind) => UNCHANGED status
    BY DEF Withdraw, FetchEmailIds, ProcessorStops, VisitUser, StartRequest, memory, processors
  <2>2. \A s \in SignIns :
           /\ SignInStep(s) \/ SessionExpires(s) => UNCHANGED status
           /\ \A v \in Users : Consent(s, v) => UNCHANGED status
    BY DEF SignInStep, StartSignIn, ExchangeCode, CheckSession, GetProfile, LookUpUser,
           UpsertAccess, SignInFails, SessionExpires, Consent, signInFrame
  <2>3. \A t \in Tokens : Expire(t) => UNCHANGED status
    BY DEF Expire, memory
  <2>4. \A c \in Callers :
           StartJob(c) \/ ReadUsers(c) \/ Panic(c) \/ UseStoredToken(c) \/ ExchangeRefreshToken(c)
             \/ RefreshRefused(c)
             \/ UpdateAccess(c) \/ CallFails(c) \/ SaysNotConnected(c) \/ ChecksAccess(c)
           => UNCHANGED status
    BY DEF StartJob, ReadUsers, Panic, UseStoredToken, ExchangeRefreshToken, RefreshRefused,
           UpdateAccess, CallFails, SaysNotConnected, ChecksAccess, processors
  <2>5. ~Restart
    BY DEF Restart
  <2>6. \A v \in Users : ~ProcessorStops(v)
    BY <2>1 DEF Inv, ProcessorsOK
  <2>7. QED
    BY <2>1, <2>2, <2>3, <2>4, <2>5, <2>6 DEF Next, JobStep, RequestStep
<1>2. call[c].pc = "client" /\ CallOK(call[c])
  BY <1>1, CallFacts DEF CreateProcessor, Doing
<1>3. u = call[c].user /\ client'[u] = call[c].token
  BY <1>1, <1>2 DEF CreateProcessor, Inv, ProcessorsOK
<1>4. QED
  BY <1>2, <1>3 DEF CallOK

\* The call that is moved is the only one that changes.
LEMMA OthersStay ==
    ASSUME NEW c \in Callers, NEW d \in Callers, CallsOK, NEW r, call' = [call EXCEPT ![d] = r],
           c # d
    PROVE  call'[c] = call[c]
BY DEF CallsOK

\* A call that leaves a user is no longer about a token.
LEMMA LeavePC ==
    ASSUME Inv, NEW c \in Callers, Leave(c)
    PROVE  call'[c].pc \in {"idle", "next"}
<1>1. PICK todo : todo = call[c].todo \ {call[c].user}
  OBVIOUS
<1>2. PICK next : next = [call[c] EXCEPT !.pc = "next", !.todo = todo, !.user = None, !.token = 0]
  OBVIOUS
<1>3. next.pc = "next" /\ NoCall.pc = "idle"
  BY <1>2, CallFacts DEF NoCall, Call
<1>4. call' = [call EXCEPT ![c] = IF todo = {} THEN NoCall ELSE next]
  BY <1>1, <1>2 DEF Leave, Inv, CallsOK
<1>5. QED
  BY <1>3, <1>4 DEF Inv, CallsOK

\* A call takes its token from the row it has read, when this row is not expired, or
\* from Google.
LEMMA StepTakesAccess ==
    ASSUME Inv, Next, NEW c \in Callers,
           call[c].pc \notin {"client", "scopes"}, call'[c].pc \in {"client", "scopes"}
    PROVE  call'[c].token \in Tokens \ old
<1>1. UseStoredToken(c) \/ UpdateAccess(c)
  <2>1. \A v \in Users : Withdraw(v) \/ FetchEmailIds(v) \/ ProcessorStops(v) => UNCHANGED call
    BY DEF Withdraw, FetchEmailIds, ProcessorStops, memory
  <2>2. \A s \in SignIns :
           /\ SignInStep(s) \/ SessionExpires(s) => UNCHANGED call
           /\ \A v \in Users : Consent(s, v) => UNCHANGED call
    BY DEF SignInStep, StartSignIn, ExchangeCode, CheckSession, GetProfile, LookUpUser,
           UpsertAccess, SignInFails, SessionExpires, Consent, signInFrame
  <2>3. \A t \in Tokens : Expire(t) => UNCHANGED call
    BY DEF Expire, memory
  <2>4. ~Restart
    BY DEF Restart, NoCall
  <2>5. call'[c] # call[c]
    OBVIOUS
  <2>6. PICK d \in Callers : JobStep(d) \/ RequestStep(d)
    BY <2>1, <2>2, <2>3, <2>4, <2>5 DEF Next
  <2>7. \E r : call' = [call EXCEPT ![d] = r]
    BY <2>6
    DEF JobStep, RequestStep, StartJob, ReadUsers, VisitUser, Panic, UseStoredToken, Continue,
        ExchangeRefreshToken, RefreshRefused, UpdateAccess, CreateProcessor, CallFails, Leave,
        StartRequest, SaysNotConnected, ChecksAccess
  <2>8. c = d
    BY <2>5, <2>7, OthersStay DEF Inv
  <2>9. call[c] \in Call /\ NoCall.pc = "idle" /\ call \in [Callers -> Call]
    BY CallFacts DEF NoCall, Inv, CallsOK
  <2>10. ~Leave(c)
    BY LeavePC
  <2>11. ~StartJob(c) /\ ~ReadUsers(c) /\ ~Panic(c) /\ ~ExchangeRefreshToken(c)
    <3>1. /\ StartJob(c) => call'[c].pc = "query"
          /\ ExchangeRefreshToken(c) => call'[c].pc = "update"
          /\ Panic(c) => call'[c].pc = "idle"
      BY <2>9 DEF StartJob, ExchangeRefreshToken, Panic, Call
    <3>2. ReadUsers(c) => call'[c].pc \in {"idle", "next"}
      <4>1. PICK connected : connected = {u \in Users : HasRow(u)}
        OBVIOUS
      <4>2. PICK r : r = [call[c] EXCEPT !.pc = "next", !.todo = connected, !.copy = account]
        OBVIOUS
      <4>3. r.pc = "next"
        BY <2>9, <4>2 DEF Call
      <4>4. ReadUsers(c) => \/ call' = [call EXCEPT ![c] = r]
                            \/ call' = [call EXCEPT ![c] = NoCall]
        BY <2>9, <4>1, <4>2 DEF ReadUsers
      <4>5. QED
        BY <2>9, <4>3, <4>4
    <3>3. QED
      BY <3>1, <3>2
  <2>12. /\ ~RefreshRefused(c) /\ ~CreateProcessor(c) /\ ~CallFails(c)
         /\ ~SaysNotConnected(c) /\ ~ChecksAccess(c)
    BY <2>9, <2>10 DEF RefreshRefused, CreateProcessor, CallFails, SaysNotConnected, ChecksAccess
  <2>13. \A u \in Users : ~VisitUser(c, u)
    BY <2>9 DEF VisitUser, Call, Doing
  <2>14. \A u \in Users, kind \in {"check", "refresh"} : ~StartRequest(c, u, kind)
    <3>1. ASSUME NEW u \in Users, NEW kind \in {"check", "refresh"}, StartRequest(c, u, kind)
          PROVE  FALSE
      <4>1. PICK copy : copy = [NoCall.copy EXCEPT ![u] = account[u]]
        OBVIOUS
      <4>2. PICK r : r = [NoCall EXCEPT !.pc = "token", !.kind = kind, !.user = u, !.copy = copy]
        OBVIOUS
      <4>3. r.pc = "token"
        BY <4>2 DEF NoCall
      <4>4. call' = [call EXCEPT ![c] = r]
        BY <3>1, <4>1, <4>2 DEF StartRequest
      <4>5. QED
        BY <2>9, <4>3, <4>4
    <3>2. QED
      BY <3>1
  <2>15. QED
    BY <2>6, <2>8, <2>11, <2>12, <2>13, <2>14 DEF JobStep, RequestStep
<1>2. \A t : Continue(c, t) => call'[c].token = t
  <2>1. call[c] \in Call /\ NoCall.pc = "idle" /\ call \in [Callers -> Call]
    BY CallFacts DEF NoCall, Inv, CallsOK
  <2>2. ~Leave(c)
    BY LeavePC
  <2>3. QED
    BY <2>1, <2>2 DEF Continue, Call
<1>3. CASE UseStoredToken(c)
  <2>1. call'[c].token = Copy(c).access_token /\ RowOf(call[c].user, Copy(c))
    BY <1>2, <1>3, CallFacts DEF UseStoredToken, Doing, CallOK, Copy
  <2>2. QED
    BY <1>3, <2>1 DEF UseStoredToken, RowOf, Row, IsExpired, Tokens, Inv, GoogleOK
<1>4. CASE UpdateAccess(c)
  BY <1>2, <1>4, CallFacts DEF UpdateAccess, Doing, CallOK
<1>5. QED
  BY <1>1, <1>3, <1>4

\* A call takes a token that has not expired, and a processor starts with one of its
\* user.
THEOREM ProcessorsStartWithAccess == Spec => StartsWithAccess
<1>1. Inv /\ [Next]_vars =>
        [/\ \A c \in Callers :
              (call[c].pc \notin {"client", "scopes"} /\ call'[c].pc \in {"client", "scopes"}) =>
                 call'[c].token \in Tokens \ old
         /\ \A u \in Users : (status[u] # "running" /\ status'[u] = "running") =>
              /\ client'[u] \in Tokens
              /\ issued[client'[u]].user = u]_vars
  <2> SUFFICES ASSUME Inv, Next
               PROVE  /\ \A c \in Callers :
                           (/\ call[c].pc \notin {"client", "scopes"}
                            /\ call'[c].pc \in {"client", "scopes"}) =>
                              call'[c].token \in Tokens \ old
                      /\ \A u \in Users : (status[u] # "running" /\ status'[u] = "running") =>
                           client'[u] \in Tokens /\ issued[client'[u]].user = u
    OBVIOUS
  <2> QED
    BY StepStartsWithAccess, StepTakesAccess
<1>2. QED
  BY <1>1, InitInv, NextInv, PTL DEF Spec, StartsWithAccess

\* The step of a row that has a refresh token leaves it one.
LEMMA StepKeepsRefreshToken ==
    ASSUME Inv, [Next]_vars, NEW u \in Users, account[u].refresh_token # 0
    PROVE  account'[u].refresh_token # 0
<1>1. CASE UNCHANGED account
  BY <1>1
<1>2. ASSUME NEW s \in SignIns, UpsertAccess(s) PROVE account'[u].refresh_token # 0
  <2>1. CASE u = signin[s].user
    <3>1. account'[u].refresh_token = IF signin[s].refresh # 0 THEN signin[s].refresh
                                                               ELSE account[u].refresh_token
      BY <1>2, <2>1 DEF UpsertAccess, Inv, RowsOK, Row
    <3>2. QED
      BY <3>1
  <2>2. CASE u # signin[s].user
    BY <1>2, <2>2 DEF UpsertAccess, Inv, RowsOK
  <2>3. QED
    BY <2>1, <2>2
<1>3. ASSUME NEW c \in Callers, UpdateAccess(c) PROVE account'[u].refresh_token # 0
  BY <1>3 DEF UpdateAccess, Inv, RowsOK, Row
<1>4. QED
  <2>1. \A v \in Users :
           /\ Withdraw(v) \/ FetchEmailIds(v) \/ ProcessorStops(v) => UNCHANGED account
           /\ \A c \in Callers : VisitUser(c, v) => UNCHANGED account
           /\ \A c \in Callers, kind \in {"check", "refresh"} :
                 StartRequest(c, v, kind) => UNCHANGED account
    BY DEF Withdraw, FetchEmailIds, ProcessorStops, VisitUser, StartRequest
  <2>2. \A s \in SignIns :
           /\ StartSignIn(s) \/ ExchangeCode(s) \/ CheckSession(s) \/ GetProfile(s) \/ LookUpUser(s)
                \/ SignInFails(s) \/ SessionExpires(s)
              => UNCHANGED account
           /\ \A v \in Users : Consent(s, v) => UNCHANGED account
    BY DEF StartSignIn, ExchangeCode, CheckSession, GetProfile, LookUpUser, SignInFails,
           SessionExpires, Consent
  <2>3. \A t \in Tokens : Expire(t) => UNCHANGED account
    BY DEF Expire
  <2>4. \A c \in Callers :
           StartJob(c) \/ ReadUsers(c) \/ Panic(c) \/ UseStoredToken(c) \/ ExchangeRefreshToken(c)
             \/ RefreshRefused(c)
             \/ CreateProcessor(c) \/ CallFails(c) \/ SaysNotConnected(c) \/ ChecksAccess(c)
           => UNCHANGED account
    BY DEF StartJob, ReadUsers, Panic, UseStoredToken, ExchangeRefreshToken, RefreshRefused,
           CreateProcessor, CallFails, SaysNotConnected, ChecksAccess
  <2>5. (Restart \/ UNCHANGED vars) => UNCHANGED account
    BY DEF Restart, vars
  <2>6. QED
    BY <1>1, <1>2, <1>3, <2>1, <2>2, <2>3, <2>4, <2>5 DEF Next, JobStep, RequestStep, SignInStep

\* A stored refresh token is not lost, whoever writes to the row.
THEOREM RefreshTokensKept == Spec => RefreshTokenKept
<1>1. Inv /\ [Next]_vars =>
        [\A u \in Users : account[u].refresh_token # 0 => account'[u].refresh_token # 0]_vars
  BY StepKeepsRefreshToken
<1>2. QED
  BY <1>1, InitInv, NextInv, PTL DEF Spec, RefreshTokenKept
=============================================================================
