--------------------------- MODULE AccountProofs ---------------------------
(***************************************************************************)
(* What Account guarantees for every number of users, tabs, requests,      *)
(* workers, commands and faults.                                           *)
(*                                                                         *)
(* A behaviour follows one part, and each part has an inductive invariant  *)
(* of its own that the steps of the others leave alone:                    *)
(*   SessionInv  a login that nobody crossed has at most one live token,   *)
(*               and a new token is nobody's until it arrives;             *)
(*   ProfileInv  edits are numbered: whatever carries the newest number    *)
(*               agrees with the row; an avatar has one owner;             *)
(*   VideoInv    turns are numbered likewise, and the task of the upload   *)
(*               queue waits for one request at most;                      *)
(*   FollowInv   changes of the sets are numbered: the newest switch of a  *)
(*               user that is carried says what the user wishes, and a     *)
(*               size that was read since the last change is the set's.    *)
(***************************************************************************)
EXTENDS Account, FiniteSetTheorems, TLAPS

-----------------------------------------------------------------------------
(* The sessions: the invariant *)

\* What a tab waits for.
CallOk ==
    call \in [Tab -> {S!Idle}
                     \union [pc : {"get", "rotate"}, token : 1 .. S!Issued]
                     \union [pc : {"answer"}, token : 0 .. S!Issued, new : 1 .. S!Issued]
                     \union [pc : {"revoke"}, token : 1 .. S!Issued, login : 1 .. S!Issued]
                     \union [pc : {"clear"}, token : 0 .. S!Issued]]

\* A token descends from a login that is no later.
LineInv == \A n \in 1 .. S!Issued : line[n] \in 1 .. n

\* A login has one live token; once its token lapsed, or it was ended, it has
\* none; unless it is crossed, or was ended with a token that is not its own.
OneLive ==
    /\ \A n, m \in live : line[n] = line[m] /\ line[n] \notin crossed => n = m
    /\ \A n \in lapsed, m \in live : line[n] = line[m] => line[n] \in crossed
    /\ \A n \in live : line[n] \in ended => line[n] \in crossed \union astray

\* Nobody but the tab it is sent to knows a token before it arrives.
FreshInv ==
    \A t \in Tab : call[t].pc = "answer" =>
        /\ call[t].new \in live \union lapsed
        /\ call[t].new # stored
        /\ \A x \in Tab :
              /\ held[x] # call[t].new
              /\ call[x].pc # "idle" => call[x].token # call[t].new
              /\ call[x].pc = "answer" /\ call[x].new = call[t].new => x = t

SessionInv == S!TypeOK /\ CallOk /\ LineInv /\ OneLive /\ FreshInv /\ S!StoredIsLive

-----------------------------------------------------------------------------
(* The sessions: the steps *)

\* One token more.
LEMMA OneMoreToken ==
    ASSUME S!TypeOK, NEW e \in S!Token, S!Issued < MaxToken, line' = Append(line, e)
    PROVE  /\ line' \in Seq(S!Token) /\ S!Issued \in Nat /\ S!Issued' = S!Issued + 1
           /\ S!Issued + 1 \in S!Token
           /\ \A n \in 1 .. S!Issued : line'[n] = line[n]
           /\ line'[S!Issued + 1] = e
  BY PartsBoundAssumption DEF S!TypeOK, S!Issued, S!Token

LEMMA SameTokens ==
    ASSUME S!TypeOK, line' = line
    PROVE  S!Issued' = S!Issued /\ S!Issued \in Nat
  BY DEF S!TypeOK, S!Issued

LEMMA SessionInit == S!Init => SessionInv
<1> SUFFICES ASSUME S!Init PROVE SessionInv
  OBVIOUS
<1>1. line = <<>> /\ S!Issued = 0 /\ line \in Seq(S!Token)
  BY DEF S!Init, S!Issued
<1>2. S!TypeOK /\ CallOk
  BY <1>1, PartsBoundAssumption DEF S!Init, S!TypeOK, CallOk, S!Idle, S!None
<1>3. LineInv /\ OneLive /\ FreshInv /\ S!StoredIsLive
  BY <1>1 DEF S!Init, LineInv, OneLive, FreshInv, S!StoredIsLive, S!Idle, S!None
<1>4. QED
  BY <1>2, <1>3 DEF SessionInv

\* What the call of a tab carries.
LEMMA CallFields ==
    ASSUME CallOk, NEW t \in Tab
    PROVE  /\ call[t].pc \in {"idle", "get", "rotate", "answer", "revoke", "clear"}
           /\ call[t].pc = "idle" => call[t] = S!Idle
           /\ call[t].pc \in {"get", "rotate"} => call[t] \in [pc : {"get", "rotate"}, token : 1 .. S!Issued]
           /\ call[t].pc = "answer" => call[t] \in [pc : {"answer"}, token : 0 .. S!Issued, new : 1 .. S!Issued]
           /\ call[t].pc = "revoke" => call[t] \in [pc : {"revoke"}, token : 1 .. S!Issued, login : 1 .. S!Issued]
           /\ call[t].pc = "clear" => call[t] \in [pc : {"clear"}, token : 0 .. S!Issued]
  BY DEF CallOk, S!Idle

\* The part of the type invariant that is not about calls.
Tokens ==
    /\ line \in Seq(S!Token) /\ S!Issued <= MaxToken
    /\ live \subseteq 1 .. S!Issued /\ lapsed \subseteq 1 .. S!Issued
    /\ stored \in 0 .. S!Issued /\ held \in [Tab -> 0 .. S!Issued]
    /\ ended \union crossed \union astray \subseteq 1 .. S!Issued

LEMMA SessionTypeNext ==
    ASSUME SessionInv, S!Next
    PROVE  S!TypeOK' /\ CallOk' /\ LineInv'
<1> USE DEF SessionInv
<1>1. ASSUME NEW t \in Tab, S!Login(t)  PROVE Tokens' /\ CallOk' /\ LineInv'
  <2>1. S!Issued + 1 \in S!Token /\ S!Issued < MaxToken /\ S!Issued \in Nat
    BY <1>1, PartsBoundAssumption DEF S!Login, S!TypeOK, S!Token, S!Issued
  <2>2. /\ line' \in Seq(S!Token) /\ S!Issued' = S!Issued + 1
        /\ \A n \in 1 .. S!Issued : line'[n] = line[n]
        /\ line'[S!Issued + 1] = S!Issued + 1
    BY <1>1, <2>1, OneMoreToken DEF S!Login
  <2>3. CallOk'
    BY <1>1, <2>1, <2>2 DEF S!Login, S!Goes, CallOk, S!None
  <2>4. LineInv'
    BY <2>1, <2>2 DEF LineInv
  <2>5. Tokens'
    <3>1. live' = live \union {S!Issued + 1} /\ UNCHANGED <<stored, held, lapsed, ended, crossed, astray>>
      BY <1>1 DEF S!Login, S!History
    <3>2. S!Issued' <= MaxToken
      BY <2>1, <2>2, PartsBoundAssumption
    <3>3. QED
      BY <2>1, <2>2, <3>1, <3>2 DEF S!TypeOK, Tokens
  <2>6. QED
    BY <2>3, <2>4, <2>5
<1>2. ASSUME NEW t \in Tab, S!Rotate(t)  PROVE Tokens' /\ CallOk' /\ LineInv'
  <2>1. PICK old \in 1 .. S!Issued : old = call[t].token
    BY <1>2, CallFields DEF S!Rotate
  <2>2. PICK e \in S!Token : e = line[old] /\ e <= old
    BY <2>1, PartsBoundAssumption DEF S!TypeOK, S!Token, S!Issued, LineInv
  <2>3. S!Issued < MaxToken /\ line' = Append(line, e)
    BY <1>2, <2>1, <2>2 DEF S!Rotate
  <2>4. /\ line' \in Seq(S!Token) /\ S!Issued' = S!Issued + 1 /\ S!Issued \in Nat
        /\ \A n \in 1 .. S!Issued : line'[n] = line[n]
        /\ line'[S!Issued + 1] = e
    BY <2>3, OneMoreToken
  <2>5. CallOk'
    BY <1>2, <2>1, <2>4 DEF S!Rotate, S!Goes, CallOk
  <2>6. LineInv'
    BY <2>2, <2>4 DEF LineInv, S!Token
  <2>7. Tokens'
    <3>1. live' = (live \ {old}) \union {S!Issued + 1} /\ crossed' \in {crossed, crossed \union {e}}
      BY <1>2, <2>1, <2>2 DEF S!Rotate, S!Replaced
    <3>2. S!Issued' <= MaxToken
      BY <2>3, <2>4, PartsBoundAssumption
    <3>3. e \in 1 .. S!Issued
      BY <2>1, <2>2, <2>4 DEF S!Token
    <3>4. /\ live' \subseteq 1 .. S!Issued' /\ crossed' \subseteq 1 .. S!Issued'
          /\ ended \union astray \subseteq 1 .. S!Issued'
      BY <2>4, <3>1, <3>3 DEF S!TypeOK
    <3>5. QED
      BY <1>2, <2>4, <3>2, <3>4 DEF S!Rotate, S!TypeOK, Tokens
  <2>8. QED
    BY <2>5, <2>6, <2>7
<1>3. ASSUME NEW t \in Tab, S!GetSession(t) \/ S!Refresh(t) \/ S!Logout(t) \/ S!CallFails(t)
      PROVE  Tokens' /\ CallOk' /\ LineInv'
  <2>1. S!Issued' = S!Issued /\ S!Issued \in Nat /\ LineInv'
    BY <1>3, SameTokens DEF S!GetSession, S!Refresh, S!Logout, S!CallFails, LineInv
  <2>2. CallOk'
    <3>1. CASE S!GetSession(t)
      BY <3>1, <2>1, CallFields DEF S!GetSession, S!Goes, CallOk
    <3>2. CASE S!Refresh(t)
      BY <3>2, <2>1, CallFields DEF S!Refresh, S!Goes, CallOk, S!None, S!TypeOK
    <3>3. CASE S!Logout(t)
      BY <3>3, <2>1, CallFields DEF S!Logout, S!Goes, CallOk, S!None, S!TypeOK, LineInv
    <3>4. CASE S!CallFails(t)
      BY <3>4, <2>1, CallFields DEF S!CallFails, S!Goes, CallOk, S!None
    <3>5. QED
      BY <1>3, <3>1, <3>2, <3>3, <3>4
  <2>3. Tokens'
    BY <1>3, <2>1 DEF S!GetSession, S!Refresh, S!Logout, S!CallFails, S!TypeOK, Tokens, S!History
  <2>4. QED
    BY <2>1, <2>2, <2>3
<1>4. ASSUME NEW t \in Tab, S!Revoke(t) \/ S!Accept(t) \/ S!Clear(t) \/ S!Load(t)
      PROVE  Tokens' /\ CallOk' /\ LineInv'
  <2>1. S!Issued' = S!Issued /\ S!Issued \in Nat /\ LineInv'
    BY <1>4, SameTokens DEF S!Revoke, S!Accept, S!Clear, S!Load, LineInv
  <2>2. CallOk'
    BY <1>4, <2>1, CallFields DEF S!Revoke, S!Accept, S!Clear, S!Load, S!Goes, CallOk
  <2>3. Tokens'
    <3>1. CASE S!Revoke(t)
      BY <3>1, <2>1, CallFields DEF S!Revoke, S!TypeOK, Tokens
    <3>2. CASE S!Accept(t) \/ S!Clear(t)
      <4>1. PICK n \in 0 .. S!Issued : stored' = n /\ held' = [held EXCEPT ![t] = n]
        BY <3>2, <2>1, CallFields DEF S!Accept, S!Clear, S!SetAuth, S!ClearAuth, S!None
      <4>2. QED
        BY <3>2, <2>1, <4>1 DEF S!Accept, S!Clear, S!TypeOK, Tokens, S!History
    <3>3. CASE S!Load(t)
      BY <3>3, <2>1 DEF S!Load, S!TypeOK, Tokens
    <3>4. QED
      BY <1>4, <3>1, <3>2, <3>3
  <2>4. QED
    BY <2>1, <2>2, <2>3
<1>5. ASSUME NEW n \in S!Token, S!Expire(n)  PROVE Tokens' /\ CallOk' /\ LineInv'
  BY <1>5 DEF S!Expire, S!TypeOK, Tokens, CallOk, LineInv, S!Issued
<1>6. Tokens' /\ CallOk' /\ LineInv'
  BY <1>1, <1>2, <1>3, <1>4, <1>5 DEF S!Next
<1>7. \A t \in Tab : call'[t].pc \in {"idle", "get", "rotate", "answer", "revoke", "clear"}
  BY <1>6 DEF CallOk, S!Idle
<1>8. QED
  BY <1>6, <1>7 DEF Tokens, S!TypeOK

\* A login is good for one token.
LEMMA OneLiveNext == SessionInv /\ S!Next => OneLive'
<1> SUFFICES ASSUME SessionInv, S!Next PROVE OneLive'
  OBVIOUS
<1> USE DEF SessionInv
<1>1. ASSUME NEW t \in Tab, S!Login(t)  PROVE OneLive'
  <2>1. S!Issued + 1 \in S!Token /\ S!Issued < MaxToken /\ S!Issued \in Nat
    BY <1>1, PartsBoundAssumption DEF S!Login, S!TypeOK, S!Token, S!Issued
  <2>2. /\ \A n \in 1 .. S!Issued : line'[n] = line[n]
        /\ line'[S!Issued + 1] = S!Issued + 1
    BY <1>1, <2>1, OneMoreToken DEF S!Login
  <2>3. \A n \in 1 .. S!Issued : line'[n] # S!Issued + 1
    BY <2>1, <2>2 DEF LineInv
  <2>4. live' = live \union {S!Issued + 1} /\ UNCHANGED <<lapsed, crossed, ended, astray>>
    BY <1>1 DEF S!Login, S!History
  <2>5. live \subseteq 1 .. S!Issued /\ lapsed \subseteq 1 .. S!Issued /\ S!Issued + 1 \notin ended
    BY <2>1 DEF S!TypeOK
  <2>6. QED
    BY <2>2, <2>3, <2>4, <2>5 DEF OneLive
<1>2. ASSUME NEW t \in Tab, S!Rotate(t)  PROVE OneLive'
  <2>1. PICK old \in 1 .. S!Issued : old = call[t].token
    BY <1>2, CallFields DEF S!Rotate
  <2>2. PICK e \in S!Token : e = line[old]
    BY <2>1, PartsBoundAssumption DEF S!TypeOK, S!Token, S!Issued, LineInv
  <2>3. S!Issued < MaxToken /\ line' = Append(line, e)
    BY <1>2, <2>1, <2>2 DEF S!Rotate
  <2>4. /\ S!Issued \in Nat /\ \A n \in 1 .. S!Issued : line'[n] = line[n]
        /\ line'[S!Issued + 1] = e
    BY <2>3, OneMoreToken
  <2>5. /\ live' = (live \ {old}) \union {S!Issued + 1} /\ UNCHANGED <<lapsed, ended, astray>>
        /\ crossed' = IF old \in live THEN crossed ELSE crossed \union {e}
    BY <1>2, <2>1, <2>2 DEF S!Rotate, S!Replaced
  <2>6. live \subseteq 1 .. S!Issued /\ lapsed \subseteq 1 .. S!Issued
    BY DEF S!TypeOK
  <2>7. CASE old \in live
    BY <2>1, <2>2, <2>4, <2>5, <2>6, <2>7 DEF OneLive
  <2>8. CASE old \notin live
    BY <2>1, <2>2, <2>4, <2>5, <2>6, <2>8 DEF OneLive
  <2>9. QED
    BY <2>7, <2>8
<1>3. ASSUME NEW t \in Tab, S!Revoke(t)  PROVE OneLive'
  <2> DEFINE token == call[t].token
             login == call[t].login
  <2>1. /\ live' = live \ {token} /\ ended' = ended \union {login} /\ UNCHANGED <<line, lapsed, crossed>>
        /\ astray' = IF token \in live \union lapsed /\ line[token] = login
                     THEN astray ELSE astray \union {login}
    BY <1>3 DEF S!Revoke
  <2> HIDE DEF token, login
  <2>2. CASE token \in live \union lapsed /\ line[token] = login
    BY <2>1, <2>2 DEF OneLive
  <2>3. CASE ~(token \in live \union lapsed /\ line[token] = login)
    BY <2>1, <2>3 DEF OneLive
  <2>4. QED
    BY <2>2, <2>3
<1>4. ASSUME NEW n \in S!Token, S!Expire(n)  PROVE OneLive'
  BY <1>4 DEF S!Expire, OneLive
<1>5. ASSUME UNCHANGED <<line, live, lapsed, ended, crossed, astray>>  PROVE OneLive'
  BY <1>5 DEF OneLive
<1>6. QED
  BY <1>1, <1>2, <1>3, <1>4, <1>5
     DEF S!Next, S!GetSession, S!Refresh, S!Logout, S!Accept, S!Clear, S!CallFails, S!Load, S!History

\* A token that is not yet answered, and the calls of the others.
LEMMA FreshNext == SessionInv /\ S!Next => FreshInv'
<1> SUFFICES ASSUME SessionInv, S!Next PROVE FreshInv'
  OBVIOUS
<1> USE DEF SessionInv
<1>0. /\ S!Issued \in Nat /\ stored \in 0 .. S!Issued /\ \A x \in Tab : held[x] \in 0 .. S!Issued
      /\ live \union lapsed \subseteq 1 .. S!Issued
  BY DEF S!TypeOK, S!Issued
<1>a. PICK new \in Nat : new = S!Issued + 1
  BY <1>0
<1>c. DOMAIN call = Tab /\ DOMAIN held = Tab
  BY DEF CallOk, S!TypeOK
<1>k. \A x \in Tab : call[x].pc # "idle" => call[x].token \in 0 .. S!Issued
  BY CallFields
<1>n. \A x \in Tab : call[x].pc = "answer" => call[x].new \in 1 .. S!Issued
  BY CallFields
\* The token is new to everybody.
<1>1. ASSUME NEW t \in Tab, NEW k \in 0 .. S!Issued,
             S!Goes(t, [pc |-> "answer", token |-> k, new |-> new]),
             UNCHANGED <<stored, held, lapsed>>,
             k = 0 \/ (call[t].pc # "idle" /\ k = call[t].token),
             new \in live', \A x \in Tab : call[x].pc = "answer" => call[x].new \in live' \union lapsed
      PROVE  FreshInv'
  <2>1. call' = [call EXCEPT ![t] = [pc |-> "answer", token |-> k, new |-> new]]
    BY <1>1 DEF S!Goes
  <2>2. /\ call'[t].pc = "answer" /\ call'[t].token = k /\ call'[t].new = new
        /\ \A x \in Tab : x # t => call'[x] = call[x]
    BY <1>c, <2>1
  <2>3. new # stored /\ new # k /\ \A x \in Tab : held[x] # new
    BY <1>0, <1>1, <1>a
  <2>4. \A x \in Tab : /\ call[x].pc # "idle" => call[x].token # new
                       /\ call[x].pc = "answer" => call[x].new # new
    BY <1>0, <1>a, <1>k, <1>n
  <2>5. ASSUME NEW a \in Tab, call[a].pc = "answer", a # t
        PROVE  /\ call[a].new \in live' \union lapsed' /\ call[a].new # stored'
               /\ call[a].new # k /\ \A x \in Tab : held'[x] # call[a].new
    BY <1>0, <1>1, <1>n, <2>5 DEF FreshInv
  <2>6. ASSUME NEW a \in Tab, call'[a].pc = "answer", a # t
        PROVE  /\ call'[a].new \in live' \union lapsed' /\ call'[a].new # stored'
               /\ \A x \in Tab :
                     /\ held'[x] # call'[a].new
                     /\ call'[x].pc # "idle" => call'[x].token # call'[a].new
                     /\ call'[x].pc = "answer" /\ call'[x].new = call'[a].new => x = a
    BY <2>2, <2>4, <2>5, <2>6 DEF FreshInv
  <2>7. /\ call'[t].new \in live' \union lapsed' /\ call'[t].new # stored'
        /\ \A x \in Tab :
              /\ held'[x] # call'[t].new
              /\ call'[x].pc # "idle" => call'[x].token # call'[t].new
              /\ call'[x].pc = "answer" /\ call'[x].new = call'[t].new => x = t
    <3>1. call'[t].new \in live' \union lapsed' /\ call'[t].new # stored'
      BY <1>1, <2>2, <2>3
    <3>2. ASSUME NEW x \in Tab
          PROVE  /\ held'[x] # new
                 /\ call'[x].pc # "idle" => call'[x].token # new
                 /\ call'[x].pc = "answer" /\ call'[x].new = new => x = t
      BY <1>1, <2>2, <2>3, <2>4, <3>2
    <3>3. QED
      BY <2>2, <3>1, <3>2
  <2>8. QED
    BY <2>6, <2>7 DEF FreshInv
<1>2. ASSUME NEW t \in Tab, S!Login(t)  PROVE FreshInv'
  <2>1. /\ S!Goes(t, [pc |-> "answer", token |-> 0, new |-> new])
        /\ UNCHANGED <<stored, held, lapsed>> /\ live' = live \union {new}
    BY <1>2, <1>a DEF S!Login, S!None, S!History
  <2>2. 0 \in 0 .. S!Issued
    BY <1>0
  <2>3. \A x \in Tab : call[x].pc = "answer" => call[x].new \in live' \union lapsed
    BY <2>1 DEF FreshInv
  <2>4. QED
    BY <1>1, <2>1, <2>2, <2>3
<1>3. ASSUME NEW t \in Tab, S!Rotate(t)  PROVE FreshInv'
  <2>1. PICK old \in 1 .. S!Issued : old = call[t].token
    BY <1>3, CallFields DEF S!Rotate
  <2>2. /\ S!Goes(t, [pc |-> "answer", token |-> old, new |-> new])
        /\ UNCHANGED <<stored, held, lapsed>> /\ live' = (live \ {old}) \union {new}
    BY <1>3, <1>a, <2>1 DEF S!Rotate, S!Replaced
  <2>3. \A x \in Tab : call[x].pc = "answer" => call[x].new \in live' \union lapsed
    BY <1>3, <2>1, <2>2 DEF FreshInv, S!Rotate
  <2>4. old \in 0 .. S!Issued /\ call[t].pc # "idle" /\ old = call[t].token
    BY <1>3, <2>1 DEF S!Rotate
  <2>5. QED
    BY <1>1, <2>2, <2>3, <2>4
\* A tab that uses a token it knows, or none.
<1>4. ASSUME NEW t \in Tab, NEW next, S!Goes(t, next), UNCHANGED <<stored, held, lapsed>>,
             next.pc # "answer",
             next.pc # "idle" => \/ next.token \in {0, stored, held[t]}
                                 \/ call[t].pc # "idle" /\ next.token = call[t].token,
             \A n \in live : n \in live' \/ (call[t].pc = "revoke" /\ n = call[t].token)
      PROVE  FreshInv'
  <2>1. call' = [call EXCEPT ![t] = next]
    BY <1>4 DEF S!Goes
  <2>2. ASSUME NEW a \in Tab, call[a].pc = "answer", a # t
        PROVE  /\ call[a].new \in live' \union lapsed'
               /\ call[a].new # stored' /\ \A x \in Tab : held'[x] # call[a].new
               /\ next.pc # "idle" => next.token # call[a].new
    BY <1>4, <1>n, <2>2 DEF FreshInv
  <2>3. QED
    BY <1>4, <1>c, <2>1, <2>2 DEF FreshInv
<1>5. ASSUME NEW t \in Tab, S!GetSession(t)  PROVE FreshInv'
  <2>1. PICK k \in 1 .. S!Issued : k = call[t].token
    BY <1>5, CallFields DEF S!GetSession
  <2>2. /\ S!Goes(t, [pc |-> "rotate", token |-> k]) \/ S!Goes(t, [pc |-> "clear", token |-> k])
        /\ UNCHANGED <<stored, held, lapsed, live>> /\ call[t].pc # "idle"
    BY <1>5, <2>1, CallFields DEF S!GetSession, S!History
  <2>3. QED
    BY <1>4, <2>1, <2>2
<1>6. ASSUME NEW t \in Tab, S!Revoke(t)  PROVE FreshInv'
  <2>1. /\ S!Goes(t, [pc |-> "clear", token |-> call[t].token])
        /\ UNCHANGED <<stored, held, lapsed>> /\ call[t].pc = "revoke" /\ live' = live \ {call[t].token}
    BY <1>6 DEF S!Revoke
  <2>2. QED
    BY <1>4, <2>1
<1>7. ASSUME NEW t \in Tab, S!Refresh(t)  PROVE FreshInv'
  <2>1. /\ S!Goes(t, [pc |-> "clear", token |-> 0]) \/ S!Goes(t, [pc |-> "get", token |-> stored])
        /\ UNCHANGED <<stored, held, lapsed, live>>
    BY <1>7 DEF S!Refresh, S!History, S!None
  <2>2. QED
    BY <1>4, <2>1
<1>8. ASSUME NEW t \in Tab, S!Logout(t)  PROVE FreshInv'
  <2>1. /\ \/ S!Goes(t, [pc |-> "clear", token |-> 0])
           \/ S!Goes(t, [pc |-> "revoke", token |-> held[t], login |-> line[stored]])
        /\ UNCHANGED <<stored, held, lapsed, live>>
    BY <1>8 DEF S!Logout, S!History, S!None
  <2>2. QED
    BY <1>4, <2>1
<1>9. ASSUME NEW t \in Tab, S!CallFails(t)  PROVE FreshInv'
  <2>1. /\ S!Goes(t, S!Idle) \/ S!Goes(t, [pc |-> "clear", token |-> call[t].token])
        /\ UNCHANGED <<stored, held, lapsed, live>> /\ call[t].pc # "idle"
    BY <1>9 DEF S!CallFails, S!History
  <2>2. QED
    BY <1>4, <2>1 DEF S!Idle
\* A tab that is done: what it stores is its own new token, or none.
<1>10. ASSUME NEW t \in Tab, NEW n \in 0 .. S!Issued, S!Goes(t, S!Idle), S!SetAuth(t, n),
              UNCHANGED <<live, lapsed>>,
              n = 0 \/ (call[t].pc = "answer" /\ n = call[t].new)
       PROVE  FreshInv'
  <2>1. call' = [call EXCEPT ![t] = S!Idle] /\ stored' = n /\ held' = [held EXCEPT ![t] = n]
    BY <1>10 DEF S!Goes, S!SetAuth
  <2>2. ASSUME NEW a \in Tab, call[a].pc = "answer", a # t  PROVE call[a].new # n
    BY <1>10, <1>n, <2>2 DEF FreshInv
  <2>3. QED
    BY <1>10, <1>c, <2>1, <2>2 DEF FreshInv, S!Idle
<1>11. ASSUME NEW t \in Tab, S!Accept(t) \/ S!Clear(t)  PROVE FreshInv'
  <2>1. CASE S!Accept(t)
    BY <1>0, <1>10, <1>n, <2>1 DEF S!Accept, S!History
  <2>2. CASE S!Clear(t)
    BY <1>0, <1>10, <2>2 DEF S!Clear, S!ClearAuth, S!None, S!History
  <2>3. QED
    BY <1>11, <2>1, <2>2
<1>12. ASSUME NEW t \in Tab, S!Load(t)  PROVE FreshInv'
  <2>1. /\ call' = [call EXCEPT ![t] = S!Idle] /\ held' = [held EXCEPT ![t] = stored]
        /\ UNCHANGED <<live, lapsed, stored>>
    BY <1>12 DEF S!Load, S!Goes
  <2>2. QED
    BY <1>c, <2>1 DEF FreshInv, S!Idle
<1>13. ASSUME NEW n \in S!Token, S!Expire(n)  PROVE FreshInv'
  BY <1>13 DEF S!Expire, FreshInv
<1>14. QED
  BY <1>2, <1>3, <1>5, <1>6, <1>7, <1>8, <1>9, <1>11, <1>12, <1>13 DEF S!Next

\* The stored token.
LEMMA StoredNext == SessionInv /\ S!Next => S!StoredIsLive'
<1> SUFFICES ASSUME SessionInv, S!Next PROVE S!StoredIsLive'
  OBVIOUS
<1> USE DEF SessionInv
<1>c. DOMAIN call = Tab
  BY DEF CallOk
\* A tab whose call was not one of those that answer it.
<1>1. ASSUME NEW t \in Tab, NEW next, S!Goes(t, next), stored' = stored,
             live \union lapsed \union unheard \subseteq live' \union lapsed' \union unheard',
             call[t].pc \in {"answer", "clear"} =>
                \/ call[t].token \in {0} \union live' \union lapsed' \union unheard'
                \/ next.pc = "clear" /\ next.token = call[t].token
      PROVE  S!StoredIsLive'
  BY <1>1, <1>c DEF S!Goes, S!StoredIsLive, S!None
<1>2. ASSUME NEW t \in Tab, NEW next, S!Goes(t, next), stored' = stored, UNCHANGED <<lapsed, unheard>>,
             next.pc \in {"answer", "clear"}, live \ {next.token} \subseteq live',
             call[t].pc \notin {"answer", "clear"}
      PROVE  S!StoredIsLive'
  BY <1>2, <1>c DEF S!Goes, S!StoredIsLive, S!None
<1>3. ASSUME NEW t \in Tab, S!Login(t) \/ S!GetSession(t) \/ S!Refresh(t) \/ S!Logout(t)
      PROVE  S!StoredIsLive'
  <2>1. /\ \E next : S!Goes(t, next)
        /\ stored' = stored /\ live \subseteq live' /\ UNCHANGED <<lapsed, unheard>>
        /\ call[t].pc \notin {"answer", "clear"}
    BY <1>3 DEF S!Login, S!GetSession, S!Refresh, S!Logout, S!History
  <2>2. QED
    BY <1>1, <2>1
<1>4. ASSUME NEW t \in Tab, S!Rotate(t) \/ S!Revoke(t)  PROVE S!StoredIsLive'
  <2>1. CASE S!Rotate(t)
    <3>1. /\ S!Goes(t, [pc |-> "answer", token |-> call[t].token, new |-> S!Issued + 1])
          /\ live \ {call[t].token} \subseteq live' /\ stored' = stored /\ UNCHANGED <<lapsed, unheard>>
          /\ call[t].pc = "rotate"
      BY <2>1 DEF S!Rotate, S!Replaced
    <3>2. QED
      BY <1>2, <3>1
  <2>2. CASE S!Revoke(t)
    <3>1. /\ S!Goes(t, [pc |-> "clear", token |-> call[t].token])
          /\ live \ {call[t].token} \subseteq live' /\ stored' = stored /\ UNCHANGED <<lapsed, unheard>>
          /\ call[t].pc = "revoke"
      BY <2>2 DEF S!Revoke
    <3>2. QED
      BY <1>2, <3>1
  <2>3. QED
    BY <1>4, <2>1, <2>2
<1>5. ASSUME NEW t \in Tab, S!Accept(t)  PROVE S!StoredIsLive'
  BY <1>5 DEF S!Accept, S!SetAuth, S!StoredIsLive, FreshInv, S!History
<1>6. ASSUME NEW t \in Tab, S!Clear(t)  PROVE S!StoredIsLive'
  BY <1>6 DEF S!Clear, S!ClearAuth, S!SetAuth, S!StoredIsLive
<1>7. ASSUME NEW t \in Tab, S!CallFails(t)  PROVE S!StoredIsLive'
  <2>1. /\ stored' = stored /\ UNCHANGED <<live, lapsed, unheard>>
        /\ S!Goes(t, IF call[t].token = S!None THEN S!Idle ELSE [pc |-> "clear", token |-> call[t].token])
    BY <1>7 DEF S!CallFails, S!History
  <2>2. CASE call[t].token = 0
    BY <1>1, <2>1, <2>2
  <2>3. CASE call[t].token # 0
    BY <1>1, <2>1, <2>3 DEF S!None
  <2>4. QED
    BY <2>2, <2>3
<1>8. ASSUME NEW t \in Tab, S!Load(t)  PROVE S!StoredIsLive'
  <2>1. /\ S!Goes(t, S!Idle) /\ stored' = stored /\ UNCHANGED <<live, lapsed>>
        /\ unheard \subseteq unheard'
        /\ call[t].pc \in {"answer", "clear"} => call[t].token \in unheard'
    BY <1>8 DEF S!Load
  <2>2. QED
    BY <1>1, <2>1
<1>9. ASSUME NEW n \in S!Token, S!Expire(n)  PROVE S!StoredIsLive'
  BY <1>9 DEF S!Expire, S!StoredIsLive
<1>10. QED
  BY <1>3, <1>4, <1>5, <1>6, <1>7, <1>8, <1>9 DEF S!Next

LEMMA SessionNext == SessionInv /\ S!Next => SessionInv'
  BY SessionTypeNext, OneLiveNext, FreshNext, StoredNext DEF SessionInv

LEMMA SessionStays == SessionInv /\ UNCHANGED sessions => SessionInv'
  BY DEF SessionInv, sessions, S!TypeOK, S!Issued, CallOk, LineInv, OneLive, FreshInv, S!StoredIsLive

\* Session has FiniteSets of its own.
LEMMA SameCardinality == \A X : S!Cardinality(X) = Cardinality(X)
  BY Zenon DEF S!Cardinality, Cardinality

\* One live token is at most one.
LEMMA SessionsEnd == SessionInv => S!SessionEnds
<1> SUFFICES ASSUME SessionInv PROVE S!SessionEnds
  OBVIOUS
<1> DEFINE tokens(login) == {n \in live : line[n] = login}
<1>1. ASSUME NEW login \in (1 .. S!Issued) \ crossed
      PROVE  Cardinality(tokens(login)) <= 1 /\ (login \in ended \ astray => tokens(login) = {})
  <2>1. \A n, m \in tokens(login) : n = m
    BY <1>1 DEF SessionInv, OneLive
  <2>2. Cardinality(tokens(login)) <= 1
    <3>1. CASE tokens(login) = {}
      BY <3>1, FS_EmptySet
    <3>2. CASE tokens(login) # {}
      <4>1. PICK x : tokens(login) = {x}
        BY <2>1, <3>2
      <4>2. QED
        BY <4>1, FS_Singleton
    <3>3. QED
      BY <3>1, <3>2
  <2>3. login \in ended \ astray => tokens(login) = {}
    BY <1>1 DEF SessionInv, OneLive
  <2>4. QED
    BY <2>2, <2>3
<1>2. QED
  BY <1>1, SameCardinality, Zenon DEF S!SessionEnds

-----------------------------------------------------------------------------
(* The profile: the invariant *)

\* What the notices, the requests and the creation of the copying row carry
\* after b requests and e edits.
NoticeSet(b, e) == [n : 1 .. b, edits : 0 .. e, name : 0 .. b, avatar : 0 .. b]
EditSet(b, e) ==
    {P!Idle}
    \union [pc : {"update", "old", "reread"}, n : 1 .. b, old : 0 .. b, newName : BOOLEAN, newAvatar : BOOLEAN]
    \union [pc : {"publish"}, notice : NoticeSet(b, e)]
PostSet(b, e) == {P!Idle} \union [pc : {"insert"}, row : P!Shown(b) \union {P!Blank}, edits : 0 .. e]

EditOk ==
    /\ edit \in [Req -> EditSet(begun, edits)]
    /\ post \in PostSet(begun, edits)
    /\ notices \subseteq NoticeSet(begun, edits)
    /\ edits \in Nat /\ told \in 0 .. edits /\ copyEdits \in 0 .. edits
    /\ user \in P!Shown(begun) /\ copy \in P!Shown(begun) \union {P!NoRow, P!Blank}
    /\ avatars \subseteq 1 .. begun /\ begun \in 0 .. MaxEdits

\* Every edit was begun, and a request still before its UPDATE has not made it.
Unmade == {r \in Req : edit[r].pc = "update"}
EditsCounted == IsFiniteSet(Unmade) /\ edits + Cardinality(Unmade) <= begun

\* The last edit is on its way to the group.
Announced == \/ \E r \in Req : edit[r].pc \in {"old", "reread"}
             \/ \E r \in Req : edit[r].pc = "publish" /\ edit[r].notice.edits = edits
             \/ \E e \in notices : e.edits = edits

\* Whatever was read when the row was as it is now agrees with it.
NewestAgrees ==
    /\ \A e \in notices : e.edits = edits => e.name = user.name /\ e.avatar = user.avatar
    /\ \A r \in Req : edit[r].pc = "publish" /\ edit[r].notice.edits = edits =>
          edit[r].notice.name = user.name /\ edit[r].notice.avatar = user.avatar
    /\ post.pc = "insert" /\ copyCause = {} /\ post.edits = edits => post.row = user
    /\ copy # P!NoRow /\ copyCause = {} /\ copyEdits = edits => copy = user

\* Without a cause, the last edit is handled or still on its way; when it was
\* handled the copy has it, and a row without a name is not forgotten.
LastEditHeard ==
    /\ copyCause = {} => told = edits \/ Announced
    /\ copyCause = {} /\ told = edits /\ copy # P!NoRow => copyEdits = edits
    /\ post.pc = "insert" => copy = P!NoRow /\ (post.row = P!Blank => copyCause # {})

\* Each request brings an avatar of its own: until its UPDATE nobody has it, no
\* other request deletes it and it is stored; after it nobody has the old one.
OwnAvatar ==
    /\ \A r \in Req : edit[r].pc = "update" =>
          /\ edit[r].n # user.avatar
          /\ edit[r].newAvatar => edit[r].n \in avatars
          /\ \A x \in Req : edit[x].pc \in {"update", "old"} => edit[x].old # edit[r].n
          /\ \A x \in Req : edit[x].pc = "update" /\ edit[x].n = edit[r].n => x = r
    /\ \A r \in Req : edit[r].pc = "old" => edit[r].old # user.avatar

\* Every stored avatar is the user's, or some request will see to it.
AvatarsOwned ==
    avatarCause = {} => \A a \in avatars :
        \/ a = user.avatar
        \/ \E r \in Req : edit[r].pc = "update" /\ edit[r].newAvatar /\ edit[r].n = a
        \/ \E r \in Req : edit[r].pc = "old" /\ edit[r].old = a

StoredAvatar == "committed" \notin avatarCause => user.avatar \in avatars \union {0}

ProfileInv ==
    /\ EditOk /\ EditsCounted
    /\ NewestAgrees /\ LastEditHeard /\ OwnAvatar /\ AvatarsOwned /\ StoredAvatar

-----------------------------------------------------------------------------
(* The profile: types and the order of edits *)

LEMMA Grow ==
    ASSUME NEW b \in Nat, NEW c \in Nat, b <= c, NEW e \in Nat, NEW f \in Nat, e <= f
    PROVE  /\ P!Shown(b) \subseteq P!Shown(c)
           /\ NoticeSet(b, e) \subseteq NoticeSet(c, f)
           /\ EditSet(b, e) \subseteq EditSet(c, f)
           /\ PostSet(b, e) \subseteq PostSet(c, f)
<1>1. 0 .. b \subseteq 0 .. c /\ 1 .. b \subseteq 1 .. c /\ 0 .. e \subseteq 0 .. f
  OBVIOUS
<1>2. P!Shown(b) \subseteq P!Shown(c)
  BY <1>1 DEF P!Shown
<1>3. NoticeSet(b, e) \subseteq NoticeSet(c, f)
  BY <1>1 DEF NoticeSet
<1>4. EditSet(b, e) \subseteq EditSet(c, f)
  BY <1>1, <1>3 DEF EditSet
<1>5. PostSet(b, e) \subseteq PostSet(c, f)
  BY <1>1, <1>2 DEF PostSet
<1>6. QED
  BY <1>2, <1>3, <1>4, <1>5

\* What a request and the creation of the row carry.
LEMMA EditFields ==
    ASSUME EditOk, NEW r \in Req
    PROVE  /\ edit[r].pc \in {"idle", "update", "old", "reread", "publish"}
           /\ edit[r].pc \in {"update", "old", "reread"} =>
                 edit[r] \in [pc : {"update", "old", "reread"}, n : 1 .. begun, old : 0 .. begun,
                              newName : BOOLEAN, newAvatar : BOOLEAN]
           /\ edit[r].pc = "publish" =>
                 edit[r] \in [pc : {"publish"}, notice : NoticeSet(begun, edits)]
  BY DEF EditOk, EditSet, P!Idle

LEMMA PostFields ==
    ASSUME EditOk
    PROVE  /\ post.pc \in {"idle", "insert"}
           /\ post.pc = "insert" =>
                 post.row \in P!Shown(begun) \union {P!Blank} /\ post.edits \in 0 .. edits
  BY DEF EditOk, PostSet, P!Idle

\* The rows without a profile are none with one.
LEMMA Distinct ==
    ASSUME EditOk
    PROVE  /\ begun \in Nat /\ edits \in Nat /\ MaxEdits \in Nat
           /\ P!NoRow # P!Blank /\ P!NoRow \notin P!Shown(begun) /\ P!Blank \notin P!Shown(begun)
<1>1. begun \in 0 .. MaxEdits /\ MaxEdits \in Nat /\ edits \in Nat
  BY PartsBoundAssumption DEF EditOk
<1>2. P!NoRow.name = MaxEdits + 2 /\ P!Blank.name = MaxEdits + 1
  BY DEF P!NoRow, P!Blank
<1>3. \A s \in P!Shown(begun) : s.name \in 0 .. begun
  BY DEF P!Shown
<1>4. QED
  BY <1>1, <1>2, <1>3

LEMMA ProfileInit == P!Init => ProfileInv
<1> SUFFICES ASSUME P!Init PROVE ProfileInv
  OBVIOUS
<1>1. EditOk
  BY PartsBoundAssumption DEF P!Init, EditOk, EditSet, PostSet, P!Shown, NoticeSet
<1>2. EditsCounted
  <2>1. Unmade = {}
    BY DEF P!Init, Unmade, P!Idle
  <2>2. QED
    BY <2>1, FS_EmptySet DEF P!Init, EditsCounted
<1>3. NewestAgrees /\ LastEditHeard
  BY DEF P!Init, NewestAgrees, LastEditHeard, P!Idle
<1>4. OwnAvatar /\ AvatarsOwned /\ StoredAvatar
  BY DEF P!Init, OwnAvatar, AvatarsOwned, StoredAvatar, P!Idle
<1>5. QED
  BY <1>1, <1>2, <1>3, <1>4 DEF ProfileInv

\* A request of its kind goes on.
LEMMA EditGoes ==
    ASSUME EditOk, NEW r \in Req, NEW next, P!Goes(r, next)
    PROVE  /\ edit'[r] = next /\ \A x \in Req : x # r => edit'[x] = edit[x]
           /\ next.pc = "update" => Unmade' = Unmade \union {r}
           /\ next.pc # "update" => Unmade' = Unmade \ {r}
  BY DEF EditOk, P!Goes, Unmade

LEMMA EditOkNext == EditOk /\ P!Next => EditOk'
<1> SUFFICES ASSUME EditOk, P!Next PROVE EditOk'
  OBVIOUS
<1>0. begun \in Nat /\ edits \in Nat /\ MaxEdits \in Nat /\ user.name \in 0 .. begun /\ user.avatar \in 0 .. begun
  BY PartsBoundAssumption DEF EditOk, P!Shown
\* What there is stays what it is when the numbers grow.
<1>1. ASSUME NEW b \in 0 .. MaxEdits, begun <= b, begun' = b, NEW e \in Nat, edits <= e, edits' = e
      PROVE  /\ \A r \in Req : edit[r] \in EditSet(b, e)
             /\ post \in PostSet(b, e) /\ notices \subseteq NoticeSet(b, e)
             /\ user \in P!Shown(b) /\ copy \in P!Shown(b) \union {P!NoRow, P!Blank}
             /\ avatars \subseteq 1 .. b /\ told \in 0 .. e /\ copyEdits \in 0 .. e
  <2>1. b \in Nat
    BY <1>1
  <2>2. /\ P!Shown(begun) \subseteq P!Shown(b)
        /\ NoticeSet(begun, edits) \subseteq NoticeSet(b, e)
        /\ EditSet(begun, edits) \subseteq EditSet(b, e)
        /\ PostSet(begun, edits) \subseteq PostSet(b, e)
    BY <1>0, <1>1, <2>1, Grow
  <2>3. QED
    BY <1>0, <1>1, <2>1, <2>2 DEF EditOk
<1>2. ASSUME NEW r \in Req, NEW newName \in BOOLEAN, NEW newAvatar \in BOOLEAN, P!Begin(r, newName, newAvatar)
      PROVE  EditOk'
  <2>1. /\ begun' = begun + 1 /\ begun + 1 \in 0 .. MaxEdits /\ UNCHANGED <<user, copy, edits, copyEdits, told, post, notices>>
        /\ P!Goes(r, [pc |-> "update", n |-> begun + 1, old |-> user.avatar,
                      newName |-> newName, newAvatar |-> newAvatar])
        /\ avatars' \in {avatars, avatars \union {begun + 1}}
    BY <1>0, <1>2 DEF P!Begin, P!tables, P!Saved
  <2>2. [pc |-> "update", n |-> begun + 1, old |-> user.avatar, newName |-> newName, newAvatar |-> newAvatar]
            \in EditSet(begun', edits')
    BY <1>0, <2>1 DEF EditSet
  <2>3. edit' \in [Req -> EditSet(begun', edits')]
    BY <1>0, <1>1, <2>1, <2>2 DEF P!Goes, EditOk
  <2>4. QED
    BY <1>0, <1>1, <2>1, <2>3 DEF EditOk
\* An UPDATE.
<1>3. ASSUME NEW r \in Req, edit[r].pc = "update"  PROVE P!Updated(r) \in P!Shown(begun)
  BY <1>0, <1>3, EditFields DEF P!Updated, P!Shown
<1>4. ASSUME NEW r \in Req, P!UpdateProfile(r)  PROVE EditOk'
  <2> DEFINE pc == IF edit[r].newAvatar /\ edit[r].old # 0 THEN "old" ELSE "reread"
  <2>1. /\ edit[r].pc = "update" /\ user' = P!Updated(r) /\ edits' \in {edits, edits + 1}
        /\ edit' = [edit EXCEPT ![r] = [edit[r] EXCEPT !.pc = pc]]
        /\ UNCHANGED <<copy, copyEdits, told, avatars, post, notices, begun>>
    BY <1>4 DEF P!UpdateProfile, P!To, P!Goes
  <2>2. edits' \in Nat /\ edits <= edits' /\ begun \in 0 .. MaxEdits
    BY <1>0, <2>1 DEF EditOk
  <2>3. [edit[r] EXCEPT !.pc = pc] \in EditSet(begun', edits')
    BY <2>1, EditFields DEF EditSet
  <2>4. edit' \in [Req -> EditSet(begun', edits')]
    BY <1>0, <1>1, <2>1, <2>2, <2>3 DEF EditOk
  <2>5. user' \in P!Shown(begun')
    BY <1>3, <2>1
  <2>6. QED
    BY <1>0, <1>1, <2>1, <2>2, <2>4, <2>5 DEF EditOk
<1>5. ASSUME NEW r \in Req, P!UpdateFails(r)  PROVE EditOk'
  <2>1. /\ edit[r].pc = "update" /\ user' \in {user, P!Updated(r)} /\ edits' \in {edits, edits + 1}
        /\ edit' = [edit EXCEPT ![r] = P!Idle] /\ avatars' \subseteq avatars
        /\ UNCHANGED <<copy, copyEdits, told, post, notices, begun>>
    BY <1>5 DEF P!UpdateFails, P!Withdrawn, P!Goes, P!Deleted
  <2>2. edits' \in Nat /\ edits <= edits' /\ begun \in 0 .. MaxEdits
    BY <1>0, <2>1 DEF EditOk
  <2>3. edit' \in [Req -> EditSet(begun', edits')]
    BY <1>0, <1>1, <2>1, <2>2 DEF EditOk, EditSet
  <2>4. user' \in P!Shown(begun')
    <3>1. P!Updated(r) \in P!Shown(begun) /\ user \in P!Shown(begun)
      BY <1>3, <2>1 DEF EditOk
    <3>2. QED
      BY <2>1, <3>1
  <2>5. /\ post \in PostSet(begun, edits') /\ notices \subseteq NoticeSet(begun, edits')
        /\ copy \in P!Shown(begun) \union {P!NoRow, P!Blank}
        /\ avatars \subseteq 1 .. begun /\ told \in 0 .. edits' /\ copyEdits \in 0 .. edits'
    BY <1>0, <1>1, <2>1, <2>2
  <2>6. QED
    BY <2>1, <2>2, <2>3, <2>4, <2>5 DEF EditOk
<1>6. ASSUME NEW r \in Req, P!DeleteOld(r)  PROVE EditOk'
  <2>1. /\ edit[r].pc = "old" /\ edit' = [edit EXCEPT ![r] = [edit[r] EXCEPT !.pc = "reread"]]
        /\ avatars' \subseteq avatars
        /\ UNCHANGED <<user, copy, edits, copyEdits, told, post, notices, begun>>
    BY <1>6 DEF P!DeleteOld, P!To, P!Goes, P!Deleted, P!tables
  <2>2. [edit[r] EXCEPT !.pc = "reread"] \in EditSet(begun, edits)
    BY <2>1, EditFields DEF EditSet
  <2>3. QED
    BY <2>1, <2>2 DEF EditOk
<1>7. ASSUME NEW r \in Req, P!Reread(r)  PROVE EditOk'
  <2>1. /\ edit[r].pc = "reread" /\ edit' = [edit EXCEPT ![r] = [pc |-> "publish", notice |-> P!Notice(r)]]
        /\ UNCHANGED <<user, copy, edits, copyEdits, told, avatars, post, notices, begun>>
    BY <1>7 DEF P!Reread, P!Goes, P!tables
  <2>2. P!Notice(r) \in NoticeSet(begun, edits)
    BY <1>0, <2>1, EditFields DEF P!Notice, NoticeSet
  <2>3. QED
    BY <2>1, <2>2 DEF EditOk, EditSet
<1>8. ASSUME NEW r \in Req, P!PublishOk(r) \/ P!AnnounceFails(r)  PROVE EditOk'
  <2>1. /\ edit' = [edit EXCEPT ![r] = P!Idle]
        /\ notices' = notices \/ (edit[r].pc = "publish" /\ notices' = notices \union {edit[r].notice})
        /\ UNCHANGED <<user, copy, edits, copyEdits, told, avatars, post, begun>>
    BY <1>8 DEF P!PublishOk, P!AnnounceFails, P!Goes, P!tables
  <2>2. edit[r].pc = "publish" => edit[r].notice \in NoticeSet(begun, edits)
    BY EditFields
  <2>3. QED
    BY <2>1, <2>2 DEF EditOk, EditSet
<1>9. CASE P!Restart
  BY <1>9 DEF P!Restart, P!tables, EditOk, EditSet, PostSet
<1>10. CASE P!ReadUser \/ P!UserUnread
  <2>1. /\ post' \in PostSet(begun, edits)
        /\ UNCHANGED <<user, copy, edits, copyEdits, told, avatars, edit, notices, begun>>
    BY <1>0, <1>10 DEF P!ReadUser, P!UserUnread, P!tables, PostSet, EditOk
  <2>2. QED
    BY <2>1 DEF EditOk
<1>11. CASE P!Insert
  BY <1>11, PostFields DEF P!Insert, EditOk, PostSet
<1>12. ASSUME NEW e \in notices, P!UpdateCopies(e)  PROVE EditOk'
  <2>1. /\ notices' \subseteq notices /\ copy' \in {copy, [name |-> e.name, avatar |-> e.avatar]}
        /\ copyEdits' \in {copyEdits, e.edits} /\ told' \in {told, e.edits}
        /\ UNCHANGED <<user, edits, avatars, edit, post, begun>>
    BY <1>12 DEF P!UpdateCopies, P!Copied
  <2>2. e \in NoticeSet(begun, edits)
    BY DEF EditOk
  <2>3. e.edits \in 0 .. edits /\ [name |-> e.name, avatar |-> e.avatar] \in P!Shown(begun)
    BY <2>2 DEF NoticeSet, P!Shown
  <2>4. QED
    BY <2>1, <2>3 DEF EditOk
<1>13. ASSUME NEW e \in notices, P!DeadLetter(e)  PROVE EditOk'
  BY <1>13 DEF P!DeadLetter, P!tables, EditOk
<1>14. ASSUME NEW r \in Req, P!SaveFails(r)  PROVE EditOk'
  <2>1. /\ begun' = begun + 1 /\ begun + 1 \in 0 .. MaxEdits
        /\ UNCHANGED <<user, copy, edits, copyEdits, told, edit, post, notices>>
        /\ avatars' \in {avatars, avatars \union {begun + 1}}
    BY <1>0, <1>14 DEF P!SaveFails, P!tables, P!Saved
  <2>2. edit' \in [Req -> EditSet(begun', edits')]
    BY <1>0, <1>1, <2>1 DEF EditOk
  <2>3. QED
    BY <1>0, <1>1, <2>1, <2>2 DEF EditOk
<1>15. QED
  BY <1>2, <1>4, <1>5, <1>6, <1>7, <1>8, <1>9, <1>10, <1>11, <1>12, <1>13, <1>14 DEF P!Next

\* Every edit comes from an UPDATE that its request had not made before.
LEMMA EditsCountedNext == EditOk /\ EditsCounted /\ P!Next => EditsCounted'
<1> SUFFICES ASSUME EditOk, EditsCounted, P!Next PROVE EditsCounted'
  OBVIOUS
<1>0. /\ IsFiniteSet(Unmade) /\ Cardinality(Unmade) \in Nat /\ begun \in Nat /\ edits \in Nat
      /\ edits + Cardinality(Unmade) <= begun
  BY FS_CardinalityType, Distinct DEF EditsCounted
<1>1. ASSUME NEW r \in Req, NEW next, P!Goes(r, next), next.pc = "update",
             edit[r].pc # "update", begun' = begun + 1, edits' = edits
      PROVE  EditsCounted'
  <2>1. Unmade' = Unmade \union {r} /\ r \notin Unmade
    BY <1>1, EditGoes DEF Unmade
  <2>2. IsFiniteSet(Unmade') /\ Cardinality(Unmade') = Cardinality(Unmade) + 1
    BY <1>0, <2>1, FS_AddElement
  <2>3. QED
    BY <1>0, <1>1, <2>2 DEF EditsCounted
<1>2. ASSUME NEW r \in Req, NEW next, P!Goes(r, next), next.pc # "update",
             edit[r].pc = "update", begun' = begun, edits' \in {edits, edits + 1}
      PROVE  EditsCounted'
  <2>1. Unmade' = Unmade \ {r} /\ r \in Unmade
    BY <1>2, EditGoes DEF Unmade
  <2>2. IsFiniteSet(Unmade') /\ Cardinality(Unmade') = Cardinality(Unmade) - 1
    BY <1>0, <2>1, FS_RemoveElement
  <2>3. QED
    BY <1>0, <1>2, <2>2 DEF EditsCounted
<1>3. ASSUME NEW r \in Req, NEW next, P!Goes(r, next), next.pc # "update",
             edit[r].pc # "update", UNCHANGED <<begun, edits>>
      PROVE  EditsCounted'
  <2>1. Unmade' = Unmade
    BY <1>3, EditGoes DEF Unmade
  <2>2. QED
    BY <1>3, <2>1 DEF EditsCounted
<1>4. ASSUME UNCHANGED <<begun, edits>>, edit' = edit  PROVE EditsCounted'
  BY <1>4 DEF EditsCounted, Unmade
<1>5. ASSUME NEW r \in Req, NEW newName \in BOOLEAN, NEW newAvatar \in BOOLEAN, P!Begin(r, newName, newAvatar)
      PROVE  EditsCounted'
  <2>1. /\ edit[r].pc # "update" /\ begun' = begun + 1 /\ edits' = edits
        /\ P!Goes(r, [pc |-> "update", n |-> begun + 1, old |-> user.avatar,
                      newName |-> newName, newAvatar |-> newAvatar])
    BY <1>5 DEF P!Begin, P!tables
  <2>2. QED
    BY <1>1, <2>1
<1>6. ASSUME NEW r \in Req, P!UpdateProfile(r) \/ P!UpdateFails(r)  PROVE EditsCounted'
  <2>1. /\ edit[r].pc = "update" /\ begun' = begun /\ edits' \in {edits, edits + 1}
        /\ \/ \E pc \in {"old", "reread"} : P!Goes(r, [edit[r] EXCEPT !.pc = pc])
           \/ P!Goes(r, P!Idle)
    BY <1>6 DEF P!UpdateProfile, P!UpdateFails, P!To
  <2>2. \A pc : [edit[r] EXCEPT !.pc = pc].pc = pc
    BY <2>1, EditFields
  <2>3. QED
    BY <1>2, <2>1, <2>2 DEF P!Idle
<1>7. ASSUME NEW r \in Req, P!DeleteOld(r) \/ P!Reread(r) \/ P!PublishOk(r) \/ P!AnnounceFails(r)
      PROVE  EditsCounted'
  <2>1. /\ edit[r].pc \in {"old", "reread", "publish"} /\ UNCHANGED <<begun, edits>>
        /\ \/ edit[r].pc = "old" /\ P!Goes(r, [edit[r] EXCEPT !.pc = "reread"])
           \/ P!Goes(r, [pc |-> "publish", notice |-> P!Notice(r)])
           \/ P!Goes(r, P!Idle)
    BY <1>7 DEF P!DeleteOld, P!Reread, P!PublishOk, P!AnnounceFails, P!To, P!tables
  <2>2. edit[r].pc = "old" => [edit[r] EXCEPT !.pc = "reread"].pc = "reread"
    BY EditFields
  <2>3. QED
    BY <1>3, <2>1, <2>2 DEF P!Idle
<1>8. CASE P!Restart
  <2>1. Unmade' = {} /\ UNCHANGED <<begun, edits>>
    BY <1>8 DEF P!Restart, Unmade, P!Idle, P!tables
  <2>2. IsFiniteSet(Unmade') /\ Cardinality(Unmade') = 0
    BY <2>1, FS_EmptySet
  <2>3. QED
    BY <1>0, <2>1, <2>2 DEF EditsCounted
<1>9. ASSUME NEW r \in Req, P!SaveFails(r)  PROVE EditsCounted'
  <2>1. begun' = begun + 1 /\ edits' = edits /\ Unmade' = Unmade
    BY <1>9 DEF P!SaveFails, P!tables, Unmade
  <2>2. QED
    BY <1>0, <2>1 DEF EditsCounted
<1>10. QED
  BY <1>4, <1>5, <1>6, <1>7, <1>8, <1>9
     DEF P!Next, P!ReadUser, P!UserUnread, P!Insert, P!UpdateCopies, P!DeadLetter, P!tables

\* The steps of a request, as far as the copy matters.
LEMMA EditStep ==
    ASSUME EditOk, NEW r \in Req,
           \/ \E newName, newAvatar \in BOOLEAN : P!Begin(r, newName, newAvatar)
           \/ P!DeleteOld(r) \/ P!Reread(r) \/ P!PublishOk(r) \/ P!AnnounceFails(r)
    PROVE  /\ UNCHANGED <<user, edits, copy, copyEdits, told, post>>
           /\ \A x \in Req : x # r => edit'[x] = edit[x]
           /\ \/ /\ edit[r].pc \in {"idle", "old", "reread"} /\ notices' = notices /\ copyCause' = copyCause
                 /\ edit[r].pc # "idle" => edit'[r].pc \in {"reread", "publish"}
                 /\ edit'[r].pc = "publish" => edit'[r].notice = P!Notice(r)
              \/ /\ edit[r].pc = "publish" /\ edit'[r] = P!Idle /\ copyCause' = copyCause
                 /\ notices' = notices \union {edit[r].notice}
              \/ /\ edit'[r] = P!Idle /\ copyCause' # {}
                 /\ \A e \in notices' : e \in notices \/ (edit[r].pc = "publish" /\ e = edit[r].notice)
<1>1. ASSUME NEW newName \in BOOLEAN, NEW newAvatar \in BOOLEAN, P!Begin(r, newName, newAvatar)
      PROVE  /\ UNCHANGED <<user, edits, copy, copyEdits, told, post>>
             /\ \A x \in Req : x # r => edit'[x] = edit[x]
             /\ edit[r].pc = "idle" /\ notices' = notices /\ copyCause' = copyCause
             /\ edit'[r].pc = "update"
  BY <1>1, EditGoes DEF P!Begin, P!tables
<1>2. ASSUME P!DeleteOld(r)
      PROVE  /\ UNCHANGED <<user, edits, copy, copyEdits, told, post>>
             /\ \A x \in Req : x # r => edit'[x] = edit[x]
             /\ edit[r].pc = "old" /\ notices' = notices /\ copyCause' = copyCause
             /\ edit'[r].pc = "reread"
  BY <1>2, EditGoes, EditFields DEF P!DeleteOld, P!To, P!tables
<1>3. ASSUME P!Reread(r)
      PROVE  /\ UNCHANGED <<user, edits, copy, copyEdits, told, post>>
             /\ \A x \in Req : x # r => edit'[x] = edit[x]
             /\ edit[r].pc = "reread" /\ notices' = notices /\ copyCause' = copyCause
             /\ edit'[r].pc = "publish" /\ edit'[r].notice = P!Notice(r)
  BY <1>3, EditGoes DEF P!Reread, P!tables
<1>4. ASSUME P!PublishOk(r)
      PROVE  /\ UNCHANGED <<user, edits, copy, copyEdits, told, post>>
             /\ \A x \in Req : x # r => edit'[x] = edit[x]
             /\ edit[r].pc = "publish" /\ edit'[r] = P!Idle /\ copyCause' = copyCause
             /\ notices' = notices \union {edit[r].notice}
  BY <1>4, EditGoes DEF P!PublishOk, P!tables
<1>5. ASSUME P!AnnounceFails(r)
      PROVE  /\ UNCHANGED <<user, edits, copy, copyEdits, told, post>>
             /\ \A x \in Req : x # r => edit'[x] = edit[x]
             /\ edit'[r] = P!Idle /\ copyCause' # {}
             /\ \A e \in notices' : e \in notices \/ (edit[r].pc = "publish" /\ e = edit[r].notice)
  BY <1>5, EditGoes DEF P!AnnounceFails, P!tables
<1>6. QED
  BY <1>1, <1>2, <1>3, <1>4, <1>5

\* An UPDATE, committed or not.
LEMMA UpdateStep ==
    ASSUME EditOk, NEW r \in Req, P!UpdateProfile(r) \/ P!UpdateFails(r)
    PROVE  /\ UNCHANGED <<copy, copyEdits, told, post, notices>>
           /\ \A x \in Req : x # r => edit'[x] = edit[x]
           /\ edit[r].pc = "update" /\ edit'[r].pc \in {"old", "reread", "idle"}
           /\ (edits' = edits /\ user' = user) \/ edits' = edits + 1
           /\ copyCause' = {} => copyCause = {} /\ (edits' = edits \/ edit'[r].pc \in {"old", "reread"})
<1>1. CASE P!UpdateProfile(r)
  <2>1. \A pc : [edit[r] EXCEPT !.pc = pc].pc = pc
    BY <1>1, EditFields DEF P!UpdateProfile
  <2>2. edit[r].newName \in BOOLEAN /\ edit[r].newAvatar \in BOOLEAN /\ user = [name |-> user.name, avatar |-> user.avatar]
    BY <1>1, EditFields DEF P!UpdateProfile, EditOk, P!Shown
  <2>3. ~P!Brings(r) => P!Updated(r) = user
    BY <2>2 DEF P!Brings, P!Updated
  <2>4. QED
    BY <1>1, <2>1, <2>3, EditGoes DEF P!UpdateProfile, P!To
<1>2. CASE P!UpdateFails(r)
  <2>1. /\ edit'[r] = P!Idle /\ \A x \in Req : x # r => edit'[x] = edit[x]
    BY <1>2, EditGoes DEF P!UpdateFails
  <2>2. QED
    BY <1>2, <2>1 DEF P!UpdateFails, P!Idle
<1>3. QED
  BY <1>1, <1>2

CopyInv == EditOk /\ NewestAgrees /\ LastEditHeard

\* A notice of the row as it is now.
LEMMA NoticeNow ==
    ASSUME NEW r \in Req
    PROVE  P!Notice(r).edits = edits /\ P!Notice(r).name = user.name /\ P!Notice(r).avatar = user.avatar
  BY DEF P!Notice

-----------------------------------------------------------------------------
(* The profile: the copies *)

LEMMA NewestNext == CopyInv /\ P!Next => NewestAgrees'
<1> SUFFICES ASSUME CopyInv, P!Next PROVE NewestAgrees'
  OBVIOUS
<1> USE DEF CopyInv
<1>0. /\ edits \in Nat /\ copyEdits \in 0 .. edits /\ \A e \in notices : e.edits \in 0 .. edits
      /\ post.pc = "insert" => post.edits \in 0 .. edits
      /\ \A r \in Req : edit[r].pc = "publish" => edit[r].notice.edits \in 0 .. edits
  BY EditFields, PostFields DEF EditOk, NoticeSet
<1>1. ASSUME NEW r \in Req,
             \/ \E newName, newAvatar \in BOOLEAN : P!Begin(r, newName, newAvatar)
             \/ P!DeleteOld(r) \/ P!Reread(r) \/ P!PublishOk(r) \/ P!AnnounceFails(r)
      PROVE  NewestAgrees'
  <2>1. UNCHANGED <<user, edits, copy, copyEdits, post>> /\ (copyCause' = {} => copyCause = {})
    BY <1>1, EditStep
  <2>2. \A e \in notices' : e.edits = edits => e.name = user.name /\ e.avatar = user.avatar
    BY <1>1, EditStep DEF NewestAgrees
  <2>3. \A x \in Req : edit'[x].pc = "publish" /\ edit'[x].notice.edits = edits =>
            edit'[x].notice.name = user.name /\ edit'[x].notice.avatar = user.avatar
    <3>1. SUFFICES ASSUME edit'[r].pc = "publish", edit'[r].notice.edits = edits
                   PROVE  edit'[r].notice.name = user.name /\ edit'[r].notice.avatar = user.avatar
      BY <1>1, EditStep DEF NewestAgrees
    <3>2. edit'[r].notice = P!Notice(r)
      BY <1>1, <3>1, EditStep DEF P!Idle
    <3>3. QED
      BY <3>2, NoticeNow
  <2>4. QED
    BY <2>1, <2>2, <2>3 DEF NewestAgrees
<1>2. ASSUME NEW r \in Req, P!UpdateProfile(r) \/ P!UpdateFails(r)  PROVE NewestAgrees'
  <2>1. /\ UNCHANGED <<copy, copyEdits, post, notices>> /\ (copyCause' = {} => copyCause = {})
        /\ \A x \in Req : edit'[x].pc = "publish" => edit[x].pc = "publish" /\ edit'[x] = edit[x]
    BY <1>2, UpdateStep
  <2>2. CASE edits' = edits /\ user' = user
    BY <2>1, <2>2 DEF NewestAgrees
  <2>3. CASE edits' = edits + 1
    BY <1>0, <2>1, <2>3 DEF NewestAgrees
  <2>4. QED
    BY <1>2, <2>2, <2>3, UpdateStep
<1>3. CASE P!Restart
  BY <1>3 DEF P!Restart, P!tables, NewestAgrees, P!Idle
<1>4. CASE P!ReadUser \/ P!UserUnread
  BY <1>4 DEF P!ReadUser, P!UserUnread, P!tables, NewestAgrees
<1>5. CASE P!Insert
  BY <1>5 DEF P!Insert, P!Idle, NewestAgrees
<1>6. ASSUME NEW e \in notices, P!UpdateCopies(e)  PROVE NewestAgrees'
  <2>1. /\ notices' \subseteq notices /\ UNCHANGED <<user, edits, edit, post>>
        /\ copy' = P!Copied(e) /\ copyEdits' = IF copy = P!NoRow THEN copyEdits ELSE e.edits
        /\ copyCause' = {} => copyCause = {} \/ copy # P!NoRow
    BY <1>6 DEF P!UpdateCopies
  <2>2. post.pc = "insert" => copy = P!NoRow
    BY DEF LastEditHeard
  <2>3. copy # P!NoRow /\ e.edits = edits => copy' = user
    <3>1. user = [name |-> user.name, avatar |-> user.avatar]
      BY DEF EditOk, P!Shown
    <3>2. e.edits = edits => e.name = user.name /\ e.avatar = user.avatar
      BY DEF NewestAgrees
    <3>3. QED
      BY <2>1, <3>1, <3>2 DEF P!Copied
  <2>4. copy = P!NoRow => copy' = P!NoRow
    BY <2>1 DEF P!Copied
  <2>5. QED
    BY <2>1, <2>2, <2>3, <2>4 DEF NewestAgrees
<1>7. ASSUME NEW e \in notices, P!DeadLetter(e)  PROVE NewestAgrees'
  BY <1>7 DEF P!DeadLetter, P!tables, NewestAgrees
<1>8. ASSUME NEW r \in Req, P!SaveFails(r)  PROVE NewestAgrees'
  BY <1>8 DEF P!SaveFails, P!tables, NewestAgrees
<1>9. QED
  BY <1>1, <1>2, <1>3, <1>4, <1>5, <1>6, <1>7, <1>8 DEF P!Next

LEMMA LastHeardNext == CopyInv /\ P!Next => LastEditHeard'
<1> SUFFICES ASSUME CopyInv, P!Next PROVE LastEditHeard'
  OBVIOUS
<1> USE DEF CopyInv
<1>0. /\ edits \in Nat /\ copyEdits \in 0 .. edits /\ told \in 0 .. edits
      /\ \A e \in notices : e.edits \in 0 .. edits
      /\ post.pc = "insert" => post.edits \in 0 .. edits
  BY EditFields, PostFields DEF EditOk, NoticeSet
<1>1. ASSUME NEW r \in Req,
             \/ \E newName, newAvatar \in BOOLEAN : P!Begin(r, newName, newAvatar)
             \/ P!DeleteOld(r) \/ P!Reread(r) \/ P!PublishOk(r) \/ P!AnnounceFails(r)
      PROVE  LastEditHeard'
  <2>1. UNCHANGED <<user, edits, copy, copyEdits, told, post>> /\ (copyCause' = {} => copyCause = {})
    BY <1>1, EditStep
  <2>2. post.pc = "insert" /\ post.row = P!Blank => copyCause' # {}
    BY <2>1 DEF LastEditHeard
  <2>3. ASSUME copyCause' = {}, Announced  PROVE Announced'
    <3>1. \A x \in Req : x # r => edit'[x] = edit[x]
      BY <1>1, EditStep
    <3>2. CASE edit[r].pc \in {"idle", "old", "reread"} /\ notices' = notices
                 /\ (edit[r].pc # "idle" => edit'[r].pc \in {"reread", "publish"})
                 /\ (edit'[r].pc = "publish" => edit'[r].notice = P!Notice(r))
      <4>1. edit[r].pc \in {"old", "reread"} => Announced'
        BY <2>1, <3>2, NoticeNow DEF Announced
      <4>2. QED
        BY <2>1, <2>3, <3>1, <3>2, <4>1 DEF Announced
    <3>3. CASE edit[r].pc = "publish" /\ notices' = notices \union {edit[r].notice}
      BY <2>1, <2>3, <3>1, <3>3 DEF Announced
    <3>4. QED
      BY <1>1, <2>3, <3>2, <3>3, EditStep
  <2>4. QED
    BY <2>1, <2>2, <2>3 DEF LastEditHeard
<1>2. ASSUME NEW r \in Req, P!UpdateProfile(r) \/ P!UpdateFails(r)  PROVE LastEditHeard'
  <2>1. /\ UNCHANGED <<copy, copyEdits, told, post, notices>>
        /\ \A x \in Req : x # r => edit'[x] = edit[x]
        /\ edit[r].pc = "update" /\ edits' \in {edits, edits + 1}
        /\ copyCause' = {} => copyCause = {} /\ (edits' = edits \/ edit'[r].pc \in {"old", "reread"})
    BY <1>2, UpdateStep
  <2>2. CASE copyCause' = {} /\ edits' = edits
    <3>1. Announced => Announced'
      BY <2>1, <2>2 DEF Announced
    <3>2. QED
      BY <2>1, <2>2, <3>1 DEF LastEditHeard
  <2>3. CASE copyCause' = {} /\ edits' = edits + 1
    <3>1. Announced' /\ told # edits'
      BY <1>0, <2>1, <2>3 DEF Announced
    <3>2. QED
      BY <2>1, <2>3, <3>1 DEF LastEditHeard
  <2>4. CASE copyCause' # {}
    BY <2>1, <2>4 DEF LastEditHeard
  <2>5. QED
    BY <2>1, <2>2, <2>3, <2>4
<1>3. CASE P!Restart
  <2>1. /\ UNCHANGED <<copy, copyEdits, told, edits, notices>> /\ post' = P!Idle
        /\ copyCause' = {} => copyCause = {} /\ \A r \in Req : edit[r].pc \notin {"old", "reread", "publish"}
    BY <1>3 DEF P!Restart, P!tables
  <2>2. copyCause' = {} /\ Announced => Announced'
    BY <2>1 DEF Announced
  <2>3. QED
    BY <2>1, <2>2 DEF LastEditHeard, P!Idle
<1>4. CASE P!ReadUser \/ P!UserUnread
  <2>1. /\ UNCHANGED <<copy, copyEdits, told, edits, edit, notices, user>> /\ copy = P!NoRow
        /\ \/ copyCause' = copyCause /\ post'.row = user
           \/ copyCause' # {}
        /\ copyCause' = {} => copyCause = {}
    BY <1>4 DEF P!ReadUser, P!UserUnread, P!tables
  <2>2. user # P!Blank
    BY Distinct DEF EditOk
  <2>3. Announced => Announced'
    BY <2>1 DEF Announced
  <2>4. QED
    BY <2>1, <2>2, <2>3 DEF LastEditHeard
<1>5. CASE P!Insert
  <2>1. /\ UNCHANGED <<told, edits, edit, notices>> /\ post.pc = "insert" /\ post' = P!Idle
        /\ copyEdits' = post.edits
        /\ copyCause' = {} => copyCause = {} /\ ~(post.edits < told)
    BY <1>5 DEF P!Insert
  <2>2. Announced => Announced'
    BY <2>1 DEF Announced
  <2>3. copyCause' = {} /\ told = edits => copyEdits' = edits
    BY <1>0, <2>1
  <2>4. QED
    BY <2>1, <2>2, <2>3 DEF LastEditHeard, P!Idle
<1>6. ASSUME NEW e \in notices, P!UpdateCopies(e)  PROVE LastEditHeard'
  <2>1. /\ \A f \in notices : f # e => f \in notices'
        /\ UNCHANGED <<edits, edit, post, user>>
        /\ copy' = P!Copied(e) /\ copyEdits' = IF copy = P!NoRow THEN copyEdits ELSE e.edits
        /\ told' = IF e.edits > told THEN e.edits ELSE told
        /\ copyCause' = CASE copy # P!NoRow /\ e.edits = edits -> {}
                          [] copy # P!NoRow /\ e.edits < copyEdits -> copyCause \union {"reordered"}
                          [] OTHER -> copyCause
    BY <1>6 DEF P!UpdateCopies
  <2>2. copy = P!NoRow <=> copy' = P!NoRow
    <3>1. e.name \in 0 .. begun /\ [name |-> e.name, avatar |-> e.avatar] # P!NoRow
      <4>1. e \in NoticeSet(begun, edits)
        BY DEF EditOk
      <4>2. [name |-> e.name, avatar |-> e.avatar] \in P!Shown(begun) /\ e.name \in 0 .. begun
        BY <4>1 DEF NoticeSet, P!Shown
      <4>3. QED
        BY <4>2, Distinct
    <3>2. QED
      BY <2>1, <3>1 DEF P!Copied
  <2>3. CASE e.edits = edits
    <3>1. told' = edits /\ (copy # P!NoRow => copyEdits' = edits) /\ (copy = P!NoRow => copyCause' = copyCause)
      BY <1>0, <2>1, <2>3
    <3>2. QED
      BY <2>1, <2>2, <3>1 DEF LastEditHeard
  <2>4. CASE e.edits # edits
    <3>1. e.edits < edits
      BY <1>0, <2>4
    <3>2. Announced => Announced'
      BY <2>1, <2>4 DEF Announced
    <3>3. told' = edits <=> told = edits
      BY <1>0, <2>1, <3>1
    <3>4. copyCause' = {} => copyCause = {} /\ (copy # P!NoRow => ~(e.edits < copyEdits))
      BY <2>1, <2>4
    <3>5. copyCause' = {} /\ copy # P!NoRow => told # edits
      BY <1>0, <3>1, <3>4 DEF LastEditHeard
    <3>6. QED
      BY <2>1, <2>2, <3>2, <3>3, <3>4, <3>5 DEF LastEditHeard
  <2>5. QED
    BY <2>3, <2>4
<1>7. ASSUME NEW e \in notices, P!DeadLetter(e)  PROVE LastEditHeard'
  <2>1. /\ UNCHANGED <<user, edits, copy, copyEdits, told, post, edit>> /\ notices' = notices \ {e}
        /\ copyCause' = {} => copyCause = {} /\ e.edits # edits
    BY <1>7 DEF P!DeadLetter, P!tables
  <2>2. copyCause' = {} /\ Announced => Announced'
    BY <2>1 DEF Announced
  <2>3. QED
    BY <2>1, <2>2 DEF LastEditHeard
<1>8. ASSUME NEW r \in Req, P!SaveFails(r)  PROVE LastEditHeard'
  BY <1>8 DEF P!SaveFails, P!tables, LastEditHeard, Announced
<1>9. QED
  BY <1>1, <1>2, <1>3, <1>4, <1>5, <1>6, <1>7, <1>8 DEF P!Next

-----------------------------------------------------------------------------
(* The profile: the avatars *)

AvatarInv == EditOk /\ OwnAvatar /\ AvatarsOwned /\ StoredAvatar

\* The steps that store or delete nothing and change no avatar.
LEMMA AvatarsStay ==
    ASSUME AvatarInv, avatars' = avatars, user'.avatar = user.avatar, avatarCause' = avatarCause,
           \A r \in Req : edit'[r].pc \in {"update", "old"} => edit'[r] = edit[r],
           \A r \in Req : edit[r].pc = "old" => edit'[r] = edit[r],
           \A r \in Req : edit[r].pc = "update" /\ edit[r].newAvatar => edit'[r] = edit[r]
    PROVE  OwnAvatar' /\ AvatarsOwned' /\ StoredAvatar'
<1>1. OwnAvatar'
  BY DEF AvatarInv, OwnAvatar
<1>2. AvatarsOwned'
  BY DEF AvatarInv, AvatarsOwned
<1>3. StoredAvatar'
  BY DEF AvatarInv, StoredAvatar
<1>4. QED
  BY <1>1, <1>2, <1>3

LEMMA AvatarNext == AvatarInv /\ P!Next => OwnAvatar' /\ AvatarsOwned' /\ StoredAvatar'
<1> SUFFICES ASSUME AvatarInv, P!Next PROVE OwnAvatar' /\ AvatarsOwned' /\ StoredAvatar'
  OBVIOUS
<1> USE DEF AvatarInv
<1>0. /\ begun \in Nat /\ user.avatar \in 0 .. begun /\ avatars \subseteq 1 .. begun
      /\ \A r \in Req : edit[r].pc \in {"update", "old"} =>
            edit[r].n \in 1 .. begun /\ edit[r].old \in 0 .. begun /\ edit[r].newAvatar \in BOOLEAN
  BY EditFields DEF EditOk, P!Shown
<1>1. ASSUME NEW r \in Req, NEW newName \in BOOLEAN, NEW newAvatar \in BOOLEAN, P!Begin(r, newName, newAvatar)
      PROVE  OwnAvatar' /\ AvatarsOwned' /\ StoredAvatar'
  <2> DEFINE next == [pc |-> "update", n |-> begun + 1, old |-> user.avatar,
                      newName |-> newName, newAvatar |-> newAvatar]
  <2>1. /\ P!Goes(r, next) /\ edit[r].pc = "idle" /\ UNCHANGED <<user, avatarCause>>
        /\ avatars' = IF newAvatar THEN avatars \union {begun + 1} ELSE avatars
    BY <1>1 DEF P!Begin, P!tables, P!Saved
  <2>2. edit'[r] = next /\ \A x \in Req : x # r => edit'[x] = edit[x]
    BY <2>1, EditGoes
  <2>3. begun + 1 # user.avatar
    BY <1>0
  <2>4. ASSUME NEW x \in Req, edit[x].pc \in {"update", "old"}
        PROVE  begun + 1 # edit[x].n /\ begun + 1 # edit[x].old
    BY <1>0, <2>4
  <2>5. OwnAvatar'
    <3>1. ASSUME NEW a \in Req, edit'[a].pc = "update"
          PROVE  /\ edit'[a].n # user'.avatar
                 /\ edit'[a].newAvatar => edit'[a].n \in avatars'
                 /\ \A x \in Req : edit'[x].pc \in {"update", "old"} => edit'[x].old # edit'[a].n
                 /\ \A x \in Req : edit'[x].pc = "update" /\ edit'[x].n = edit'[a].n => x = a
      <4>1. CASE a = r
        BY <2>1, <2>2, <2>3, <2>4, <4>1
      <4>2. CASE a # r
        BY <2>1, <2>2, <2>3, <2>4, <3>1, <4>2 DEF OwnAvatar
      <4>3. QED
        BY <4>1, <4>2
    <3>2. \A a \in Req : edit'[a].pc = "old" => edit'[a].old # user'.avatar
      BY <2>1, <2>2 DEF OwnAvatar
    <3>3. QED
      BY <3>1, <3>2 DEF OwnAvatar
  <2>6. AvatarsOwned'
    BY <2>1, <2>2 DEF AvatarsOwned
  <2>7. StoredAvatar'
    BY <2>1 DEF StoredAvatar
  <2>8. QED
    BY <2>5, <2>6, <2>7
<1>2. ASSUME NEW r \in Req, P!UpdateProfile(r)  PROVE OwnAvatar' /\ AvatarsOwned' /\ StoredAvatar'
  <2> DEFINE pc == IF edit[r].newAvatar /\ edit[r].old # 0 THEN "old" ELSE "reread"
  <2>1. /\ edit[r].pc = "update" /\ P!Goes(r, [edit[r] EXCEPT !.pc = pc]) /\ avatars' = avatars
        /\ user'.avatar = (IF edit[r].newAvatar THEN edit[r].n ELSE user.avatar)
        /\ avatarCause' = IF edit[r].newAvatar /\ user.avatar # edit[r].old
                          THEN avatarCause \union {"crossed"} ELSE avatarCause
    BY <1>2 DEF P!UpdateProfile, P!To, P!Updated
  <2>2. /\ edit'[r].pc = pc /\ edit'[r].n = edit[r].n /\ edit'[r].old = edit[r].old
        /\ \A x \in Req : x # r => edit'[x] = edit[x]
    BY <2>1, EditGoes, EditFields
  <2>3. OwnAvatar'
    <3>1. ASSUME NEW a \in Req, edit'[a].pc = "update"
          PROVE  /\ edit'[a].n # user'.avatar
                 /\ edit'[a].newAvatar => edit'[a].n \in avatars'
                 /\ \A x \in Req : edit'[x].pc \in {"update", "old"} => edit'[x].old # edit'[a].n
                 /\ \A x \in Req : edit'[x].pc = "update" /\ edit'[x].n = edit'[a].n => x = a
      BY <2>1, <2>2, <3>1 DEF OwnAvatar
    <3>2. ASSUME NEW a \in Req, edit'[a].pc = "old"  PROVE edit'[a].old # user'.avatar
      BY <2>1, <2>2, <3>2 DEF OwnAvatar
    <3>3. QED
      BY <3>1, <3>2 DEF OwnAvatar
  <2>4. AvatarsOwned'
    <3>1. SUFFICES ASSUME avatarCause' = {}, NEW a \in avatars
                   PROVE  \/ a = user'.avatar
                          \/ \E x \in Req : edit'[x].pc = "update" /\ edit'[x].newAvatar /\ edit'[x].n = a
                          \/ \E x \in Req : edit'[x].pc = "old" /\ edit'[x].old = a
      BY <2>1 DEF AvatarsOwned
    <3>2. avatarCause = {} /\ (edit[r].newAvatar => user.avatar = edit[r].old) /\ a # 0
      BY <1>0, <2>1, <3>1
    <3>3. CASE edit[r].newAvatar /\ a = user.avatar
      BY <2>1, <2>2, <3>2, <3>3
    <3>4. CASE edit[r].newAvatar /\ a = edit[r].n
      BY <2>1, <3>4
    <3>5. CASE edit[r].newAvatar /\ a # edit[r].n /\ a # user.avatar
      BY <2>1, <2>2, <3>1, <3>2, <3>5 DEF AvatarsOwned
    <3>6. CASE ~edit[r].newAvatar
      BY <2>1, <2>2, <3>1, <3>2, <3>6 DEF AvatarsOwned
    <3>7. QED
      BY <3>3, <3>4, <3>5, <3>6
  <2>5. StoredAvatar'
    BY <2>1 DEF StoredAvatar, OwnAvatar
  <2>6. QED
    BY <2>3, <2>4, <2>5
<1>3. ASSUME NEW r \in Req, P!UpdateFails(r)  PROVE OwnAvatar' /\ AvatarsOwned' /\ StoredAvatar'
  <2>1. PICK committed \in BOOLEAN :
           /\ user' = IF committed THEN P!Updated(r) ELSE user
           /\ P!Withdrawn(r, committed)
    BY <1>3 DEF P!UpdateFails
  <2>2. edit[r].pc = "update" /\ P!Goes(r, P!Idle)
    BY <1>3 DEF P!UpdateFails
  <2>3. edit'[r].pc = "idle" /\ \A x \in Req : x # r => edit'[x] = edit[x]
    BY <2>2, EditGoes DEF P!Idle
  <2>4. user'.avatar = IF committed /\ edit[r].newAvatar THEN edit[r].n ELSE user.avatar
    BY <2>1 DEF P!Updated
  <2>5. /\ avatars' = avatars \ {edit[r].n} \/ avatars' = avatars
        /\ avatarCause \subseteq avatarCause'
        /\ avatarCause' = {} => avatars' = avatars \ {edit[r].n} /\ user'.avatar = user.avatar
        /\ "committed" \notin avatarCause' =>
              /\ "committed" \notin avatarCause
              /\ avatars' = avatars \/ user'.avatar = user.avatar
    BY <2>1, <2>4 DEF P!Withdrawn, P!Deleted
  <2>6. OwnAvatar'
    <3>1. ASSUME NEW a \in Req, edit'[a].pc = "update"
          PROVE  /\ edit'[a].n # user'.avatar
                 /\ edit'[a].newAvatar => edit'[a].n \in avatars'
                 /\ \A x \in Req : edit'[x].pc \in {"update", "old"} => edit'[x].old # edit'[a].n
                 /\ \A x \in Req : edit'[x].pc = "update" /\ edit'[x].n = edit'[a].n => x = a
      BY <2>2, <2>3, <2>4, <2>5, <3>1 DEF OwnAvatar
    <3>2. ASSUME NEW a \in Req, edit'[a].pc = "old"  PROVE edit'[a].old # user'.avatar
      BY <2>2, <2>3, <2>4, <3>2 DEF OwnAvatar
    <3>3. QED
      BY <3>1, <3>2 DEF OwnAvatar
  <2>7. AvatarsOwned'
    BY <2>2, <2>3, <2>5 DEF AvatarsOwned
  <2>8. StoredAvatar'
    BY <2>2, <2>4, <2>5 DEF StoredAvatar, OwnAvatar
  <2>9. QED
    BY <2>6, <2>7, <2>8
<1>4. ASSUME NEW r \in Req, P!DeleteOld(r)  PROVE OwnAvatar' /\ AvatarsOwned' /\ StoredAvatar'
  <2>1. /\ edit[r].pc = "old" /\ P!Goes(r, [edit[r] EXCEPT !.pc = "reread"]) /\ user' = user
        /\ \/ avatars' = avatars \ {edit[r].old} /\ avatarCause' = avatarCause
           \/ avatars' = avatars /\ avatarCause' = avatarCause \union {"undeleted"}
    BY <1>4 DEF P!DeleteOld, P!To, P!OldAvatar, P!Deleted, P!tables
  <2>2. edit'[r].pc = "reread" /\ \A x \in Req : x # r => edit'[x] = edit[x]
    BY <2>1, EditGoes, EditFields
  <2>3. OwnAvatar'
    BY <2>1, <2>2 DEF OwnAvatar
  <2>4. AvatarsOwned'
    BY <2>1, <2>2 DEF AvatarsOwned
  <2>5. StoredAvatar'
    BY <2>1 DEF StoredAvatar, OwnAvatar
  <2>6. QED
    BY <2>3, <2>4, <2>5
<1>5. ASSUME NEW r \in Req, P!Reread(r) \/ P!PublishOk(r) \/ P!AnnounceFails(r)
      PROVE  OwnAvatar' /\ AvatarsOwned' /\ StoredAvatar'
  <2>1. /\ edit[r].pc \in {"reread", "publish"} /\ UNCHANGED <<user, avatars, avatarCause>>
        /\ P!Goes(r, P!Idle) \/ P!Goes(r, [pc |-> "publish", notice |-> P!Notice(r)])
    BY <1>5 DEF P!Reread, P!PublishOk, P!AnnounceFails, P!tables
  <2>2. edit'[r].pc \in {"idle", "publish"} /\ \A x \in Req : x # r => edit'[x] = edit[x]
    BY <2>1, EditGoes DEF P!Idle
  <2>3. QED
    BY <2>1, <2>2, AvatarsStay
<1>6. CASE P!Restart
  <2>1. /\ \A r \in Req : edit'[r].pc = "idle"
        /\ avatarCause \subseteq avatarCause'
        /\ avatarCause' = {} => \A r \in Req : edit[r].pc # "old" /\ ~(edit[r].pc = "update" /\ edit[r].newAvatar)
    BY <1>6 DEF P!Restart, P!tables, P!Idle
  <2>2. UNCHANGED <<user, avatars>>
    BY <1>6 DEF P!Restart, P!tables
  <2>3. QED
    BY <2>1, <2>2 DEF OwnAvatar, AvatarsOwned, StoredAvatar
<1>7. ASSUME UNCHANGED <<user, avatars, edit, avatarCause>>  PROVE OwnAvatar' /\ AvatarsOwned' /\ StoredAvatar'
  BY <1>7, AvatarsStay
<1>8. ASSUME NEW r \in Req, P!SaveFails(r)  PROVE OwnAvatar' /\ AvatarsOwned' /\ StoredAvatar'
  <2>1. /\ UNCHANGED <<user, edit>> /\ avatars \subseteq avatars'
        /\ \/ avatarCause' = avatarCause \union {"unsaved"}
           \/ UNCHANGED <<avatars, avatarCause>>
    BY <1>8 DEF P!SaveFails, P!tables, P!Saved
  <2>2. QED
    BY <2>1 DEF OwnAvatar, AvatarsOwned, StoredAvatar
<1>9. QED
  BY <1>1, <1>2, <1>3, <1>4, <1>5, <1>6, <1>7, <1>8
     DEF P!Next, P!ReadUser, P!UserUnread, P!Insert, P!UpdateCopies, P!DeadLetter, P!tables

LEMMA ProfileNext == ProfileInv /\ P!Next => ProfileInv'
  BY EditOkNext, EditsCountedNext, NewestNext, LastHeardNext, AvatarNext DEF ProfileInv, CopyInv, AvatarInv

LEMMA ProfileStays == ProfileInv /\ UNCHANGED profiles => ProfileInv'
<1> SUFFICES ASSUME ProfileInv, UNCHANGED profiles PROVE ProfileInv'
  OBVIOUS
<1> USE DEF ProfileInv, profiles
<1>1. EditOk' /\ EditsCounted'
  BY DEF EditOk, EditsCounted, Unmade
<1>2. NewestAgrees' /\ LastEditHeard'
  BY DEF NewestAgrees, LastEditHeard, Announced
<1>3. OwnAvatar' /\ AvatarsOwned' /\ StoredAvatar'
  BY DEF OwnAvatar, AvatarsOwned, StoredAvatar
<1>4. QED
  BY <1>1, <1>2, <1>3

LEMMA ProfileTypes == ProfileInv => P!TypeOK
<1> SUFFICES ASSUME ProfileInv PROVE P!TypeOK
  OBVIOUS
<1>1. EditOk /\ edits + Cardinality(Unmade) <= begun /\ Cardinality(Unmade) \in Nat
  BY FS_CardinalityType DEF ProfileInv, EditsCounted
<1>2. begun \in Nat /\ edits \in Nat /\ edits <= begun
  BY <1>1, Distinct
<1>3. \A e \in notices : e.edits <= edits
  BY <1>1, <1>2 DEF EditOk, NoticeSet
<1>4. QED
  BY <1>1, <1>2, <1>3, EditFields, PostFields DEF EditOk, P!TypeOK

\* With nothing on its way, the last edit was handled and the copy has it.
LEMMA CopySettles == ProfileInv => P!CopiesSettle
  BY DEF ProfileInv, LastEditHeard, NewestAgrees, Announced, P!CopiesSettle, P!Settled

LEMMA AvatarStored == ProfileInv => P!AvatarIsStored
  BY DEF ProfileInv, AvatarsOwned, StoredAvatar, P!AvatarIsStored, P!Settled

-----------------------------------------------------------------------------
(* The video: the invariant *)

Shown == {"published", "private", "deleted"}

\* What the requests, the messages and the threads carry after t turns.
Status == {"none", "created", "failed", "published", "private", "deleted"}
EventKind == {"created", "switched", "deleted"}
NewsSet(t) == [kind : EventKind, turn : 0 .. t]
AskSet(t) ==
    {V!Idle}
    \union [pc : {"published", "private", "failed", "created", "delete", "head", "publish", "unprivate"},
            by : {"task", "nobody"}, try : Nat]
    \union [pc : {"row", "cleanup"}, by : {"nobody"}, was : Status]
    \union [pc : {"announce"}, kind : EventKind, by : {"task", "nobody"}, turn : 0 .. t]
TallySet(t) == {V!Idle} \union [pc : {"store"}, e : NewsSet(t), turns : 0 .. t, val : {0, 1}]

AskOk ==
    /\ ask \in [Req -> AskSet(turns)]
    /\ news \subseteq NewsSet(turns)
    /\ tally \in [Listener -> TallySet(turns)]
    /\ turns \in Nat /\ countTurns \in 0 .. turns /\ tries \in Nat /\ videoCount \in {0, 1}
    /\ status \in Status /\ files \subseteq V!File /\ queue \in {"user", "video"}
    /\ task \in {"none", "cover", "play", "publish", "asked", "fail", "failed", "retry", "done"}
    /\ failedLate \in BOOLEAN

\* Only a deletion removes files, and it leaves the row deleted.
DeletedInv ==
    status # "deleted" =>
        /\ \A r \in Req : ask[r].pc # "cleanup" /\ (ask[r].pc = "announce" => ask[r].kind # "deleted")
        /\ \A e \in news : e.kind # "deleted"
FilesInv ==
    /\ status \in {"published", "private"} => files = V!File
    /\ \A r \in Req : ask[r].pc = "publish" => files = V!File \/ status = "deleted"
    /\ queue = "video" => \A e \in news : e.kind = "deleted"

\* Only the group "user" counts.
CountersOnly == queue = "video" => \A w \in Listener : tally[w].pc = "idle"

\* Without a cause, files of a deleted video are still to be deleted.
FilesGo ==
    queue = "video" /\ status = "deleted" /\ fileCause = {} =>
        \/ files = {}
        \/ \E r \in Req : ask[r].pc = "cleanup" \/ (ask[r].pc = "announce" /\ ask[r].kind = "deleted")
        \/ \E e \in news : e.kind = "deleted"

\* A number that was read since the last turn is the number of the rows now.
NewestCount ==
    /\ countTurns = turns => videoCount = V!Count
    /\ \A w \in Listener : tally[w].pc = "store" =>
          tally[w].e.turn <= tally[w].turns /\ (tally[w].turns = turns => tally[w].val = V!Count)

\* Without a cause, the last turn is counted or still on its way.
LastTurnHeard ==
    queue = "user" /\ videoCause = {} =>
        \/ countTurns = turns
        \/ \E r \in Req : ask[r].pc = "announce" /\ ask[r].turn = turns
        \/ \E e \in news : e.turn = turns

\* The task waits for one request at most, for the one its state tells.
TaskWaits ==
    \A r \in Req : ask[r].pc # "idle" /\ ask[r].by = "task" =>
        /\ \/ task = "asked" /\ ask[r].pc \in {"published", "head", "publish", "unprivate", "announce"}
           \/ task = "retry" /\ ask[r].pc = "created"
        /\ \A x \in Req : ask[x].pc # "idle" /\ ask[x].by = "task" => x = r

\* A row that was announced was published; a report of failure is the task's,
\* which fails until it is retried; and a failed row is one of a failed task.
FailureInv ==
    /\ \A r \in Req : ask[r].pc # "idle" => status # "none"
    /\ \A r \in Req : ask[r].pc = "announce" => status \in Shown
    /\ \A r \in Req : ask[r].pc = "failed" =>
          ask[r].by = "nobody" /\ ask[r].try <= tries /\ (ask[r].try = tries => task = "failed")
    /\ status = "failed" /\ ~failedLate => task \in {"failed", "retry"}
    /\ status = "none" => task = "none"

VideoInv ==
    /\ AskOk /\ CountersOnly /\ DeletedInv /\ FilesInv /\ FilesGo
    /\ NewestCount /\ LastTurnHeard /\ TaskWaits /\ FailureInv /\ V!DoneIsPublished

-----------------------------------------------------------------------------
(* The video: types *)

LEMMA TurnsGrow ==
    ASSUME NEW t \in Nat, NEW u \in Nat, t <= u
    PROVE  /\ NewsSet(t) \subseteq NewsSet(u) /\ AskSet(t) \subseteq AskSet(u)
           /\ TallySet(t) \subseteq TallySet(u)
<1>1. 0 .. t \subseteq 0 .. u
  OBVIOUS
<1>2. NewsSet(t) \subseteq NewsSet(u)
  BY <1>1 DEF NewsSet
<1>3. AskSet(t) \subseteq AskSet(u)
  BY <1>1 DEF AskSet
<1>4. TallySet(t) \subseteq TallySet(u)
  BY <1>1, <1>2 DEF TallySet
<1>5. QED
  BY <1>2, <1>3, <1>4

\* What a request and a thread carry.
LEMMA AskFields ==
    ASSUME AskOk, NEW r \in Req
    PROVE  /\ ask[r].pc \in {"idle", "published", "private", "failed", "created", "delete", "head", "publish",
                             "unprivate", "row", "cleanup", "announce"}
           /\ ask[r].pc = "idle" => ask[r] = V!Idle
           /\ ask[r].pc \in {"published", "private", "failed", "created", "delete", "head", "publish", "unprivate"} =>
                 ask[r] \in [pc : {"published", "private", "failed", "created", "delete", "head", "publish",
                                   "unprivate"}, by : {"task", "nobody"}, try : Nat]
           /\ ask[r].pc \in {"row", "cleanup"} =>
                 ask[r] \in [pc : {"row", "cleanup"}, by : {"nobody"}, was : Status]
           /\ ask[r].pc = "announce" =>
                 ask[r] \in [pc : {"announce"}, kind : EventKind, by : {"task", "nobody"}, turn : 0 .. turns]
  BY DEF AskOk, AskSet, V!Idle

LEMMA TallyFields ==
    ASSUME AskOk, NEW w \in Listener
    PROVE  /\ tally[w].pc \in {"idle", "store"}
           /\ tally[w].pc = "store" =>
                 tally[w] \in [pc : {"store"}, e : NewsSet(turns), turns : 0 .. turns, val : {0, 1}]
  BY DEF AskOk, TallySet, V!Idle

LEMMA VideoInit == V!Init => VideoInv
<1> SUFFICES ASSUME V!Init PROVE VideoInv
  OBVIOUS
<1>0. CountersOnly
  BY DEF V!Init, CountersOnly, V!Idle
<1>1. AskOk
  <2>1. turns = 0 /\ countTurns \in 0 .. turns /\ tries \in Nat
    BY DEF V!Init
  <2>2. ask \in [Req -> AskSet(turns)] /\ tally \in [Listener -> TallySet(turns)]
    BY DEF V!Init, AskSet, TallySet
  <2>3. QED
    BY <2>1, <2>2 DEF V!Init, AskOk, Status
<1>2. DeletedInv /\ FilesInv /\ FilesGo
  BY DEF V!Init, DeletedInv, FilesInv, FilesGo, V!Idle
<1>3. NewestCount /\ LastTurnHeard
  BY DEF V!Init, NewestCount, LastTurnHeard, V!Idle, V!Count, V!Listed
<1>4. TaskWaits /\ FailureInv /\ V!DoneIsPublished
  BY DEF V!Init, TaskWaits, FailureInv, V!DoneIsPublished, V!Idle
<1>5. QED
  BY <1>0, <1>1, <1>2, <1>3, <1>4 DEF VideoInv

\* The requests are those of Req.
LEMMA AskTyped == AskOk => ask \in [Req -> AskSet(turns)]
  BY DEF AskOk

LEMMA AskOkNext == AskOk /\ V!Next => AskOk'
<1> SUFFICES ASSUME AskOk, V!Next PROVE AskOk'
  OBVIOUS
<1> DEFINE Task == {"none", "cover", "play", "publish", "asked", "fail", "failed", "retry", "done"}
<1>0. turns \in Nat /\ tries \in Nat /\ status \in Status /\ task \in Task
  BY DEF AskOk
<1>1. ASSUME NEW u \in Nat, turns <= u
      PROVE  /\ \A r \in Req : ask[r] \in AskSet(u)
             /\ news \subseteq NewsSet(u) /\ \A w \in Listener : tally[w] \in TallySet(u)
             /\ countTurns \in 0 .. u
  <2>1. NewsSet(turns) \subseteq NewsSet(u) /\ AskSet(turns) \subseteq AskSet(u) /\ TallySet(turns) \subseteq TallySet(u)
    BY <1>0, <1>1, TurnsGrow
  <2>2. QED
    BY <1>0, <1>1, <2>1 DEF AskOk
\* One request goes on.
<1>2. ASSUME NEW r \in Req, NEW next \in AskSet(turns'), ask' = [ask EXCEPT ![r] = next],
             turns' \in {turns, turns + 1}, status' \in Status, files' \subseteq files,
             news' = news \/ (turns' = turns /\ \E e \in NewsSet(turns) : news' = news \union {e}),
             task' \in Task, tries' \in Nat, failedLate' \in BOOLEAN,
             UNCHANGED <<tally, videoCount, countTurns, queue>>
      PROVE  AskOk'
  <2>1. turns' \in Nat /\ turns <= turns'
    BY <1>0, <1>2
  <2>2. /\ \A x \in Req : ask[x] \in AskSet(turns')
        /\ news \subseteq NewsSet(turns') /\ \A w \in Listener : tally[w] \in TallySet(turns')
        /\ countTurns \in 0 .. turns'
    BY <1>1, <2>1
  <2>3. ask' \in [Req -> AskSet(turns')] /\ tally' \in [Listener -> TallySet(turns')]
    BY <1>2, <2>2 DEF AskOk
  <2>4. news' \subseteq NewsSet(turns')
    BY <1>2, <2>2
  <2>5. QED
    BY <1>2, <2>1, <2>2, <2>3, <2>4 DEF AskOk
\* The browser's steps.
<1>3. CASE V!StartUpload \/ V!Put("cover", "play") \/ V!Put("play", "publish")
  <2>1. /\ task' \in Task /\ tries' \in Nat /\ status' \in Status /\ files' \subseteq V!File
        /\ UNCHANGED <<ask, queue, news, tally, videoCount, countTurns, turns, failedLate>>
    <3>1. CASE V!StartUpload
      BY <1>0, <3>1 DEF V!StartUpload, V!CreateVideo, V!client, V!counting, Status, AskOk
    <3>2. ASSUME NEW file \in V!File, NEW next \in {"play", "publish"}, V!Put(file, next)
          PROVE  /\ task' \in Task /\ tries' \in Nat /\ status' \in Status /\ files' \subseteq V!File
                 /\ UNCHANGED <<ask, queue, news, tally, videoCount, countTurns, turns, failedLate>>
      BY <1>0, <3>2 DEF V!Put, V!counting, AskOk
    <3>3. QED
      BY <1>3, <3>1, <3>2 DEF V!File
  <2>2. QED
    BY <2>1 DEF AskOk
<1>4. ASSUME NEW r \in Req, V!AskPublish(r) \/ V!ReportFailure(r) \/ V!Retry(r)
                            \/ \E kind \in {"private", "published", "delete"} : V!Ask(r, kind)
      PROVE  AskOk'
  <2>1. \E kind \in {"published", "failed", "created", "private", "delete"}, by \in {"task", "nobody"} :
            ask' = [ask EXCEPT ![r] = [pc |-> kind, by |-> by, try |-> tries]]
    BY <1>4 DEF V!AskPublish, V!ReportFailure, V!Retry, V!Ask, V!Send
  <2>2. \A kind \in {"published", "failed", "created", "private", "delete"}, by \in {"task", "nobody"} :
            [pc |-> kind, by |-> by, try |-> tries] \in AskSet(turns)
    BY <1>0 DEF AskSet
  <2>3. \E next \in AskSet(turns) : ask' = [ask EXCEPT ![r] = next]
    BY <2>1, <2>2
  <2>4. /\ task' \in Task /\ tries' \in Nat
        /\ UNCHANGED <<status, files, queue, news, tally, videoCount, countTurns, turns, failedLate>>
    BY <1>0, <1>4 DEF V!AskPublish, V!ReportFailure, V!Retry, V!Ask, V!counting, V!client
  <2>5. QED
    BY <1>0, <1>2, <2>3, <2>4 DEF AskOk
<1>5. ASSUME NEW r \in Req, V!GiveUp(r)  PROVE AskOk'
  <2>1. ask' = [ask EXCEPT ![r] = [ask[r] EXCEPT !.by = "nobody"]] /\ ask[r].pc # "idle"
    BY <1>5 DEF V!GiveUp
  <2>2. [ask[r] EXCEPT !.by = "nobody"] \in AskSet(turns)
    BY <2>1, AskFields DEF AskSet
  <2>3. /\ task' \in Task
        /\ UNCHANGED <<tries, status, files, queue, news, tally, videoCount, countTurns, turns, failedLate>>
    BY <1>5 DEF V!GiveUp, V!counting
  <2>4. QED
    BY <1>0, <1>2, <2>1, <2>2, <2>3 DEF AskOk
\* The answer to a request.
<1>6. ASSUME NEW r \in Req, NEW ok, V!Answer(r, ok)
      PROVE  ask' = [ask EXCEPT ![r] = V!Idle] /\ task' \in Task
  BY <1>0, <1>6 DEF V!Answer
<1>7. V!Idle \in AskSet(turns)
  BY DEF AskSet
<1>8. ASSUME NEW r \in Req, V!ReadStatus(r) \/ V!Head(r)  PROVE AskOk'
  <2>1. /\ \/ ask' = [ask EXCEPT ![r] = V!Idle]
           \/ \E pc \in {"unprivate", "head", "publish"} : ask' = [ask EXCEPT ![r] = [ask[r] EXCEPT !.pc = pc]]
        /\ task' \in Task /\ ask[r].pc \in {"published", "head"}
        /\ UNCHANGED <<tries, status, files, queue, news, tally, videoCount, countTurns, turns, failedLate>>
    BY <1>0, <1>6, <1>8 DEF V!ReadStatus, V!Head, V!To, V!counting
  <2>2. \A pc \in {"unprivate", "head", "publish"} : [ask[r] EXCEPT !.pc = pc] \in AskSet(turns)
    BY <2>1, AskFields DEF AskSet
  <2>3. \E next \in AskSet(turns) : ask' = [ask EXCEPT ![r] = next]
    BY <1>7, <2>1, <2>2
  <2>4. QED
    BY <1>0, <1>2, <2>1, <2>3 DEF AskOk
<1>9. ASSUME NEW r \in Req, V!Publish(r) \/ V!Hide(r) \/ V!Unhide(r)  PROVE AskOk'
  <2>1. /\ \/ ask' = [ask EXCEPT ![r] = V!Idle] /\ UNCHANGED <<status, turns>>
           \/ /\ \E kind \in {"created", "switched"} :
                    ask' = [ask EXCEPT ![r] = [pc |-> "announce", kind |-> kind, by |-> ask[r].by, turn |-> turns']]
              /\ status' \in {"published", "private"} /\ turns' \in {turns, turns + 1}
        /\ task' \in Task /\ ask[r].pc \in {"publish", "private", "unprivate"}
        /\ UNCHANGED <<tries, files, queue, news, tally, videoCount, countTurns, failedLate>>
    BY <1>0, <1>6, <1>9 DEF V!Publish, V!Hide, V!Unhide, V!SwitchPrivate, V!Turn, V!Stays, V!Announcing, V!counting
  <2>2. turns' \in Nat /\ status' \in Status /\ turns' \in {turns, turns + 1}
    BY <1>0, <2>1 DEF Status
  <2>3. \A kind \in {"created", "switched"} :
            [pc |-> "announce", kind |-> kind, by |-> ask[r].by, turn |-> turns'] \in AskSet(turns')
    BY <2>1, <2>2, AskFields DEF AskSet, EventKind
  <2>4. \E next \in AskSet(turns') : ask' = [ask EXCEPT ![r] = next]
    BY <1>7, <2>1, <2>3
  <2>5. QED
    BY <1>0, <1>2, <2>1, <2>2, <2>4 DEF AskOk
<1>10. ASSUME NEW r \in Req, V!MarkFailed(r) \/ V!MarkCreated(r)  PROVE AskOk'
  <2>1. /\ ask' = [ask EXCEPT ![r] = V!Idle] /\ task' \in Task
        /\ turns' \in {turns, turns + 1} /\ status' \in Status /\ failedLate' \in BOOLEAN
        /\ turns' = turns \/ status = "published"
        /\ UNCHANGED <<tries, files, queue, news, tally, videoCount, countTurns>>
    BY <1>0, <1>6, <1>10 DEF V!MarkFailed, V!MarkCreated, V!Turn, V!Stays, V!counting, Status, AskOk
  <2>2. V!Idle \in AskSet(turns')
    BY DEF AskSet
  <2>3. QED
    BY <1>0, <1>2, <2>1, <2>2 DEF AskOk
<1>11. ASSUME NEW r \in Req, V!ReadForDelete(r)  PROVE AskOk'
  <2>1. /\ ask' = [ask EXCEPT ![r] = IF status = "deleted" THEN V!Idle
                                     ELSE [pc |-> "row", by |-> "nobody", was |-> status]]
        /\ UNCHANGED <<task, tries, status, files, queue, news, tally, videoCount, countTurns, turns, failedLate>>
    BY <1>11 DEF V!ReadForDelete, V!counting, V!client
  <2>2. [pc |-> "row", by |-> "nobody", was |-> status] \in AskSet(turns)
    BY <1>0 DEF AskSet
  <2>3. \E next \in AskSet(turns) : ask' = [ask EXCEPT ![r] = next]
    BY <1>7, <2>1, <2>2
  <2>4. QED
    BY <1>0, <1>2, <2>1, <2>3 DEF AskOk
<1>12. ASSUME NEW r \in Req, V!DeleteRow(r)  PROVE AskOk'
  <2>1. /\ \/ ask' = [ask EXCEPT ![r] = [ask[r] EXCEPT !.pc = "cleanup"]]
           \/ ask' = [ask EXCEPT ![r] = [pc |-> "announce", kind |-> "deleted", by |-> ask[r].by, turn |-> turns']]
        /\ ask[r].pc = "row" /\ status' = "deleted" /\ turns' \in {turns, turns + 1}
        /\ UNCHANGED <<task, tries, files, queue, news, tally, videoCount, countTurns, failedLate>>
    BY <1>12 DEF V!DeleteRow, V!Turn, V!To, V!Announcing, V!counting, V!client
  <2>2. turns' \in Nat
    BY <1>0, <2>1
  <2>3. /\ [ask[r] EXCEPT !.pc = "cleanup"] \in AskSet(turns')
        /\ [pc |-> "announce", kind |-> "deleted", by |-> ask[r].by, turn |-> turns'] \in AskSet(turns')
    BY <2>1, <2>2, AskFields DEF AskSet, EventKind
  <2>4. \E next \in AskSet(turns') : ask' = [ask EXCEPT ![r] = next]
    BY <2>1, <2>3
  <2>5. QED
    BY <1>0, <1>2, <2>1, <2>4 DEF AskOk, Status
<1>13. ASSUME NEW r \in Req, V!Cleanup(r)  PROVE AskOk'
  <2>1. /\ ask' = [ask EXCEPT ![r] = V!Idle] /\ files' \subseteq files
        /\ UNCHANGED <<task, tries, status, queue, news, tally, videoCount, countTurns, turns, failedLate>>
    BY <1>13 DEF V!Cleanup, V!counting, V!client
  <2>2. QED
    BY <1>0, <1>2, <1>7, <2>1 DEF AskOk
<1>14. ASSUME NEW r \in Req, V!AnnounceOk(r) \/ V!AnnounceFails(r)  PROVE AskOk'
  <2>1. /\ ask' = [ask EXCEPT ![r] = V!Idle] /\ task' \in Task /\ ask[r].pc = "announce"
        /\ news' \in {news, news \union {V!Event(r)}}
        /\ UNCHANGED <<tries, status, files, queue, tally, videoCount, countTurns, turns, failedLate>>
    BY <1>0, <1>6, <1>14 DEF V!AnnounceOk, V!AnnounceFails, V!Stored, V!counting
  <2>2. V!Event(r) \in NewsSet(turns)
    BY <2>1, AskFields DEF V!Event, NewsSet
  <2>3. QED
    BY <1>0, <1>2, <1>7, <2>1, <2>2 DEF AskOk
\* The groups.
<1>15. ASSUME NEW e \in news, V!DeleteFiles(e) \/ V!DeadLetter(e)  PROVE AskOk'
  BY <1>15 DEF V!DeleteFiles, V!Settle, V!DeadLetter, V!client, V!counting, AskOk
<1>16. ASSUME NEW w \in Listener, NEW e \in news, V!CountByAuthor(w, e)  PROVE AskOk'
  <2>1. [pc |-> "store", e |-> e, turns |-> turns, val |-> V!Count] \in TallySet(turns)
    BY <1>0 DEF TallySet, V!Count, AskOk
  <2>2. QED
    BY <1>16, <2>1 DEF V!CountByAuthor, V!client, V!causes, AskOk
<1>17. ASSUME NEW w \in Listener, V!SyncVideoCount(w)  PROVE AskOk'
  <2>1. tally[w].turns \in 0 .. turns /\ tally[w].val \in {0, 1} /\ news' \subseteq news
    BY <1>17, TallyFields DEF V!SyncVideoCount, V!Settle
  <2>2. tally' \in [Listener -> TallySet(turns)]
    BY <1>17 DEF V!SyncVideoCount, AskOk, TallySet
  <2>3. QED
    BY <1>17, <2>1, <2>2 DEF V!SyncVideoCount, V!client, AskOk
<1>18. CASE V!RebuildContentCounts
  BY <1>0, <1>18 DEF V!RebuildContentCounts, V!Count, V!client, AskOk
<1>19. CASE V!Restart
  BY <1>19 DEF V!Restart, AskOk, AskSet, TallySet
<1>20. QED
  BY <1>3, <1>4, <1>5, <1>8, <1>9, <1>10, <1>11, <1>12, <1>13, <1>14, <1>15, <1>16, <1>17, <1>18, <1>19 DEF V!Next

-----------------------------------------------------------------------------
(* The video: rows, files and turns *)

\* A step of r that neither publishes, hides nor deletes, nor answers an announcement.
Quiet(r) ==
    /\ UNCHANGED <<files, queue, news, tally, videoCount, countTurns, turns, videoCause, fileCause>>
    /\ \A x \in Req : x # r => ask'[x] = ask[x]
    /\ \/ ask[r].pc \notin {"announce", "cleanup"} /\ ask'[r].pc \notin {"announce", "cleanup"}
       \/ ask'[r].pc = ask[r].pc /\ (ask[r].pc = "announce" => /\ ask'[r].kind = ask[r].kind
                                                              /\ ask'[r].turn = ask[r].turn)
    /\ ask'[r].pc = "publish" => files = V!File \/ ask[r].pc = "publish"
    /\ status' = status \/ (status \in {"created", "failed"} /\ status' \in {"created", "failed"})

\* A step of r that publishes or hides the video.
Turns(r) ==
    /\ UNCHANGED <<files, queue, news, tally, videoCount, countTurns, videoCause, fileCause>>
    /\ \A x \in Req : x # r => ask'[x] = ask[x]
    /\ ask[r].pc \notin {"announce", "cleanup"}
    /\ ask'[r].pc = "announce" /\ ask'[r].kind # "deleted" /\ ask'[r].turn = turns'
    /\ status' \in {"published", "private"} /\ status # "deleted"
    /\ status = "created" => ask[r].pc = "publish"
    /\ status \in {"created", "published", "private"} /\ turns' = turns + 1

LEMMA QuietSteps ==
    ASSUME AskOk, NEW r \in Req,
           \/ V!AskPublish(r) \/ V!GiveUp(r) \/ V!ReportFailure(r) \/ V!Retry(r)
           \/ \E kind \in {"private", "published", "delete"} : V!Ask(r, kind)
           \/ V!ReadStatus(r) \/ V!Head(r) \/ V!MarkFailed(r) \/ V!MarkCreated(r) \/ V!ReadForDelete(r)
    PROVE  Quiet(r)
<1>1. CASE V!AskPublish(r) \/ V!ReportFailure(r) \/ V!Retry(r) \/ \E kind \in {"private", "published", "delete"} : V!Ask(r, kind)
  <2>1. /\ ask[r].pc = "idle"
        /\ \E kind \in {"published", "failed", "created", "private", "delete"}, by \in {"task", "nobody"} :
              ask' = [ask EXCEPT ![r] = [pc |-> kind, by |-> by, try |-> tries]]
        /\ UNCHANGED <<files, queue, news, tally, videoCount, countTurns, turns, videoCause, fileCause, status>>
    BY <1>1 DEF V!AskPublish, V!ReportFailure, V!Retry, V!Ask, V!Send, V!counting, V!causes
  <2>2. /\ ask'[r].pc \in {"published", "failed", "created", "private", "delete"}
        /\ \A x \in Req : x # r => ask'[x] = ask[x]
    BY <2>1, AskTyped
  <2>3. QED
    BY <2>1, <2>2 DEF Quiet
<1>2. CASE V!GiveUp(r)
  <2>1. /\ ask' = [ask EXCEPT ![r] = [ask[r] EXCEPT !.by = "nobody"]] /\ ask[r].pc # "idle"
        /\ UNCHANGED <<files, queue, news, tally, videoCount, countTurns, turns, videoCause, fileCause, status>>
    BY <1>2 DEF V!GiveUp, V!counting, V!causes
  <2>2. /\ ask'[r] = [ask[r] EXCEPT !.by = "nobody"] /\ \A x \in Req : x # r => ask'[x] = ask[x]
    BY <2>1, AskTyped
  <2>3. ask'[r].pc = ask[r].pc
    BY <2>1, <2>2, AskFields
  <2>4. ask[r].pc = "announce" => ask'[r].kind = ask[r].kind /\ ask'[r].turn = ask[r].turn
    BY <2>2, AskFields
  <2>5. QED
    BY <2>1, <2>2, <2>3, <2>4 DEF Quiet
<1>3. CASE V!ReadStatus(r) \/ V!Head(r)
  <2>1. /\ \/ ask' = [ask EXCEPT ![r] = V!Idle]
           \/ \E pc \in {"unprivate", "head", "publish"} :
                 /\ ask' = [ask EXCEPT ![r] = [ask[r] EXCEPT !.pc = pc]]
                 /\ pc = "publish" => files = V!File
        /\ ask[r].pc \in {"published", "head"}
        /\ UNCHANGED <<files, queue, news, tally, videoCount, countTurns, turns, videoCause, fileCause, status>>
    BY <1>3 DEF V!ReadStatus, V!Head, V!Answer, V!To, V!Uploaded, V!counting, V!causes
  <2>2. /\ \/ ask'[r] = V!Idle
           \/ \E pc \in {"unprivate", "head", "publish"} :
                 ask'[r] = [ask[r] EXCEPT !.pc = pc] /\ (pc = "publish" => files = V!File)
        /\ \A x \in Req : x # r => ask'[x] = ask[x]
    <3>1. CASE ask' = [ask EXCEPT ![r] = V!Idle]
      BY <3>1, AskTyped
    <3>2. ASSUME NEW pc \in {"unprivate", "head", "publish"}, ask' = [ask EXCEPT ![r] = [ask[r] EXCEPT !.pc = pc]]
          PROVE  ask'[r] = [ask[r] EXCEPT !.pc = pc] /\ \A x \in Req : x # r => ask'[x] = ask[x]
      BY <3>2, AskTyped
    <3>3. QED
      BY <2>1, <3>1, <3>2
  <2>3. ask'[r].pc \in {"idle", "unprivate", "head"} \/ (ask'[r].pc = "publish" /\ files = V!File)
    <3>1. \A pc : [ask[r] EXCEPT !.pc = pc].pc = pc
      BY <2>1, AskFields
    <3>2. ASSUME NEW pc \in {"unprivate", "head", "publish"}, ask'[r] = [ask[r] EXCEPT !.pc = pc]
          PROVE  ask'[r].pc = pc
      BY <3>1, <3>2
    <3>3. ask'[r] = V!Idle => ask'[r].pc = "idle"
      BY DEF V!Idle
    <3>4. QED
      BY <2>2, <3>2, <3>3
  <2>4. QED
    BY <2>1, <2>2, <2>3 DEF Quiet
<1>4. CASE V!MarkFailed(r) \/ V!MarkCreated(r)
  <2>1. /\ ask' = [ask EXCEPT ![r] = V!Idle] /\ ask[r].pc \in {"failed", "created"}
        /\ UNCHANGED <<files, queue, news, tally, videoCount, countTurns, turns, videoCause, fileCause>>
        /\ status' = status \/ (status \in {"created", "failed"} /\ status' \in {"created", "failed"})
    BY <1>4 DEF V!MarkFailed, V!MarkCreated, V!Turn, V!Stays, V!Answer, V!counting, V!causes
  <2>2. ask'[r].pc = "idle" /\ \A x \in Req : x # r => ask'[x] = ask[x]
    BY <2>1, AskTyped DEF V!Idle
  <2>3. QED
    BY <2>1, <2>2 DEF Quiet
<1>5. CASE V!ReadForDelete(r)
  <2>1. /\ \/ ask' = [ask EXCEPT ![r] = V!Idle]
           \/ ask' = [ask EXCEPT ![r] = [pc |-> "row", by |-> "nobody", was |-> status]]
        /\ ask[r].pc = "delete"
        /\ UNCHANGED <<files, queue, news, tally, videoCount, countTurns, turns, videoCause, fileCause, status>>
    BY <1>5 DEF V!ReadForDelete, V!counting, V!causes
  <2>2. ask'[r].pc \in {"idle", "row"} /\ \A x \in Req : x # r => ask'[x] = ask[x]
    BY <2>1, AskTyped DEF V!Idle
  <2>3. QED
    BY <2>1, <2>2 DEF Quiet
<1>6. QED
  BY <1>1, <1>2, <1>3, <1>4, <1>5

LEMMA TurnSteps ==
    ASSUME AskOk, NEW r \in Req, V!Publish(r) \/ V!Hide(r) \/ V!Unhide(r)
    PROVE  Quiet(r) \/ Turns(r)
<1>1. /\ ask[r].pc \in {"publish", "private", "unprivate"}
      /\ UNCHANGED <<files, queue, news, tally, videoCount, countTurns, videoCause, fileCause>>
      /\ \/ ask' = [ask EXCEPT ![r] = V!Idle] /\ UNCHANGED <<status, turns>>
         \/ /\ \E kind \in {"created", "switched"} :
                  ask' = [ask EXCEPT ![r] = [pc |-> "announce", kind |-> kind, by |-> ask[r].by, turn |-> turns']]
            /\ status' \in {"published", "private"} /\ turns' = turns + 1
            /\ status \in {"created", "published", "private"}
            /\ status = "created" => ask[r].pc = "publish"
  BY DEF V!Publish, V!Hide, V!Unhide, V!SwitchPrivate, V!Turn, V!Stays, V!Announcing, V!Answer, V!counting, V!causes
<1>2. CASE ask' = [ask EXCEPT ![r] = V!Idle] /\ UNCHANGED <<status, turns>>
  <2>1. ask'[r].pc = "idle" /\ \A x \in Req : x # r => ask'[x] = ask[x]
    BY <1>2, AskTyped DEF V!Idle
  <2>2. QED
    BY <1>1, <1>2, <2>1 DEF Quiet
<1>3. ASSUME NEW kind \in {"created", "switched"},
             ask' = [ask EXCEPT ![r] = [pc |-> "announce", kind |-> kind, by |-> ask[r].by, turn |-> turns']],
             status' \in {"published", "private"}, turns' = turns + 1,
             status \in {"created", "published", "private"}, status = "created" => ask[r].pc = "publish"
      PROVE  Turns(r)
  <2>1. /\ ask'[r].pc = "announce" /\ ask'[r].kind = kind /\ ask'[r].turn = turns'
        /\ \A x \in Req : x # r => ask'[x] = ask[x]
    BY <1>3, AskTyped
  <2>2. QED
    BY <1>1, <1>3, <2>1 DEF Turns
<1>4. QED
  BY <1>1, <1>2, <1>3

\* What the deletion leaves to be done.
LEMMA DeleteStep ==
    ASSUME AskOk, NEW r \in Req, V!DeleteRow(r)
    PROVE  /\ UNCHANGED <<files, queue, news, tally, videoCount, countTurns, fileCause>>
           /\ \A x \in Req : x # r => ask'[x] = ask[x]
           /\ ask[r].pc = "row" /\ status' = "deleted"
           /\ turns' = (IF status = "published" THEN turns + 1 ELSE turns)
           /\ \/ /\ ask'[r].pc = "cleanup"
                 /\ videoCause' = {} => videoCause = {} /\ status # "published"
              \/ /\ ask'[r].pc = "announce" /\ ask'[r].kind = "deleted" /\ ask'[r].turn = turns'
                 /\ videoCause' = videoCause
<1>1. /\ \/ /\ ask' = [ask EXCEPT ![r] = [ask[r] EXCEPT !.pc = "cleanup"]]
            /\ videoCause' = {} => videoCause = {} /\ status # "published"
         \/ /\ ask' = [ask EXCEPT ![r] = [pc |-> "announce", kind |-> "deleted", by |-> ask[r].by, turn |-> turns']]
            /\ videoCause' = videoCause
      /\ ask[r].pc = "row" /\ status' = "deleted"
      /\ turns' = (IF status = "published" THEN turns + 1 ELSE turns)
      /\ UNCHANGED <<files, queue, news, tally, videoCount, countTurns, fileCause>>
  BY DEF V!DeleteRow, V!Turn, V!To, V!Announcing, V!counting, V!client
<1>2. [ask[r] EXCEPT !.pc = "cleanup"].pc = "cleanup"
  BY <1>1, AskFields
<1>3. /\ \A x \in Req : x # r => ask'[x] = ask[x]
      /\ \/ ask'[r].pc = "cleanup" /\ (videoCause' = {} => videoCause = {} /\ status # "published")
         \/ /\ ask'[r].pc = "announce" /\ ask'[r].kind = "deleted" /\ ask'[r].turn = turns'
            /\ videoCause' = videoCause
  <2>1. CASE ask' = [ask EXCEPT ![r] = [ask[r] EXCEPT !.pc = "cleanup"]]
             /\ (videoCause' = {} => videoCause = {} /\ status # "published")
    <3>1. ask'[r].pc = "cleanup" /\ \A x \in Req : x # r => ask'[x] = ask[x]
      BY <1>2, <2>1, AskTyped
    <3>2. QED
      BY <2>1, <3>1
  <2>2. CASE ask' = [ask EXCEPT ![r] = [pc |-> "announce", kind |-> "deleted", by |-> ask[r].by, turn |-> turns']]
             /\ videoCause' = videoCause
    <3>1. /\ ask'[r].pc = "announce" /\ ask'[r].kind = "deleted" /\ ask'[r].turn = turns'
          /\ \A x \in Req : x # r => ask'[x] = ask[x]
      BY <2>2, AskTyped
    <3>2. QED
      BY <2>2, <3>1
  <2>3. QED
    BY <1>1, <2>1, <2>2
<1>4. QED
  BY <1>1, <1>3

\* The announcement of r, published or not.
LEMMA AnnounceStep ==
    ASSUME AskOk, NEW r \in Req, V!AnnounceOk(r) \/ V!AnnounceFails(r)
    PROVE  /\ UNCHANGED <<status, files, queue, tally, videoCount, countTurns, turns>>
           /\ ask[r].pc = "announce" /\ ask'[r].pc = "idle" /\ \A x \in Req : x # r => ask'[x] = ask[x]
           /\ \/ news' = V!Stored(r) /\ UNCHANGED <<videoCause, fileCause>>
              \/ /\ news' \in {news, V!Stored(r)} /\ videoCause' # {}
                 /\ fileCause' = {} => fileCause = {} /\ ask[r].kind # "deleted"
           /\ V!Event(r).kind = ask[r].kind /\ V!Event(r).turn = ask[r].turn
<1>1. ask' = [ask EXCEPT ![r] = V!Idle]
  BY DEF V!AnnounceOk, V!AnnounceFails, V!Answer
<1>2. ask'[r].pc = "idle" /\ \A x \in Req : x # r => ask'[x] = ask[x]
  BY <1>1, AskTyped DEF V!Idle
<1>3. /\ UNCHANGED <<status, files, queue, tally, videoCount, countTurns, turns>> /\ ask[r].pc = "announce"
      /\ \/ news' = V!Stored(r) /\ UNCHANGED <<videoCause, fileCause>>
         \/ /\ news' \in {news, V!Stored(r)} /\ videoCause' # {}
            /\ fileCause' = {} => fileCause = {} /\ ask[r].kind # "deleted"
  BY DEF V!AnnounceOk, V!AnnounceFails, V!Silent, V!counting, V!causes
<1>4. QED
  BY <1>2, <1>3 DEF V!Event

\* The group that is followed does not change, and the other one never counts.
LEMMA CountersNext == AskOk /\ CountersOnly /\ V!Next => CountersOnly'
<1> SUFFICES ASSUME AskOk, CountersOnly, V!Next, queue' = "video", NEW w \in Listener
             PROVE  tally'[w].pc = "idle"
  BY DEF CountersOnly
<1> USE DEF V!client, V!causes, V!counting
<1>1. CASE UNCHANGED <<queue, tally>>
  BY <1>1 DEF CountersOnly
<1>2. CASE queue = "user" /\ UNCHANGED queue
  BY <1>2
<1>3. CASE V!Restart
  BY <1>3 DEF V!Restart, V!Idle
<1>4. ASSUME NEW v \in Listener, V!SyncVideoCount(v)  PROVE queue = "user" /\ UNCHANGED queue
  BY <1>4 DEF V!SyncVideoCount, CountersOnly, AskOk
<1>5. ASSUME NEW r \in Req,
              \/ V!AskPublish(r) \/ V!GiveUp(r) \/ V!ReportFailure(r) \/ V!Retry(r)
              \/ \E kind \in {"private", "published", "delete"} : V!Ask(r, kind)
              \/ V!ReadStatus(r) \/ V!Head(r) \/ V!MarkFailed(r) \/ V!MarkCreated(r) \/ V!ReadForDelete(r)
              \/ V!Publish(r) \/ V!Hide(r) \/ V!Unhide(r)
      PROVE  UNCHANGED <<queue, tally>>
  BY <1>5, QuietSteps, TurnSteps DEF Quiet, Turns
<1>6. ASSUME NEW r \in Req, V!DeleteRow(r) \/ V!Cleanup(r) \/ V!AnnounceOk(r) \/ V!AnnounceFails(r)
      PROVE  UNCHANGED <<queue, tally>>
  BY <1>6 DEF V!DeleteRow, V!Cleanup, V!AnnounceOk, V!AnnounceFails
<1>7. CASE V!StartUpload \/ V!Put("cover", "play") \/ V!Put("play", "publish") \/ V!RebuildContentCounts
           \/ \E e \in news : V!DeleteFiles(e) \/ V!DeadLetter(e)
  <2>1. UNCHANGED <<queue, tally>>
    BY <1>7 DEF V!StartUpload, V!Put, V!RebuildContentCounts, V!DeleteFiles, V!DeadLetter
  <2>2. QED
    BY <1>1, <2>1
<1>8. ASSUME NEW v \in Listener, NEW e \in news, V!CountByAuthor(v, e)  PROVE queue = "user" /\ UNCHANGED queue
  BY <1>8 DEF V!CountByAuthor
<1>9. QED
  BY <1>1, <1>2, <1>3, <1>4, <1>5, <1>6, <1>7, <1>8 DEF V!Next

FileInv == AskOk /\ CountersOnly /\ DeletedInv /\ FilesInv /\ FilesGo

\* The files follow the row.
LEMMA FilesNext == FileInv /\ V!Next => DeletedInv' /\ FilesInv' /\ FilesGo'
<1> SUFFICES ASSUME FileInv, V!Next PROVE DeletedInv' /\ FilesInv' /\ FilesGo'
  OBVIOUS
<1> USE DEF FileInv
<1>1. ASSUME NEW r \in Req, Quiet(r)  PROVE DeletedInv' /\ FilesInv' /\ FilesGo'
  <2>1. DeletedInv'
    BY <1>1 DEF Quiet, DeletedInv
  <2>2. FilesInv'
    BY <1>1 DEF Quiet, FilesInv
  <2>3. FilesGo'
    BY <1>1 DEF Quiet, FilesGo
  <2>4. QED
    BY <2>1, <2>2, <2>3
<1>2. ASSUME NEW r \in Req, Turns(r)  PROVE DeletedInv' /\ FilesInv' /\ FilesGo'
  <2>1. DeletedInv'
    BY <1>2 DEF Turns, DeletedInv
  <2>2. FilesInv'
    BY <1>2 DEF Turns, FilesInv
  <2>3. FilesGo'
    BY <1>2 DEF Turns, FilesGo
  <2>4. QED
    BY <2>1, <2>2, <2>3
<1>3. ASSUME NEW r \in Req, V!DeleteRow(r)  PROVE DeletedInv' /\ FilesInv' /\ FilesGo'
  <2>1. DeletedInv'
    BY <1>3, DeleteStep DEF DeletedInv
  <2>2. FilesInv'
    BY <1>3, DeleteStep DEF FilesInv
  <2>3. FilesGo'
    BY <1>3, DeleteStep DEF FilesGo
  <2>4. QED
    BY <2>1, <2>2, <2>3
<1>4. ASSUME NEW r \in Req, V!Cleanup(r)  PROVE DeletedInv' /\ FilesInv' /\ FilesGo'
  <2>1. /\ ask' = [ask EXCEPT ![r] = V!Idle] /\ ask[r].pc = "cleanup"
        /\ files' = {} \/ fileCause' # {}
        /\ UNCHANGED <<status, queue, news>>
    BY <1>4 DEF V!Cleanup, V!client
  <2>2. ask'[r].pc = "idle" /\ \A x \in Req : x # r => ask'[x] = ask[x]
    BY <2>1, AskTyped DEF V!Idle
  <2>3. status = "deleted"
    BY <2>1 DEF DeletedInv
  <2>4. QED
    BY <2>1, <2>2, <2>3 DEF DeletedInv, FilesInv, FilesGo
<1>5. ASSUME NEW r \in Req, V!AnnounceOk(r) \/ V!AnnounceFails(r)  PROVE DeletedInv' /\ FilesInv' /\ FilesGo'
  <2>1. /\ UNCHANGED <<status, files, queue>>
        /\ ask[r].pc = "announce" /\ ask'[r].pc = "idle" /\ \A x \in Req : x # r => ask'[x] = ask[x]
        /\ \A e \in news' : e \in news \/ (e = V!Event(r) /\ (queue = "user" \/ ask[r].kind = "deleted"))
        /\ V!Event(r).kind = ask[r].kind
        /\ fileCause' = {} => fileCause = {} /\ (ask[r].kind = "deleted" => V!Event(r) \in news')
        /\ \A e \in news : e \in news'
    BY <1>5, AnnounceStep DEF V!Stored
  <2>2. DeletedInv'
    BY <2>1 DEF DeletedInv
  <2>3. FilesInv'
    BY <2>1 DEF FilesInv, AskOk
  <2>4. FilesGo'
    BY <2>1 DEF FilesGo
  <2>5. QED
    BY <2>2, <2>3, <2>4
<1>6. ASSUME NEW e \in news, V!DeleteFiles(e)  PROVE DeletedInv' /\ FilesInv' /\ FilesGo'
  <2>1. /\ queue = "video" /\ news' \subseteq news /\ UNCHANGED <<status, ask, queue>>
        /\ files' = {} \/ (news' = news /\ fileCause' = fileCause /\ files' \subseteq files)
    BY <1>6 DEF V!DeleteFiles, V!Settle
  <2>2. status = "deleted"
    BY <2>1 DEF DeletedInv, FilesInv
  <2>3. QED
    BY <2>1, <2>2 DEF DeletedInv, FilesInv, FilesGo
<1>7. ASSUME NEW e \in news, V!DeadLetter(e)  PROVE DeletedInv' /\ FilesInv' /\ FilesGo'
  <2>1. /\ news' = news \ {e} /\ UNCHANGED <<status, files, ask, queue>>
        /\ fileCause' = {} => fileCause = {} /\ e.kind # "deleted"
    BY <1>7 DEF V!DeadLetter
  <2>2. QED
    BY <2>1 DEF DeletedInv, FilesInv, FilesGo
<1>8. CASE V!Restart
  <2>1. /\ \A r \in Req : ask'[r].pc = "idle"
        /\ UNCHANGED <<status, files, queue, news>>
        /\ fileCause' = {} => fileCause = {} /\ \A r \in Req : ask[r].pc # "cleanup" /\ ~(ask[r].pc = "announce" /\ ask[r].kind = "deleted")
    BY <1>8 DEF V!Restart, V!Idle
  <2>2. QED
    BY <2>1 DEF DeletedInv, FilesInv, FilesGo
<1>9. CASE V!StartUpload
  BY <1>9 DEF V!StartUpload, V!CreateVideo, V!causes, DeletedInv, FilesInv, FilesGo
<1>10. ASSUME NEW file \in V!File, NEW next, V!Put(file, next)  PROVE DeletedInv' /\ FilesInv' /\ FilesGo'
  <2>1. /\ UNCHANGED <<status, ask, queue, news>>
        /\ \/ files' = files \union {file} /\ (fileCause' = {} => fileCause = {} /\ status # "deleted")
           \/ UNCHANGED <<files, fileCause>>
    BY <1>10 DEF V!Put
  <2>2. files = V!File => files' = V!File
    BY <1>10, <2>1
  <2>3. QED
    BY <2>1, <2>2 DEF DeletedInv, FilesInv, FilesGo
<1>11. ASSUME UNCHANGED <<status, files, ask, queue, news, fileCause>>  PROVE DeletedInv' /\ FilesInv' /\ FilesGo'
  BY <1>11 DEF DeletedInv, FilesInv, FilesGo
<1>12. ASSUME NEW r \in Req,
              \/ V!AskPublish(r) \/ V!GiveUp(r) \/ V!ReportFailure(r) \/ V!Retry(r)
              \/ \E kind \in {"private", "published", "delete"} : V!Ask(r, kind)
              \/ V!ReadStatus(r) \/ V!Head(r) \/ V!MarkFailed(r) \/ V!MarkCreated(r) \/ V!ReadForDelete(r)
              \/ V!Publish(r) \/ V!Hide(r) \/ V!Unhide(r)
       PROVE  DeletedInv' /\ FilesInv' /\ FilesGo'
  BY <1>1, <1>2, <1>12, QuietSteps, TurnSteps
<1>13. CASE \/ \E w \in Listener, e \in news : V!CountByAuthor(w, e)
            \/ V!RebuildContentCounts
  BY <1>11, <1>13 DEF V!CountByAuthor, V!RebuildContentCounts, V!causes
<1>14. ASSUME NEW w \in Listener, V!SyncVideoCount(w)  PROVE DeletedInv' /\ FilesInv' /\ FilesGo'
  <2>1. /\ UNCHANGED <<status, files, ask, queue, fileCause>> /\ news' \subseteq news /\ queue = "user"
    BY <1>14 DEF V!SyncVideoCount, V!Settle, CountersOnly, AskOk
  <2>2. QED
    BY <2>1 DEF DeletedInv, FilesInv, FilesGo
<1>15. QED
  BY <1>3, <1>4, <1>5, <1>6, <1>7, <1>8, <1>9, <1>10, <1>12, <1>13, <1>14 DEF V!Next, V!File

-----------------------------------------------------------------------------
(* The video: the counter *)

CountInv == AskOk /\ CountersOnly /\ NewestCount /\ LastTurnHeard

\* The count follows the turns.
LEMMA CountNext == CountInv /\ V!Next => NewestCount' /\ LastTurnHeard'
<1> SUFFICES ASSUME CountInv, V!Next PROVE NewestCount' /\ LastTurnHeard'
  OBVIOUS
<1> USE DEF CountInv
<1>0. /\ turns \in Nat /\ countTurns \in 0 .. turns /\ queue \in {"user", "video"}
      /\ \A e \in news : e.turn \in 0 .. turns
      /\ \A w \in Listener : tally[w].pc = "store" => tally[w].turns \in 0 .. turns
  BY TallyFields DEF AskOk, NewsSet
<1>1. ASSUME NEW r \in Req, Quiet(r)  PROVE NewestCount' /\ LastTurnHeard'
  <2>1. V!Count' = V!Count
    BY <1>1 DEF Quiet, V!Count, V!Listed
  <2>2. NewestCount'
    BY <1>1, <2>1 DEF Quiet, NewestCount
  <2>3. LastTurnHeard'
    BY <1>1 DEF Quiet, LastTurnHeard
  <2>4. QED
    BY <2>2, <2>3
<1>2. ASSUME NEW r \in Req, Turns(r)  PROVE NewestCount' /\ LastTurnHeard'
  <2>1. NewestCount'
    BY <1>0, <1>2 DEF Turns, NewestCount
  <2>2. LastTurnHeard'
    BY <1>2 DEF Turns, LastTurnHeard
  <2>3. QED
    BY <2>1, <2>2
<1>3. ASSUME NEW r \in Req, V!DeleteRow(r)  PROVE NewestCount' /\ LastTurnHeard'
  <2>1. CASE status = "published"
    <3>1. turns' = turns + 1 /\ UNCHANGED <<tally, videoCount, countTurns>>
      BY <1>3, <2>1, DeleteStep
    <3>2. NewestCount'
      BY <1>0, <3>1 DEF NewestCount
    <3>3. LastTurnHeard'
      BY <1>3, <2>1, DeleteStep DEF LastTurnHeard
    <3>4. QED
      BY <3>2, <3>3
  <2>2. CASE status # "published"
    <3>1. turns' = turns /\ status' = "deleted" /\ UNCHANGED <<tally, videoCount, countTurns>>
      BY <1>3, <2>2, DeleteStep
    <3>2. V!Count' = V!Count
      BY <2>2, <3>1 DEF V!Count, V!Listed
    <3>3. NewestCount'
      BY <3>1, <3>2 DEF NewestCount
    <3>4. LastTurnHeard'
      BY <1>3, <3>1, DeleteStep DEF LastTurnHeard
    <3>5. QED
      BY <3>3, <3>4
  <2>3. QED
    BY <2>1, <2>2
\* The steps that leave the row and the count alone.
<1>4. ASSUME UNCHANGED <<status, turns, tally, videoCount, countTurns>>  PROVE NewestCount'
  BY <1>4 DEF NewestCount, V!Count, V!Listed
<1>5. ASSUME NEW r \in Req, V!AnnounceOk(r) \/ V!AnnounceFails(r)  PROVE NewestCount' /\ LastTurnHeard'
  <2>1. NewestCount'
    BY <1>4, <1>5, AnnounceStep
  <2>2. /\ UNCHANGED <<queue, countTurns, turns>> /\ \A x \in Req : x # r => ask'[x] = ask[x]
        /\ videoCause' = {} => videoCause = {} /\ news' = V!Stored(r)
        /\ V!Event(r).turn = ask[r].turn
    BY <1>5, AnnounceStep
  <2>3. queue = "user" => V!Stored(r) = news \union {V!Event(r)}
    BY DEF V!Stored
  <2>4. LastTurnHeard'
    BY <2>2, <2>3 DEF LastTurnHeard
  <2>5. QED
    BY <2>1, <2>4
<1>6. ASSUME NEW r \in Req, V!Cleanup(r)  PROVE NewestCount' /\ LastTurnHeard'
  <2>1. /\ UNCHANGED <<queue, countTurns, turns, videoCause, news, tally, videoCount, status>>
        /\ ask' = [ask EXCEPT ![r] = V!Idle] /\ ask[r].pc = "cleanup"
    BY <1>6 DEF V!Cleanup, V!counting, V!client
  <2>2. \A x \in Req : x # r => ask'[x] = ask[x]
    BY <2>1, AskTyped
  <2>3. LastTurnHeard'
    BY <2>1, <2>2 DEF LastTurnHeard
  <2>4. QED
    BY <1>4, <2>1, <2>3
<1>7. ASSUME NEW w \in Listener, NEW e \in news, V!CountByAuthor(w, e)  PROVE NewestCount' /\ LastTurnHeard'
  <2>1. /\ UNCHANGED <<status, ask, queue, countTurns, turns, videoCause, news, videoCount>>
        /\ tally' = [tally EXCEPT ![w] = [pc |-> "store", e |-> e, turns |-> turns, val |-> V!Count]]
    BY <1>7 DEF V!CountByAuthor, V!causes
  <2>2. /\ tally'[w] = [pc |-> "store", e |-> e, turns |-> turns, val |-> V!Count]
        /\ \A v \in Listener : v # w => tally'[v] = tally[v]
    BY <2>1 DEF AskOk
  <2>3. V!Count' = V!Count
    BY <2>1 DEF V!Count, V!Listed
  <2>4. NewestCount'
    BY <1>0, <2>1, <2>2, <2>3 DEF NewestCount
  <2>5. LastTurnHeard'
    BY <2>1 DEF LastTurnHeard
  <2>6. QED
    BY <2>4, <2>5
<1>8. ASSUME NEW w \in Listener, V!SyncVideoCount(w)  PROVE NewestCount' /\ LastTurnHeard'
  <2>1. PICK at \in 0 .. turns : at = tally[w].turns
    BY <1>0, <1>8 DEF V!SyncVideoCount
  <2>2. PICK e : e = tally[w].e
    OBVIOUS
  <2>3. /\ tally[w].pc = "store" /\ e.turn <= at /\ (at = turns => tally[w].val = V!Count)
        /\ e \in NewsSet(turns)
    BY <1>8, <2>1, <2>2, TallyFields DEF V!SyncVideoCount, NewestCount
  <2>4. /\ videoCount' = tally[w].val /\ countTurns' = at
        /\ videoCause' = {} => at = turns \/ (videoCause = {} /\ ~(at < turns /\ at < countTurns))
        /\ news' = news \ {e} \/ news' = news
        /\ tally' = [tally EXCEPT ![w] = V!Idle]
        /\ UNCHANGED <<status, ask, queue, turns>>
    BY <1>8, <2>1, <2>2 DEF V!SyncVideoCount, V!Settle
  <2>5. tally'[w] = V!Idle /\ \A v \in Listener : v # w => tally'[v] = tally[v]
    BY <2>4 DEF AskOk
  <2>6. V!Count' = V!Count
    BY <2>4 DEF V!Count, V!Listed
  <2>7. NewestCount'
    BY <2>3, <2>4, <2>5, <2>6 DEF NewestCount, V!Idle
  <2>8. e.turn \in 0 .. turns
    BY <2>3 DEF NewsSet
  <2>9. LastTurnHeard'
    <3>1. SUFFICES ASSUME queue = "user", videoCause = {}, at # turns, ~(at < turns /\ at < countTurns)
                   PROVE  \/ \E r \in Req : ask[r].pc = "announce" /\ ask[r].turn = turns
                          \/ \E f \in news' : f.turn = turns
      BY <2>4 DEF LastTurnHeard
    <3>2. at < turns /\ countTurns # turns
      BY <1>0, <2>1, <3>1
    <3>3. CASE \E r \in Req : ask[r].pc = "announce" /\ ask[r].turn = turns
      BY <3>3
    <3>4. ASSUME NEW f \in news, f.turn = turns  PROVE f \in news'
      BY <2>1, <2>3, <2>4, <2>8, <3>2, <3>4, <1>0
    <3>5. QED
      BY <3>1, <3>2, <3>3, <3>4 DEF LastTurnHeard
  <2>10. QED
    BY <2>7, <2>9
<1>9. CASE V!RebuildContentCounts
  <2>1. /\ UNCHANGED <<status, turns, tally>> /\ videoCount' = V!Count /\ countTurns' = turns
    BY <1>9 DEF V!RebuildContentCounts
  <2>2. V!Count' = V!Count
    BY <2>1 DEF V!Count, V!Listed
  <2>3. QED
    BY <2>1, <2>2 DEF NewestCount, LastTurnHeard
<1>10. ASSUME NEW e \in news, V!DeadLetter(e)  PROVE NewestCount' /\ LastTurnHeard'
  <2>1. /\ UNCHANGED <<status, ask, queue, countTurns, turns, videoCount, tally>> /\ news' = news \ {e}
        /\ videoCause' = {} => videoCause = {} /\ e.turn # turns
    BY <1>10 DEF V!DeadLetter, V!counting
  <2>2. LastTurnHeard'
    BY <2>1 DEF LastTurnHeard
  <2>3. QED
    BY <1>4, <2>1, <2>2
<1>11. ASSUME NEW e \in news, V!DeleteFiles(e)  PROVE NewestCount' /\ LastTurnHeard'
  <2>1. UNCHANGED <<status, queue, countTurns, turns, videoCount, tally>> /\ queue = "video"
    BY <1>11 DEF V!DeleteFiles, V!counting
  <2>2. QED
    BY <1>4, <2>1 DEF LastTurnHeard
<1>12. CASE V!Restart
  <2>1. /\ UNCHANGED <<status, queue, countTurns, turns, videoCount, news>>
        /\ \A w \in Listener : tally'[w].pc = "idle"
        /\ videoCause' = {} => videoCause = {} /\ \A r \in Req : ask[r].pc # "announce"
    BY <1>12 DEF V!Restart, V!Idle
  <2>2. V!Count' = V!Count
    BY <2>1 DEF V!Count, V!Listed
  <2>3. NewestCount'
    BY <2>1, <2>2 DEF NewestCount
  <2>4. LastTurnHeard'
    BY <2>1 DEF LastTurnHeard
  <2>5. QED
    BY <2>3, <2>4
<1>13. CASE V!StartUpload \/ V!Put("cover", "play") \/ V!Put("play", "publish")
  <2>1. /\ UNCHANGED <<turns, tally, videoCount, countTurns, queue, ask, news, videoCause>>
        /\ (status = "published") = (status' = "published")
    BY <1>13 DEF V!StartUpload, V!CreateVideo, V!Put, V!counting, V!causes
  <2>2. V!Count' = V!Count
    BY <2>1 DEF V!Count, V!Listed
  <2>3. QED
    BY <2>1, <2>2 DEF NewestCount, LastTurnHeard
<1>14. ASSUME NEW r \in Req,
              \/ V!AskPublish(r) \/ V!GiveUp(r) \/ V!ReportFailure(r) \/ V!Retry(r)
              \/ \E kind \in {"private", "published", "delete"} : V!Ask(r, kind)
              \/ V!ReadStatus(r) \/ V!Head(r) \/ V!MarkFailed(r) \/ V!MarkCreated(r) \/ V!ReadForDelete(r)
              \/ V!Publish(r) \/ V!Hide(r) \/ V!Unhide(r)
       PROVE  NewestCount' /\ LastTurnHeard'
  BY <1>1, <1>2, <1>14, QuietSteps, TurnSteps
<1>15. QED
  BY <1>3, <1>5, <1>6, <1>7, <1>8, <1>9, <1>10, <1>11, <1>12, <1>13, <1>14 DEF V!Next

-----------------------------------------------------------------------------
(* The video: the task of the upload queue *)

TaskInv == AskOk /\ TaskWaits /\ FailureInv /\ V!DoneIsPublished

\* What the answer to r is for the task.
LEMMA AnswerTo ==
    ASSUME AskOk, TaskWaits, NEW r \in Req, NEW ok \in BOOLEAN, ask[r].pc # "idle", V!Answer(r, ok)
    PROVE  /\ ask'[r].pc = "idle" /\ \A x \in Req : x # r => ask'[x] = ask[x]
           /\ \/ ask[r].by # "task" /\ task' = task
              \/ /\ ask[r].by = "task" /\ task = "asked" /\ ask[r].pc # "created"
                 /\ task' = IF ok THEN "done" ELSE "fail"
              \/ /\ ask[r].by = "task" /\ task = "retry" /\ ask[r].pc = "created"
                 /\ task' = IF ok THEN "cover" ELSE "failed"
           /\ TaskWaits'
<1>1. ask' = [ask EXCEPT ![r] = V!Idle]
  BY DEF V!Answer
<1>2. ask'[r].pc = "idle" /\ \A x \in Req : x # r => ask'[x] = ask[x]
  BY <1>1, AskTyped DEF V!Idle
<1>3. \/ ask[r].by # "task" /\ task' = task
      \/ /\ ask[r].by = "task" /\ task = "asked" /\ ask[r].pc # "created"
         /\ task' = IF ok THEN "done" ELSE "fail"
      \/ /\ ask[r].by = "task" /\ task = "retry" /\ ask[r].pc = "created"
         /\ task' = IF ok THEN "cover" ELSE "failed"
  <2>1. task' = IF ask[r].by # "task" THEN task
                ELSE CASE task = "asked" /\ ok -> "done"
                       [] task = "asked" /\ ~ok -> "fail"
                       [] task = "retry" /\ ok -> "cover"
                       [] OTHER -> "failed"
    BY DEF V!Answer
  <2>2. CASE ask[r].by # "task"
    BY <2>1, <2>2
  <2>3. CASE ask[r].by = "task" /\ task = "asked" /\ ask[r].pc # "created"
    BY <2>1, <2>3
  <2>4. CASE ask[r].by = "task" /\ task = "retry" /\ ask[r].pc = "created"
    BY <2>1, <2>4
  <2>5. QED
    BY <2>2, <2>3, <2>4 DEF TaskWaits
<1>4. TaskWaits'
  BY <1>2, <1>3 DEF TaskWaits
<1>5. QED
  BY <1>2, <1>3, <1>4

\* r is answered by a step that leaves the row as it is.
LEMMA Answered ==
    ASSUME TaskInv, NEW r \in Req, NEW ok \in BOOLEAN, ask[r].pc \notin {"idle", "created"}, V!Answer(r, ok),
           UNCHANGED <<status, tries, failedLate>>,
           ok => status \in Shown \/ failedLate \/ ask[r].by # "task"
    PROVE  TaskWaits' /\ FailureInv' /\ V!DoneIsPublished'
<1> USE DEF TaskInv
<1>1. /\ ask'[r].pc = "idle" /\ \A x \in Req : x # r => ask'[x] = ask[x]
      /\ \/ ask[r].by # "task" /\ task' = task
         \/ ask[r].by = "task" /\ task = "asked" /\ task' = IF ok THEN "done" ELSE "fail"
      /\ TaskWaits'
  BY AnswerTo
<1>2. FailureInv'
  BY <1>1 DEF FailureInv
<1>3. V!DoneIsPublished'
  BY <1>1 DEF V!DoneIsPublished, Shown
<1>4. QED
  BY <1>1, <1>2, <1>3

\* r goes on.
LEMMA GoesOn ==
    ASSUME TaskInv, NEW r \in Req, \A x \in Req : x # r => ask'[x] = ask[x],
           ask[r].pc \notin {"idle", "created"}, ask'[r].by = ask[r].by,
           ask'[r].pc \in {"unprivate", "head", "publish", "announce", "row", "cleanup"},
           ask'[r].pc \in {"row", "cleanup"} => ask[r].by # "task",
           ask'[r].pc = "announce" => status' \in Shown,
           status' = status \/ status' \in Shown,
           UNCHANGED <<task, tries, failedLate>>
    PROVE  TaskWaits' /\ FailureInv' /\ V!DoneIsPublished'
<1> USE DEF TaskInv
<1>1. TaskWaits'
  <2> SUFFICES ASSUME NEW q \in Req, ask'[q].pc # "idle", ask'[q].by = "task"
               PROVE  /\ \/ task = "asked" /\ ask'[q].pc \in {"published", "head", "publish", "unprivate", "announce"}
                         \/ task = "retry" /\ ask'[q].pc = "created"
                      /\ \A x \in Req : ask'[x].pc # "idle" /\ ask'[x].by = "task" => x = q
    BY DEF TaskWaits
  <2>1. \A x \in Req : ask'[x].pc # "idle" /\ ask'[x].by = "task" => ask[x].pc # "idle" /\ ask[x].by = "task"
    OBVIOUS
  <2>2. CASE q = r
    BY <2>1, <2>2 DEF TaskWaits
  <2>3. CASE q # r
    BY <2>1, <2>3 DEF TaskWaits
  <2>4. QED
    BY <2>2, <2>3
<1>2. FailureInv'
  BY DEF FailureInv, Shown
<1>3. V!DoneIsPublished'
  BY DEF V!DoneIsPublished, Shown
<1>4. QED
  BY <1>1, <1>2, <1>3

\* The task that is done has published the video.
LEMMA TaskNext == TaskInv /\ V!Next => TaskWaits' /\ FailureInv' /\ V!DoneIsPublished'
<1> SUFFICES ASSUME TaskInv, V!Next PROVE TaskWaits' /\ FailureInv' /\ V!DoneIsPublished'
  OBVIOUS
<1> USE DEF TaskInv
<1>0. tries \in Nat /\ failedLate \in BOOLEAN /\ status \in Status
  BY DEF AskOk
<1>1. ASSUME UNCHANGED <<ask, task, tries, status, failedLate>>
      PROVE  TaskWaits' /\ FailureInv' /\ V!DoneIsPublished'
  BY <1>1 DEF TaskWaits, FailureInv, V!DoneIsPublished
\* The browser's steps.
<1>2. CASE V!StartUpload
  <2>1. /\ status = "none" /\ status' = "created" /\ UNCHANGED <<ask, failedLate>>
        /\ \/ task' = "cover" \/ task' = task
    BY <1>2 DEF V!StartUpload, V!CreateVideo, V!client
  <2>2. task = "none" /\ \A r \in Req : ask[r].pc = "idle"
    BY <2>1 DEF FailureInv
  <2>3. QED
    BY <2>1, <2>2 DEF TaskWaits, FailureInv, V!DoneIsPublished
<1>3. CASE V!Put("cover", "play") \/ V!Put("play", "publish")
  <2>1. /\ task \in {"cover", "play"} /\ task' \in {"play", "publish", "fail"}
        /\ UNCHANGED <<ask, tries, status, failedLate>>
    BY <1>3 DEF V!Put
  <2>2. QED
    BY <2>1 DEF TaskWaits, FailureInv, V!DoneIsPublished
<1>4. ASSUME NEW r \in Req, V!AskPublish(r)  PROVE TaskWaits' /\ FailureInv' /\ V!DoneIsPublished'
  <2>1. /\ ask[r].pc = "idle" /\ ask' = [ask EXCEPT ![r] = [pc |-> "published", by |-> "task", try |-> tries]]
        /\ task = "publish" /\ task' = "asked" /\ UNCHANGED <<tries, status, failedLate>>
    BY <1>4 DEF V!AskPublish, V!Send
  <2>2. /\ ask'[r].pc = "published" /\ ask'[r].by = "task" /\ \A x \in Req : x # r => ask'[x] = ask[x]
    BY <2>1, AskTyped
  <2>3. \A x \in Req : ~(ask[x].pc # "idle" /\ ask[x].by = "task")
    BY <2>1 DEF TaskWaits
  <2>4. TaskWaits'
    BY <2>1, <2>2, <2>3 DEF TaskWaits
  <2>5. FailureInv'
    BY <2>1, <2>2 DEF FailureInv
  <2>6. QED
    BY <2>1, <2>4, <2>5 DEF V!DoneIsPublished
<1>5. ASSUME NEW r \in Req, V!ReportFailure(r)  PROVE TaskWaits' /\ FailureInv' /\ V!DoneIsPublished'
  <2>1. /\ ask[r].pc = "idle" /\ ask' = [ask EXCEPT ![r] = [pc |-> "failed", by |-> "nobody", try |-> tries]]
        /\ task = "fail" /\ task' = "failed" /\ UNCHANGED <<tries, status, failedLate>>
    BY <1>5 DEF V!ReportFailure, V!Send
  <2>2. /\ ask'[r].pc = "failed" /\ ask'[r].by = "nobody" /\ ask'[r].try = tries
        /\ \A x \in Req : x # r => ask'[x] = ask[x]
    BY <2>1, AskTyped
  <2>3. TaskWaits'
    BY <2>1, <2>2 DEF TaskWaits
  <2>4. FailureInv'
    BY <1>0, <2>1, <2>2 DEF FailureInv
  <2>5. QED
    BY <2>1, <2>3, <2>4 DEF V!DoneIsPublished
<1>6. ASSUME NEW r \in Req, V!Retry(r)  PROVE TaskWaits' /\ FailureInv' /\ V!DoneIsPublished'
  <2>1. /\ ask[r].pc = "idle" /\ ask' = [ask EXCEPT ![r] = [pc |-> "created", by |-> "task", try |-> tries]]
        /\ task = "failed" /\ task' = "retry" /\ tries' = tries + 1 /\ UNCHANGED <<status, failedLate>>
    BY <1>6 DEF V!Retry, V!Send
  <2>2. /\ ask'[r].pc = "created" /\ ask'[r].by = "task" /\ \A x \in Req : x # r => ask'[x] = ask[x]
    BY <2>1, AskTyped
  <2>3. \A x \in Req : ~(ask[x].pc # "idle" /\ ask[x].by = "task")
    BY <2>1 DEF TaskWaits
  <2>4. TaskWaits'
    BY <2>1, <2>2, <2>3 DEF TaskWaits
  <2>5. \A x \in Req : ask'[x].pc = "failed" =>
           x # r /\ ask'[x].by = "nobody" /\ ask'[x].try <= tries' /\ ask'[x].try # tries'
    <3> SUFFICES ASSUME NEW x \in Req, ask'[x].pc = "failed"
                 PROVE  x # r /\ ask'[x].by = "nobody" /\ ask'[x].try <= tries' /\ ask'[x].try # tries'
      OBVIOUS
    <3>1. x # r /\ ask'[x] = ask[x]
      BY <2>2
    <3>2. ask[x].try \in Nat /\ ask[x].try <= tries /\ ask[x].by = "nobody"
      BY <3>1, AskFields DEF FailureInv
    <3>3. QED
      BY <1>0, <2>1, <3>1, <3>2
  <2>6. FailureInv'
    BY <2>1, <2>2, <2>5 DEF FailureInv
  <2>7. QED
    BY <2>1, <2>4, <2>6 DEF V!DoneIsPublished
<1>7. ASSUME NEW r \in Req, NEW kind \in {"private", "published", "delete"}, V!Ask(r, kind)
      PROVE  TaskWaits' /\ FailureInv' /\ V!DoneIsPublished'
  <2>1. /\ ask[r].pc = "idle" /\ ask' = [ask EXCEPT ![r] = [pc |-> kind, by |-> "nobody", try |-> tries]]
        /\ status # "none" /\ UNCHANGED <<tries, task, status, failedLate>>
    BY <1>7 DEF V!Ask, V!Send, V!client
  <2>2. /\ ask'[r].pc \in {"private", "published", "delete"} /\ ask'[r].by = "nobody"
        /\ \A x \in Req : x # r => ask'[x] = ask[x]
    BY <2>1, AskTyped
  <2>3. TaskWaits'
    BY <2>1, <2>2 DEF TaskWaits
  <2>4. FailureInv'
    BY <2>1, <2>2 DEF FailureInv
  <2>5. QED
    BY <2>1, <2>3, <2>4 DEF V!DoneIsPublished
<1>8. ASSUME NEW r \in Req, V!GiveUp(r)  PROVE TaskWaits' /\ FailureInv' /\ V!DoneIsPublished'
  <2>1. /\ ask[r].pc # "idle" /\ ask[r].by = "task"
        /\ ask' = [ask EXCEPT ![r] = [ask[r] EXCEPT !.by = "nobody"]]
        /\ task' = (IF task = "asked" THEN "fail" ELSE "failed") /\ UNCHANGED <<tries, status, failedLate>>
    BY <1>8 DEF V!GiveUp
  <2>2. /\ ask'[r] = [ask[r] EXCEPT !.by = "nobody"] /\ \A x \in Req : x # r => ask'[x] = ask[x]
    BY <2>1, AskTyped
  <2>3. ask'[r].pc = ask[r].pc /\ ask'[r].by = "nobody" /\ ask[r].pc # "failed"
    BY <2>1, <2>2, AskFields DEF TaskWaits
  <2>4. task \in {"asked", "retry"}
    BY <2>1 DEF TaskWaits
  <2>5. TaskWaits'
    BY <2>1, <2>2, <2>3 DEF TaskWaits
  <2>6. FailureInv'
    BY <2>1, <2>2, <2>3, <2>4 DEF FailureInv
  <2>7. QED
    BY <2>1, <2>5, <2>6 DEF V!DoneIsPublished
\* The server's steps.
<1>9. ASSUME NEW r \in Req, V!ReadStatus(r) \/ V!Head(r)
      PROVE  TaskWaits' /\ FailureInv' /\ V!DoneIsPublished'
  <2>1. /\ ask[r].pc \in {"published", "head"} /\ UNCHANGED <<tries, status, failedLate>>
        /\ \/ V!Answer(r, FALSE)
           \/ /\ \E pc \in {"unprivate", "head", "publish"} : ask' = [ask EXCEPT ![r] = [ask[r] EXCEPT !.pc = pc]]
              /\ task' = task
    BY <1>9 DEF V!ReadStatus, V!Head, V!To
  <2>2. CASE V!Answer(r, FALSE)
    BY <2>1, <2>2, Answered
  <2>3. ASSUME NEW pc \in {"unprivate", "head", "publish"}, ask' = [ask EXCEPT ![r] = [ask[r] EXCEPT !.pc = pc]],
               task' = task
        PROVE  TaskWaits' /\ FailureInv' /\ V!DoneIsPublished'
    <3>1. ask'[r] = [ask[r] EXCEPT !.pc = pc] /\ \A x \in Req : x # r => ask'[x] = ask[x]
      BY <2>3, AskTyped
    <3>2. ask'[r].pc = pc /\ ask'[r].by = ask[r].by
      BY <2>1, <3>1, AskFields
    <3>3. QED
      BY <2>1, <2>3, <3>1, <3>2, GoesOn
  <2>4. QED
    BY <2>1, <2>2, <2>3
<1>10. ASSUME NEW r \in Req, V!Publish(r) \/ V!Hide(r) \/ V!Unhide(r)
       PROVE  TaskWaits' /\ FailureInv' /\ V!DoneIsPublished'
  <2>1. /\ ask[r].pc \in {"publish", "private", "unprivate"} /\ UNCHANGED <<tries, failedLate>>
        /\ \/ /\ UNCHANGED status
              /\ \E ok \in BOOLEAN :
                    /\ V!Answer(r, ok)
                    /\ ok => status \in {"published", "private"} \/ (ask[r].pc = "publish" /\ status \notin {"created", "deleted"})
           \/ /\ \E kind \in {"created", "switched"} :
                    ask' = [ask EXCEPT ![r] = [pc |-> "announce", kind |-> kind, by |-> ask[r].by, turn |-> turns']]
              /\ status' \in {"published", "private"} /\ task' = task
    BY <1>10 DEF V!Publish, V!Hide, V!Unhide, V!SwitchPrivate, V!Turn, V!Stays, V!Announcing
  <2>2. ASSUME NEW ok \in BOOLEAN, V!Answer(r, ok), UNCHANGED status,
               ok => status \in {"published", "private"} \/ (ask[r].pc = "publish" /\ status \notin {"created", "deleted"})
        PROVE  TaskWaits' /\ FailureInv' /\ V!DoneIsPublished'
    <3>1. ask[r].by = "task" => task = "asked"
      BY <2>1 DEF TaskWaits
    <3>2. status # "none" /\ (status = "failed" => failedLate \/ task \in {"failed", "retry"})
      BY <2>1 DEF FailureInv
    <3>3. ok => status \in Shown \/ failedLate \/ ask[r].by # "task"
      BY <1>0, <2>2, <3>1, <3>2 DEF Status, Shown
    <3>4. QED
      BY <2>1, <2>2, <3>3, Answered
  <2>3. ASSUME NEW kind \in {"created", "switched"}, status' \in {"published", "private"}, task' = task,
               ask' = [ask EXCEPT ![r] = [pc |-> "announce", kind |-> kind, by |-> ask[r].by, turn |-> turns']]
        PROVE  TaskWaits' /\ FailureInv' /\ V!DoneIsPublished'
    <3>1. ask'[r].pc = "announce" /\ ask'[r].by = ask[r].by /\ \A x \in Req : x # r => ask'[x] = ask[x]
      BY <2>3, AskTyped
    <3>2. status' \in Shown
      BY <2>3 DEF Shown
    <3>3. QED
      BY <2>1, <2>3, <3>1, <3>2, GoesOn
  <2>4. QED
    BY <2>1, <2>2, <2>3
<1>11. ASSUME NEW r \in Req, V!MarkFailed(r)  PROVE TaskWaits' /\ FailureInv' /\ V!DoneIsPublished'
  <2>1. /\ ask[r].pc = "failed" /\ V!Answer(r, TRUE) /\ tries' = tries
        /\ status' = (IF status = "created" THEN "failed" ELSE status)
        /\ failedLate' = (failedLate \/ (status = "created" /\ ask[r].try < tries))
    BY <1>11 DEF V!MarkFailed, V!Turn, V!Stays
  <2>2. /\ ask[r].by = "nobody" /\ ask[r].try \in Nat /\ ask[r].try <= tries /\ (ask[r].try = tries => task = "failed")
    BY <2>1, AskFields DEF FailureInv
  <2>3. ask'[r].pc = "idle" /\ (\A x \in Req : x # r => ask'[x] = ask[x]) /\ task' = task /\ TaskWaits'
    BY <2>1, <2>2, AnswerTo
  <2>4. status = "created" /\ ~failedLate' => task = "failed"
    <3>1. ask[r].try < tries \/ task = "failed"
      BY <1>0, <2>2
    <3>2. QED
      BY <2>1, <3>1, Zenon
  <2>5. FailureInv'
    BY <2>1, <2>3, <2>4 DEF FailureInv, Shown
  <2>6. V!DoneIsPublished'
    BY <2>1, <2>3 DEF V!DoneIsPublished
  <2>7. QED
    BY <2>3, <2>5, <2>6
<1>12. ASSUME NEW r \in Req, V!MarkCreated(r)  PROVE TaskWaits' /\ FailureInv' /\ V!DoneIsPublished'
  <2>1. /\ ask[r].pc = "created" /\ \E ok \in BOOLEAN : V!Answer(r, ok)
        /\ tries' = tries /\ status' = (IF status = "failed" THEN "created" ELSE status)
        /\ failedLate' = (failedLate /\ ask[r].by # "task")
    BY <1>12 DEF V!MarkCreated, V!Turn, V!Stays
  <2>2. /\ ask'[r].pc = "idle" /\ (\A x \in Req : x # r => ask'[x] = ask[x]) /\ TaskWaits'
        /\ \/ ask[r].by # "task" /\ task' = task
           \/ ask[r].by = "task" /\ task = "retry" /\ task' \in {"cover", "failed"}
    BY <2>1, AnswerTo
  <2>3. FailureInv'
    BY <2>1, <2>2 DEF FailureInv, Shown
  <2>4. V!DoneIsPublished'
    BY <2>1, <2>2 DEF V!DoneIsPublished
  <2>5. QED
    BY <2>2, <2>3, <2>4
<1>13. ASSUME NEW r \in Req, ask[r].pc \in {"delete", "row", "cleanup"}, ask[r].by # "task",
              \A x \in Req : x # r => ask'[x] = ask[x],
              ask'[r].pc = "idle" \/ (ask'[r].pc \in {"row", "cleanup", "announce"} /\ ask'[r].by # "task"),
              ask'[r].pc = "announce" => status' \in Shown, status' = status \/ status' \in Shown,
              UNCHANGED <<task, tries, failedLate>>
       PROVE  TaskWaits' /\ FailureInv' /\ V!DoneIsPublished'
  <2>1. TaskWaits'
    BY <1>13 DEF TaskWaits
  <2>2. FailureInv'
    BY <1>13 DEF FailureInv, Shown
  <2>3. V!DoneIsPublished'
    BY <1>13 DEF V!DoneIsPublished, Shown
  <2>4. QED
    BY <2>1, <2>2, <2>3
<1>14. ASSUME NEW r \in Req, V!ReadForDelete(r)  PROVE TaskWaits' /\ FailureInv' /\ V!DoneIsPublished'
  <2>1. /\ \/ ask' = [ask EXCEPT ![r] = V!Idle]
           \/ ask' = [ask EXCEPT ![r] = [pc |-> "row", by |-> "nobody", was |-> status]]
        /\ ask[r].pc = "delete" /\ UNCHANGED <<task, tries, status, failedLate>>
    BY <1>14 DEF V!ReadForDelete, V!client
  <2>2. ask[r].by # "task"
    BY <2>1 DEF TaskWaits
  <2>3. CASE ask' = [ask EXCEPT ![r] = V!Idle]
    <3>1. ask'[r].pc = "idle" /\ \A x \in Req : x # r => ask'[x] = ask[x]
      BY <2>3, AskTyped DEF V!Idle
    <3>2. QED
      BY <1>13, <2>1, <2>2, <3>1
  <2>4. CASE ask' = [ask EXCEPT ![r] = [pc |-> "row", by |-> "nobody", was |-> status]]
    <3>1. ask'[r].pc = "row" /\ ask'[r].by = "nobody" /\ \A x \in Req : x # r => ask'[x] = ask[x]
      BY <2>4, AskTyped
    <3>2. QED
      BY <1>13, <2>1, <2>2, <3>1
  <2>5. QED
    BY <2>1, <2>3, <2>4
<1>15. ASSUME NEW r \in Req, V!DeleteRow(r)  PROVE TaskWaits' /\ FailureInv' /\ V!DoneIsPublished'
  <2>1. /\ \/ ask' = [ask EXCEPT ![r] = [ask[r] EXCEPT !.pc = "cleanup"]]
           \/ ask' = [ask EXCEPT ![r] = [pc |-> "announce", kind |-> "deleted", by |-> ask[r].by, turn |-> turns']]
        /\ ask[r].pc = "row" /\ status' = "deleted" /\ UNCHANGED <<task, tries, failedLate>>
    BY <1>15 DEF V!DeleteRow, V!Turn, V!To, V!Announcing, V!client
  <2>2. ask[r].by = "nobody"
    BY <2>1, AskFields
  <2>3. status' \in Shown
    BY <2>1 DEF Shown
  <2>4. CASE ask' = [ask EXCEPT ![r] = [ask[r] EXCEPT !.pc = "cleanup"]]
    <3>1. ask'[r] = [ask[r] EXCEPT !.pc = "cleanup"] /\ \A x \in Req : x # r => ask'[x] = ask[x]
      BY <2>4, AskTyped
    <3>2. ask'[r].pc = "cleanup" /\ ask'[r].by = "nobody"
      BY <2>1, <3>1, AskFields
    <3>3. QED
      BY <1>13, <2>1, <2>2, <2>3, <3>1, <3>2
  <2>5. CASE ask' = [ask EXCEPT ![r] = [pc |-> "announce", kind |-> "deleted", by |-> ask[r].by, turn |-> turns']]
    <3>1. ask'[r].pc = "announce" /\ ask'[r].by = ask[r].by /\ \A x \in Req : x # r => ask'[x] = ask[x]
      BY <2>5, AskTyped
    <3>2. QED
      BY <1>13, <2>1, <2>2, <2>3, <3>1
  <2>6. QED
    BY <2>1, <2>4, <2>5
<1>16. ASSUME NEW r \in Req, V!Cleanup(r)  PROVE TaskWaits' /\ FailureInv' /\ V!DoneIsPublished'
  <2>1. ask' = [ask EXCEPT ![r] = V!Idle] /\ ask[r].pc = "cleanup" /\ UNCHANGED <<task, tries, status, failedLate>>
    BY <1>16 DEF V!Cleanup, V!client
  <2>2. ask'[r].pc = "idle" /\ \A x \in Req : x # r => ask'[x] = ask[x]
    BY <2>1, AskTyped DEF V!Idle
  <2>3. ask[r].by = "nobody"
    BY <2>1, AskFields
  <2>4. QED
    BY <1>13, <2>1, <2>2, <2>3
<1>17. ASSUME NEW r \in Req, V!AnnounceOk(r) \/ V!AnnounceFails(r)
       PROVE  TaskWaits' /\ FailureInv' /\ V!DoneIsPublished'
  <2>1. \E ok \in BOOLEAN : V!Answer(r, ok)
    BY <1>17 DEF V!AnnounceOk, V!AnnounceFails
  <2>2. ask[r].pc = "announce" /\ UNCHANGED <<status, tries, failedLate>>
    BY <1>17 DEF V!AnnounceOk, V!AnnounceFails
  <2>3. status \in Shown
    BY <2>2 DEF FailureInv
  <2>4. QED
    BY <2>1, <2>2, <2>3, Answered
<1>18. CASE V!Restart
  <2>1. /\ \A r \in Req : ask'[r].pc = "idle"
        /\ task' = (IF task = "asked" THEN "fail" ELSE IF task = "retry" THEN "failed" ELSE task)
        /\ UNCHANGED <<tries, status, failedLate>>
    BY <1>18 DEF V!Restart, V!Idle
  <2>2. QED
    BY <2>1 DEF TaskWaits, FailureInv, V!DoneIsPublished
<1>19. CASE \/ \E e \in news : V!DeleteFiles(e) \/ V!DeadLetter(e)
            \/ \E w \in Listener, e \in news : V!CountByAuthor(w, e)
            \/ \E w \in Listener : V!SyncVideoCount(w)
            \/ V!RebuildContentCounts
  <2>1. UNCHANGED <<ask, task, tries, status, failedLate>>
    BY <1>19 DEF V!DeleteFiles, V!DeadLetter, V!CountByAuthor, V!SyncVideoCount, V!RebuildContentCounts, V!client
  <2>2. QED
    BY <1>1, <2>1
<1>20. QED
  BY <1>2, <1>3, <1>4, <1>5, <1>6, <1>7, <1>8, <1>9, <1>10, <1>11, <1>12, <1>14, <1>15, <1>16, <1>17, <1>18, <1>19
     DEF V!Next

LEMMA VideoNext == VideoInv /\ V!Next => VideoInv'
<1> SUFFICES ASSUME VideoInv, V!Next PROVE VideoInv'
  OBVIOUS
<1>1. AskOk' /\ CountersOnly'
  BY AskOkNext, CountersNext DEF VideoInv
<1>2. DeletedInv' /\ FilesInv' /\ FilesGo'
  BY FilesNext DEF VideoInv, FileInv
<1>3. NewestCount' /\ LastTurnHeard'
  BY CountNext DEF VideoInv, CountInv
<1>4. TaskWaits' /\ FailureInv' /\ V!DoneIsPublished'
  BY TaskNext DEF VideoInv, TaskInv
<1>5. QED
  BY <1>1, <1>2, <1>3, <1>4 DEF VideoInv

\* The other parts leave the video alone.
LEMMA VideoStays == VideoInv /\ UNCHANGED videos => VideoInv'
<1> SUFFICES ASSUME VideoInv, UNCHANGED videos PROVE VideoInv'
  OBVIOUS
<1>1. AskOk' /\ CountersOnly'
  BY DEF VideoInv, videos, AskOk, CountersOnly
<1>2. DeletedInv' /\ FilesInv' /\ FilesGo'
  BY DEF VideoInv, videos, DeletedInv, FilesInv, FilesGo
<1>3. NewestCount' /\ LastTurnHeard'
  BY DEF VideoInv, videos, NewestCount, LastTurnHeard, V!Count, V!Listed
<1>4. TaskWaits' /\ FailureInv' /\ V!DoneIsPublished'
  BY DEF VideoInv, videos, TaskWaits, FailureInv, V!DoneIsPublished
<1>5. QED
  BY <1>1, <1>2, <1>3, <1>4 DEF VideoInv

LEMMA VideoTypes == VideoInv => V!TypeOK
<1> SUFFICES ASSUME VideoInv PROVE V!TypeOK
  OBVIOUS
<1>1. \A e \in news : e.turn <= turns
  BY DEF VideoInv, AskOk, NewsSet
<1>2. \A r \in Req : ask[r].pc \in {"idle", "published", "private", "failed", "created", "delete", "head",
                                    "publish", "unprivate", "row", "cleanup", "announce"}
  BY AskFields DEF VideoInv
<1>3. countTurns <= turns
  BY DEF VideoInv, AskOk
<1>4. QED
  BY <1>1, <1>2, <1>3 DEF VideoInv, AskOk, V!TypeOK, Status

LEMMA FilesFollow == VideoInv => V!FilesFollowRow
  BY DEF VideoInv, FilesInv, FilesGo, V!FilesFollowRow, V!Settled

LEMMA CountFollows == VideoInv => V!CountFollowsVideo
  BY DEF VideoInv, NewestCount, LastTurnHeard, V!CountFollowsVideo, V!Settled, V!Count, V!Listed

-----------------------------------------------------------------------------
(* The follows: the invariant *)

Event == [u : User, on : BOOLEAN, n : Nat]
Cause == {"unchanged", "unpublished", "rollback", "reordered", "deadLetter", "copied", "restored",
          "redisLost", "staleWrite"}

\* What the workers and the commands carry.
Job == [pc : {"following"}, e : Event, val : 0 .. 1, ver : Nat]
       \union [pc : {"followers"}, e : Event, val : 0 .. Cardinality(User), ver : Nat]
Adding == [pc : {"add"}, todo : SUBSET User, doubtful : SUBSET User, ver : Nat, recount : BOOLEAN]
Tool ==
    {Idle}
    \union [pc : {"keys"}, todo : SUBSET User]
    \union [pc : {"insert"}, todo : SUBSET User, u : User, ver : Nat]
    \union Adding
    \union [pc : {"reverse"}, u : User, next : Adding]
    \union [pc : {"following"}, val : [User -> 0 .. 1], ver : Nat]
    \union [pc : {"followers"}, val : 0 .. Cardinality(User), ver : Nat]

SetTypes ==
    /\ fwd \in SUBSET User /\ rev \in SUBSET User /\ split \in SUBSET User
    /\ wish \in [User -> BOOLEAN] /\ setCause \in [User -> SUBSET Cause]
    /\ ver \in Nat /\ last \in [Counter -> Nat]
CauseTypes == rowCause \in [User -> SUBSET Cause] /\ countCause \in [Counter -> SUBSET Cause]
RowTypes == rows \in SUBSET User /\ applied \in [User -> Nat]
CountTypes ==
    /\ count \in [Counter -> Nat] /\ countVer \in [Counter -> Nat]
    /\ \A c \in Counter : count[c] <= (IF c = Author THEN Cardinality(User) ELSE 1)
QueueTypes ==
    /\ req \in [Req -> [pc : {"publish", "rollback"}, u : User, on : BOOLEAN, n : Nat] \union {Idle}]
    /\ group \in {"follow", "user"} /\ inbox \in SUBSET Event
RunTypes == work \in [Worker -> Job \union {Idle}] /\ tool \in Tool
FollowTypes == SetTypes /\ CauseTypes /\ RowTypes /\ CountTypes /\ QueueTypes /\ RunTypes

\* The switches that the group will receive, or that a request holds.
Carried == inbox \union {Switched(r) : r \in {x \in Req : Publishing(x)}}

\* Nothing is numbered, read or applied ahead of the sets.
NumbersInOrder ==
    /\ \A c \in Counter : last[c] <= ver /\ countVer[c] <= ver
    /\ \A u \in User : applied[u] <= ver
    /\ \A e \in Carried : e.n <= ver
    /\ \A w \in Worker : work[w].pc # "idle" => work[w].e.n <= work[w].ver /\ work[w].ver <= ver
    /\ tool.pc \in {"insert", "add", "following", "followers"} => tool.ver <= ver
    /\ tool.pc = "reverse" => tool.next.ver <= ver

\* A user of whom a command has added one direction is in it, unless the sets changed.
BetweenInv == tool.pc = "reverse" /\ tool.u \notin split => tool.u \in fwd

\* The users whom a command adds as the table's row says wanted it, unless the
\* row need not be right, or their set has changed since.
Wanted(a) == \A u \in a.todo \ a.doubtful :
                last[u] <= a.ver /\ "unchanged" \notin rowCause[u] => wish[u]
ToolInv ==
    /\ tool.pc = "insert" /\ last[tool.u] <= tool.ver => tool.u \in fwd
    /\ tool.pc = "add" => Wanted(tool)
    /\ tool.pc = "reverse" => Wanted(tool.next)

\* Without a cause, the newest switch of u that is carried says what u wishes,
\* unless a newer one was applied; when there is none, the row does.
Newest(e) == \A f \in Carried : f.u = e.u => f.n <= e.n
NewestFor(u) ==
    rowCause[u] = {} =>
        /\ \A e \in Carried : e.u = u /\ applied[u] <= e.n /\ Newest(e) => (e.on <=> wish[u])
        /\ (\A f \in Carried : f.u = u => f.n <= applied[u]) => (u \in rows <=> wish[u])
NewestIsWish == group = "follow" => \A u \in User : NewestFor(u)

\* The handler with two steps is the one of the group "user".
UserWorks == \A w \in Worker : work[w].pc # "idle" => group = "user"

\* A size that was read since its set last changed is the set's.
CountSize == \A c \in Counter : last[c] <= countVer[c] => count[c] = Size(c)
JobSize(j) ==
    /\ j.pc = "following" /\ last[j.e.u] <= j.ver => j.val = Size(j.e.u)
    /\ j.pc = "followers" /\ last[Author] <= j.ver => j.val = Size(Author)
ToolSize(t) ==
    /\ t.pc = "following" => \A u \in User : last[u] <= t.ver => t.val[u] = Size(u)
    /\ t.pc = "followers" /\ last[Author] <= t.ver => t.val = Size(Author)
NewestSize == CountSize /\ (\A w \in Worker : JobSize(work[w])) /\ ToolSize(tool)

\* A worker has written the follower's count before it reads the author's.
FollowerFirst ==
    \A w \in Worker : work[w].pc = "followers" =>
        LET u == work[w].e.u
        IN  countCause[u] = {} /\ last[u] <= work[w].e.n => last[u] <= countVer[u]

\* Without a cause, the last change of a set is counted or carried.
LastChangeHeard ==
    group = "user" => \A c \in Counter : countCause[c] = {} =>
        last[c] <= countVer[c] \/ \E e \in Carried : e.n = last[c] /\ c \in {e.u, Author}

FollowInv ==
    /\ FollowTypes /\ NumbersInOrder /\ UserWorks /\ DirectionsAgree /\ BetweenInv /\ WishKept /\ ToolInv
    /\ NewestIsWish /\ NewestSize /\ FollowerFirst /\ LastChangeHeard

-----------------------------------------------------------------------------
(* The follows: which steps change what *)

LEMMA SetSteps ==
    ASSUME Next
    PROVE  \/ UNCHANGED sets
           \/ \E r \in Req, u \in User, on \in BOOLEAN : SetUnchanged(r, u, on) \/ SetChanged(r, u, on)
           \/ \E r \in Req : Rollback(r)
           \/ \E u \in User : AddForward(u)
           \/ AddReverse \/ Stop \/ LoseRedis
  BY DEF Next, PublishOk, PublishFails, CopyToRows, CountFollowing, CountFollowers, SyncFollowerCount,
         HandlerFails, DeadLetter, ScanKeys, Members, InsertRow, SelectRows, Select, RestoreSets, EndRestore,
         ScanFollowing, ScanFollowers, EndRecount, Restart

LEMMA RowSteps ==
    ASSUME Next
    PROVE  UNCHANGED <<rows, applied>> \/ (\E e \in inbox : CopyToRows(e)) \/ InsertRow
  BY DEF Next, SetUnchanged, SetChanged, Rollback, AddForward, AddReverse, Stop, LoseRedis,
         PublishOk, PublishFails, CountFollowing, CountFollowers, SyncFollowerCount,
         HandlerFails, DeadLetter, ScanKeys, Members, SelectRows, Select, RestoreSets, EndRestore,
         ScanFollowing, ScanFollowers, EndRecount, Restart, tables

LEMMA CountSteps ==
    ASSUME Next
    PROVE  \/ UNCHANGED <<count, countVer>>
           \/ \E w \in Worker : CountFollowers(w) \/ SyncFollowerCount(w)
           \/ ScanFollowers \/ EndRecount
  BY DEF Next, SetUnchanged, SetChanged, Rollback, AddForward, AddReverse, Stop, LoseRedis,
         PublishOk, PublishFails, CountFollowing, CopyToRows, InsertRow,
         HandlerFails, DeadLetter, ScanKeys, Members, SelectRows, Select, RestoreSets, EndRestore,
         ScanFollowing, Restart, tables

LEMMA QueueSteps ==
    ASSUME Next
    PROVE  /\ UNCHANGED group
           /\ \/ UNCHANGED <<req, inbox>>
              \/ \E r \in Req, u \in User, on \in BOOLEAN : SetChanged(r, u, on)
              \/ \E r \in Req : PublishOk(r) \/ PublishFails(r) \/ Rollback(r)
              \/ \E e \in inbox : CopyToRows(e) \/ DeadLetter(e)
              \/ \E w \in Worker : SyncFollowerCount(w)
              \/ Restart
  BY DEF Next, SetUnchanged, SetChanged, PublishOk, PublishFails, Rollback, CopyToRows, SyncFollowerCount, DeadLetter,
         Restart, AddForward, AddReverse, Stop, LoseRedis, CountFollowing, CountFollowers, InsertRow, HandlerFails,
         ScanKeys, Members, SelectRows, Select, RestoreSets, EndRestore, ScanFollowing, ScanFollowers, EndRecount, Run

LEMMA WorkSteps ==
    ASSUME Next
    PROVE  \/ UNCHANGED work
           \/ \E w \in Worker, e \in inbox : CountFollowing(w, e)
           \/ \E w \in Worker : CountFollowers(w) \/ SyncFollowerCount(w) \/ HandlerFails(w)
           \/ Restart
  BY DEF Next, SetUnchanged, SetChanged, PublishOk, PublishFails, Rollback, CopyToRows, DeadLetter,
         AddForward, AddReverse, Stop, LoseRedis, InsertRow,
         ScanKeys, Members, SelectRows, Select, RestoreSets, EndRestore, ScanFollowing, ScanFollowers, EndRecount, Run

LEMMA ToolSteps ==
    ASSUME Next
    PROVE  \/ UNCHANGED tool
           \/ \E u \in User : Members(u) \/ AddForward(u)
           \/ ScanKeys \/ InsertRow \/ SelectRows \/ RestoreSets \/ AddReverse \/ EndRestore
           \/ ScanFollowing \/ ScanFollowers \/ EndRecount \/ Stop
  BY DEF Next, SetUnchanged, SetChanged, PublishOk, PublishFails, Rollback, CopyToRows, SyncFollowerCount, DeadLetter,
         Restart, LoseRedis, CountFollowing, CountFollowers, HandlerFails

LEMMA RowCauseSteps ==
    ASSUME Next
    PROVE  \/ UNCHANGED rowCause
           \/ \E r \in Req, u \in User, on \in BOOLEAN : SetUnchanged(r, u, on) \/ SetChanged(r, u, on)
           \/ \E r \in Req : Rollback(r)
           \/ \E e \in inbox : CopyToRows(e) \/ DeadLetter(e)
           \/ InsertRow \/ Restart
  BY DEF Next, PublishOk, PublishFails, SyncFollowerCount, AddForward, AddReverse, Stop, LoseRedis, CountFollowing,
         CountFollowers, HandlerFails, ScanKeys, Members, SelectRows, Select, RestoreSets, EndRestore,
         ScanFollowing, ScanFollowers, EndRecount, causes

LEMMA CountCauseSteps ==
    ASSUME Next
    PROVE  \/ UNCHANGED countCause
           \/ \E r \in Req, u \in User, on \in BOOLEAN : SetChanged(r, u, on)
           \/ \E r \in Req : Rollback(r)
           \/ \E e \in inbox : DeadLetter(e)
           \/ \E w \in Worker : CountFollowers(w) \/ SyncFollowerCount(w)
           \/ \E u \in User : AddForward(u)
           \/ AddReverse \/ ScanFollowers \/ EndRecount \/ LoseRedis \/ Restart
  BY DEF Next, SetUnchanged, PublishOk, PublishFails, Stop, CountFollowing, CopyToRows, InsertRow, HandlerFails,
         ScanKeys, Members, SelectRows, Select, RestoreSets, EndRestore, ScanFollowing, causes

-----------------------------------------------------------------------------
(* The follows: types *)

LEMMA SetSize ==
    ASSUME NEW X \in SUBSET User
    PROVE  Cardinality(X) \in Nat /\ Cardinality(X) <= Cardinality(User)
  BY UserAssumption, FS_Subset, FS_CardinalityType

LEMMA Counters == Author \in Counter /\ User \subseteq Counter /\ Author \notin User /\ Cardinality(User) \in Nat
  BY UserAssumption, FS_CardinalityType DEF Counter

\* What c counts, and how far.
LEMMA SizeType ==
    ASSUME SetTypes, NEW c \in Counter
    PROVE  Size(c) \in Nat /\ (IF c = Author THEN Size(c) <= Cardinality(User) ELSE Size(c) \in 0 .. 1)
  BY SetSize DEF SetTypes, Size

LEMMA ReqFields ==
    ASSUME QueueTypes, NEW r \in Req, Publishing(r)
    PROVE  /\ req[r] \in [pc : {"publish", "rollback"}, u : User, on : BOOLEAN, n : Nat]
           /\ Switched(r) \in Event /\ Switched(r).u = req[r].u /\ Switched(r).n = req[r].n
           /\ Switched(r).on = req[r].on
           /\ req[r].u \in User /\ req[r].on \in BOOLEAN /\ req[r].n \in Nat
  BY DEF QueueTypes, Publishing, Switched, Idle, Event

LEMMA CarriedType == QueueTypes => Carried \in SUBSET Event
<1> SUFFICES ASSUME QueueTypes PROVE Carried \in SUBSET Event
  OBVIOUS
<1>1. \A r \in Req : Publishing(r) => Switched(r) \in Event
  BY ReqFields
<1>2. QED
  BY <1>1 DEF Carried, QueueTypes

LEMMA JobFields ==
    ASSUME RunTypes, NEW w \in Worker
    PROVE  /\ work[w].pc \in {"idle", "following", "followers"}
           /\ work[w].pc # "idle" =>
                 work[w] \in Job /\ work[w].e \in Event /\ work[w].e.u \in User /\ work[w].e.n \in Nat
                 /\ work[w].ver \in Nat /\ work[w].val \in Nat
           /\ work[w].pc = "following" => work[w].val \in 0 .. 1
           /\ work[w].pc = "followers" => work[w].val \in 0 .. Cardinality(User)
<1>1. work[w] \in Job \/ work[w] = Idle
  BY DEF RunTypes
<1>2. CASE work[w] = Idle
  BY <1>2 DEF Idle
<1>3. CASE work[w] \in [pc : {"following"}, e : Event, val : 0 .. 1, ver : Nat]
  BY <1>3 DEF Job, Event
<1>4. CASE work[w] \in [pc : {"followers"}, e : Event, val : 0 .. Cardinality(User), ver : Nat]
  BY <1>4, Counters DEF Job, Event
<1>5. QED
  BY <1>1, <1>2, <1>3, <1>4 DEF Job

LEMMA ToolFields ==
    ASSUME RunTypes
    PROVE  /\ tool.pc \in {"idle", "keys", "insert", "add", "reverse", "following", "followers"}
           /\ tool.pc = "keys" => tool \in [pc : {"keys"}, todo : SUBSET User]
           /\ tool.pc = "insert" => tool \in [pc : {"insert"}, todo : SUBSET User, u : User, ver : Nat]
           /\ tool.pc = "add" => tool \in Adding
           /\ tool.pc = "reverse" => tool \in [pc : {"reverse"}, u : User, next : Adding]
           /\ tool.pc = "following" => tool \in [pc : {"following"}, val : [User -> 0 .. 1], ver : Nat]
           /\ tool.pc = "followers" => tool \in [pc : {"followers"}, val : 0 .. Cardinality(User), ver : Nat]
  BY DEF RunTypes, Tool, Idle, Adding

LEMMA FollowTypesInit == Init => FollowTypes
<1> SUFFICES ASSUME Init PROVE FollowTypes
  OBVIOUS
<1>1. SetTypes /\ CauseTypes /\ RowTypes
  BY DEF Init, SetTypes, CauseTypes, RowTypes
<1>2. CountTypes
  <2>1. \A c \in Counter : Size(c) \in Nat /\ Size(c) <= (IF c = Author THEN Cardinality(User) ELSE 1)
    BY <1>1, SizeType
  <2>2. QED
    BY <2>1 DEF Init, CountTypes
<1>3. QueueTypes /\ RunTypes
  BY DEF Init, QueueTypes, RunTypes, Tool
<1>4. QED
  BY <1>1, <1>2, <1>3 DEF FollowTypes

\* What a step leaves of last: the number it had, or a new one.
LEMMA Numbering ==
    ASSUME SetTypes
    PROVE  \A c \in Counter : Numbered[c] = IF c \in Changed THEN ver + 1 ELSE last[c]
  BY DEF Numbered

LEMMA SetTypesNext == FollowTypes /\ Next => SetTypes'
<1> SUFFICES ASSUME FollowTypes, Next PROVE SetTypes'
  OBVIOUS
<1> USE DEF FollowTypes
<1>1. CASE UNCHANGED sets
  BY <1>1 DEF sets, SetTypes
<1>2. ASSUME NEW u \in User, NEW on \in BOOLEAN, Written(u, on)  PROVE SetTypes'
  <2>1. fwd' \in SUBSET User /\ rev' \in SUBSET User /\ split' \in SUBSET User
    BY <1>2 DEF Written, SetScript, SetTypes
  <2>2. wish' \in [User -> BOOLEAN] /\ setCause' \in [User -> SUBSET Cause] /\ ver' \in Nat
    BY <1>2 DEF Written, SetTypes
  <2>3. last' \in [Counter -> Nat]
    BY <1>2 DEF Written, SetTypes
  <2>4. QED
    BY <2>1, <2>2, <2>3 DEF SetTypes
<1>3. ASSUME NEW r \in Req, NEW u \in User, NEW on \in BOOLEAN, SetUnchanged(r, u, on)  PROVE SetTypes'
  BY <1>3 DEF SetUnchanged, SetTypes
<1>4. ASSUME NEW r \in Req, NEW u \in User, NEW on \in BOOLEAN, SetChanged(r, u, on)  PROVE SetTypes'
  BY <1>2, <1>4 DEF SetChanged
<1>5. ASSUME NEW r \in Req, Rollback(r)  PROVE SetTypes'
  <2>1. req[r].u \in User /\ (~req[r].on) \in BOOLEAN
    BY <1>5, ReqFields DEF Rollback, Publishing
  <2>2. Written(req[r].u, ~req[r].on) \/ UNCHANGED sets
    BY <1>5 DEF Rollback
  <2>3. QED
    BY <1>1, <1>2, <2>1, <2>2
<1>6. ver \in Nat /\ (last' = Numbered => last' \in [Counter -> Nat])
  BY DEF SetTypes, Numbered
<1>7. ASSUME NEW u \in User, AddForward(u)  PROVE SetTypes'
  <2>1. setCause' \in [User -> SUBSET Cause]
    BY <1>7 DEF AddForward, SetTypes, Cause
  <2>2. QED
    BY <1>6, <1>7, <2>1 DEF AddForward, SetTypes
<1>8. CASE AddReverse
  <2>1. tool.u \in User
    BY <1>8, ToolFields DEF AddReverse
  <2>2. QED
    BY <1>6, <1>8, <2>1 DEF AddReverse, SetTypes
<1>9. CASE Stop
  <2>1. tool.pc = "reverse" => tool.u \in User
    BY ToolFields
  <2>2. QED
    BY <1>9, <2>1 DEF Stop, SetTypes
<1>10. CASE LoseRedis
  <2>1. tool.pc = "reverse" => tool.u \in User
    BY ToolFields
  <2>2. setCause' \in [User -> SUBSET Cause]
    BY <1>10 DEF LoseRedis, SetTypes, Cause
  <2>3. QED
    BY <1>6, <1>10, <2>1, <2>2 DEF LoseRedis, SetTypes
<1>11. QED
  BY <1>1, <1>3, <1>4, <1>5, <1>7, <1>8, <1>9, <1>10, SetSteps

LEMMA CauseTypesNext == FollowTypes /\ Next => CauseTypes'
<1> SUFFICES ASSUME FollowTypes, Next PROVE CauseTypes'
  OBVIOUS
<1> USE DEF FollowTypes
<1>1. rowCause' \in [User -> SUBSET Cause]
  <2>0. rowCause \in [User -> SUBSET Cause]
    BY DEF CauseTypes
  <2>1. ASSUME NEW u, NEW why \in SUBSET Cause, rowCause' = With(rowCause, u, why)
        PROVE  rowCause' \in [User -> SUBSET Cause]
    BY <2>0, <2>1 DEF With
  <2>2. /\ {"unchanged"} \in SUBSET Cause /\ {"rollback"} \in SUBSET Cause /\ {"reordered"} \in SUBSET Cause
        /\ {"deadLetter"} \in SUBSET Cause /\ {"copied"} \in SUBSET Cause
        /\ {"unpublished"} \in SUBSET Cause
    BY DEF Cause
  <2>3. ASSUME NEW r \in Req, NEW u \in User, NEW on \in BOOLEAN, SetUnchanged(r, u, on) \/ SetChanged(r, u, on)
        PROVE  rowCause' \in [User -> SUBSET Cause]
    <3>1. CASE SetUnchanged(r, u, on)
      BY <2>0, <2>1, <2>2, <3>1 DEF SetUnchanged
    <3>2. CASE SetChanged(r, u, on)
      BY <2>0, <2>2, <3>2 DEF SetChanged
    <3>3. QED
      BY <2>3, <3>1, <3>2
  <2>4. ASSUME NEW r \in Req, Rollback(r)  PROVE rowCause' \in [User -> SUBSET Cause]
    BY <2>1, <2>2, <2>4 DEF Rollback
  <2>5. ASSUME NEW e \in inbox, CopyToRows(e) \/ DeadLetter(e)  PROVE rowCause' \in [User -> SUBSET Cause]
    BY <2>0, <2>1, <2>2, <2>5 DEF CopyToRows, DeadLetter
  <2>6. CASE InsertRow
    BY <2>0, <2>1, <2>2, <2>6 DEF InsertRow
  <2>7. CASE Restart
    BY <2>0, <2>2, <2>7 DEF Restart
  <2>8. QED
    BY <2>0, <2>3, <2>4, <2>5, <2>6, <2>7, RowCauseSteps
<1>2. countCause' \in [Counter -> SUBSET Cause]
  <2>0. countCause \in [Counter -> SUBSET Cause]
    BY DEF CauseTypes
  <2>1. /\ {"unpublished"} \in SUBSET Cause /\ {"rollback"} \in SUBSET Cause /\ {"deadLetter"} \in SUBSET Cause
        /\ {"restored"} \in SUBSET Cause /\ {"redisLost"} \in SUBSET Cause /\ {"staleWrite"} \in SUBSET Cause
    BY DEF Cause
  <2>2. ASSUME NEW c, NEW val, NEW v, Write(c, val, v)  PROVE countCause' \in [Counter -> SUBSET Cause]
    BY <2>0, <2>1, <2>2 DEF Write
  <2>3. ASSUME NEW r \in Req, NEW u \in User, NEW on \in BOOLEAN, SetChanged(r, u, on)
        PROVE  countCause' \in [Counter -> SUBSET Cause]
    BY <2>0, <2>1, <2>3 DEF SetChanged
  <2>4. ASSUME NEW r \in Req, Rollback(r)  PROVE countCause' \in [Counter -> SUBSET Cause]
    BY <2>0, <2>1, <2>4 DEF Rollback
  <2>5. ASSUME NEW e \in inbox, DeadLetter(e)  PROVE countCause' \in [Counter -> SUBSET Cause]
    BY <2>0, <2>1, <2>5 DEF DeadLetter
  <2>6. ASSUME NEW w \in Worker, CountFollowers(w) \/ SyncFollowerCount(w)
        PROVE  countCause' \in [Counter -> SUBSET Cause]
    BY <2>2, <2>6 DEF CountFollowers, SyncFollowerCount
  <2>7. CASE (\E u \in User : AddForward(u)) \/ AddReverse \/ LoseRedis
    <3>1. countCause' = Unheard({"restored"}) \/ countCause' = Unheard({"redisLost"})
      BY <2>7 DEF AddForward, AddReverse, LoseRedis
    <3>2. ASSUME NEW why \in SUBSET Cause  PROVE Unheard(why) \in [Counter -> SUBSET Cause]
      BY <2>0 DEF Unheard
    <3>3. QED
      BY <2>1, <3>1, <3>2
  <2>8. CASE ScanFollowers
    <3>1. countCause' = [c \in Counter |-> countCause'[c]]
      BY <2>8 DEF ScanFollowers
    <3>2. ASSUME NEW c \in Counter  PROVE countCause'[c] \in SUBSET Cause
      <4>1. countCause'[c] \in {countCause[c], {}, countCause[c] \union {"staleWrite"}}
        <5>1. countCause'[c] = CASE c = Author -> countCause[c]
                                 [] c # Author /\ tool.ver >= last[c] -> {}
                                 [] c # Author /\ tool.ver < last[c] /\ tool.ver < countVer[c] ->
                                       countCause[c] \union {"staleWrite"}
                                 [] OTHER -> countCause[c]
          BY <2>8 DEF ScanFollowers
        <5>2. QED
          BY <5>1
      <4>2. QED
        BY <2>0, <2>1, <4>1
    <3>3. QED
      BY <3>1, <3>2
  <2>9. CASE EndRecount
    BY <2>2, <2>9 DEF EndRecount
  <2>10. CASE Restart
    BY <2>0, <2>1, <2>10 DEF Restart
  <2>11. QED
    BY <2>0, <2>3, <2>4, <2>5, <2>6, <2>7, <2>8, <2>9, <2>10, CountCauseSteps
<1>3. QED
  BY <1>1, <1>2 DEF CauseTypes

LEMMA RowTypesNext == FollowTypes /\ Next => RowTypes'
<1> SUFFICES ASSUME FollowTypes, Next PROVE RowTypes'
  OBVIOUS
<1> USE DEF FollowTypes
<1>1. ASSUME NEW e \in inbox, CopyToRows(e)  PROVE RowTypes'
  <2>1. e.u \in User /\ e.n \in Nat
    BY DEF QueueTypes, Event
  <2>2. QED
    BY <1>1, <2>1 DEF CopyToRows, RowTypes
<1>2. CASE InsertRow
  BY <1>2, ToolFields DEF InsertRow, RowTypes
<1>3. QED
  BY <1>1, <1>2, RowSteps DEF RowTypes

LEMMA CountTypesNext == FollowTypes /\ Next => CountTypes'
<1> SUFFICES ASSUME FollowTypes, Next PROVE CountTypes'
  OBVIOUS
<1> USE DEF FollowTypes
<1>1. ASSUME NEW c \in Counter, NEW val \in Nat, NEW v \in Nat, Write(c, val, v),
             val <= (IF c = Author THEN Cardinality(User) ELSE 1)
      PROVE  CountTypes'
  BY <1>1 DEF Write, CountTypes
<1>2. ASSUME NEW w \in Worker, CountFollowers(w)  PROVE CountTypes'
  <2>1. /\ work[w].e.u \in Counter /\ work[w].e.u # Author /\ work[w].val \in 0 .. 1 /\ work[w].ver \in Nat
        /\ Write(work[w].e.u, work[w].val, work[w].ver)
    BY <1>2, JobFields, Counters DEF CountFollowers
  <2>2. QED
    BY <1>1, <2>1
<1>3. ASSUME NEW w \in Worker, SyncFollowerCount(w)  PROVE CountTypes'
  <2>1. /\ work[w].val \in 0 .. Cardinality(User) /\ work[w].ver \in Nat
        /\ Write(Author, work[w].val, work[w].ver)
    BY <1>3, JobFields DEF SyncFollowerCount
  <2>2. QED
    BY <1>1, <2>1, Counters
<1>4. CASE ScanFollowers
  <2>1. tool.val \in [User -> 0 .. 1] /\ tool.ver \in Nat
    BY <1>4, ToolFields DEF ScanFollowers
  <2>2. \A c \in Counter : c # Author => c \in User
    BY DEF Counter
  <2>3. QED
    BY <1>4, <2>1, <2>2 DEF ScanFollowers, CountTypes
<1>5. CASE EndRecount
  <2>1. /\ tool.val \in 0 .. Cardinality(User) /\ tool.ver \in Nat /\ Write(Author, tool.val, tool.ver)
    BY <1>5, ToolFields DEF EndRecount
  <2>2. QED
    BY <1>1, <2>1, Counters
<1>6. CASE UNCHANGED <<count, countVer>>
  BY <1>6 DEF CountTypes
<1>7. QED
  BY <1>2, <1>3, <1>4, <1>5, <1>6, CountSteps

LEMMA QueueTypesNext == FollowTypes /\ Next => QueueTypes'
<1> SUFFICES ASSUME FollowTypes, Next PROVE QueueTypes'
  OBVIOUS
<1> USE DEF FollowTypes
<1>1. UNCHANGED group
  BY QueueSteps
<1>2. ASSUME NEW r \in Req, NEW u \in User, NEW on \in BOOLEAN, SetChanged(r, u, on)  PROVE QueueTypes'
  <2>1. ver \in Nat
    BY DEF SetTypes
  <2>2. QED
    BY <1>1, <1>2, <2>1 DEF SetChanged, QueueTypes
<1>3. ASSUME NEW r \in Req, PublishOk(r) \/ PublishFails(r) \/ Rollback(r)  PROVE QueueTypes'
  <2>1. Publishing(r)
    BY <1>3 DEF PublishOk, PublishFails, Rollback, Publishing
  <2>2. inbox' \in SUBSET Event
    BY <1>3, <2>1, ReqFields DEF PublishOk, PublishFails, Rollback, Stored, QueueTypes
  <2>3. req' = [req EXCEPT ![r] = Idle] \/ req' = [req EXCEPT ![r].pc = "rollback"]
    BY <1>3 DEF PublishOk, PublishFails, Rollback
  <2>4. QED
    BY <1>1, <2>1, <2>2, <2>3, ReqFields DEF QueueTypes
<1>4. CASE (\E e \in inbox : CopyToRows(e) \/ DeadLetter(e)) \/ (\E w \in Worker : SyncFollowerCount(w)) \/ Restart
  <2>1. inbox' \subseteq inbox /\ (req' = req \/ req' = [r \in Req |-> Idle])
    BY <1>4 DEF CopyToRows, DeadLetter, SyncFollowerCount, Settle, Restart
  <2>2. QED
    BY <1>1, <2>1 DEF QueueTypes
<1>5. CASE UNCHANGED <<req, inbox>>
  BY <1>1, <1>5 DEF QueueTypes
<1>6. QED
  BY <1>2, <1>3, <1>4, <1>5, QueueSteps

LEMMA WorkTypesNext == FollowTypes /\ Next => work' \in [Worker -> Job \union {Idle}]
<1> SUFFICES ASSUME FollowTypes, Next PROVE work' \in [Worker -> Job \union {Idle}]
  OBVIOUS
<1> USE DEF FollowTypes
<1>0. work \in [Worker -> Job \union {Idle}] /\ ver \in Nat
  BY DEF RunTypes, SetTypes
<1>1. ASSUME NEW w \in Worker, NEW e \in inbox, CountFollowing(w, e)  PROVE work' \in [Worker -> Job \union {Idle}]
  <2>1. e \in Event /\ e.u \in User /\ e.u \in Counter /\ e.u # Author
    BY Counters DEF QueueTypes, Event
  <2>2. Size(e.u) \in 0 .. 1
    BY <2>1, SizeType
  <2>3. [pc |-> "following", e |-> e, val |-> Size(e.u), ver |-> ver] \in Job
    BY <1>0, <2>1, <2>2 DEF Job
  <2>4. QED
    BY <1>0, <1>1, <2>3 DEF CountFollowing
<1>2. ASSUME NEW w \in Worker, CountFollowers(w)  PROVE work' \in [Worker -> Job \union {Idle}]
  <2>1. work[w].e \in Event
    BY <1>2, JobFields DEF CountFollowers
  <2>2. Size(Author) \in 0 .. Cardinality(User)
    BY SizeType, Counters
  <2>3. [pc |-> "followers", e |-> work[w].e, val |-> Size(Author), ver |-> ver] \in Job
    BY <1>0, <2>1, <2>2 DEF Job
  <2>4. QED
    BY <1>0, <1>2, <2>3 DEF CountFollowers
<1>3. CASE (\E w \in Worker : SyncFollowerCount(w) \/ HandlerFails(w)) \/ Restart
  BY <1>0, <1>3 DEF SyncFollowerCount, HandlerFails, Restart
<1>4. QED
  BY <1>0, <1>1, <1>2, <1>3, WorkSteps

LEMMA ToolTypesNext == FollowTypes /\ Next => tool' \in Tool
<1> SUFFICES ASSUME FollowTypes, Next PROVE tool' \in Tool
  OBVIOUS
<1> USE DEF FollowTypes
<1>0. tool \in Tool /\ ver \in Nat /\ fwd \in SUBSET User /\ rows \in SUBSET User
  BY DEF RunTypes, SetTypes, RowTypes
<1>1. ASSUME NEW u \in User, Members(u)  PROVE tool' \in Tool
  <2>1. tool \in [pc : {"keys"}, todo : SUBSET User]
    BY <1>1, ToolFields DEF Members
  <2>2. tool' = [pc |-> "insert", todo |-> tool.todo \ {u}, u |-> u, ver |-> ver]
        \/ tool' = [tool EXCEPT !.todo = @ \ {u}]
    BY <1>1 DEF Members, Run
  <2>3. QED
    BY <1>0, <2>1, <2>2 DEF Tool
<1>2. ASSUME NEW u \in User, AddForward(u)  PROVE tool' \in Tool
  <2>1. tool \in Adding
    BY <1>2, ToolFields DEF AddForward
  <2>2. [tool EXCEPT !.todo = @ \ {u}] \in Adding
    BY <2>1 DEF Adding
  <2>3. QED
    BY <1>2, <2>2 DEF AddForward, Run, Tool
<1>3. CASE ScanKeys
  BY <1>0, <1>3 DEF ScanKeys, Run, Tool
<1>4. CASE InsertRow
  <2>1. tool.todo \in SUBSET User
    BY <1>4, ToolFields DEF InsertRow
  <2>2. QED
    BY <1>4, <2>1 DEF InsertRow, Run, Tool
<1>5. CASE SelectRows \/ RestoreSets
  <2>1. PICK recount \in BOOLEAN :
           tool' = [pc |-> "add", todo |-> rows, doubtful |-> Doubtful, ver |-> ver, recount |-> recount]
    BY <1>5 DEF SelectRows, RestoreSets, Select, Run
  <2>2. Doubtful \in SUBSET User
    BY DEF Doubtful
  <2>3. tool' \in Adding
    BY <1>0, <2>1, <2>2 DEF Adding
  <2>4. QED
    BY <2>3 DEF Tool
<1>6. CASE AddReverse
  <2>1. tool.next \in Adding
    BY <1>6, ToolFields DEF AddReverse
  <2>2. QED
    BY <1>6, <2>1 DEF AddReverse, Run, Tool
<1>7. CASE EndRestore \/ EndRecount \/ Stop
  BY <1>7 DEF EndRestore, EndRecount, Stop, Run, Tool
<1>8. CASE ScanFollowing
  <2>1. [u \in User |-> Size(u)] \in [User -> 0 .. 1]
    BY SizeType, Counters
  <2>2. QED
    BY <1>0, <1>8, <2>1 DEF ScanFollowing, Run, Tool
<1>9. CASE ScanFollowers
  <2>1. Size(Author) \in 0 .. Cardinality(User)
    BY SizeType, Counters
  <2>2. QED
    BY <1>0, <1>9, <2>1 DEF ScanFollowers, Run, Tool
<1>10. QED
  BY <1>0, <1>1, <1>2, <1>3, <1>4, <1>5, <1>6, <1>7, <1>8, <1>9, ToolSteps

LEMMA FollowTypesNext == FollowTypes /\ Next => FollowTypes'
  BY SetTypesNext, CauseTypesNext, RowTypesNext, CountTypesNext, QueueTypesNext, WorkTypesNext, ToolTypesNext
     DEF FollowTypes, RunTypes

-----------------------------------------------------------------------------
(* The follows: how the sets and the switches move *)

\* A step numbers the sets that it changes, and leaves the others as they were.
LEMMA SetsMove ==
    ASSUME FollowTypes, Next
    PROVE  /\ ver \in Nat /\ ver' \in {ver, ver + 1}
           /\ \A c \in Counter : \/ last'[c] = last[c] /\ Size(c)' = Size(c)
                                 \/ last'[c] = ver + 1 /\ ver' = ver + 1
<1> USE DEF FollowTypes
<1>0. ver \in Nat
  BY DEF SetTypes
<1>1. ASSUME UNCHANGED <<fwd, rev, ver, last>>
      PROVE  /\ ver' \in {ver, ver + 1}
             /\ \A c \in Counter : \/ last'[c] = last[c] /\ Size(c)' = Size(c)
                                   \/ last'[c] = ver + 1 /\ ver' = ver + 1
  BY <1>1 DEF Size
<1>2. ASSUME NEW u \in User, NEW on \in BOOLEAN, Written(u, on)
      PROVE  /\ ver' \in {ver, ver + 1}
             /\ \A c \in Counter : \/ last'[c] = last[c] /\ Size(c)' = Size(c)
                                   \/ last'[c] = ver + 1 /\ ver' = ver + 1
  <2>1. ver' = ver + 1 /\ \A c \in Counter : last'[c] = IF c \in {u, Author} THEN ver + 1 ELSE last[c]
    BY <1>2 DEF Written
  <2>2. \A c \in Counter \ {u, Author} : c \in fwd' <=> c \in fwd
    BY <1>2 DEF Written, SetScript
  <2>3. \A c \in Counter \ {u, Author} : Size(c)' = Size(c)
    BY <2>2 DEF Size
  <2>4. QED
    BY <2>1, <2>3
<1>3. ASSUME last' = Numbered, ver' \in {ver, ver + 1}, ver' = ver => UNCHANGED <<fwd, rev>>
      PROVE  /\ ver' \in {ver, ver + 1}
             /\ \A c \in Counter : \/ last'[c] = last[c] /\ Size(c)' = Size(c)
                                   \/ last'[c] = ver + 1 /\ ver' = ver + 1
  <2>1. ASSUME NEW c \in Counter, c \notin Changed  PROVE last'[c] = last[c] /\ Size(c)' = Size(c)
    <3>1. last'[c] = last[c]
      BY <1>3, <2>1, Numbering
    <3>2. CASE c = Author
      BY <2>1, <3>1, <3>2 DEF Changed, Size
    <3>3. CASE c \in User
      BY <2>1, <3>1, <3>3, Counters DEF Changed, Size
    <3>4. QED
      BY <3>2, <3>3 DEF Counter
  <2>2. ASSUME NEW c \in Counter, c \in Changed  PROVE last'[c] = ver + 1 /\ ver' = ver + 1
    <3>1. last'[c] = ver + 1
      BY <1>3, <2>2, Numbering
    <3>2. ~UNCHANGED <<fwd, rev>>
      BY <2>2 DEF Changed
    <3>3. QED
      BY <1>3, <3>1, <3>2
  <2>3. QED
    BY <1>3, <2>1, <2>2
<1>4. CASE UNCHANGED sets \/ Stop \/ \E r \in Req, u \in User, on \in BOOLEAN : SetUnchanged(r, u, on)
  <2>1. UNCHANGED <<fwd, rev, ver, last>>
    BY <1>4 DEF sets, Stop, SetUnchanged
  <2>2. QED
    BY <1>0, <1>1, <2>1
<1>5. ASSUME NEW r \in Req, NEW u \in User, NEW on \in BOOLEAN, SetChanged(r, u, on)
      PROVE  Written(u, on)
  BY <1>5 DEF SetChanged
<1>6. ASSUME NEW r \in Req, Rollback(r)
      PROVE  UNCHANGED sets \/ (Written(req[r].u, ~req[r].on) /\ req[r].u \in User /\ (~req[r].on) \in BOOLEAN)
  BY <1>6, ReqFields DEF Rollback, Publishing
<1>7. CASE (\E u \in User : AddForward(u)) \/ AddReverse \/ LoseRedis
  <2>1. last' = Numbered /\ ver' \in {ver, ver + 1}
    BY <1>7 DEF AddForward, AddReverse, LoseRedis
  <2>2. ASSUME ver' = ver  PROVE UNCHANGED <<fwd, rev>>
    <3>1. ASSUME NEW u \in User, AddForward(u)  PROVE UNCHANGED <<fwd, rev>>
      <4>1. u \in fwd /\ fwd' = fwd \union {u} /\ rev' = rev
        BY <1>0, <2>2, <3>1 DEF AddForward
      <4>2. QED
        BY <4>1
    <3>2. CASE AddReverse
      <4>1. tool.u \in rev /\ rev' = rev \union {tool.u} /\ fwd' = fwd
        BY <1>0, <2>2, <3>2 DEF AddReverse
      <4>2. QED
        BY <4>1
    <3>3. ~LoseRedis
      BY <1>0, <2>2 DEF LoseRedis
    <3>4. QED
      BY <1>7, <3>1, <3>2, <3>3
  <2>3. QED
    BY <1>0, <1>3, <2>1, <2>2
<1>8. QED
  BY <1>0, <1>2, <1>4, <1>5, <1>6, <1>7, SetSteps

LEMMA ChangeCarries ==
    ASSUME FollowTypes, NEW r \in Req, NEW u \in User, NEW on \in BOOLEAN, SetChanged(r, u, on)
    PROVE  /\ Carried \subseteq Carried'
           /\ \A e \in Carried' : e \in Carried \/ e = [u |-> u, on |-> on, n |-> ver + 1]
           /\ \/ [u |-> u, on |-> on, n |-> ver + 1] \in Carried'
              \/ rowCause'[u] # {} /\ \A c \in {u, Author} : countCause'[c] # {}
<1> USE DEF FollowTypes
<1>1. /\ inbox' = inbox /\ ~Publishing(r)
      /\ \/ req' = [req EXCEPT ![r] = [pc |-> "publish", u |-> u, on |-> on, n |-> ver + 1]]
         \/ /\ req' = [req EXCEPT ![r] = Idle] /\ rowCause' = [rowCause EXCEPT ![u] = {"unpublished"}]
            /\ countCause' = [c \in Counter |-> IF c \in {u, Author} THEN {"unpublished"} ELSE countCause[c]]
  BY DEF SetChanged, Begin, Publishing
<1>2. \A x \in Req \ {r} : req'[x] = req[x]
  BY <1>1 DEF QueueTypes
<1>3. Carried \subseteq Carried'
  BY <1>1, <1>2 DEF Carried, Publishing, Switched
<1>4. CASE req' = [req EXCEPT ![r] = [pc |-> "publish", u |-> u, on |-> on, n |-> ver + 1]]
  <2>1. Publishing(r)' /\ Switched(r)' = [u |-> u, on |-> on, n |-> ver + 1]
    BY <1>4 DEF Publishing, Switched, QueueTypes
  <2>2. QED
    BY <1>1, <1>2, <1>3, <2>1 DEF Carried, Publishing, Switched
<1>5. CASE /\ req' = [req EXCEPT ![r] = Idle] /\ rowCause' = [rowCause EXCEPT ![u] = {"unpublished"}]
           /\ countCause' = [c \in Counter |-> IF c \in {u, Author} THEN {"unpublished"} ELSE countCause[c]]
  <2>1. ~Publishing(r)' /\ rowCause'[u] # {} /\ \A c \in {u, Author} : countCause'[c] # {}
    BY <1>5, Counters DEF Publishing, QueueTypes, CauseTypes, Idle
  <2>2. QED
    BY <1>1, <1>2, <1>3, <2>1 DEF Carried, Publishing, Switched
<1>6. QED
  BY <1>1, <1>4, <1>5

LEMMA PublishCarries ==
    ASSUME FollowTypes, NEW r \in Req, PublishOk(r) \/ PublishFails(r)
    PROVE  Carried' = Carried
<1> USE DEF FollowTypes
<1>1. Publishing(r) /\ Switched(r) \in Carried
  BY DEF PublishOk, PublishFails, Publishing, Carried
<1>2. \A x \in Req \ {r} : req'[x] = req[x]
  BY DEF PublishOk, PublishFails, QueueTypes
<1>3. CASE PublishOk(r)
  <2>1. inbox' = inbox \union {Switched(r)} /\ ~Publishing(r)'
    BY <1>3 DEF PublishOk, Stored, Publishing, QueueTypes, Idle
  <2>2. QED
    BY <1>1, <1>2, <2>1 DEF Carried, Publishing, Switched
<1>4. CASE PublishFails(r)
  <2>1. inbox' = inbox \/ inbox' = inbox \union {Switched(r)}
    BY <1>4 DEF PublishFails, Stored
  <2>2. req'[r] = [req[r] EXCEPT !.pc = "rollback"]
    BY <1>4 DEF PublishFails, QueueTypes
  <2>3. Publishing(r)' /\ Switched(r)' = Switched(r)
    BY <1>1, <2>2, ReqFields DEF Publishing, Switched
  <2>4. QED
    BY <1>1, <1>2, <2>1, <2>3 DEF Carried, Publishing, Switched
<1>5. QED
  BY <1>3, <1>4

LEMMA RollbackCarries ==
    ASSUME FollowTypes, NEW r \in Req, Rollback(r)
    PROVE  Carried' \subseteq Carried /\ Carried \ {Switched(r)} \subseteq Carried' /\ Publishing(r)
<1> USE DEF FollowTypes
<1>1. inbox' = inbox /\ ~Publishing(r)' /\ Publishing(r) /\ \A x \in Req \ {r} : req'[x] = req[x]
  BY DEF Rollback, QueueTypes, Publishing, Idle
<1>2. QED
  BY <1>1 DEF Carried, Publishing, Switched

LEMMA SettleCarries ==
    ASSUME NEW e, inbox' = inbox \ {e} \/ inbox' = inbox, req' = req
    PROVE  Carried' \subseteq Carried /\ Carried \ {e} \subseteq Carried'
  BY DEF Carried, Publishing, Switched

\* A step carries no switch that was not carried, except the one that it makes.
LEMMA CarriedSteps ==
    ASSUME FollowTypes, Next
    PROVE  \/ Carried' \subseteq Carried
           \/ /\ ver' = ver + 1
              /\ \A e \in Carried' : e \in Carried \/ e.n = ver + 1
<1> USE DEF FollowTypes
<1>1. CASE UNCHANGED <<req, inbox>>
  BY <1>1 DEF Carried, Publishing, Switched
<1>2. ASSUME NEW r \in Req, NEW u \in User, NEW on \in BOOLEAN, SetChanged(r, u, on)
      PROVE  /\ ver' = ver + 1
             /\ \A e \in Carried' : e \in Carried \/ e.n = ver + 1
  <2>1. ver' = ver + 1
    BY <1>2 DEF SetChanged, Written
  <2>2. \A e \in Carried' : e \in Carried \/ e = [u |-> u, on |-> on, n |-> ver + 1]
    BY <1>2, ChangeCarries
  <2>3. QED
    BY <2>1, <2>2
<1>3. ASSUME NEW r \in Req, PublishOk(r) \/ PublishFails(r) \/ Rollback(r)  PROVE Carried' \subseteq Carried
  BY <1>3, PublishCarries, RollbackCarries
<1>4. ASSUME NEW e \in inbox, CopyToRows(e) \/ DeadLetter(e)  PROVE Carried' \subseteq Carried
  <2>1. (inbox' = inbox \ {e} \/ inbox' = inbox) /\ req' = req
    BY <1>4 DEF CopyToRows, DeadLetter, Settle
  <2>2. QED
    BY <2>1, SettleCarries
<1>5. ASSUME NEW w \in Worker, SyncFollowerCount(w)  PROVE Carried' \subseteq Carried
  <2>1. (inbox' = inbox \ {work[w].e} \/ inbox' = inbox) /\ req' = req
    BY <1>5 DEF SyncFollowerCount, Settle
  <2>2. QED
    BY <2>1, SettleCarries
<1>6. CASE Restart
  <2>1. inbox' = inbox /\ \A r \in Req : ~Publishing(r)'
    BY <1>6 DEF Restart, Publishing, Idle
  <2>2. QED
    BY <2>1 DEF Carried
<1>7. QED
  BY <1>1, <1>2, <1>3, <1>4, <1>5, <1>6, QueueSteps

LEMMA NumbersNext == FollowTypes /\ NumbersInOrder /\ Next => NumbersInOrder'
<1> SUFFICES ASSUME FollowTypes, NumbersInOrder, Next PROVE NumbersInOrder'
  OBVIOUS
<1> USE DEF FollowTypes
<1>0. ver \in Nat /\ ver' \in {ver, ver + 1} /\ ver' \in Nat /\ ver <= ver'
  BY SetsMove
<1>1. FollowTypes'
  BY FollowTypesNext
<1>2. \A n \in Nat : n <= ver => n <= ver'
  BY <1>0
<1>3. \A e \in Carried : e \in Event /\ e.n \in Nat /\ e.n <= ver
  BY CarriedType DEF NumbersInOrder, Event
<1>4. \A c \in Counter : last'[c] <= ver'
  BY <1>0, SetsMove DEF NumbersInOrder, SetTypes
<1>5. \A w \in Worker : work[w].pc # "idle" => work[w].ver \in Nat /\ work[w].ver <= ver
  BY JobFields DEF NumbersInOrder
<1>6. \A c \in Counter : countVer'[c] <= ver'
  <2>1. \A c \in Counter : countVer'[c] <= ver
    <3>0. \A c \in Counter : countVer[c] <= ver
      BY DEF NumbersInOrder
    <3>1. ASSUME NEW c, NEW val, NEW v, v <= ver, Write(c, val, v)  PROVE \A d \in Counter : countVer'[d] <= ver
      BY <3>0, <3>1 DEF Write, CountTypes
    <3>2. ASSUME NEW w \in Worker, CountFollowers(w) \/ SyncFollowerCount(w)
          PROVE  \A d \in Counter : countVer'[d] <= ver
      <4>1. work[w].ver <= ver
        BY <1>5, <3>2 DEF CountFollowers, SyncFollowerCount
      <4>2. QED
        BY <3>1, <3>2, <4>1 DEF CountFollowers, SyncFollowerCount
    <3>3. CASE ScanFollowers
      <4>1. tool.ver <= ver
        BY <3>3 DEF ScanFollowers, NumbersInOrder
      <4>2. QED
        BY <3>0, <3>3, <4>1 DEF ScanFollowers
    <3>4. CASE EndRecount
      <4>1. tool.ver <= ver
        BY <3>4 DEF EndRecount, NumbersInOrder
      <4>2. QED
        BY <3>1, <3>4, <4>1 DEF EndRecount
    <3>5. QED
      BY <3>0, <3>2, <3>3, <3>4, CountSteps
  <2>2. \A c \in Counter : countVer'[c] \in Nat
    BY <1>1 DEF CountTypes
  <2>3. QED
    BY <1>2, <2>1, <2>2
<1>7. \A u \in User : applied'[u] <= ver'
  <2>1. ASSUME NEW e \in inbox, CopyToRows(e)  PROVE \A u \in User : applied'[u] <= ver
    <3>1. e.n <= ver
      BY DEF Carried, NumbersInOrder
    <3>2. QED
      BY <2>1, <3>1 DEF CopyToRows, RowTypes, NumbersInOrder
  <2>2. \A u \in User : applied'[u] <= ver
    BY <2>1, RowSteps DEF InsertRow, NumbersInOrder
  <2>3. \A u \in User : applied'[u] \in Nat
    BY <1>1 DEF RowTypes
  <2>4. QED
    BY <1>2, <2>2, <2>3
<1>8. \A e \in Carried' : e.n <= ver'
  BY <1>0, <1>2, <1>3, CarriedSteps
<1>9. \A w \in Worker : work'[w].pc # "idle" => work'[w].e.n <= work'[w].ver /\ work'[w].ver <= ver'
  <2>0. \A w \in Worker : work[w].pc # "idle" => work[w].e.n <= work[w].ver /\ work[w].ver <= ver'
    BY <1>2, <1>5 DEF NumbersInOrder
  <2>1. CASE UNCHANGED work
    BY <2>0, <2>1
  <2>2. ASSUME NEW w \in Worker, NEW e \in inbox, CountFollowing(w, e)
        PROVE  \A x \in Worker : work'[x].pc # "idle" => work'[x].e.n <= work'[x].ver /\ work'[x].ver <= ver'
    <3>1. /\ work'[w].e = e /\ work'[w].ver = ver /\ \A x \in Worker \ {w} : work'[x] = work[x]
      BY <2>2 DEF CountFollowing, RunTypes
    <3>2. e.n <= ver
      BY DEF Carried, NumbersInOrder
    <3>3. QED
      BY <1>0, <2>0, <3>1, <3>2
  <2>3. ASSUME NEW w \in Worker, CountFollowers(w)
        PROVE  \A x \in Worker : work'[x].pc # "idle" => work'[x].e.n <= work'[x].ver /\ work'[x].ver <= ver'
    <3>1. /\ work'[w].e = work[w].e /\ work'[w].ver = ver /\ \A x \in Worker \ {w} : work'[x] = work[x]
          /\ work[w].pc # "idle"
      BY <2>3 DEF CountFollowers, RunTypes
    <3>2. work[w].e.n \in Nat /\ work[w].e.n <= work[w].ver /\ work[w].ver \in Nat /\ work[w].ver <= ver
      BY <3>1, JobFields DEF NumbersInOrder
    <3>3. QED
      BY <1>0, <2>0, <3>1, <3>2
  <2>4. CASE (\E w \in Worker : SyncFollowerCount(w) \/ HandlerFails(w)) \/ Restart
    <3>1. \A x \in Worker : work'[x] = work[x] \/ work'[x].pc = "idle"
      BY <2>4 DEF SyncFollowerCount, HandlerFails, Restart, RunTypes, Idle
    <3>2. QED
      BY <2>0, <3>1
  <2>5. QED
    BY <2>1, <2>2, <2>3, <2>4, WorkSteps
<1>10. /\ tool'.pc \in {"insert", "add", "following", "followers"} => tool'.ver <= ver'
       /\ tool'.pc = "reverse" => tool'.next.ver <= ver'
  <2>0. /\ tool.pc \in {"insert", "add", "following", "followers"} => tool.ver \in Nat /\ tool.ver <= ver'
        /\ tool.pc = "reverse" => tool.next.ver \in Nat /\ tool.next.ver <= ver'
    BY <1>2, ToolFields DEF NumbersInOrder, Adding
  <2>1. CASE UNCHANGED tool
    BY <2>0, <2>1
  <2>2. ASSUME NEW u \in User, Members(u)
        PROVE  /\ tool'.pc \in {"insert", "add", "following", "followers"} => tool'.ver <= ver'
               /\ tool'.pc = "reverse" => tool'.next.ver <= ver'
    <3>1. tool \in [pc : {"keys"}, todo : SUBSET User]
      BY <2>2, ToolFields DEF Members
    <3>2. tool' = [pc |-> "insert", todo |-> tool.todo \ {u}, u |-> u, ver |-> ver] \/ tool'.pc = "keys"
      BY <2>2, <3>1 DEF Members, Run
    <3>3. QED
      BY <1>0, <3>2
  <2>3. ASSUME NEW u \in User, AddForward(u)
        PROVE  /\ tool'.pc \in {"insert", "add", "following", "followers"} => tool'.ver <= ver'
               /\ tool'.pc = "reverse" => tool'.next.ver <= ver'
    <3>1. tool \in Adding /\ tool' = [pc |-> "reverse", u |-> u, next |-> [tool EXCEPT !.todo = @ \ {u}]]
      BY <2>3, ToolFields DEF AddForward, Run
    <3>2. tool'.pc = "reverse" /\ tool'.next.ver = tool.ver
      BY <3>1 DEF Adding
    <3>3. QED
      BY <2>0, <2>3, <3>2 DEF AddForward
  <2>4. CASE AddReverse
    <3>1. tool.next \in Adding /\ tool' = tool.next
      BY <2>4, ToolFields DEF AddReverse, Run
    <3>2. tool'.pc = "add" /\ tool'.ver <= ver'
      BY <2>0, <2>4, <3>1 DEF AddReverse, Adding
    <3>3. QED
      BY <3>2
  <2>5. CASE ScanKeys \/ InsertRow \/ EndRestore \/ EndRecount \/ Stop
    <3>1. tool'.pc \in {"keys", "idle"}
      BY <2>5 DEF ScanKeys, InsertRow, EndRestore, EndRecount, Stop, Run, Idle
    <3>2. QED
      BY <3>1
  <2>6. CASE SelectRows \/ RestoreSets \/ ScanFollowing \/ ScanFollowers
    <3>1. tool'.pc \in {"add", "following", "followers"} /\ tool'.ver = ver
      BY <2>6 DEF SelectRows, RestoreSets, Select, ScanFollowing, ScanFollowers, Run
    <3>2. QED
      BY <1>0, <3>1
  <2>7. QED
    BY <2>1, <2>2, <2>3, <2>4, <2>5, <2>6, ToolSteps
<1>11. QED
  BY <1>4, <1>6, <1>7, <1>8, <1>9, <1>10 DEF NumbersInOrder

-----------------------------------------------------------------------------
(* The follows: the two directions *)

\* Only AddForward goes between the two directions, and AddReverse and Stop leave.
LEMMA ReverseSteps ==
    ASSUME FollowTypes, Next
    PROVE  \/ UNCHANGED tool
           \/ (\E u \in User : AddForward(u)) \/ AddReverse \/ Stop
           \/ tool.pc # "reverse" /\ tool'.pc # "reverse"
<1>1. ASSUME NEW u \in User, Members(u)  PROVE tool.pc # "reverse" /\ tool'.pc # "reverse"
  <2>1. tool.pc = "keys" /\ tool \in [pc : {"keys"}, todo : SUBSET User]
    BY <1>1, ToolFields DEF Members, FollowTypes
  <2>2. tool' = [pc |-> "insert", todo |-> tool.todo \ {u}, u |-> u, ver |-> ver]
        \/ tool' = [tool EXCEPT !.todo = @ \ {u}]
    BY <1>1 DEF Members, Run
  <2>3. QED
    BY <2>1, <2>2
<1>2. ASSUME ScanKeys \/ InsertRow \/ SelectRows \/ RestoreSets \/ EndRestore \/ ScanFollowing \/ ScanFollowers
             \/ EndRecount
      PROVE  tool.pc # "reverse" /\ tool'.pc # "reverse"
  BY <1>2 DEF ScanKeys, Start, InsertRow, SelectRows, RestoreSets, Select, EndRestore, Added, ScanFollowing,
              ScanFollowers, EndRecount, Run, Idle
<1>3. QED
  BY <1>1, <1>2, ToolSteps

AgreeInv == FollowTypes /\ DirectionsAgree /\ BetweenInv

LEMMA AgreeNext == AgreeInv /\ Next => DirectionsAgree' /\ BetweenInv'
<1> SUFFICES ASSUME AgreeInv, Next PROVE DirectionsAgree' /\ BetweenInv'
  OBVIOUS
<1> USE DEF AgreeInv, FollowTypes
<1>1. ASSUME NEW u \in User, AddForward(u)  PROVE DirectionsAgree' /\ BetweenInv'
  <2>1. /\ tool.pc = "add" /\ tool'.pc = "reverse" /\ tool'.u = u
        /\ fwd' = fwd \union {u} /\ rev' = rev /\ split' = split
    BY <1>1 DEF AddForward, Run
  <2>2. QED
    BY <2>1 DEF DirectionsAgree, BetweenInv, Between
<1>2. CASE AddReverse
  <2>1. /\ tool.pc = "reverse" /\ tool' = tool.next /\ tool.next \in Adding
        /\ fwd' = fwd /\ rev' = rev \union {tool.u} /\ split' = split
    BY <1>2, ToolFields DEF AddReverse, Run
  <2>2. tool'.pc = "add"
    BY <2>1 DEF Adding
  <2>3. QED
    BY <2>1, <2>2 DEF DirectionsAgree, BetweenInv, Between
<1>3. CASE Stop
  <2>1. /\ tool'.pc = "idle" /\ UNCHANGED <<fwd, rev>>
        /\ split' = IF tool.pc = "reverse" THEN split \union {tool.u} ELSE split
    BY <1>3 DEF Stop, Idle
  <2>2. QED
    BY <2>1 DEF DirectionsAgree, BetweenInv, Between
<1>4. ASSUME NEW u \in User, NEW on \in BOOLEAN, Written(u, on), UNCHANGED tool
      PROVE  DirectionsAgree' /\ BetweenInv'
  <2>1. /\ u \in fwd' <=> on
        /\ u \in rev' <=> on
        /\ \A x \in User \ {u} : (x \in fwd' <=> x \in fwd) /\ (x \in rev' <=> x \in rev)
    BY <1>4 DEF Written, SetScript
  <2>2. /\ Between(u) => u \in split'
        /\ \A x \in User \ {u} : x \in split' <=> x \in split
    BY <1>4 DEF Written
  <2>3. DirectionsAgree'
    BY <1>4, <2>1, <2>2 DEF DirectionsAgree, Between
  <2>4. BetweenInv'
    BY <1>4, <2>1, <2>2, ToolFields DEF BetweenInv, Between
  <2>5. QED
    BY <2>3, <2>4
<1>5. ASSUME NEW r \in Req, NEW u \in User, NEW on \in BOOLEAN, SetUnchanged(r, u, on)
      PROVE  DirectionsAgree' /\ BetweenInv'
  BY <1>5 DEF SetUnchanged, DirectionsAgree, BetweenInv, Between
<1>6. ASSUME NEW r \in Req, NEW u \in User, NEW on \in BOOLEAN, SetChanged(r, u, on)
      PROVE  DirectionsAgree' /\ BetweenInv'
  BY <1>4, <1>6 DEF SetChanged
<1>7. ASSUME UNCHANGED sets, UNCHANGED tool \/ (tool.pc # "reverse" /\ tool'.pc # "reverse")
      PROVE  DirectionsAgree' /\ BetweenInv'
  BY <1>7 DEF sets, DirectionsAgree, BetweenInv, Between
<1>8. ASSUME NEW r \in Req, Rollback(r)  PROVE DirectionsAgree' /\ BetweenInv'
  <2>1. req[r].u \in User /\ (~req[r].on) \in BOOLEAN /\ UNCHANGED tool
    BY <1>8, ReqFields DEF Rollback, Publishing
  <2>2. Written(req[r].u, ~req[r].on) \/ UNCHANGED sets
    BY <1>8 DEF Rollback
  <2>3. QED
    BY <1>4, <1>7, <2>1, <2>2
<1>9. CASE LoseRedis
  <2>1. /\ fwd' = {} /\ rev' = {} /\ UNCHANGED tool
        /\ split' = IF tool.pc = "reverse" THEN {tool.u} ELSE {}
    BY <1>9 DEF LoseRedis
  <2>2. QED
    BY <2>1 DEF DirectionsAgree, BetweenInv
<1>10. QED
  BY <1>1, <1>2, <1>3, <1>5, <1>6, <1>7, <1>8, <1>9, SetSteps, ReverseSteps

-----------------------------------------------------------------------------
(* The follows: the wish *)

LEMMA WithGrows ==
    ASSUME NEW f \in [User -> SUBSET Cause], NEW x, NEW why, NEW u \in User
    PROVE  f[u] \subseteq With(f, x, why)[u]
  BY DEF With

\* A request that changes the wish of u writes u's set, or is excused.
LEMMA WishSteps ==
    ASSUME FollowTypes, Next, NEW u \in User
    PROVE  \/ last'[u] = ver + 1
           \/ /\ wish'[u] = wish[u] \/ "unchanged" \in rowCause'[u]
              /\ rowCause[u] \subseteq rowCause'[u]
<1> USE DEF FollowTypes
<1>1. ASSUME NEW r \in Req, NEW x \in User, NEW on \in BOOLEAN, SetUnchanged(r, x, on)
      PROVE  /\ wish'[u] = wish[u] \/ "unchanged" \in rowCause'[u]
             /\ rowCause[u] \subseteq rowCause'[u]
  <2>1. /\ wish' = [wish EXCEPT ![x] = on]
        /\ rowCause' = IF wish[x] # on THEN [rowCause EXCEPT ![x] = rowCause[x] \union {"unchanged"}] ELSE rowCause
    BY <1>1 DEF SetUnchanged, With
  <2>2. CASE x = u
    BY <2>1, <2>2 DEF SetTypes, CauseTypes
  <2>3. CASE x # u
    BY <2>1, <2>3 DEF SetTypes, CauseTypes
  <2>4. QED
    BY <2>2, <2>3
<1>2. ASSUME NEW r \in Req, NEW x \in User, NEW on \in BOOLEAN, SetChanged(r, x, on)
      PROVE  \/ last'[u] = ver + 1
             \/ wish'[u] = wish[u] /\ rowCause'[u] = rowCause[u]
  <2>1. /\ last' = [c \in Counter |-> IF c \in {x, Author} THEN ver + 1 ELSE last[c]]
        /\ wish' = [wish EXCEPT ![x] = on]
        /\ \E lost : rowCause' = [rowCause EXCEPT ![x] = lost]
    BY <1>2 DEF SetChanged, Written
  <2>2. CASE x = u
    BY <2>1, <2>2, Counters
  <2>3. CASE x # u
    BY <2>1, <2>3 DEF SetTypes, CauseTypes
  <2>4. QED
    BY <2>2, <2>3
<1>3. ASSUME NEW r \in Req, Rollback(r)
      PROVE  last'[u] = ver + 1 \/ (wish'[u] = wish[u] /\ rowCause[u] \subseteq rowCause'[u])
  <2>1. rowCause' = [rowCause EXCEPT ![req[r].u] = rowCause[req[r].u] \union {"rollback"}]
    BY <1>3 DEF Rollback, With
  <2>2. \/ UNCHANGED wish
        \/ /\ last' = [c \in Counter |-> IF c \in {req[r].u, Author} THEN ver + 1 ELSE last[c]]
           /\ \E on : wish' = [wish EXCEPT ![req[r].u] = on]
    BY <1>3 DEF Rollback, Written, sets
  <2>3. rowCause[u] \subseteq rowCause'[u]
    BY <2>1 DEF CauseTypes
  <2>4. last'[u] = ver + 1 \/ wish'[u] = wish[u]
    <3>1. CASE req[r].u = u
      BY <2>2, <3>1, Counters
    <3>2. CASE req[r].u # u
      BY <2>2, <3>2 DEF SetTypes
    <3>3. QED
      BY <3>1, <3>2
  <2>5. QED
    BY <2>3, <2>4
<1>4. CASE UNCHANGED wish
  <2>0. rowCause \in [User -> SUBSET Cause]
    BY DEF CauseTypes
  <2>1. ASSUME NEW e \in inbox, CopyToRows(e) \/ DeadLetter(e)  PROVE rowCause[u] \subseteq rowCause'[u]
    <3>1. rowCause' = rowCause \/ \E why : rowCause' = With(rowCause, e.u, why)
      BY <2>1 DEF CopyToRows, DeadLetter, causes
    <3>2. QED
      BY <2>0, <3>1, WithGrows
  <2>2. ASSUME InsertRow  PROVE rowCause[u] \subseteq rowCause'[u]
    <3>1. rowCause' = rowCause \/ rowCause' = With(rowCause, tool.u, {"copied"})
      BY <2>2 DEF InsertRow
    <3>2. QED
      BY <2>0, <3>1, WithGrows
  <2>3. ASSUME Restart  PROVE rowCause[u] \subseteq rowCause'[u]
    <3>1. rowCause'[u] = rowCause[u] \/ rowCause'[u] = rowCause[u] \union {"unpublished"}
      BY <2>3 DEF Restart
    <3>2. QED
      BY <3>1
  <2>4. QED
    BY <1>1, <1>2, <1>3, <1>4, <2>1, <2>2, <2>3, RowCauseSteps
<1>5. CASE (\E x \in User : AddForward(x)) \/ AddReverse \/ Stop \/ LoseRedis \/ UNCHANGED sets
  <2>1. UNCHANGED wish
    BY <1>5 DEF AddForward, AddReverse, Stop, LoseRedis, sets
  <2>2. QED
    BY <1>4, <2>1
<1>6. QED
  BY <1>1, <1>2, <1>3, <1>5, SetSteps

LEMMA WantedStays ==
    ASSUME FollowTypes, Next, NEW a \in Adding, a.ver <= ver, Wanted(a)
    PROVE  Wanted(a)'
<1> SUFFICES ASSUME NEW u \in a.todo \ a.doubtful, last'[u] <= a.ver, "unchanged" \notin rowCause'[u]
             PROVE  wish'[u]
  BY DEF Wanted
<1>1. u \in User /\ u \in Counter /\ a.ver \in Nat /\ ver \in Nat
  BY Counters, SetsMove DEF Adding
<1>2. last'[u] # ver + 1 /\ last'[u] = last[u]
  BY <1>1, SetsMove
<1>3. wish'[u] = wish[u] /\ "unchanged" \notin rowCause[u]
  BY <1>1, <1>2, WishSteps
<1>4. QED
  BY <1>2, <1>3 DEF Wanted

LEMMA RowsFollow == FollowTypes /\ NewestIsWish => RowsFollowWish
<1> SUFFICES ASSUME FollowTypes, NewestIsWish, group = "follow", NEW u \in User, RowSettled(u), rowCause[u] = {}
             PROVE  u \in rows <=> wish[u]
  BY DEF RowsFollowWish
<1>1. \A f \in Carried : f.u # u
  BY ReqFields DEF RowSettled, Carried, FollowTypes
<1>2. QED
  BY <1>1 DEF NewestIsWish, NewestFor

WishInv == FollowTypes /\ NumbersInOrder /\ WishKept /\ ToolInv /\ NewestIsWish

LEMMA ToolNext == WishInv /\ Next => ToolInv'
<1> SUFFICES ASSUME WishInv, Next PROVE ToolInv'
  OBVIOUS
<1> USE DEF WishInv
<1>0. ver \in Nat /\ \A c \in Counter : last[c] \in Nat /\ last[c] <= ver
  BY SetsMove DEF FollowTypes, SetTypes, NumbersInOrder
<1>1. CASE UNCHANGED tool
  <2>1. ASSUME tool.pc = "insert", last'[tool.u] <= tool.ver  PROVE tool.u \in fwd'
    <3>1. tool.u \in User /\ tool.u \in Counter /\ tool.ver \in Nat /\ tool.ver <= ver
      BY <2>1, ToolFields, Counters DEF FollowTypes, NumbersInOrder
    <3>2. last'[tool.u] = last[tool.u] /\ Size(tool.u)' = Size(tool.u)
      <4>1. PICK u \in User : u = tool.u
        BY <3>1
      <4>2. last'[u] = last[u] /\ Size(u)' = Size(u)
        BY <1>0, <2>1, <3>1, <4>1, SetsMove
      <4>3. QED
        BY <1>1, <4>1, <4>2
    <3>3. tool.u \in fwd
      BY <2>1, <3>2 DEF ToolInv
    <3>4. QED
      BY <1>1, <3>1, <3>2, <3>3, Counters DEF Size
  <2>2. ASSUME tool.pc = "add"  PROVE Wanted(tool)'
    <3>1. PICK a \in Adding : a = tool
      BY <2>2, ToolFields DEF FollowTypes
    <3>2. Wanted(a) /\ a.ver <= ver
      BY <2>2, <3>1 DEF ToolInv, NumbersInOrder
    <3>3. QED
      BY <1>1, <3>1, <3>2, WantedStays
  <2>3. ASSUME tool.pc = "reverse"  PROVE Wanted(tool.next)'
    <3>1. PICK a \in Adding : a = tool.next
      BY <2>3, ToolFields DEF FollowTypes
    <3>2. Wanted(a) /\ a.ver <= ver
      BY <2>3, <3>1 DEF ToolInv, NumbersInOrder
    <3>3. QED
      BY <1>1, <3>1, <3>2, WantedStays
  <2>4. QED
    BY <1>1, <2>1, <2>2, <2>3 DEF ToolInv
<1>2. ASSUME NEW u \in User, Members(u)  PROVE ToolInv'
  <2>1. tool \in [pc : {"keys"}, todo : SUBSET User] /\ UNCHANGED <<fwd, last>>
    BY <1>2, ToolFields DEF Members, FollowTypes, sets
  <2>2. CASE u \in fwd
    <3>1. tool'.pc = "insert" /\ tool'.u = u
      BY <1>2, <2>2 DEF Members, Run
    <3>2. QED
      BY <2>1, <2>2, <3>1 DEF ToolInv
  <2>3. CASE u \notin fwd
    <3>1. tool' = [tool EXCEPT !.todo = @ \ {u}]
      BY <1>2, <2>3 DEF Members, Run
    <3>2. tool'.pc = "keys"
      BY <2>1, <3>1
    <3>3. QED
      BY <3>2 DEF ToolInv
  <2>4. QED
    BY <2>2, <2>3
<1>3. ASSUME NEW u \in User, AddForward(u)  PROVE ToolInv'
  <2>1. PICK a \in Adding : a = tool
    BY <1>3, ToolFields DEF AddForward, FollowTypes
  <2>2. Wanted(a) /\ a.ver <= ver
    BY <1>3, <2>1 DEF AddForward, ToolInv, NumbersInOrder
  <2>3. Wanted(a)'
    BY <2>2, WantedStays
  <2>4. tool' = [pc |-> "reverse", u |-> u, next |-> [a EXCEPT !.todo = a.todo \ {u}]]
    BY <1>3, <2>1 DEF AddForward, Run
  <2>5. /\ tool'.pc = "reverse" /\ tool'.next.todo \subseteq a.todo /\ tool'.next.doubtful = a.doubtful
        /\ tool'.next.ver = a.ver
    BY <2>4 DEF Adding
  <2>6. Wanted(tool.next)'
    BY <2>3, <2>5 DEF Wanted
  <2>7. QED
    BY <2>5, <2>6 DEF ToolInv
<1>4. CASE AddReverse
  <2>1. PICK a \in Adding : a = tool.next
    BY <1>4, ToolFields DEF AddReverse, FollowTypes
  <2>2. Wanted(a) /\ a.ver <= ver
    BY <1>4, <2>1 DEF AddReverse, ToolInv, NumbersInOrder
  <2>3. Wanted(a)'
    BY <2>2, WantedStays
  <2>4. tool' = a /\ tool'.pc = "add"
    BY <1>4, <2>1 DEF AddReverse, Run, Adding
  <2>5. Wanted(tool)'
    BY <2>3, <2>4
  <2>6. QED
    BY <2>4, <2>5 DEF ToolInv
<1>5. CASE SelectRows \/ RestoreSets
  <2>1. tool'.pc = "add" /\ tool'.todo = rows /\ tool'.doubtful = Doubtful
    BY <1>5 DEF SelectRows, RestoreSets, Select, Run
  <2>2. UNCHANGED wish
    BY <1>5 DEF SelectRows, RestoreSets, Select, sets
  <2>3. \A u \in rows \ Doubtful : wish[u]
    BY RowsFollow DEF Doubtful, RowsFollowWish, FollowTypes, RowTypes, QueueTypes
  <2>4. Wanted(tool)'
    BY <2>1, <2>2, <2>3 DEF Wanted
  <2>5. QED
    BY <2>1, <2>4 DEF ToolInv
<1>6. CASE ScanKeys \/ InsertRow \/ EndRestore \/ ScanFollowing \/ ScanFollowers \/ EndRecount \/ Stop
  <2>1. tool'.pc \in {"keys", "idle", "following", "followers"}
    BY <1>6 DEF ScanKeys, InsertRow, EndRestore, ScanFollowing, ScanFollowers, EndRecount, Stop, Run, Idle
  <2>2. QED
    BY <2>1 DEF ToolInv
<1>7. QED
  BY <1>1, <1>2, <1>3, <1>4, <1>5, <1>6, ToolSteps

LEMMA WishNext == WishInv /\ Next => WishKept'
<1> SUFFICES ASSUME WishInv, Next PROVE WishKept'
  OBVIOUS
<1> USE DEF WishInv
<1>0. SetTypes
  BY DEF FollowTypes
<1>1. ASSUME NEW u \in User, NEW on \in BOOLEAN, Written(u, on)  PROVE WishKept'
  <2>1. /\ u \in fwd' <=> on
        /\ \A x \in User \ {u} : x \in fwd' <=> x \in fwd
    BY <1>1 DEF Written, SetScript
  <2>2. /\ wish'[u] = on /\ \A x \in User \ {u} : wish'[x] = wish[x] /\ setCause'[x] = setCause[x]
    BY <1>0, <1>1 DEF Written, SetTypes
  <2>3. QED
    BY <2>1, <2>2 DEF WishKept
<1>2. ASSUME NEW r \in Req, NEW u \in User, NEW on \in BOOLEAN, SetUnchanged(r, u, on)  PROVE WishKept'
  <2>1. /\ fwd' = fwd /\ (u \in fwd) = on
        /\ wish' = [wish EXCEPT ![u] = on] /\ setCause' = [setCause EXCEPT ![u] = {}]
    BY <1>2 DEF SetUnchanged
  <2>2. /\ wish'[u] = on /\ \A x \in User \ {u} : wish'[x] = wish[x] /\ setCause'[x] = setCause[x]
    BY <1>0, <2>1 DEF SetTypes
  <2>3. QED
    BY <2>1, <2>2 DEF WishKept
<1>3. ASSUME NEW r \in Req, NEW u \in User, NEW on \in BOOLEAN, SetChanged(r, u, on)  PROVE WishKept'
  BY <1>1, <1>3 DEF SetChanged
<1>4. CASE UNCHANGED sets \/ AddReverse \/ Stop
  <2>1. UNCHANGED <<fwd, wish, setCause>>
    BY <1>4 DEF sets, AddReverse, Stop
  <2>2. QED
    BY <2>1 DEF WishKept
<1>5. ASSUME NEW r \in Req, Rollback(r)  PROVE WishKept'
  <2>1. req[r].u \in User /\ (~req[r].on) \in BOOLEAN
    BY <1>5, ReqFields DEF Rollback, Publishing, FollowTypes
  <2>2. Written(req[r].u, ~req[r].on) \/ UNCHANGED sets
    BY <1>5 DEF Rollback
  <2>3. QED
    BY <1>1, <1>4, <2>1, <2>2
<1>6. ASSUME NEW u \in User, AddForward(u)  PROVE WishKept'
  <2>1. /\ fwd' = fwd \union {u} /\ wish' = wish /\ tool.pc = "add" /\ u \in tool.todo
        /\ setCause' = [setCause EXCEPT ![u] =
              IF wish[u] THEN {}
              ELSE IF u \in tool.doubtful \/ last[u] > tool.ver \/ "unchanged" \in rowCause[u]
              THEN setCause[u] \union {"restored"} ELSE setCause[u]]
    BY <1>6 DEF AddForward
  <2>2. ~wish[u] => u \in tool.doubtful \/ last[u] > tool.ver \/ "unchanged" \in rowCause[u]
    <3>1. last[u] \in Nat /\ tool.ver \in Nat
      BY <1>0, <2>1, ToolFields, Counters DEF FollowTypes, SetTypes, Adding
    <3>2. QED
      BY <2>1, <3>1 DEF ToolInv, Wanted
  <2>3. ~wish[u] => setCause'[u] # {}
    BY <1>0, <2>1, <2>2 DEF SetTypes
  <2>4. \A x \in User \ {u} : (x \in fwd' <=> x \in fwd) /\ setCause'[x] = setCause[x]
    BY <1>0, <2>1 DEF SetTypes
  <2>5. QED
    BY <2>1, <2>3, <2>4 DEF WishKept
<1>7. CASE LoseRedis
  <2>1. /\ fwd' = {} /\ wish' = wish
        /\ \A u \in User : wish[u] => setCause'[u] # {}
    BY <1>7 DEF LoseRedis
  <2>2. QED
    BY <2>1 DEF WishKept
<1>8. QED
  BY <1>2, <1>3, <1>4, <1>5, <1>6, <1>7, SetSteps

-----------------------------------------------------------------------------
(* The follows: the table *)

LEMMA UserWorksNext == FollowTypes /\ UserWorks /\ Next => UserWorks'
<1> SUFFICES ASSUME FollowTypes, UserWorks, Next PROVE UserWorks'
  OBVIOUS
<1>1. group' = group
  BY QueueSteps
<1>2. ASSUME NEW w \in Worker, work'[w].pc # "idle", work'[w] # work[w]  PROVE group = "user"
  <2>1. ASSUME NEW x \in Worker, NEW e \in inbox, CountFollowing(x, e)  PROVE group = "user"
    BY <2>1 DEF CountFollowing
  <2>2. ASSUME NEW x \in Worker, CountFollowers(x) \/ SyncFollowerCount(x)  PROVE group = "user"
    BY <2>2 DEF CountFollowers, SyncFollowerCount, UserWorks
  <2>3. ASSUME NEW x \in Worker, HandlerFails(x)  PROVE group = "user"
    BY <2>3 DEF HandlerFails, UserWorks
  <2>4. ~Restart
    BY <1>2 DEF Restart, Idle
  <2>5. QED
    BY <1>2, <2>1, <2>2, <2>3, <2>4, WorkSteps
<1>3. QED
  BY <1>1, <1>2 DEF UserWorks

\* What neither the switches of u, nor its row, nor its wish tell apart leaves u alone.
LEMMA NewestStays ==
    ASSUME NEW u \in User, NewestFor(u),
           rowCause'[u] = {} => rowCause[u] = {},
           wish'[u] = wish[u], applied'[u] = applied[u], u \in rows' <=> u \in rows,
           \A e \in Carried : e.u = u => e \in Carried',
           \A e \in Carried' : e.u = u => e \in Carried
    PROVE  NewestFor(u)'
<1> SUFFICES ASSUME rowCause'[u] = {}
             PROVE  /\ \A e \in Carried' : e.u = u /\ applied'[u] <= e.n /\ Newest(e)' => (e.on <=> wish'[u])
                    /\ (\A f \in Carried' : f.u = u => f.n <= applied'[u]) => (u \in rows' <=> wish'[u])
  BY DEF NewestFor
<1>1. ASSUME NEW e \in Carried', e.u = u, Newest(e)'  PROVE e \in Carried /\ Newest(e)
  BY <1>1 DEF Newest
<1>2. QED
  BY <1>1 DEF NewestFor

\* The steps that the row of a user, its wish or the switches of it see.
LEMMA RowWishSteps ==
    ASSUME Next
    PROVE  \/ UNCHANGED <<rows, applied, rowCause, wish, req, inbox>>
           \/ \E r \in Req, u \in User, on \in BOOLEAN : SetUnchanged(r, u, on) \/ SetChanged(r, u, on)
           \/ \E r \in Req : PublishOk(r) \/ PublishFails(r) \/ Rollback(r)
           \/ \E e \in inbox : CopyToRows(e) \/ DeadLetter(e)
           \/ \E w \in Worker : SyncFollowerCount(w)
           \/ InsertRow \/ Restart
<1>1. UNCHANGED wish \/ \E r \in Req : \/ Rollback(r)
                                       \/ \E u \in User, on \in BOOLEAN : SetUnchanged(r, u, on) \/ SetChanged(r, u, on)
  BY SetSteps DEF sets, AddForward, AddReverse, Stop, LoseRedis
<1>2. QED
  BY <1>1, RowSteps, QueueSteps, RowCauseSteps

LEMMA CopiedRow ==
    ASSUME FollowTypes, NumbersInOrder, \A u \in User : NewestFor(u), NEW e \in inbox, CopyToRows(e)
    PROVE  \A u \in User : NewestFor(u)'
<1> USE DEF FollowTypes
<1>1. /\ e \in Carried /\ e \in Event /\ e.u \in User /\ e.n \in Nat /\ applied[e.u] \in Nat
  BY CarriedType DEF Carried, Event, RowTypes
<1>2. /\ rows' = IF e.on THEN rows \union {e.u} ELSE rows \ {e.u}
      /\ applied' = [applied EXCEPT ![e.u] = e.n]
      /\ rowCause' = IF e.n < applied[e.u] THEN With(rowCause, e.u, {"reordered"}) ELSE rowCause
      /\ wish' = wish
  BY DEF CopyToRows, sets
<1>3. Carried' \subseteq Carried /\ Carried \ {e} \subseteq Carried'
  BY SettleCarries DEF CopyToRows, Settle
<1>4. ASSUME NEW u \in User, u # e.u  PROVE NewestFor(u)'
  <2>1. rowCause'[u] = rowCause[u] /\ applied'[u] = applied[u] /\ wish'[u] = wish[u] /\ (u \in rows' <=> u \in rows)
    BY <1>2, <1>4 DEF With, CauseTypes, RowTypes
  <2>2. /\ \A f \in Carried : f.u = u => f \in Carried'
        /\ \A f \in Carried' : f.u = u => f \in Carried
    BY <1>3, <1>4
  <2>3. QED
    BY <2>1, <2>2, NewestStays
<1>5. ASSUME e.n < applied[e.u]  PROVE NewestFor(e.u)'
  BY <1>1, <1>2, <1>5 DEF With, CauseTypes, NewestFor
<1>6. ASSUME applied[e.u] <= e.n  PROVE NewestFor(e.u)'
  <2> SUFFICES ASSUME rowCause'[e.u] = {}
               PROVE  /\ \A f \in Carried' : f.u = e.u /\ applied'[e.u] <= f.n /\ Newest(f)' => (f.on <=> wish'[e.u])
                      /\ (\A f \in Carried' : f.u = e.u => f.n <= applied'[e.u]) => (e.u \in rows' <=> wish'[e.u])
    BY DEF NewestFor
  <2>1. rowCause[e.u] = {} /\ applied'[e.u] = e.n /\ wish'[e.u] = wish[e.u]
    BY <1>1, <1>2, <1>6 DEF RowTypes
  <2>2. ASSUME NEW f \in Carried', f.u = e.u, e.n <= f.n, Newest(f)'  PROVE f.on <=> wish[e.u]
    <3>1. f \in Carried /\ f.n \in Nat
      BY <1>3, CarriedType DEF Event
    <3>2. \A g \in Carried : g.u = f.u => g.n <= f.n
      BY <1>3, <2>2 DEF Newest
    <3>3. applied[e.u] <= f.n
      BY <1>1, <1>6, <2>2, <3>1
    <3>4. NewestFor(e.u)
      BY <1>1
    <3>5. QED
      BY <2>1, <2>2, <3>1, <3>2, <3>3, <3>4 DEF NewestFor, Newest
  <2>3. ASSUME \A f \in Carried' : f.u = e.u => f.n <= e.n  PROVE e.u \in rows' <=> wish[e.u]
    <3>1. \A f \in Carried : f.u = e.u => f.n <= e.n
      BY <1>1, <1>3, <2>3
    <3>2. NewestFor(e.u)
      BY <1>1
    <3>3. e.on <=> wish[e.u]
      BY <1>1, <1>6, <2>1, <3>1, <3>2 DEF NewestFor, Newest
    <3>4. QED
      BY <1>2, <3>3
  <2>4. QED
    BY <2>1, <2>2, <2>3
<1>7. NewestFor(e.u)'
  BY <1>1, <1>5, <1>6
<1>8. QED
  BY <1>4, <1>7

LEMMA ChangedRow ==
    ASSUME FollowTypes, NumbersInOrder, \A u \in User : NewestFor(u),
           NEW r \in Req, NEW x \in User, NEW on \in BOOLEAN, SetChanged(r, x, on)
    PROVE  \A u \in User : NewestFor(u)'
<1> USE DEF FollowTypes
<1> DEFINE m == [u |-> x, on |-> on, n |-> ver + 1]
<1>1. /\ wish' = [wish EXCEPT ![x] = on] /\ UNCHANGED <<rows, applied>>
      /\ \E lost : rowCause' = [rowCause EXCEPT ![x] = lost]
  BY DEF SetChanged, Written, tables
<1>2. /\ Carried \subseteq Carried' /\ \A e \in Carried' : e \in Carried \/ e = m
      /\ m \in Carried' \/ rowCause'[x] # {}
  BY ChangeCarries
<1>3. ver \in Nat /\ applied[x] \in Nat /\ applied[x] <= ver /\ \A e \in Carried : e.n \in Nat /\ e.n <= ver
  BY CarriedType DEF SetTypes, RowTypes, NumbersInOrder, Event
<1>4. ASSUME NEW u \in User, u # x  PROVE NewestFor(u)'
  <2>1. rowCause'[u] = rowCause[u] /\ wish'[u] = wish[u] /\ applied'[u] = applied[u] /\ (u \in rows' <=> u \in rows)
    BY <1>1, <1>4 DEF SetTypes, CauseTypes
  <2>2. /\ \A f \in Carried : f.u = u => f \in Carried'
        /\ \A f \in Carried' : f.u = u => f \in Carried
    BY <1>2, <1>4
  <2>3. QED
    BY <2>1, <2>2, NewestStays
<1>5. NewestFor(x)'
  <2> SUFFICES ASSUME rowCause'[x] = {}
               PROVE  /\ \A f \in Carried' : f.u = x /\ applied'[x] <= f.n /\ Newest(f)' => (f.on <=> wish'[x])
                      /\ (\A f \in Carried' : f.u = x => f.n <= applied'[x]) => (x \in rows' <=> wish'[x])
    BY DEF NewestFor
  <2>1. m \in Carried' /\ m.u = x /\ m.n = ver + 1 /\ m.on = on
    BY <1>2
  <2>2. ASSUME NEW f \in Carried', f.u = x, Newest(f)'  PROVE f.on <=> wish'[x]
    <3>1. ver + 1 <= f.n
      BY <2>1, <2>2 DEF Newest
    <3>2. f = m
      BY <1>2, <1>3, <3>1
    <3>3. QED
      BY <1>1, <2>1, <3>2 DEF SetTypes
  <2>3. ~(m.n <= applied'[x])
    BY <1>1, <1>3, <2>1
  <2>4. QED
    BY <2>1, <2>2, <2>3
<1>6. QED
  BY <1>4, <1>5

LEMMA RowNewestNext ==
    FollowTypes /\ NumbersInOrder /\ UserWorks /\ WishKept /\ ToolInv /\ NewestIsWish /\ Next => NewestIsWish'
<1> SUFFICES ASSUME FollowTypes, NumbersInOrder, UserWorks, WishKept, ToolInv, NewestIsWish, Next, group = "follow"
             PROVE  \A u \in User : NewestFor(u)'
  BY QueueSteps DEF NewestIsWish
<1> USE DEF FollowTypes
<1>0. \A u \in User : NewestFor(u)
  BY DEF NewestIsWish
<1>1. CASE UNCHANGED <<rows, applied, rowCause, wish, req, inbox>>
  <2>1. Carried' = Carried
    BY <1>1 DEF Carried, Publishing, Switched
  <2>2. QED
    BY <1>0, <1>1, <2>1, NewestStays
<1>2. ASSUME NEW r \in Req, NEW x \in User, NEW on \in BOOLEAN, SetUnchanged(r, x, on), NEW u \in User
      PROVE  NewestFor(u)'
  <2>1. /\ wish' = [wish EXCEPT ![x] = on] /\ UNCHANGED <<rows, applied, req, inbox>>
        /\ rowCause' = IF wish[x] # on THEN With(rowCause, x, {"unchanged"}) ELSE rowCause
    BY <1>2 DEF SetUnchanged, tables
  <2>2. Carried' = Carried
    BY <2>1 DEF Carried, Publishing, Switched
  <2>3. CASE u = x /\ wish[x] # on
    BY <2>1, <2>3 DEF NewestFor, With, CauseTypes
  <2>4. CASE u # x \/ wish[x] = on
    <3>1. wish'[u] = wish[u] /\ rowCause'[u] = rowCause[u]
      BY <2>1, <2>4 DEF With, SetTypes, CauseTypes
    <3>2. QED
      BY <1>0, <2>1, <2>2, <3>1, NewestStays
  <2>5. QED
    BY <2>3, <2>4
<1>3. ASSUME NEW r \in Req, NEW x \in User, NEW on \in BOOLEAN, SetChanged(r, x, on)
      PROVE  \A u \in User : NewestFor(u)'
  BY <1>0, <1>3, ChangedRow
<1>4. ASSUME NEW r \in Req, PublishOk(r) \/ PublishFails(r), NEW u \in User  PROVE NewestFor(u)'
  <2>1. UNCHANGED <<rows, applied, wish, rowCause>>
    BY <1>4 DEF PublishOk, PublishFails, sets, tables, causes
  <2>2. Carried' = Carried
    BY <1>4, PublishCarries
  <2>3. QED
    BY <1>0, <2>1, <2>2, NewestStays
<1>5. ASSUME NEW r \in Req, Rollback(r), NEW u \in User  PROVE NewestFor(u)'
  <2>1. PICK x \in User : x = req[r].u /\ x = Switched(r).u
    BY <1>5, RollbackCarries, ReqFields
  <2>2. rowCause' = With(rowCause, x, {"rollback"}) /\ UNCHANGED <<rows, applied>>
    BY <1>5, <2>1 DEF Rollback, tables
  <2>3. CASE u = x
    BY <2>2, <2>3 DEF NewestFor, With, CauseTypes
  <2>4. CASE u # x
    <3>1. wish'[u] = wish[u]
      BY <1>5, <2>1, <2>4 DEF Rollback, Written, sets, SetTypes
    <3>2. rowCause'[u] = rowCause[u]
      BY <2>2, <2>4 DEF With, CauseTypes
    <3>3. /\ \A f \in Carried : f.u = u => f \in Carried'
          /\ \A f \in Carried' : f.u = u => f \in Carried
      BY <1>5, <2>1, <2>4, RollbackCarries
    <3>4. QED
      BY <1>0, <2>2, <3>1, <3>2, <3>3, NewestStays
  <2>5. QED
    BY <2>3, <2>4
<1>6. ASSUME NEW e \in inbox, CopyToRows(e)  PROVE \A u \in User : NewestFor(u)'
  BY <1>0, <1>6, CopiedRow
<1>7. ASSUME NEW e \in inbox, DeadLetter(e), NEW u \in User  PROVE NewestFor(u)'
  <2>1. PICK x \in User : x = e.u
    BY CarriedType DEF Carried, Event
  <2>2. rowCause' = With(rowCause, x, {"deadLetter"}) /\ UNCHANGED <<rows, applied, wish>>
    BY <1>7, <2>1 DEF DeadLetter, tables, sets
  <2>3. CASE u = x
    BY <2>2, <2>3 DEF NewestFor, With, CauseTypes
  <2>4. CASE u # x
    <3>1. rowCause'[u] = rowCause[u]
      BY <2>2, <2>4 DEF With, CauseTypes
    <3>2. Carried' \subseteq Carried /\ Carried \ {e} \subseteq Carried'
      BY <1>7, SettleCarries DEF DeadLetter
    <3>3. /\ \A f \in Carried : f.u = u => f \in Carried'
          /\ \A f \in Carried' : f.u = u => f \in Carried
      BY <2>1, <2>4, <3>2
    <3>4. QED
      BY <1>0, <2>2, <3>1, <3>3, NewestStays
  <2>5. QED
    BY <2>3, <2>4
<1>8. ASSUME NEW w \in Worker, SyncFollowerCount(w)  PROVE FALSE
  BY <1>8 DEF SyncFollowerCount, UserWorks
<1>9. ASSUME InsertRow, NEW u \in User  PROVE NewestFor(u)'
  <2>1. tool \in [pc : {"insert"}, todo : SUBSET User, u : User, ver : Nat]
    BY <1>9, ToolFields DEF InsertRow
  <2>2. PICK x \in User : x = tool.u
    BY <2>1
  <2>3. /\ rows' = rows \union {x} /\ UNCHANGED <<applied, wish, req, inbox>>
        /\ rowCause' = IF last[x] > tool.ver \/ setCause[x] # {} THEN With(rowCause, x, {"copied"}) ELSE rowCause
    BY <1>9, <2>2 DEF InsertRow, Run, sets
  <2>4. Carried' = Carried
    BY <2>3 DEF Carried, Publishing, Switched
  <2>5. CASE u # x
    <3>1. rowCause'[u] = rowCause[u] /\ (u \in rows' <=> u \in rows)
      BY <2>3, <2>5 DEF With, CauseTypes
    <3>2. QED
      BY <1>0, <2>3, <2>4, <3>1, NewestStays
  <2>6. CASE u = x /\ (last[x] > tool.ver \/ setCause[x] # {})
    BY <2>3, <2>6 DEF NewestFor, With, CauseTypes
  <2>7. CASE u = x /\ ~(last[x] > tool.ver) /\ setCause[x] = {}
    <3>1. last[x] <= tool.ver
      BY <2>1, <2>7, Counters DEF SetTypes
    <3>2. wish[x]
      BY <1>9, <2>2, <2>7, <3>1 DEF InsertRow, ToolInv, WishKept
    <3>3. rowCause' = rowCause /\ u \in rows'
      BY <2>3, <2>7
    <3>4. NewestFor(u)
      BY <1>0
    <3>5. QED
      BY <2>3, <2>4, <2>7, <3>2, <3>3, <3>4 DEF NewestFor, Newest
  <2>8. QED
    BY <2>5, <2>6, <2>7
<1>10. ASSUME Restart, NEW u \in User  PROVE NewestFor(u)'
  <2>1. /\ Carried' = inbox /\ UNCHANGED <<rows, applied, wish>>
        /\ rowCause'[u] = IF \E r \in Req : Publishing(r) /\ req[r].u = u THEN rowCause[u] \union {"unpublished"}
                          ELSE rowCause[u]
    BY <1>10 DEF Restart, Carried, Publishing, Idle, tables, sets
  <2>2. CASE \E r \in Req : Publishing(r) /\ req[r].u = u
    BY <2>1, <2>2 DEF NewestFor
  <2>3. CASE ~\E r \in Req : Publishing(r) /\ req[r].u = u
    <3>1. /\ \A f \in Carried : f.u = u => f \in Carried'
          /\ \A f \in Carried' : f.u = u => f \in Carried
      BY <2>1, <2>3, ReqFields DEF Carried
    <3>2. QED
      BY <1>0, <2>1, <2>3, <3>1, NewestStays
  <2>4. QED
    BY <2>2, <2>3
<1>11. QED
  BY <1>1, <1>2, <1>3, <1>4, <1>5, <1>6, <1>7, <1>8, <1>9, <1>10, RowWishSteps

-----------------------------------------------------------------------------
(* The follows: the counters *)

SizeInv == FollowTypes /\ NumbersInOrder /\ NewestSize

\* What was read before a step is what the set holds after it, or the set has a newer number.
LEMMA SizeStays ==
    ASSUME FollowTypes, NumbersInOrder, Next, NEW c \in Counter, NEW v \in Nat, v <= ver, last'[c] <= v
    PROVE  last'[c] = last[c] /\ last[c] <= v /\ Size(c)' = Size(c)
  BY SetsMove

LEMMA WriteSize ==
    ASSUME SizeInv, Next, NEW c \in Counter, NEW val, NEW v \in Nat, v <= ver, Write(c, val, v),
           last[c] <= v => val = Size(c)
    PROVE  CountSize'
<1> USE DEF SizeInv
<1>1. count' = [count EXCEPT ![c] = val] /\ countVer' = [countVer EXCEPT ![c] = v]
  BY DEF Write
<1>2. count \in [Counter -> Nat] /\ countVer \in [Counter -> Nat] /\ CountSize /\ \A d \in Counter : countVer[d] <= ver
  BY DEF FollowTypes, CountTypes, NewestSize, NumbersInOrder
<1>3. ASSUME NEW d \in Counter, last'[d] <= countVer'[d]  PROVE count'[d] = Size(d)'
  <2>1. CASE d = c
    <3>1. countVer'[d] = v /\ count'[d] = val
      BY <1>1, <1>2, <2>1
    <3>2. QED
      BY <1>3, <2>1, <3>1, SizeStays
  <2>2. CASE d # c
    <3>1. countVer'[d] = countVer[d] /\ count'[d] = count[d] /\ countVer[d] \in Nat /\ countVer[d] <= ver
      BY <1>1, <1>2, <2>2
    <3>2. last[d] <= countVer[d] /\ Size(d)' = Size(d)
      BY <1>3, <3>1, SizeStays
    <3>3. QED
      BY <1>2, <3>1, <3>2 DEF CountSize
  <2>3. QED
    BY <2>1, <2>2
<1>4. QED
  BY <1>3 DEF CountSize

LEMMA CountSizeNext == SizeInv /\ Next => CountSize'
<1> SUFFICES ASSUME SizeInv, Next PROVE CountSize'
  OBVIOUS
<1>0. FollowTypes /\ NumbersInOrder /\ NewestSize /\ RunTypes /\ CountTypes
  BY DEF SizeInv, FollowTypes
<1>1. CASE UNCHANGED <<count, countVer>>
  <2>1. ASSUME NEW c \in Counter, last'[c] <= countVer'[c]  PROVE count'[c] = Size(c)'
    <3>1. countVer[c] \in Nat /\ countVer[c] <= ver
      BY <1>0 DEF CountTypes, NumbersInOrder
    <3>2. last[c] <= countVer[c] /\ Size(c)' = Size(c)
      BY <1>0, <1>1, <2>1, <3>1, SizeStays
    <3>3. QED
      BY <1>0, <1>1, <3>2 DEF NewestSize, CountSize
  <2>2. QED
    BY <2>1 DEF CountSize
<1>2. ASSUME NEW w \in Worker, CountFollowers(w)  PROVE CountSize'
  <2>1. PICK u \in User : u = work[w].e.u
    BY <1>0, <1>2, JobFields DEF CountFollowers
  <2>2. work[w].ver \in Nat /\ work[w].ver <= ver
    BY <1>0, <1>2, JobFields DEF CountFollowers, NumbersInOrder
  <2>3. last[u] <= work[w].ver => work[w].val = Size(u)
    BY <1>0, <1>2, <2>1 DEF CountFollowers, NewestSize, JobSize
  <2>4. Write(u, work[w].val, work[w].ver) /\ u \in Counter
    BY <1>2, <2>1, Counters DEF CountFollowers
  <2>5. QED
    BY <2>2, <2>3, <2>4, WriteSize
<1>3. ASSUME NEW w \in Worker, SyncFollowerCount(w)  PROVE CountSize'
  <2>1. work[w].ver \in Nat /\ work[w].ver <= ver
    BY <1>0, <1>3, JobFields DEF SyncFollowerCount, NumbersInOrder
  <2>2. last[Author] <= work[w].ver => work[w].val = Size(Author)
    BY <1>0, <1>3 DEF SyncFollowerCount, NewestSize, JobSize
  <2>3. Write(Author, work[w].val, work[w].ver) /\ Author \in Counter
    BY <1>3, Counters DEF SyncFollowerCount
  <2>4. QED
    BY <2>1, <2>2, <2>3, WriteSize
<1>4. CASE ScanFollowers
  <2>1. /\ tool \in [pc : {"following"}, val : [User -> 0 .. 1], ver : Nat] /\ tool.ver <= ver
        /\ \A u \in User : last[u] <= tool.ver => tool.val[u] = Size(u)
    BY <1>0, <1>4, ToolFields DEF ScanFollowers, NumbersInOrder, NewestSize, ToolSize
  <2>2. /\ count' = [c \in Counter |-> IF c = Author THEN count[c] ELSE tool.val[c]]
        /\ countVer' = [c \in Counter |-> IF c = Author THEN countVer[c] ELSE tool.ver]
    BY <1>4 DEF ScanFollowers
  <2>3. ASSUME NEW c \in Counter, last'[c] <= countVer'[c]  PROVE count'[c] = Size(c)'
    <3>1. CASE c = Author
      <4>1. countVer'[c] = countVer[c] /\ count'[c] = count[c] /\ countVer[c] \in Nat /\ countVer[c] <= ver
        BY <1>0, <2>2, <3>1 DEF CountTypes, NumbersInOrder
      <4>2. last[c] <= countVer[c] /\ Size(c)' = Size(c)
        BY <1>0, <2>3, <4>1, SizeStays
      <4>3. QED
        BY <1>0, <4>1, <4>2 DEF NewestSize, CountSize
    <3>2. CASE c # Author
      <4>1. c \in User /\ countVer'[c] = tool.ver /\ count'[c] = tool.val[c] /\ tool.ver \in Nat
        BY <2>1, <2>2, <3>2 DEF Counter
      <4>2. last[c] <= tool.ver /\ Size(c)' = Size(c)
        BY <1>0, <2>1, <2>3, <4>1, SizeStays
      <4>3. QED
        BY <2>1, <4>1, <4>2
    <3>3. QED
      BY <3>1, <3>2
  <2>4. QED
    BY <2>3 DEF CountSize
<1>5. CASE EndRecount
  <2>1. tool.ver \in Nat /\ tool.ver <= ver
    BY <1>0, <1>5, ToolFields DEF EndRecount, NumbersInOrder
  <2>2. last[Author] <= tool.ver => tool.val = Size(Author)
    BY <1>0, <1>5 DEF EndRecount, NewestSize, ToolSize
  <2>3. Write(Author, tool.val, tool.ver) /\ Author \in Counter
    BY <1>5, Counters DEF EndRecount
  <2>4. QED
    BY <2>1, <2>2, <2>3, WriteSize
<1>6. QED
  BY <1>1, <1>2, <1>3, <1>4, <1>5, CountSteps

LEMMA JobSizeNext == SizeInv /\ Next => \A w \in Worker : JobSize(work[w])'
<1> SUFFICES ASSUME SizeInv, Next, NEW w \in Worker PROVE JobSize(work[w])'
  OBVIOUS
<1>0. FollowTypes /\ NumbersInOrder /\ NewestSize /\ RunTypes /\ ver \in Nat
  BY SetsMove DEF SizeInv, FollowTypes
<1>1. CASE work'[w] = work[w]
  <2>1. ASSUME work[w].pc = "following", last'[work[w].e.u] <= work[w].ver
        PROVE  work[w].val = Size(work[w].e.u)'
    <3>1. PICK c \in Counter : c = work[w].e.u
      BY <1>0, <2>1, JobFields, Counters
    <3>2. work[w].ver \in Nat /\ work[w].ver <= ver
      BY <1>0, <2>1, JobFields DEF NumbersInOrder
    <3>3. last[c] <= work[w].ver /\ Size(c)' = Size(c)
      BY <1>0, <2>1, <3>1, <3>2, SizeStays
    <3>4. work[w].val = Size(c)
      BY <1>0, <2>1, <3>1, <3>3 DEF NewestSize, JobSize
    <3>5. QED
      BY <1>1, <3>1, <3>3, <3>4 DEF Size
  <2>2. ASSUME work[w].pc = "followers", last'[Author] <= work[w].ver  PROVE work[w].val = Size(Author)'
    <3>1. work[w].ver \in Nat /\ work[w].ver <= ver
      BY <1>0, <2>2, JobFields DEF NumbersInOrder
    <3>2. last[Author] <= work[w].ver /\ Size(Author)' = Size(Author)
      BY <1>0, <2>2, <3>1, SizeStays, Counters
    <3>3. QED
      BY <1>0, <2>2, <3>2 DEF NewestSize, JobSize
  <2>3. QED
    BY <1>1, <2>1, <2>2 DEF JobSize, Size
<1>2. ASSUME NEW x \in Worker, NEW e \in inbox, CountFollowing(x, e), work'[w] # work[w]  PROVE JobSize(work[w])'
  <2>1. work'[w] = [pc |-> "following", e |-> e, val |-> Size(e.u), ver |-> ver] /\ UNCHANGED <<fwd, rev>>
    BY <1>0, <1>2 DEF CountFollowing, RunTypes, sets
  <2>2. work'[w].pc = "following" /\ work'[w].e = e /\ work'[w].val = Size(e.u)'
    BY <2>1 DEF Size
  <2>3. QED
    BY <2>1, <2>2 DEF JobSize, Size
<1>3. ASSUME NEW x \in Worker, CountFollowers(x), work'[w] # work[w]  PROVE JobSize(work[w])'
  <2>1. /\ work'[w] = [pc |-> "followers", e |-> work[x].e, val |-> Size(Author), ver |-> ver]
        /\ UNCHANGED <<fwd, rev>>
    BY <1>0, <1>3 DEF CountFollowers, RunTypes, sets
  <2>2. work'[w].pc = "followers" /\ work'[w].val = Size(Author)'
    BY <2>1 DEF Size
  <2>3. QED
    BY <2>2 DEF JobSize
<1>4. CASE work'[w] # work[w] /\ ((\E x \in Worker : SyncFollowerCount(x) \/ HandlerFails(x)) \/ Restart)
  <2>1. work'[w].pc = "idle"
    BY <1>0, <1>4 DEF SyncFollowerCount, HandlerFails, Restart, RunTypes, Idle
  <2>2. QED
    BY <2>1 DEF JobSize
<1>5. QED
  BY <1>1, <1>2, <1>3, <1>4, WorkSteps

LEMMA ToolSizeNext == SizeInv /\ Next => ToolSize(tool)'
<1> SUFFICES ASSUME SizeInv, Next PROVE ToolSize(tool)'
  OBVIOUS
<1>0. FollowTypes /\ NumbersInOrder /\ NewestSize /\ RunTypes /\ ver \in Nat
  BY SetsMove DEF SizeInv, FollowTypes
<1>1. CASE tool' = tool
  <2>1. ASSUME tool.pc = "following", NEW u \in User, last'[u] <= tool.ver  PROVE tool.val[u] = Size(u)'
    <3>1. tool.ver \in Nat /\ tool.ver <= ver
      BY <1>0, <2>1, ToolFields DEF NumbersInOrder
    <3>2. last[u] <= tool.ver /\ Size(u)' = Size(u)
      BY <1>0, <2>1, <3>1, SizeStays, Counters
    <3>3. QED
      BY <1>0, <2>1, <3>2 DEF NewestSize, ToolSize
  <2>2. ASSUME tool.pc = "followers", last'[Author] <= tool.ver  PROVE tool.val = Size(Author)'
    <3>1. tool.ver \in Nat /\ tool.ver <= ver
      BY <1>0, <2>2, ToolFields DEF NumbersInOrder
    <3>2. last[Author] <= tool.ver /\ Size(Author)' = Size(Author)
      BY <1>0, <2>2, <3>1, SizeStays, Counters
    <3>3. QED
      BY <1>0, <2>2, <3>2 DEF NewestSize, ToolSize
  <2>3. QED
    BY <1>1, <2>1, <2>2 DEF ToolSize
<1>2. CASE ScanFollowing
  <2>1. tool' = [pc |-> "following", val |-> [u \in User |-> Size(u)], ver |-> ver] /\ UNCHANGED <<fwd, rev>>
    BY <1>2 DEF ScanFollowing, Run, sets
  <2>2. tool'.pc = "following" /\ \A u \in User : tool'.val[u] = Size(u)'
    BY <2>1 DEF Size
  <2>3. QED
    BY <2>2 DEF ToolSize
<1>3. CASE ScanFollowers
  <2>1. tool' = [pc |-> "followers", val |-> Size(Author), ver |-> ver] /\ UNCHANGED <<fwd, rev>>
    BY <1>3 DEF ScanFollowers, Run, sets
  <2>2. tool'.pc = "followers" /\ tool'.val = Size(Author)'
    BY <2>1 DEF Size
  <2>3. QED
    BY <2>2 DEF ToolSize
<1>4. ASSUME NEW u \in User, Members(u)  PROVE ToolSize(tool)'
  <2>1. tool \in [pc : {"keys"}, todo : SUBSET User]
    BY <1>0, <1>4, ToolFields DEF Members
  <2>2. \/ tool' = [pc |-> "insert", todo |-> tool.todo \ {u}, u |-> u, ver |-> ver]
        \/ tool' = [tool EXCEPT !.todo = @ \ {u}]
    BY <1>4 DEF Members, Run
  <2>3. tool'.pc \in {"insert", "keys"}
    BY <2>1, <2>2
  <2>4. QED
    BY <2>3 DEF ToolSize
<1>5. CASE AddReverse
  <2>1. tool' = tool.next /\ tool.next \in Adding
    BY <1>0, <1>5, ToolFields DEF AddReverse, Run
  <2>2. tool'.pc = "add"
    BY <2>1 DEF Adding
  <2>3. QED
    BY <2>2 DEF ToolSize
<1>6. CASE ScanKeys \/ InsertRow \/ SelectRows \/ RestoreSets \/ EndRestore \/ EndRecount \/ Stop
           \/ \E u \in User : AddForward(u)
  <2>1. tool'.pc \in {"keys", "add", "idle", "reverse"}
    BY <1>6 DEF ScanKeys, InsertRow, SelectRows, RestoreSets, Select, EndRestore, EndRecount, Stop, AddForward, Run,
                Idle
  <2>2. QED
    BY <2>1 DEF ToolSize
<1>7. QED
  BY <1>1, <1>2, <1>3, <1>4, <1>5, <1>6, ToolSteps

LEMMA SizeNext == SizeInv /\ Next => NewestSize'
  BY CountSizeNext, JobSizeNext, ToolSizeNext DEF NewestSize

-----------------------------------------------------------------------------
(* The follows: the changes that counters hear of *)

\* A write leaves the counter newer than its set's last change, or with a cause.
LEMMA WriteMoves ==
    ASSUME FollowTypes, NEW c \in Counter, NEW val, NEW v \in Nat, Write(c, val, v),
           NEW d \in Counter, countCause'[d] = {}
    PROVE  last[d] <= countVer'[d] \/ (countCause[d] = {} /\ ~(last[d] <= countVer[d]))
<1>1. /\ countVer \in [Counter -> Nat] /\ last \in [Counter -> Nat] /\ countCause \in [Counter -> SUBSET Cause]
  BY DEF FollowTypes, SetTypes, CountTypes, CauseTypes
<1>2. /\ countVer' = [countVer EXCEPT ![c] = v]
      /\ countCause' = [countCause EXCEPT ![c] = CASE v >= last[c] -> {}
                                                   [] v < countVer[c] -> countCause[c] \union {"staleWrite"}
                                                   [] OTHER -> countCause[c]]
  BY DEF Write
<1>3. CASE d # c
  BY <1>1, <1>2, <1>3
<1>4. CASE d = c /\ v >= last[c]
  <2>1. countVer'[d] = v /\ last[d] \in Nat
    BY <1>1, <1>2, <1>4
  <2>2. QED
    BY <1>4, <2>1
<1>5. CASE d = c /\ ~(v >= last[c]) /\ v < countVer[c]
  <2>1. countCause'[d] = countCause[c] \union {"staleWrite"}
    BY <1>1, <1>2, <1>5
  <2>2. QED
    BY <2>1
<1>6. CASE d = c /\ ~(v >= last[c]) /\ ~(v < countVer[c])
  <2>1. countCause'[d] = countCause[d]
    BY <1>1, <1>2, <1>6
  <2>2. last[c] \in Nat /\ countVer[c] \in Nat
    BY <1>1
  <2>3. ~(last[d] <= countVer[d])
    BY <1>6, <2>2
  <2>4. QED
    BY <2>1, <2>3
<1>7. QED
  BY <1>3, <1>4, <1>5, <1>6

LEMMA CountMoves ==
    ASSUME FollowTypes, Next, NEW d \in Counter, countCause'[d] = {}
    PROVE  \/ last'[d] = ver + 1
           \/ /\ last'[d] = last[d]
              /\ last[d] <= countVer'[d] \/ (countCause[d] = {} /\ ~(last[d] <= countVer[d]))
<1>0. /\ countVer \in [Counter -> Nat] /\ last \in [Counter -> Nat] /\ countCause \in [Counter -> SUBSET Cause]
      /\ RunTypes
  BY DEF FollowTypes, SetTypes, CountTypes, CauseTypes
<1>1. last'[d] = ver + 1 \/ last'[d] = last[d]
  BY SetsMove
<1>2. ASSUME NEW w \in Worker, CountFollowers(w) \/ SyncFollowerCount(w)
      PROVE  last[d] <= countVer'[d] \/ (countCause[d] = {} /\ ~(last[d] <= countVer[d]))
  <2>1. work[w].pc # "idle"
    BY <1>2 DEF CountFollowers, SyncFollowerCount
  <2>2. work[w].ver \in Nat /\ work[w].e.u \in Counter /\ Author \in Counter
    BY <1>0, <2>1, JobFields, Counters
  <2>3. \E c \in Counter : Write(c, work[w].val, work[w].ver)
    BY <1>2, <2>2 DEF CountFollowers, SyncFollowerCount
  <2>4. QED
    BY <2>2, <2>3, WriteMoves
<1>3. ASSUME EndRecount
      PROVE  last[d] <= countVer'[d] \/ (countCause[d] = {} /\ ~(last[d] <= countVer[d]))
  <2>1. Write(Author, tool.val, tool.ver) /\ tool.ver \in Nat /\ Author \in Counter
    BY <1>0, <1>3, ToolFields, Counters DEF EndRecount
  <2>2. QED
    BY <2>1, WriteMoves
<1>4. ASSUME ScanFollowers
      PROVE  last[d] <= countVer'[d] \/ (countCause[d] = {} /\ ~(last[d] <= countVer[d]))
  <2>1. /\ countVer' = [c \in Counter |-> IF c = Author THEN countVer[c] ELSE tool.ver]
        /\ tool.ver \in Nat
    BY <1>0, <1>4, ToolFields DEF ScanFollowers
  <2>2. countCause'[d] =
          CASE d = Author -> countCause[d]
            [] d # Author /\ tool.ver >= last[d] -> {}
            [] d # Author /\ tool.ver < last[d] /\ tool.ver < countVer[d] -> countCause[d] \union {"staleWrite"}
            [] OTHER -> countCause[d]
    BY <1>4 DEF ScanFollowers
  <2>3. last[d] \in Nat /\ countVer[d] \in Nat
    BY <1>0
  <2>4. CASE d = Author
    <3>1. countCause'[d] = countCause[d]
      BY <2>2, <2>4
    <3>2. QED
      BY <2>1, <2>4, <3>1
  <2>5. CASE d # Author /\ tool.ver >= last[d]
    BY <2>1, <2>3, <2>5
  <2>6. CASE d # Author /\ tool.ver < last[d] /\ tool.ver < countVer[d]
    <3>1. ~(d = Author) /\ ~(tool.ver >= last[d])
      BY <2>1, <2>3, <2>6
    <3>2. countCause'[d] = countCause[d] \union {"staleWrite"}
      BY <2>2, <2>6, <3>1
    <3>3. QED
      BY <3>2
  <2>7. CASE d # Author /\ ~(tool.ver >= last[d]) /\ ~(tool.ver < countVer[d])
    <3>1. countCause'[d] = countCause[d]
      BY <2>2, <2>7
    <3>2. ~(last[d] <= countVer[d])
      BY <2>1, <2>3, <2>7
    <3>3. QED
      BY <3>1, <3>2
  <2>8. QED
    BY <2>1, <2>3, <2>4, <2>5, <2>6, <2>7
<1>5. ASSUME UNCHANGED <<count, countVer>>
      PROVE  last'[d] = ver + 1 \/ countCause[d] = {} \/ last[d] <= countVer'[d]
  <2>1. ASSUME NEW r \in Req, NEW x \in User, NEW on \in BOOLEAN, SetChanged(r, x, on)
        PROVE  last'[d] = ver + 1 \/ countCause[d] = {}
    <3>1. /\ last' = [c \in Counter |-> IF c \in {x, Author} THEN ver + 1 ELSE last[c]]
          /\ \E lost : countCause' = [c \in Counter |-> IF c \in {x, Author} THEN lost ELSE countCause[c]]
      BY <2>1 DEF SetChanged, Written
    <3>2. QED
      BY <3>1
  <2>2. ASSUME NEW r \in Req, Rollback(r)  PROVE countCause[d] = {}
    <3>1. countCause'[d] = countCause[d] \/ countCause'[d] = countCause[d] \union {"rollback"}
      BY <2>2 DEF Rollback
    <3>2. QED
      BY <3>1
  <2>3. ASSUME NEW e \in inbox, DeadLetter(e)  PROVE countCause[d] = {}
    <3>1. countCause'[d] = countCause[d] \/ countCause'[d] = countCause[d] \union {"deadLetter"}
      BY <2>3 DEF DeadLetter
    <3>2. QED
      BY <3>1
  <2>4. CASE (\E x \in User : AddForward(x)) \/ AddReverse \/ LoseRedis
    <3>1. \E why : countCause'[d] = countCause[d] \/ countCause'[d] = countCause[d] \union why
      BY <2>4 DEF AddForward, AddReverse, LoseRedis, Unheard
    <3>2. QED
      BY <3>1
  <2>5. ASSUME Restart  PROVE countCause[d] = {}
    <3>1. countCause'[d] = countCause[d] \/ countCause'[d] = countCause[d] \union {"unpublished"}
      BY <2>5 DEF Restart
    <3>2. QED
      BY <3>1
  <2>6. CASE UNCHANGED countCause
    BY <2>6
  <2>7. QED
    BY <1>2, <1>3, <1>4, <2>1, <2>2, <2>3, <2>4, <2>5, <2>6, CountCauseSteps
<1>6. QED
  BY <1>1, <1>2, <1>3, <1>4, <1>5, CountSteps

\* A numbered change is carried, or it has a cause.
LEMMA ChangeHeard ==
    ASSUME FollowTypes, NumbersInOrder, Next, NEW c \in Counter, last'[c] = ver + 1, countCause'[c] = {}
    PROVE  \E m \in Carried' : m.n = ver + 1 /\ c \in {m.u, Author}
<1>0. /\ last \in [Counter -> Nat] /\ countCause \in [Counter -> SUBSET Cause] /\ ver \in Nat /\ last[c] <= ver
  BY DEF FollowTypes, SetTypes, CauseTypes, NumbersInOrder
<1>1. last'[c] # last[c]
  BY <1>0
<1>2. ASSUME NEW r \in Req, NEW x \in User, NEW on \in BOOLEAN, SetChanged(r, x, on)
      PROVE  \E m \in Carried' : m.n = ver + 1 /\ c \in {m.u, Author}
  <2>1. c \in {x, Author}
    <3>1. last' = [d \in Counter |-> IF d \in {x, Author} THEN ver + 1 ELSE last[d]]
      BY <1>2 DEF SetChanged, Written
    <3>2. QED
      BY <1>1, <3>1
  <2>2. [u |-> x, on |-> on, n |-> ver + 1] \in Carried'
    BY <1>2, <2>1, ChangeCarries
  <2>3. QED
    BY <2>1, <2>2
<1>3. ASSUME NEW r \in Req, Rollback(r)  PROVE FALSE
  <2>1. last' # last
    BY <1>1
  <2>2. Written(req[r].u, ~req[r].on)
    BY <1>3, <2>1 DEF Rollback, sets
  <2>3. c \in {req[r].u, Author}
    <3>1. last' = [d \in Counter |-> IF d \in {req[r].u, Author} THEN ver + 1 ELSE last[d]]
      BY <2>2 DEF Written
    <3>2. QED
      BY <1>1, <3>1
  <2>4. countCause'[c] = countCause[c] \union {"rollback"}
    <3>1. \/ countCause' = [d \in Counter |-> IF d \in {req[r].u, Author}
                                THEN countCause[d] \union {"rollback"} ELSE countCause[d]]
          \/ UNCHANGED sets
      BY <1>3 DEF Rollback
    <3>2. QED
      BY <2>1, <2>3, <3>1 DEF sets
  <2>5. QED
    BY <2>4
<1>4. ~((\E x \in User : AddForward(x)) \/ AddReverse \/ LoseRedis)
  <2> SUFFICES ASSUME (\E x \in User : AddForward(x)) \/ AddReverse \/ LoseRedis PROVE FALSE
    OBVIOUS
  <2>1. last' = Numbered
    BY DEF AddForward, AddReverse, LoseRedis
  <2>2. c \in Changed
    BY <1>1, <2>1 DEF Numbered
  <2>3. \E why : countCause'[c] = countCause[c] \union {why}
    BY <2>2 DEF AddForward, AddReverse, LoseRedis, Unheard
  <2>4. QED
    BY <2>3
<1>5. ~(UNCHANGED sets \/ Stop \/ \E r \in Req, u \in User, on \in BOOLEAN : SetUnchanged(r, u, on))
  BY <1>1 DEF sets, Stop, SetUnchanged
<1>6. QED
  BY <1>2, <1>3, <1>4, <1>5, SetSteps

HeardInv == FollowTypes /\ NumbersInOrder /\ UserWorks /\ FollowerFirst /\ LastChangeHeard

LEMMA FollowerFirstNext == HeardInv /\ Next => FollowerFirst'
<1> SUFFICES ASSUME HeardInv, Next, NEW w \in Worker, work'[w].pc = "followers"
             PROVE  countCause'[work'[w].e.u] = {} /\ last'[work'[w].e.u] <= work'[w].e.n
                       => last'[work'[w].e.u] <= countVer'[work'[w].e.u]
  BY DEF FollowerFirst
<1>0. FollowTypes /\ NumbersInOrder /\ FollowerFirst /\ RunTypes /\ CountTypes /\ ver \in Nat
  BY SetsMove DEF HeardInv, FollowTypes
<1>1. CASE work'[w] = work[w]
  <2>1. PICK u \in User : u = work[w].e.u
    BY <1>0, <1>1, JobFields
  <2>2. work[w].e.n \in Nat /\ work[w].e.n <= ver
    <3>1. work[w].e.n \in Nat /\ work[w].ver \in Nat /\ work[w].e.n <= work[w].ver /\ work[w].ver <= ver
      BY <1>0, <1>1, JobFields DEF NumbersInOrder
    <3>2. QED
      BY <1>0, <3>1
  <2>3. ASSUME countCause'[u] = {}, last'[u] <= work[w].e.n  PROVE last'[u] <= countVer'[u]
    <3>1. last'[u] = last[u] /\ (last[u] <= countVer'[u] \/ (countCause[u] = {} /\ ~(last[u] <= countVer[u])))
      BY <1>0, <2>2, <2>3, CountMoves, Counters
    <3>2. countCause[u] = {} /\ last[u] <= work[w].e.n => last[u] <= countVer[u]
      BY <1>0, <1>1, <2>1 DEF FollowerFirst
    <3>3. QED
      BY <2>3, <3>1, <3>2
  <2>4. QED
    BY <1>1, <2>1, <2>3
<1>2. ASSUME NEW x \in Worker, CountFollowers(x), work'[w] # work[w]
      PROVE  last'[work'[w].e.u] <= work'[w].e.n => last'[work'[w].e.u] <= countVer'[work'[w].e.u]
  <2>1. x = w /\ work[w].pc # "idle" /\ work'[w].e = work[w].e
    BY <1>0, <1>2 DEF CountFollowers, RunTypes
  <2>2. PICK u \in User : u = work[w].e.u
    BY <1>0, <2>1, JobFields
  <2>3. countVer'[u] = work[w].ver /\ last' = last
    BY <1>0, <1>2, <2>1, <2>2, Counters DEF CountFollowers, Write, CountTypes, sets
  <2>4. work[w].e.n \in Nat /\ work[w].ver \in Nat /\ work[w].e.n <= work[w].ver /\ last[u] \in Nat
    BY <1>0, <2>1, JobFields, Counters DEF NumbersInOrder, FollowTypes, SetTypes
  <2>5. last'[u] <= work[w].e.n => last'[u] <= countVer'[u]
    BY <2>3, <2>4
  <2>6. QED
    BY <2>1, <2>2, <2>5
<1>3. CASE work'[w] # work[w] /\ ((\E x \in Worker : SyncFollowerCount(x) \/ HandlerFails(x)) \/ Restart
                                 \/ \E x \in Worker, e \in inbox : CountFollowing(x, e))
  <2>1. work'[w].pc \in {"idle", "following"}
    BY <1>0, <1>3 DEF SyncFollowerCount, HandlerFails, Restart, CountFollowing, RunTypes, Idle
  <2>2. QED
    BY <2>1
<1>4. QED
  BY <1>1, <1>2, <1>3, WorkSteps

LEMMA HeardNext == HeardInv /\ Next => LastChangeHeard'
<1> SUFFICES ASSUME HeardInv, Next, group = "user", NEW c \in Counter, countCause'[c] = {},
                    ~(last'[c] <= countVer'[c])
             PROVE  \E e \in Carried' : e.n = last'[c] /\ c \in {e.u, Author}
  BY QueueSteps DEF LastChangeHeard
<1>0. /\ FollowTypes /\ NumbersInOrder /\ FollowerFirst /\ RunTypes /\ CountTypes /\ QueueTypes /\ ver \in Nat
      /\ countCause \in [Counter -> SUBSET Cause] /\ last \in [Counter -> Nat]
  BY SetsMove DEF HeardInv, FollowTypes, CauseTypes, SetTypes
<1>1. CASE last'[c] = ver + 1
  BY <1>0, <1>1, ChangeHeard
<1>2. CASE last'[c] # ver + 1
  <2>1. last'[c] = last[c] /\ countCause[c] = {} /\ ~(last[c] <= countVer[c])
    BY <1>0, <1>2, CountMoves
  <2>2. PICK e \in Carried : e.n = last[c] /\ c \in {e.u, Author}
    BY <2>1 DEF HeardInv, LastChangeHeard
  <2>3. CASE UNCHANGED <<req, inbox>>
    BY <2>1, <2>2, <2>3 DEF Carried, Publishing, Switched
  <2>4. ASSUME NEW r \in Req, NEW x \in User, NEW on \in BOOLEAN, SetChanged(r, x, on)  PROVE e \in Carried'
    BY <1>0, <2>4, ChangeCarries
  <2>5. ASSUME NEW r \in Req, PublishOk(r) \/ PublishFails(r)  PROVE e \in Carried'
    BY <1>0, <2>5, PublishCarries
  <2>6. ASSUME NEW r \in Req, Rollback(r)  PROVE e \in Carried'
    <3>1. ASSUME e = Switched(r)  PROVE FALSE
      <4>1. req[r].n = last[c] /\ c \in {req[r].u, Author}
        BY <2>2, <3>1 DEF Switched
      <4>2. countCause'[c] = countCause[c] \union {"rollback"}
        BY <2>6, <4>1 DEF Rollback
      <4>3. QED
        BY <4>2
    <3>2. QED
      BY <1>0, <2>6, <3>1, RollbackCarries
  <2>7. ASSUME NEW d \in inbox, DeadLetter(d)  PROVE e \in Carried'
    <3>1. ASSUME e = d  PROVE FALSE
      <4>1. countCause'[c] = countCause[c] \union {"deadLetter"}
        BY <2>2, <2>7, <3>1 DEF DeadLetter
      <4>2. QED
        BY <4>1
    <3>2. QED
      BY <2>7, <3>1, SettleCarries DEF DeadLetter
  <2>8. ASSUME NEW d \in inbox, CopyToRows(d)  PROVE FALSE
    BY <2>8 DEF CopyToRows
  <2>9. ASSUME NEW w \in Worker, SyncFollowerCount(w)  PROVE e \in Carried'
    <3>1. ASSUME e = work[w].e  PROVE FALSE
      <4>1. /\ work[w].e.n \in Nat /\ work[w].ver \in Nat /\ work[w].e.n <= work[w].ver /\ last[c] \in Nat
            /\ work[w].pc = "followers"
        BY <1>0, <2>9, JobFields DEF SyncFollowerCount, NumbersInOrder
      <4>2. CASE c = Author
        <5>1. countVer'[c] = work[w].ver
          BY <1>0, <2>9, <4>2 DEF SyncFollowerCount, Write, CountTypes
        <5>2. QED
          BY <2>1, <2>2, <3>1, <4>1, <5>1
      <4>3. CASE c = e.u
        BY <1>0, <2>1, <2>2, <3>1, <4>1, <4>3 DEF FollowerFirst
      <4>4. QED
        BY <2>2, <4>2, <4>3
    <3>2. QED
      BY <2>9, <3>1, SettleCarries DEF SyncFollowerCount, Settle
  <2>10. ASSUME Restart  PROVE e \in Carried'
    <3>1. ASSUME NEW r \in Req, Publishing(r), e = Switched(r)  PROVE FALSE
      <4>1. Publishing(r) /\ req[r].n = last[c]
        BY <2>2, <3>1 DEF Switched
      <4>2. countCause'[c] = countCause[c] \union {"unpublished"}
        BY <2>10, <4>1 DEF Restart
      <4>3. QED
        BY <4>2
    <3>2. inbox' = inbox
      BY <2>10 DEF Restart
    <3>3. QED
      BY <3>1, <3>2 DEF Carried
  <2>11. QED
    BY <2>1, <2>2, <2>3, <2>4, <2>5, <2>6, <2>7, <2>8, <2>9, <2>10, QueueSteps
<1>3. QED
  BY <1>1, <1>2

-----------------------------------------------------------------------------
(* The follows: the invariant *)

LEMMA FollowInit == Init => FollowInv
<1> SUFFICES ASSUME Init PROVE FollowInv
  OBVIOUS
<1>0. FollowTypes
  BY FollowTypesInit
<1>1. Carried = {} /\ (\A w \in Worker : work[w].pc = "idle") /\ tool.pc = "idle"
  <2>1. inbox = {} /\ (\A r \in Req : ~Publishing(r)) /\ (\A w \in Worker : work[w] = Idle) /\ tool = Idle
    BY DEF Init, Publishing, Idle
  <2>2. Carried = {}
    BY <2>1 DEF Carried
  <2>3. \A w \in Worker : work[w].pc = "idle"
    BY <2>1 DEF Idle
  <2>4. tool.pc = "idle"
    BY <2>1 DEF Idle
  <2>5. QED
    BY <2>2, <2>3, <2>4
<1>2. NumbersInOrder /\ UserWorks
  BY <1>1 DEF Init, NumbersInOrder, UserWorks
<1>3. DirectionsAgree /\ BetweenInv /\ WishKept /\ ToolInv
  <2>1. rev = fwd /\ \A u \in User : wish[u] <=> u \in fwd
    BY DEF Init
  <2>2. QED
    BY <1>1, <2>1 DEF DirectionsAgree, BetweenInv, WishKept, ToolInv
<1>4. NewestIsWish
  <2>1. /\ \A u \in User : u \in rows <=> wish[u]
        /\ \A u \in User : applied[u] = 0
    BY DEF Init
  <2>2. QED
    BY <1>1, <2>1 DEF NewestIsWish, NewestFor
<1>5. NewestSize
  BY <1>1 DEF Init, NewestSize, CountSize, JobSize, ToolSize
<1>6. FollowerFirst /\ LastChangeHeard
  BY <1>1 DEF Init, FollowerFirst, LastChangeHeard
<1>7. QED
  BY <1>0, <1>2, <1>3, <1>4, <1>5, <1>6 DEF FollowInv

LEMMA FollowNext == FollowInv /\ Next => FollowInv'
  BY FollowTypesNext, NumbersNext, UserWorksNext, AgreeNext, ToolNext, WishNext, RowNewestNext, SizeNext,
     FollowerFirstNext, HeardNext DEF FollowInv, AgreeInv, WishInv, SizeInv, HeardInv

LEMMA FollowStays == FollowInv /\ UNCHANGED follows => FollowInv'
<1> SUFFICES ASSUME FollowInv, UNCHANGED follows PROVE FollowInv'
  OBVIOUS
<1> USE DEF follows, sets, tables, causes
<1>1. FollowTypes'
  BY DEF FollowInv, FollowTypes, SetTypes, CauseTypes, RowTypes, CountTypes, QueueTypes, RunTypes
<1>2. Carried' = Carried
  BY DEF Carried, Publishing, Switched
<1>3. NumbersInOrder' /\ UserWorks' /\ DirectionsAgree' /\ BetweenInv' /\ WishKept'
  BY <1>2 DEF FollowInv, NumbersInOrder, UserWorks, DirectionsAgree, BetweenInv, WishKept, Between
<1>4. ToolInv'
  BY DEF FollowInv, ToolInv, Wanted
<1>5. NewestIsWish'
  BY <1>2 DEF FollowInv, NewestIsWish, NewestFor, Newest
<1>6. NewestSize'
  BY DEF FollowInv, NewestSize, CountSize, JobSize, ToolSize, Size
<1>7. FollowerFirst' /\ LastChangeHeard'
  BY <1>2 DEF FollowInv, FollowerFirst, LastChangeHeard
<1>8. QED
  BY <1>1, <1>3, <1>4, <1>5, <1>6, <1>7 DEF FollowInv

LEMMA CountsFollow == FollowTypes /\ NewestSize /\ LastChangeHeard => CountsFollowSets
<1> SUFFICES ASSUME FollowTypes, NewestSize, LastChangeHeard, group = "user", CountSettled,
                    NEW c \in Counter, countCause[c] = {}
             PROVE  count[c] = Size(c)
  BY DEF CountsFollowSets
<1>1. Carried = {}
  BY DEF CountSettled, Carried
<1>2. QED
  BY <1>1 DEF LastChangeHeard, NewestSize, CountSize

LEMMA FollowValues == FollowTypes /\ NumbersInOrder => TypeOK
<1> SUFFICES ASSUME FollowTypes, NumbersInOrder PROVE TypeOK
  OBVIOUS
<1> USE DEF FollowTypes
<1>1. \A c \in Counter : count[c] \in 0 .. (IF c = Author THEN Cardinality(User) ELSE 1)
  BY Counters DEF CountTypes
<1>2. \A w \in Worker : work[w].pc \in {"idle", "following", "followers"}
  BY JobFields
<1>3. tool.pc \in {"idle", "keys", "insert", "add", "reverse", "following", "followers"}
  BY ToolFields
<1>4. QED
  BY <1>1, <1>2, <1>3 DEF TypeOK, SetTypes, RowTypes, QueueTypes, NumbersInOrder, Event

-----------------------------------------------------------------------------
(* The four parts together *)

Inv == FollowInv /\ SessionInv /\ ProfileInv /\ VideoInv
accountVars == <<part, faults, follows, sessions, profiles, videos>>

LEMMA InitEstablishes == AccountInit => Inv
  BY FollowInit, SessionInit, ProfileInit, VideoInit DEF AccountInit, Inv

\* A step is one part's; the others keep their variables, and faults they do not read.
LEMMA NextPreserves == Inv /\ [AccountNext]_accountVars => Inv'
<1> SUFFICES ASSUME Inv, [AccountNext]_accountVars PROVE Inv'
  OBVIOUS
<1> USE DEF Inv
<1>1. CASE part = "follows" /\ Next /\ UNCHANGED <<part, sessions, profiles, videos>>
  BY <1>1, FollowNext, SessionStays, ProfileStays, VideoStays
<1>2. CASE part = "sessions" /\ S!Next /\ UNCHANGED <<part, follows, profiles, videos>>
  BY <1>2, SessionNext, FollowStays, ProfileStays, VideoStays
<1>3. CASE part = "profiles" /\ P!Next /\ UNCHANGED <<part, follows, sessions, videos>>
  BY <1>3, ProfileNext, FollowStays, SessionStays, VideoStays
<1>4. CASE part = "videos" /\ V!Next /\ UNCHANGED <<part, follows, sessions, profiles>>
  BY <1>4, VideoNext, FollowStays, SessionStays, ProfileStays
<1>5. CASE UNCHANGED accountVars
  BY <1>5, FollowStays, SessionStays, ProfileStays, VideoStays DEF accountVars
<1>6. QED
  BY <1>1, <1>2, <1>3, <1>4, <1>5 DEF AccountNext, accountVars

LEMMA Invariant == AccountSpec => []Inv
<1>1. AccountSpec => AccountInit /\ [][AccountNext]_accountVars
  BY DEF AccountSpec, accountVars
<1>2. QED
  BY <1>1, InitEstablishes, NextPreserves, PTL

-----------------------------------------------------------------------------
(* The theorems *)

\* The sets, the rows, the counters and what is carried between them keep their
\* values, for any number of users, requests, workers and commands.
THEOREM FollowsTyped == AccountSpec => []TypeOK
<1>1. Inv => TypeOK
  BY FollowValues DEF Inv, FollowInv
<1>2. QED
  BY <1>1, Invariant, PTL

\* The two directions of a follow part only for a user at whom a command stopped
\* or was overtaken between its two SADD (SwitchFollow's script, addFollows).
THEOREM Directions == AccountSpec => []DirectionsAgree
<1>1. Inv => DirectionsAgree
  BY DEF Inv, FollowInv
<1>2. QED
  BY <1>1, Invariant, PTL

\* Redis holds what a user last asked for, whatever the commands restored.
THEOREM SetsKeepTheWish == AccountSpec => []WishKept
<1>1. Inv => WishKept
  BY DEF Inv, FollowInv
<1>2. QED
  BY <1>1, Invariant, PTL

\* The table follow ends up with what a user last asked for (HandleSwitched).
THEOREM RowsSettle == AccountSpec => []RowsFollowWish
<1>1. Inv => RowsFollowWish
  BY RowsFollow DEF Inv, FollowInv
<1>2. QED
  BY <1>1, Invariant, PTL

\* The counters end up with the sizes of their sets (HandleFollowSwitched, recount).
THEOREM CountersSettle == AccountSpec => []CountsFollowSets
<1>1. Inv => CountsFollowSets
  BY CountsFollow DEF Inv, FollowInv
<1>2. QED
  BY <1>1, Invariant, PTL

\* The variables of the sessions, the profile and the video keep their values.
THEOREM PartsTyped == AccountSpec => []PartsTypeOK
<1>1. Inv => PartsTypeOK
  BY ProfileTypes, VideoTypes DEF Inv, SessionInv, PartsTypeOK
<1>2. QED
  BY <1>1, Invariant, PTL

\* Rotation leaves one token of a login, logout none (RotateRefreshToken, Logout).
THEOREM OneToken == AccountSpec => []SessionEnds
<1>1. Inv => SessionEnds
  BY SessionsEnd DEF Inv, SessionEnds
<1>2. QED
  BY <1>1, Invariant, PTL

\* A token that the browser stores is the server's live one (setAuth, refresh).
THEOREM LoggedIn == AccountSpec => []StoredIsLive
<1>1. Inv => StoredIsLive
  BY DEF Inv, SessionInv, StoredIsLive
<1>2. QED
  BY <1>1, Invariant, PTL

\* The copies of a name and an avatar end up as the user's (HandleProfileUpdated).
THEOREM CopiesFollow == AccountSpec => []CopiesSettle
<1>1. Inv => CopiesSettle
  BY CopySettles DEF Inv, CopiesSettle
<1>2. QED
  BY <1>1, Invariant, PTL

\* UpdateProfile stores the user's avatar and deletes the one before, unless edits
\* crossed, the new avatar's Save or the UPDATE reported an error and took place
\* all the same, or a deletion was left out.
THEOREM OneAvatar == AccountSpec => []AvatarIsStored
<1>1. Inv => AvatarIsStored
  BY AvatarStored DEF Inv, AvatarIsStored
<1>2. QED
  BY <1>1, Invariant, PTL

\* A visible video has its files, a deleted one ends without (HandleDeleted).
THEOREM FilesAndRow == AccountSpec => []FilesFollowRow
<1>1. Inv => FilesFollowRow
  BY FilesFollow DEF Inv, FilesFollowRow
<1>2. QED
  BY <1>1, Invariant, PTL

\* The user's video_count ends up with the number of published rows (syncVideoCount).
THEOREM VideosCounted == AccountSpec => []CountFollowsVideo
<1>1. Inv => CountFollowsVideo
  BY CountFollows DEF Inv, CountFollowsVideo
<1>2. QED
  BY <1>1, Invariant, PTL

\* An upload the page reports as done was published (uploadQueue.ts, Publish).
THEOREM DoneMeansPublished == AccountSpec => []DoneIsPublished
<1>1. Inv => DoneIsPublished
  BY DEF Inv, VideoInv, DoneIsPublished
<1>2. QED
  BY <1>1, Invariant, PTL
=============================================================================
