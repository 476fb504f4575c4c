------------------------------ MODULE Session ------------------------------
(***************************************************************************)
(* The login sessions of one browser (platform/auth, user/logic.go, and in *)
(* the front end utils/http.ts and composables/useAuth.ts).                *)
(*                                                                         *)
(* A refresh token is good once: Refresh reads its record with GET and     *)
(* replaces it by a new one in a MULTI.  The tabs share the token in       *)
(* localStorage, and each keeps the copy of it that it last wrote or found *)
(* when it was loaded; Logout sends the copy, Refresh the stored token.    *)
(* Within a tab calls share one refresh; between tabs nothing does.        *)
(* Access tokens are checked by signature and time alone and are left out. *)
(***************************************************************************)
EXTENDS Naturals, Sequences, FiniteSets

CONSTANTS
    Tab,        \* the tabs of the browser
    MaxToken,   \* bound: how many refresh tokens are issued
    MaxFaults   \* bound: the calls that fail, and the tabs closed during one

VARIABLES
    line,       \* line[n]: the login that token n descends from, for all tokens issued
    live,       \* the tokens with a record in Redis
    stored,     \* the token in localStorage, or None
    held,       \* held[t]: useAuth's refreshToken in tab t
    call,       \* call[t]: what tab t waits for
    faults,
    \* History, read by the properties only:
    lapsed,     \* the tokens whose record expired
    unheard,    \* the tokens that a call used up without the tab hearing of it
    ended,      \* the logins that a logout was to end
    crossed,    \* the logins with a token replaced after its record was gone
    astray      \* the logins whose logout sent a token that was not theirs any more

vars == <<line, live, stored, held, call, faults, lapsed, unheard, ended, crossed, astray>>

None == 0
Token == 1 .. MaxToken
Issued == Len(line)
Idle == [pc |-> "idle"]
History == <<lapsed, unheard, ended, crossed, astray>>

Fault == faults < MaxFaults /\ faults' = faults + 1

Init ==
    /\ line = <<>> /\ live = {}
    /\ stored = None /\ held = [t \in Tab |-> None]
    /\ call = [t \in Tab |-> Idle] /\ faults = 0
    /\ lapsed = {} /\ unheard = {} /\ ended = {} /\ crossed = {} /\ astray = {}

Goes(t, next) == call' = [call EXCEPT ![t] = next]

-----------------------------------------------------------------------------
(* The server *)

\* Issue: one SET.  The answer is on its way to the tab.
Login(t) ==
    /\ call[t].pc = "idle" /\ Issued < MaxToken
    /\ line' = Append(line, Issued + 1)
    /\ live' = live \union {Issued + 1}
    /\ Goes(t, [pc |-> "answer", token |-> None, new |-> Issued + 1])
    /\ UNCHANGED <<stored, held, faults, History>>

\* Refresh: GET.  No record means 401.
GetSession(t) ==
    /\ call[t].pc = "get"
    /\ Goes(t, [call[t] EXCEPT !.pc = IF call[t].token \in live THEN "rotate" ELSE "clear"])
    /\ UNCHANGED <<line, live, stored, held, faults, History>>

\* Mutant: the old record stays.
Replaced_KeepsOld(t) == live \union {Issued + 1}

\* DEL of the old record and SET of the new one.
Replaced(t) == (live \ {call[t].token}) \union {Issued + 1}

\* The MULTI.  It does not ask whether the old record is still there.
Rotate(t) ==
    LET old == call[t].token
    IN  /\ call[t].pc = "rotate" /\ Issued < MaxToken
        /\ line' = Append(line, line[old])
        /\ live' = Replaced(t)
        /\ crossed' = IF old \in live THEN crossed ELSE crossed \union {line[old]}
        /\ Goes(t, [pc |-> "answer", token |-> old, new |-> Issued + 1])
        /\ UNCHANGED <<stored, held, faults, lapsed, unheard, ended, astray>>

\* Revoke: DEL, whether or not there was a record.
Revoke(t) ==
    LET token == call[t].token
        login == call[t].login
    IN  /\ call[t].pc = "revoke"
        /\ live' = live \ {token}
        /\ ended' = ended \union {login}
        /\ astray' = IF token \in live \union lapsed /\ line[token] = login
                     THEN astray ELSE astray \union {login}
        /\ Goes(t, [pc |-> "clear", token |-> token])
        /\ UNCHANGED <<line, stored, held, faults, lapsed, unheard, crossed>>

\* The lifetime of a record ends.
Expire(n) ==
    /\ n \in live
    /\ live' = live \ {n} /\ lapsed' = lapsed \union {n}
    /\ UNCHANGED <<line, stored, held, call, faults, unheard, ended, crossed, astray>>

-----------------------------------------------------------------------------
(* The tabs *)

\* A request was answered 401: runRefresh sends the stored token, if there is one.
Refresh(t) ==
    /\ call[t].pc = "idle"
    /\ Goes(t, IF stored = None THEN [pc |-> "clear", token |-> None]
               ELSE [pc |-> "get", token |-> stored])
    /\ UNCHANGED <<line, live, stored, held, faults, History>>

\* onLogout sends the tab's copy; without one the server answers 400.
Logout(t) ==
    /\ call[t].pc = "idle" /\ stored # None
    /\ Goes(t, IF held[t] = None THEN [pc |-> "clear", token |-> None]
               ELSE [pc |-> "revoke", token |-> held[t], login |-> line[stored]])
    /\ UNCHANGED <<line, live, stored, held, faults, History>>

\* Mutant: a new token does not replace the stored one.
SetAuth_KeepsStored(t, n) ==
    stored' = (IF n = None \/ stored = None THEN n ELSE stored) /\ held' = [held EXCEPT ![t] = n]

SetAuth(t, n) == stored' = n /\ held' = [held EXCEPT ![t] = n]
ClearAuth(t) == SetAuth(t, None)

\* The pair arrives and takes the place of whatever is stored.
Accept(t) ==
    /\ call[t].pc = "answer"
    /\ SetAuth(t, call[t].new)
    /\ Goes(t, Idle)
    /\ UNCHANGED <<line, live, faults, History>>

\* redirectToLogin and the end of onLogout: whatever is stored is removed.
Clear(t) ==
    /\ call[t].pc = "clear"
    /\ ClearAuth(t)
    /\ Goes(t, Idle)
    /\ UNCHANGED <<line, live, faults, History>>

\* The call fails for the tab, before or after the server did its part.  A
\* login leaves everything as it was, the others clear.
CallFails(t) ==
    /\ call[t].pc \in {"get", "rotate", "answer", "revoke"}
    /\ Fault
    /\ Goes(t, IF call[t].token = None THEN Idle ELSE [pc |-> "clear", token |-> call[t].token])
    /\ UNCHANGED <<line, live, stored, held, History>>

\* The tab is loaded anew; during a call its answer is lost.
Load(t) ==
    /\ IF call[t].pc = "idle" THEN held[t] # stored /\ faults' = faults ELSE Fault
    /\ held' = [held EXCEPT ![t] = stored]
    /\ unheard' = IF call[t].pc \in {"answer", "clear"} THEN unheard \union {call[t].token} ELSE unheard
    /\ Goes(t, Idle)
    /\ UNCHANGED <<line, live, stored, lapsed, ended, crossed, astray>>

-----------------------------------------------------------------------------
Next ==
    \/ \E t \in Tab :
          \/ Login(t)
          \/ GetSession(t)
          \/ Rotate(t)
          \/ Revoke(t)
          \/ Refresh(t)
          \/ Logout(t)
          \/ Accept(t)
          \/ Clear(t)
          \/ CallFails(t)
          \/ Load(t)
    \/ \E n \in Token : Expire(n)

Spec == Init /\ [][Next]_vars

-----------------------------------------------------------------------------
(* Properties *)

\* The values the variables take.
TypeOK ==
    /\ line \in Seq(Token) /\ Issued <= MaxToken
    /\ live \subseteq 1 .. Issued /\ lapsed \subseteq 1 .. Issued
    /\ stored \in 0 .. Issued /\ held \in [Tab -> 0 .. Issued]
    /\ \A t \in Tab : call[t].pc \in {"idle", "get", "rotate", "answer", "revoke", "clear"}
    /\ ended \union crossed \union astray \subseteq 1 .. Issued

\* A login is good for one token at a time, and for none once it was logged out.
\* It is not so when a refresh read the record before another refresh, or the
\* logout, deleted it, nor when the logging out tab held a copy that another
\* tab's refresh had replaced.
SessionEnds ==
    \A login \in (1 .. Issued) \ crossed :
        LET tokens == {n \in live : line[n] = login}
        IN  /\ Cardinality(tokens) <= 1
            /\ login \in ended \ astray => tokens = {}

\* The browser is logged in for as long as it looks so: a refresh with the
\* stored token succeeds, unless its record expired, a call that used it up is
\* being answered, or a tab was closed before it heard that answer.  Tabs that
\* refresh at the same time, log in again or log out never leave a dead token.
StoredIsLive ==
    \/ stored \in {None} \union live \union lapsed \union unheard
    \/ \E t \in Tab : call[t].pc \in {"answer", "clear"} /\ call[t].token = stored
=============================================================================
