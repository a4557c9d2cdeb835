-------------------------- MODULE WebAccountsProofs --------------------------
(***************************************************************************)
(* The session of a user: a page gives up only when no refresh could have  *)
(* been granted, and the cookies are what the user asked for last.  The    *)
(* enrolment of an agent: an install link is served once and in time, and  *)
(* what a host is given authenticates as its agent or as nobody.  For any  *)
(* tabs, calls, agents, handlers and bounds.                               *)
(***************************************************************************)
EXTENDS MCWebAccounts, TLAPS

RequestTypes == [state : {"none", "sent", "granted", "refused", "me", "out"},
                 token : Tokens, csrf : BOOLEAN, remember : BOOLEAN]

\* Requests under way, and what the calls were sent with.
RequestsOK ==
    /\ renewal \in [Sources -> RequestTypes]
    /\ \A s \in Sources : renewal[s] = Quiet \/ renewal[s].state \in {"sent", "granted", "refused"}
    /\ signing \in [Tabs -> RequestTypes]
    /\ \A t \in Tabs : signing[t] = Quiet \/ signing[t].state \in {"me", "out"}
    /\ \A t \in Tabs : signing[t].state = "out" => page[t] = "app"
    /\ cred \in [Tabs -> [Calls -> Tokens]]
    /\ lapsed \in [Tabs -> BOOLEAN]

Tracked(t) == call[t] # AllIdle \/ renewal[<<t, "shared">>] # Quiet

\* While a tab cannot blame the server, a refresh sent now would be granted, the
\* one under way will be, and the calls that are repeated will be served.
LapseOK(t) ==
    /\ Tracked(t) => Renewable(jar, active)
    /\ \A c \in Calls : /\ call[t][c] # "denied again"
                        /\ call[t][c] = "again" => cred[t][c] = "good"
    /\ LET r == renewal[<<t, "shared">>]
       IN  /\ r.state # "refused"
           /\ r.state \in {"sent", "granted"} => r.token = "good"
           /\ r.state = "sent" => r.csrf

LapseInv == \A t \in Tabs : ~lapsed[t] => LapseOK(t)

\* A response that may still set cookies agrees with what the user asked for, or was
\* under way when he asked.
Welcome(r) == r.state = "granted" \/ (r.state = "sent" /\ r.token = "good")

AskedInv ==
    /\ asked \in [what : {"out", "short", "long"}, late : SUBSET Sources, undone : BOOLEAN]
    /\ AsTheUserAsked
    /\ ~asked.undone => \A s \in Sources \ asked.late :
          Welcome(renewal[s]) => asked.what = Choice(renewal[s].remember)

TypeInv == WebTypeOK /\ RequestsOK

-----------------------------------------------------------------------------

LEMMA QuietFacts ==
    /\ Quiet \in RequestTypes /\ Quiet.state = "none" /\ Quiet.token = "none"
    /\ \A token \in Tokens : jar \in [access : Tokens, refresh : Tokens, csrf : BOOLEAN, remember : BOOLEAN] =>
          /\ Request(token) \in RequestTypes
          /\ Request(token).state = "sent" /\ Request(token).token = token
          /\ Request(token).csrf = jar.csrf /\ Request(token).remember = jar.remember
  BY DEF Quiet, RequestTypes, Request, Tokens

LEMMA TokenFacts ==
    ASSUME NEW token \in Tokens
    PROVE  /\ Lost(token) \in Tokens
           /\ Lost(token) = "good" => token = "good"
           /\ Lost(token) = "none" <=> token = "none"
           /\ token = "good" => (Lost(token) = "good" <=> ~Ephemeral)
  BY DEF Lost, Tokens

LEMMA CookieFacts ==
    /\ \A token \in Tokens, remember \in BOOLEAN :
          /\ Cookies(token, remember) \in [access : Tokens, refresh : Tokens, csrf : BOOLEAN, remember : BOOLEAN]
          /\ Cookies(token, remember).access = token
          /\ Cookies(token, remember).refresh = token
          /\ Cookies(token, remember).remember = remember
    /\ NoCookies \in [access : Tokens, refresh : Tokens, csrf : BOOLEAN, remember : BOOLEAN]
    /\ NoCookies.access = "none" /\ NoCookies.refresh = "none"
  BY DEF Cookies, NoCookies, Tokens

LEMMA SourceFacts ==
    \A t \in Tabs : /\ <<t, "shared">> \in Sources /\ <<t, "socket">> \in Sources
                    /\ \A u \in Tabs : <<t, "shared">> # <<u, "socket">>
                    /\ \A u \in Tabs : <<t, "shared">> = <<u, "shared">> => t = u
  BY DEF Sources

\* What Track() says of one tab.
LEMMA TrackFacts ==
    ASSUME NEW blame, Track(blame)
    PROVE  /\ lapsed' \in [Tabs -> BOOLEAN]
           /\ \A t \in Tabs : Tracked(t)' =>
                 /\ lapsed[t] \/ t \in blame => lapsed'[t]
                 /\ ~lapsed'[t] => Renewable(jar', active')
           /\ \A t \in Tabs : ~Tracked(t)' => ~lapsed'[t]
<1>1. \A t \in Tabs : lapsed'[t] = (/\ call'[t] # AllIdle \/ renewal'[<<t, "shared">>] # Quiet
                                    /\ lapsed[t] \/ t \in blame \/ ~Renewable(jar', active'))
  BY Zenon DEF Track
<1>2. lapsed' \in [Tabs -> BOOLEAN]
  BY Zenon DEF Track
<1> QED
  BY <1>1, <1>2, Zenon DEF Tracked

\* The browser leaves the page of one tab.
LEMMA NavigateFacts ==
    ASSUME TypeInv, NEW t \in Tabs, Navigate(t)
    PROVE  /\ page' \in [Tabs -> {"loading", "login", "app"}]
           /\ call' \in [Tabs -> [Calls -> CallStates]]
           /\ renewal' \in [Sources -> RequestTypes]
           /\ signing' \in [Tabs -> RequestTypes]
           /\ page'[t] = "loading" /\ call'[t] = AllIdle /\ signing'[t].state = "me"
           /\ \A u \in Tabs : u # t => /\ page'[u] = page[u] /\ call'[u] = call[u]
                                       /\ signing'[u] = signing[u]
           /\ \A s \in Sources : renewal'[s] = IF s[1] = t THEN Quiet ELSE renewal[s]
           /\ \A u \in Tabs : u # t => renewal'[<<u, "shared">>] = renewal[<<u, "shared">>]
           /\ renewal'[<<t, "shared">>] = Quiet
<1> USE DEF TypeInv, WebTypeOK, RequestsOK
<1>1. AllIdle \in [Calls -> CallStates]
  BY DEF AllIdle, CallStates
<1>2. [Request(jar.access) EXCEPT !.state = "me"] \in RequestTypes
      /\ [Request(jar.access) EXCEPT !.state = "me"].state = "me"
  <2>1. jar.access \in Tokens
    OBVIOUS
  <2> QED
    BY <2>1 DEF RequestTypes, Request
<1>3. \A s \in Sources : renewal'[s] = IF s[1] = t THEN Quiet ELSE renewal[s]
  BY DEF Navigate
<1>4. \A u \in Tabs : <<u, "shared">> \in Sources /\ <<u, "shared">>[1] = u
  BY DEF Sources
<1>5. renewal' \in [Sources -> RequestTypes]
  BY QuietFacts DEF Navigate
<1> QED
  BY <1>1, <1>2, <1>3, <1>4, <1>5 DEF Navigate

LEMMA NavigateTypes ==
    ASSUME TypeInv, NEW t \in Tabs, Navigate(t),
           jar' \in [access : Tokens, refresh : Tokens, csrf : BOOLEAN, remember : BOOLEAN],
           UNCHANGED cred, lapsed' \in [Tabs -> BOOLEAN]
    PROVE  TypeInv'
<1>0. TypeInv /\ Navigate(t)
  OBVIOUS
<1>1. /\ page' \in [Tabs -> {"loading", "login", "app"}]
      /\ call' \in [Tabs -> [Calls -> CallStates]]
      /\ renewal' \in [Sources -> RequestTypes]
      /\ signing' \in [Tabs -> RequestTypes]
  BY ONLY <1>0, t \in Tabs, NavigateFacts
<1>2. /\ page'[t] = "loading" /\ call'[t] = AllIdle /\ signing'[t].state = "me"
      /\ renewal'[<<t, "shared">>] = Quiet
  BY ONLY <1>0, t \in Tabs, NavigateFacts
<1>3. ASSUME NEW u \in Tabs, u # t
      PROVE  /\ page'[u] = page[u] /\ call'[u] = call[u] /\ signing'[u] = signing[u]
             /\ renewal'[<<u, "shared">>] = renewal[<<u, "shared">>]
  <2>1. \A v \in Tabs : v # t => /\ page'[v] = page[v] /\ call'[v] = call[v]
                                 /\ signing'[v] = signing[v]
    BY ONLY <1>0, t \in Tabs, NavigateFacts
  <2>2. \A v \in Tabs : v # t => renewal'[<<v, "shared">>] = renewal[<<v, "shared">>]
    BY ONLY <1>0, t \in Tabs, NavigateFacts
  <2> QED
    BY <1>3, <2>1, <2>2
<1>4. ASSUME NEW s \in Sources PROVE renewal'[s] = Quiet \/ renewal'[s] = renewal[s]
  BY ONLY <1>0, t \in Tabs, NavigateFacts
<1>5. \A u \in Tabs, c \in Calls : call'[u][c] = "waiting" => renewal'[<<u, "shared">>] # Quiet
  BY <1>2, <1>3 DEF TypeInv, WebTypeOK, AllIdle
<1>6. \A u \in Tabs : /\ page'[u] = "loading" <=> signing'[u].state = "me"
                      /\ signing'[u] = Quiet \/ signing'[u].state \in {"me", "out"}
                      /\ signing'[u].state = "out" => page'[u] = "app"
  <2> SUFFICES ASSUME NEW u \in Tabs
               PROVE  /\ page'[u] = "loading" <=> signing'[u].state = "me"
                      /\ signing'[u] = Quiet \/ signing'[u].state \in {"me", "out"}
                      /\ signing'[u].state = "out" => page'[u] = "app"
    OBVIOUS
  <2>1. CASE u = t
    BY <1>2, <2>1
  <2>2. CASE u # t
    <3>1. page'[u] = page[u] /\ signing'[u] = signing[u]
      BY <1>3, <2>2
    <3> QED
      BY <3>1 DEF TypeInv, WebTypeOK, RequestsOK
  <2> QED
    BY <2>1, <2>2
<1>7. \A s \in Sources : renewal'[s] = Quiet \/ renewal'[s].state \in {"sent", "granted", "refused"}
  BY <1>4 DEF TypeInv, RequestsOK
<1> QED
  BY <1>1, <1>5, <1>6, <1>7 DEF TypeInv, WebTypeOK, RequestsOK

LEMMA TypeInit == WebInit => TypeInv
<1> SUFFICES ASSUME WebInit PROVE TypeInv
  OBVIOUS
<1>1. jar \in [access : Tokens, refresh : Tokens, csrf : BOOLEAN, remember : BOOLEAN]
  BY CookieFacts DEF WebInit, Tokens
<1>2. call \in [Tabs -> [Calls -> CallStates]] /\ \A t \in Tabs, c \in Calls : call[t][c] = "idle"
  BY DEF WebInit, AllIdle, CallStates
<1>3. \A t \in Tabs : signing[t] = Quiet /\ page[t] = "app"
  BY DEF WebInit
<1>4. WebTypeOK
  BY <1>1, <1>2, <1>3, QuietFacts DEF WebInit, WebTypeOK
<1>5. cred \in [Tabs -> [Calls -> Tokens]] /\ lapsed \in [Tabs -> BOOLEAN]
  BY DEF WebInit, Tokens
<1>6. renewal \in [Sources -> RequestTypes] /\ signing \in [Tabs -> RequestTypes]
  BY QuietFacts DEF WebInit
<1>7. RequestsOK
  BY <1>3, <1>5, <1>6, QuietFacts DEF WebInit, RequestsOK
<1> QED
  BY <1>4, <1>7 DEF TypeInv

LEMMA TypeStep == TypeInv /\ [WebNext]_webVars => TypeInv'
<1> SUFFICES ASSUME TypeInv, [WebNext]_webVars PROVE TypeInv'
  OBVIOUS
<1> USE DEF TypeInv, WebTypeOK, RequestsOK
<1>a. ASSUME NEW blame, Track(blame) PROVE lapsed' \in [Tabs -> BOOLEAN]
  BY <1>a, TrackFacts
<1>b. jar.access \in Tokens /\ jar.refresh \in Tokens
  OBVIOUS
<1>c. ASSUME NEW t \in Tabs, NEW what \in {"shared", "socket"},
             renewal' = [renewal EXCEPT ![<<t, what>>] = Quiet]
      PROVE  /\ renewal' \in [Sources -> RequestTypes]
             /\ \A s \in Sources :
                   renewal'[s] = Quiet \/ renewal'[s].state \in {"sent", "granted", "refused"}
             /\ \A u \in Tabs : u # t \/ what = "socket" =>
                   renewal'[<<u, "shared">>] = renewal[<<u, "shared">>]
  <2>1. /\ <<t, what>> \in Sources /\ Quiet \in RequestTypes
        /\ \A u \in Tabs : /\ <<u, "shared">> \in Sources
                           /\ u # t \/ what = "socket" => <<u, "shared">> # <<t, what>>
    BY ONLY <1>c, SourceFacts, QuietFacts
  <2> QED
    BY ONLY <1>c, <2>1, RequestsOK DEF RequestsOK
<1>1. ASSUME NEW t \in Tabs, NEW c \in Calls, Fetch(t, c) PROVE TypeInv'
  <2>1. UNCHANGED <<jar, page, renewal, signing>> /\ lapsed' \in [Tabs -> BOOLEAN]
    BY ONLY <1>1, <1>a DEF Fetch
  <2>2. /\ call' \in [Tabs -> [Calls -> CallStates]]
        /\ cred' \in [Tabs -> [Calls -> Tokens]]
        /\ \A u \in Tabs, d \in Calls : call'[u][d] = "waiting" => call[u][d] = "waiting"
    BY ONLY <1>1, <1>b, WebTypeOK, RequestsOK DEF Fetch, CallStates, WebTypeOK, RequestsOK
  <2> QED
    BY ONLY TypeInv, <2>1, <2>2 DEF TypeInv, WebTypeOK, RequestsOK
<1>2. ASSUME NEW t \in Tabs, NEW c \in Calls, Serve(t, c) PROVE TypeInv'
  BY <1>2, <1>a, ZenonT(30) DEF Serve, CallStates
<1>3. ASSUME NEW t \in Tabs, NEW c \in Calls, Denied(t, c) PROVE TypeInv'
  <2>1. /\ renewal' \in [Sources -> RequestTypes]
        /\ \A s \in Sources : renewal'[s] = Quiet \/ renewal'[s].state \in {"sent", "granted", "refused"}
        /\ renewal'[<<t, "shared">>] # Quiet
        /\ \A u \in Tabs : u # t => renewal'[<<u, "shared">>] = renewal[<<u, "shared">>]
    <3>1. renewal' = IF renewal[<<t, "shared">>] = Quiet
                     THEN [renewal EXCEPT ![<<t, "shared">>] = Request(jar.refresh)]
                     ELSE renewal
      BY ONLY <1>3 DEF Denied
    <3>2. /\ Request(jar.refresh) \in RequestTypes /\ Request(jar.refresh).state = "sent"
          /\ Request(jar.refresh) # Quiet /\ <<t, "shared">> \in Sources
      BY <1>b, QuietFacts, SourceFacts
    <3>3. \A u \in Tabs : /\ <<u, "shared">> \in Sources
                          /\ u # t => <<u, "shared">> # <<t, "shared">>
      BY ONLY SourceFacts, <1>3
    <3> QED
      BY ONLY <3>1, <3>2, <3>3, RequestsOK DEF RequestsOK
  <2>2. /\ call' \in [Tabs -> [Calls -> CallStates]]
        /\ \A u \in Tabs : u # t => call'[u] = call[u]
    BY <1>3 DEF Denied, CallStates
  <2>3. \A u \in Tabs, d \in Calls : call'[u][d] = "waiting" => renewal'[<<u, "shared">>] # Quiet
    <3>1. ASSUME NEW u \in Tabs, NEW d \in Calls, u # t, call'[u][d] = "waiting"
          PROVE  renewal'[<<u, "shared">>] # Quiet
      <4>1. call'[u] = call[u] /\ renewal'[<<u, "shared">>] = renewal[<<u, "shared">>]
        BY <2>1, <2>2, <3>1
      <4> QED
        BY <3>1, <4>1
    <3> QED
      BY <2>1, <3>1
  <2> QED
    BY <1>3, <1>a, <2>1, <2>2, <2>3 DEF Denied
<1>4. ASSUME NEW t \in Tabs, Navigate(t),
             jar' \in [access : Tokens, refresh : Tokens, csrf : BOOLEAN, remember : BOOLEAN],
             UNCHANGED cred, lapsed' \in [Tabs -> BOOLEAN]
      PROVE  TypeInv'
  BY ONLY TypeInv, <1>4, NavigateTypes
<1>5. ASSUME NEW t \in Tabs, NEW c \in Calls, GiveUp(t, c) PROVE TypeInv'
  BY <1>5, <1>4, <1>a DEF GiveUp
<1>6. ASSUME NEW t \in Tabs, SocketRefresh(t) PROVE TypeInv'
  <2>1. /\ renewal' \in [Sources -> RequestTypes]
        /\ \A s \in Sources : renewal'[s] = Quiet \/ renewal'[s].state \in {"sent", "granted", "refused"}
        /\ \A u \in Tabs : renewal'[<<u, "shared">>] = renewal[<<u, "shared">>]
    <3>1. renewal' = [renewal EXCEPT ![<<t, "socket">>] = Request(jar.refresh)]
      BY <1>6 DEF SocketRefresh
    <3>2. /\ Request(jar.refresh) \in RequestTypes /\ Request(jar.refresh).state = "sent"
          /\ <<t, "socket">> \in Sources
      BY <1>6, <1>a, QuietFacts, SourceFacts
    <3>3. \A u \in Tabs : <<u, "shared">> # <<t, "socket">> /\ <<u, "shared">> \in Sources
      BY SourceFacts
    <3> QED
      BY ONLY <3>1, <3>2, <3>3, RequestsOK DEF RequestsOK
  <2> QED
    BY <1>6, <1>a, <2>1 DEF SocketRefresh
<1>7. ASSUME NEW s \in Sources, HandleRefresh(s) \/ RefreshLost(s) PROVE TypeInv'
  <2>1. /\ renewal' \in [Sources -> RequestTypes]
        /\ renewal'[s].state \in {"granted", "refused"}
        /\ \A r \in Sources : r # s => renewal'[r] = renewal[r]
    <3>1. renewal[s] \in RequestTypes
      OBVIOUS
    <3>2. \/ renewal'[s] = [renewal[s] EXCEPT !.state = "granted"]
          \/ renewal'[s] = [renewal[s] EXCEPT !.state = "refused"]
      BY <1>7 DEF HandleRefresh, RefreshLost, Granted
    <3>4. renewal'[s] \in RequestTypes /\ renewal'[s].state \in {"granted", "refused"}
      BY ONLY <3>1, <3>2 DEF RequestTypes
    <3>5. renewal' = [renewal EXCEPT ![s] = renewal'[s]]
      BY <1>7 DEF HandleRefresh, RefreshLost
    <3> QED
      BY <3>4, <3>5
  <2>2. \A r \in Sources : renewal'[r] = Quiet \/ renewal'[r].state \in {"sent", "granted", "refused"}
    BY <2>1
  <2>3. \A u \in Tabs : renewal[<<u, "shared">>] # Quiet => renewal'[<<u, "shared">>] # Quiet
    BY <2>1, SourceFacts, QuietFacts, ZenonT(30)
  <2> QED
    BY <1>7, <1>a, <2>1, <2>2, <2>3 DEF HandleRefresh, RefreshLost
<1>8. ASSUME NEW t \in Tabs, RefreshGranted(t) PROVE TypeInv'
  <2> DEFINE r == renewal[<<t, "shared">>]
  <2>1. r \in RequestTypes /\ r.token \in Tokens /\ r.remember \in BOOLEAN
    BY SourceFacts DEF RequestTypes
  <2>2. /\ jar' \in [access : Tokens, refresh : Tokens, csrf : BOOLEAN, remember : BOOLEAN]
        /\ jar'.access \in Tokens
    BY <1>8, <2>1, CookieFacts DEF RefreshGranted
  <2>3. cred' \in [Tabs -> [Calls -> Tokens]]
    BY <1>8, <2>2 DEF RefreshGranted
  <2>4. /\ call' \in [Tabs -> [Calls -> CallStates]]
        /\ \A c \in Calls : call'[t][c] # "waiting"
        /\ \A u \in Tabs : u # t => call'[u] = call[u]
    BY <1>8 DEF RefreshGranted, Settled, CallStates
  <2>5. /\ renewal' \in [Sources -> RequestTypes]
        /\ \A s \in Sources : renewal'[s] = Quiet \/ renewal'[s].state \in {"sent", "granted", "refused"}
        /\ \A u \in Tabs : u # t => renewal'[<<u, "shared">>] = renewal[<<u, "shared">>]
    <3>1. renewal' = [renewal EXCEPT ![<<t, "shared">>] = Quiet]
      BY ONLY <1>8 DEF RefreshGranted, Settled
    <3> QED
      BY ONLY <3>1, <1>c
  <2>6. UNCHANGED <<active, page, signing>> /\ lapsed' \in [Tabs -> BOOLEAN]
    BY <1>8, <1>a DEF RefreshGranted
  <2> QED
    BY <2>2, <2>3, <2>4, <2>5, <2>6
<1>9. ASSUME NEW t \in Tabs, RefreshRefused(t) PROVE TypeInv'
  BY <1>9, <1>4, <1>a DEF RefreshRefused
<1>10. ASSUME NEW t \in Tabs, SocketRefreshed(t) PROVE TypeInv'
  <2> DEFINE r == renewal[<<t, "socket">>]
  <2>1. r \in RequestTypes /\ r.token \in Tokens /\ r.remember \in BOOLEAN
    BY SourceFacts DEF RequestTypes
  <2>2. jar' \in [access : Tokens, refresh : Tokens, csrf : BOOLEAN, remember : BOOLEAN]
    BY <1>10, <2>1, CookieFacts DEF SocketRefreshed
  <2>3. /\ renewal' \in [Sources -> RequestTypes]
        /\ \A s \in Sources : renewal'[s] = Quiet \/ renewal'[s].state \in {"sent", "granted", "refused"}
        /\ \A u \in Tabs : renewal'[<<u, "shared">>] = renewal[<<u, "shared">>]
    <3>1. renewal' = [renewal EXCEPT ![<<t, "socket">>] = Quiet]
      BY ONLY <1>10 DEF SocketRefreshed
    <3> QED
      BY ONLY <3>1, <1>c
  <2> QED
    BY <1>10, <1>a, <2>2, <2>3 DEF SocketRefreshed
<1>11. ASSUME NEW t \in Tabs, NEW remember \in BOOLEAN, SignIn(t, remember) PROVE TypeInv'
  BY <1>11, <1>a, CookieFacts, QuietFacts DEF SignIn, Tokens
<1>12. ASSUME NEW t \in Tabs, OidcSignIn(t) PROVE TypeInv'
  <2>1. jar' \in [access : Tokens, refresh : Tokens, csrf : BOOLEAN, remember : BOOLEAN]
    BY <1>12, CookieFacts DEF OidcSignIn, Tokens
  <2> QED
    BY <1>12, <1>4, <1>a, <2>1 DEF OidcSignIn
<1>13. ASSUME NEW t \in Tabs, SignOut(t) PROVE TypeInv'
  <2>1. LET r == [Request("none") EXCEPT !.state = "out"]
        IN  r \in RequestTypes /\ r.state = "out"
    BY DEF Request, RequestTypes, Tokens
  <2> QED
    BY <1>13, <1>a, <2>1, ZenonT(30) DEF SignOut, Quiet
<1>14. ASSUME NEW t \in Tabs, SignedOut(t) PROVE TypeInv'
  <2>1. jar' \in [access : Tokens, refresh : Tokens, csrf : BOOLEAN, remember : BOOLEAN]
    BY <1>14, CookieFacts DEF SignedOut, Cleared
  <2> QED
    BY <1>14, <1>a, <2>1, QuietFacts DEF SignedOut
<1>15. ASSUME NEW t \in Tabs, Reload(t) PROVE TypeInv'
  BY <1>15, <1>4, <1>a DEF Reload
<1>16. ASSUME NEW t \in Tabs, Loaded(t) PROVE TypeInv'
  BY <1>16, <1>a, QuietFacts DEF Loaded
<1>17. CASE Expire
  <2>1. jar' \in [access : Tokens, refresh : Tokens, csrf : BOOLEAN, remember : BOOLEAN]
    BY <1>17, CookieFacts DEF Expire, Tokens
  <2> QED
    BY <1>17, <1>a, <2>1 DEF Expire
<1>18. CASE Restart
  <2>1. jar' \in [access : Tokens, refresh : Tokens, csrf : BOOLEAN, remember : BOOLEAN]
    BY <1>18, <1>b, TokenFacts DEF Restart
  <2>2. cred' \in [Tabs -> [Calls -> Tokens]]
    BY <1>18, TokenFacts DEF Restart
  <2>3. ASSUME NEW r \in RequestTypes
        PROVE  /\ [r EXCEPT !.token = Lost(@)] \in RequestTypes
               /\ [r EXCEPT !.token = Lost(@)].state = r.state
               /\ r = Quiet => [r EXCEPT !.token = Lost(@)] = Quiet
    <3>1. r.token \in Tokens /\ Lost(r.token) \in Tokens
      BY TokenFacts DEF RequestTypes
    <3>2. Lost("none") = "none"
      BY DEF Lost
    <3>3. [r EXCEPT !.token = Lost(@)] \in RequestTypes
      BY <3>1 DEF RequestTypes
    <3>4. [r EXCEPT !.token = Lost(@)].state = r.state
      BY DEF RequestTypes
    <3>5. [Quiet EXCEPT !.token = Lost(@)] = Quiet
      BY <3>2 DEF Quiet
    <3> QED
      BY <3>3, <3>4, <3>5, Zenon
  <2>4. /\ renewal' \in [Sources -> RequestTypes]
        /\ \A s \in Sources : renewal'[s] = Quiet \/ renewal'[s].state \in {"sent", "granted", "refused"}
        /\ \A s \in Sources : renewal[s] # Quiet => renewal'[s] # Quiet
    <3>1. ASSUME NEW s \in Sources
          PROVE  /\ renewal'[s] \in RequestTypes /\ renewal'[s].state = renewal[s].state
                 /\ renewal[s] = Quiet => renewal'[s] = Quiet
      <4>1. renewal[s] \in RequestTypes /\ renewal'[s] = [renewal[s] EXCEPT !.token = Lost(@)]
        BY <1>18 DEF Restart
      <4> QED
        BY <2>3, <4>1, ZenonT(30)
    <3>2. renewal' \in [Sources -> RequestTypes]
      BY <1>18, <3>1 DEF Restart
    <3>3. Quiet.state = "none"
      BY QuietFacts
    <3>4. ASSUME NEW s \in Sources, renewal[s] # Quiet PROVE renewal'[s] # Quiet
      BY <3>1, <3>3, <3>4
    <3> QED
      BY <3>1, <3>2, <3>4
  <2>5. /\ signing' \in [Tabs -> RequestTypes]
        /\ \A t \in Tabs : signing'[t].state = signing[t].state
        /\ \A t \in Tabs : signing'[t] = Quiet \/ signing'[t].state \in {"me", "out"}
    <3>1. ASSUME NEW t \in Tabs
          PROVE  /\ signing'[t] \in RequestTypes /\ signing'[t].state = signing[t].state
                 /\ signing[t] = Quiet => signing'[t] = Quiet
      <4>1. signing[t] \in RequestTypes /\ signing'[t] = [signing[t] EXCEPT !.token = Lost(@)]
        BY <1>18 DEF Restart
      <4> QED
        BY <2>3, <4>1, ZenonT(30)
    <3>2. signing' \in [Tabs -> RequestTypes]
      BY <1>18, <3>1 DEF Restart
    <3> QED
      BY <3>1, <3>2
  <2>6. UNCHANGED <<active, page, call, asked>> /\ lapsed' \in [Tabs -> BOOLEAN]
    BY <1>18, <1>a DEF Restart
  <2>7. \A t \in Tabs, c \in Calls : call'[t][c] = "waiting" => renewal'[<<t, "shared">>] # Quiet
    BY <2>4, <2>6, SourceFacts
  <2>8. \A t \in Tabs : /\ page'[t] = "loading" <=> signing'[t].state = "me"
                        /\ signing'[t].state = "out" => page'[t] = "app"
    BY <2>5, <2>6
  <2> QED
    BY <2>1, <2>2, <2>4, <2>5, <2>6, <2>7, <2>8
<1>19. CASE Deactivate
  BY <1>19, <1>a DEF Deactivate
<1>20. CASE UNCHANGED webVars
  BY <1>20 DEF webVars
<1> QED
  BY <1>1, <1>2, <1>3, <1>5, <1>6, <1>7, <1>8, <1>9, <1>10, <1>11, <1>12, <1>13,
     <1>14, <1>15, <1>16, <1>17, <1>18, <1>19, <1>20 DEF WebNext

-----------------------------------------------------------------------------
(* Giving up *)

\* A tab that cannot blame the server could not do so before.
LEMMA Blameless ==
    ASSUME LapseInv, NEW blame, Track(blame), NEW t \in Tabs, ~lapsed'[t]
    PROVE  /\ Tracked(t)' => LapseOK(t) /\ Renewable(jar', active') /\ t \notin blame
           /\ ~Tracked(t)' => LapseOK(t)'
<1>1. Tracked(t)' => LapseOK(t) /\ Renewable(jar', active') /\ t \notin blame
  <2> SUFFICES ASSUME Tracked(t)'
               PROVE  LapseOK(t) /\ Renewable(jar', active') /\ t \notin blame
    OBVIOUS
  <2>1. (lapsed[t] \/ t \in blame => lapsed'[t]) /\ (~lapsed'[t] => Renewable(jar', active'))
    BY TrackFacts, Zenon
  <2>2. ~lapsed[t] /\ t \notin blame /\ Renewable(jar', active')
    BY <2>1
  <2> QED
    BY <2>2, Zenon DEF LapseInv
<1>2. ASSUME ~Tracked(t)' PROVE LapseOK(t)'
  <2>1. call'[t] = AllIdle /\ renewal'[<<t, "shared">>] = Quiet
    BY <1>2 DEF Tracked, AllIdle
  <2>2. \A c \in Calls : call'[t][c] = "idle"
    BY <2>1 DEF AllIdle
  <2>3. renewal'[<<t, "shared">>].state = "none"
    BY <2>1 DEF Quiet
  <2> QED
    BY <1>2, <2>2, <2>3 DEF LapseOK
<1> QED
  BY <1>1, <1>2

\* A step that leaves the requests of a tab alone.
LEMMA LapseStays ==
    ASSUME LapseInv, NEW blame, Track(blame), NEW t \in Tabs, ~lapsed'[t],
           call'[t] = call[t], cred'[t] = cred[t],
           renewal'[<<t, "shared">>] = renewal[<<t, "shared">>]
    PROVE  LapseOK(t)'
<1>1. CASE Tracked(t)'
  <2>1. LapseOK(t) /\ Renewable(jar', active')
    BY <1>1, Blameless
  <2> QED
    BY <2>1 DEF LapseOK
<1>2. CASE ~Tracked(t)'
  BY <1>2, Blameless
<1> QED
  BY <1>1, <1>2

LEMMA LapseInit == WebInit => LapseInv
<1> SUFFICES ASSUME WebInit, NEW t \in Tabs PROVE LapseOK(t)
  BY DEF LapseInv
<1>1. call[t] = AllIdle /\ renewal[<<t, "shared">>] = Quiet
  BY SourceFacts DEF WebInit
<1> QED
  BY <1>1 DEF LapseOK, Tracked, AllIdle, Quiet

LEMMA LapseStep == TypeInv /\ LapseInv /\ [WebNext]_webVars => LapseInv'
<1> SUFFICES ASSUME TypeInv, LapseInv, [WebNext]_webVars, NEW t \in Tabs, ~lapsed'[t]
             PROVE  LapseOK(t)'
  BY DEF LapseInv
<1>a. /\ call \in [Tabs -> [Calls -> CallStates]] /\ cred \in [Tabs -> [Calls -> Tokens]]
      /\ renewal \in [Sources -> RequestTypes]
      /\ \A c \in Calls : call[t][c] = "waiting" => renewal[<<t, "shared">>] # Quiet
      /\ jar.refresh \in Tokens
  BY DEF TypeInv, WebTypeOK, RequestsOK
<1>b. <<t, "shared">> \in Sources /\ renewal[<<t, "shared">>] \in RequestTypes
  BY <1>a, SourceFacts
<1>1. ASSUME NEW u \in Tabs, NEW c \in Calls, Fetch(u, c) PROVE LapseOK(t)'
  <2>0. Track({})
    BY <1>1 DEF Fetch
  <2>1. CASE u # t
    <3>1. /\ call'[t] = call[t] /\ cred'[t] = cred[t]
          /\ renewal'[<<t, "shared">>] = renewal[<<t, "shared">>]
      BY <1>1, <1>a, <2>1 DEF Fetch
    <3> QED
      BY <2>0, <3>1, LapseStays
  <2>2. CASE u = t /\ Tracked(t)'
    <3>1. LapseOK(t) /\ Renewable(jar', active')
      BY <2>0, <2>2, Blameless
    <3>2. /\ \A d \in Calls : d # c => call'[t][d] = call[t][d] /\ cred'[t][d] = cred[t][d]
          /\ call'[t][c] = "sent" /\ renewal' = renewal
      BY <1>1, <1>a, <2>2 DEF Fetch
    <3> QED
      BY <3>1, <3>2 DEF LapseOK
  <2> QED
    BY <2>0, <2>1, <2>2, Blameless
<1>2. ASSUME NEW u \in Tabs, NEW c \in Calls, Serve(u, c) PROVE LapseOK(t)'
  <2>0. Track({})
    BY <1>2 DEF Serve
  <2>1. CASE u # t
    <3>1. /\ call'[t] = call[t] /\ cred'[t] = cred[t]
          /\ renewal'[<<t, "shared">>] = renewal[<<t, "shared">>]
      BY <1>2, <1>a, <2>1 DEF Serve
    <3> QED
      BY <2>0, <3>1, LapseStays
  <2>2. CASE u = t /\ Tracked(t)'
    <3>1. LapseOK(t) /\ Renewable(jar', active')
      BY <2>0, <2>2, Blameless
    <3>2. /\ \A d \in Calls : d # c => call'[t][d] = call[t][d]
          /\ call'[t][c] = IF cred[t][c] = "good" /\ active THEN "idle"
                           ELSE IF call[t][c] = "sent" THEN "denied" ELSE "denied again"
          /\ call[t][c] \in {"sent", "again"}
          /\ renewal' = renewal /\ cred' = cred /\ active' = active
      BY <1>2, <1>a, <2>2 DEF Serve
    <3> QED
      BY <3>1, <3>2 DEF LapseOK, Renewable
  <2> QED
    BY <2>0, <2>1, <2>2, Blameless
<1>3. ASSUME NEW u \in Tabs, NEW c \in Calls, Denied(u, c) PROVE LapseOK(t)'
  <2>0. Track({})
    BY <1>3 DEF Denied
  <2>1. CASE u # t
    <3>1. <<u, "shared">> # <<t, "shared">>
      BY <2>1
    <3>2. /\ call'[t] = call[t] /\ cred'[t] = cred[t]
          /\ renewal'[<<t, "shared">>] = renewal[<<t, "shared">>]
      BY <1>3, <1>a, <1>b, <2>1, <3>1 DEF Denied
    <3> QED
      BY <2>0, <3>2, LapseStays
  <2>2. CASE u = t /\ Tracked(t)'
    <3>1. LapseOK(t) /\ Renewable(jar', active')
      BY <2>0, <2>2, Blameless
    <3>2. /\ \A d \in Calls : d # c => call'[t][d] = call[t][d]
          /\ call'[t][c] = "waiting"
          /\ cred' = cred /\ jar' = jar
      BY <1>3, <1>a, <2>2 DEF Denied
    <3>3. \/ renewal'[<<t, "shared">>] = renewal[<<t, "shared">>]
          \/ renewal'[<<t, "shared">>] = Request(jar.refresh)
      BY <1>3, <1>a, <1>b, <2>2 DEF Denied
    <3>4. /\ Request(jar.refresh).state = "sent"
          /\ Request(jar.refresh).token = "good" /\ Request(jar.refresh).csrf
      BY <3>1, <3>2 DEF Request, Renewable
    <3> QED
      BY <3>1, <3>2, <3>3, <3>4 DEF LapseOK
  <2> QED
    BY <2>0, <2>1, <2>2, Blameless
\* A tab whose page is left has nothing under way.
<1>4. ASSUME NEW u \in Tabs, Navigate(u), UNCHANGED cred, Track({}) PROVE LapseOK(t)'
  <2>1. CASE u # t
    <3>1. call'[t] = call[t] /\ renewal'[<<t, "shared">>] = renewal[<<t, "shared">>]
      <4>1. \A v \in Tabs : v # u => /\ page'[v] = page[v] /\ call'[v] = call[v]
                                     /\ signing'[v] = signing[v]
        BY <1>4, NavigateFacts
      <4>2. \A v \in Tabs : v # u => renewal'[<<v, "shared">>] = renewal[<<v, "shared">>]
        BY <1>4, NavigateFacts
      <4> QED
        BY <2>1, <4>1, <4>2
    <3>2. cred'[t] = cred[t]
      BY <1>4
    <3> QED
      BY <1>4, <3>1, <3>2, LapseStays
  <2>2. CASE u = t
    <3>1. call'[t] = AllIdle /\ renewal'[<<t, "shared">>] = Quiet
      BY <1>4, <2>2, NavigateFacts
    <3>2. ~Tracked(t)'
      BY <3>1 DEF Tracked, AllIdle
    <3> QED
      BY <1>4, <3>2, Blameless
  <2> QED
    BY <2>1, <2>2
<1>5. ASSUME NEW u \in Tabs,
             (\E c \in Calls : GiveUp(u, c)) \/ RefreshRefused(u) \/ OidcSignIn(u) \/ Reload(u)
      PROVE  LapseOK(t)'
  BY <1>4, <1>5 DEF GiveUp, RefreshRefused, OidcSignIn, Reload
<1>6. ASSUME NEW u \in Tabs, SocketRefresh(u) \/ SocketRefreshed(u) PROVE LapseOK(t)'
  <2>1. Track({}) /\ UNCHANGED <<call, cred>>
    BY <1>6 DEF SocketRefresh, SocketRefreshed
  <2>2. renewal'[<<t, "shared">>] = renewal[<<t, "shared">>]
    BY <1>6, <1>a, <1>b, SourceFacts DEF SocketRefresh, SocketRefreshed
  <2> QED
    BY <2>1, <2>2, LapseStays
<1>7. ASSUME NEW s \in Sources, HandleRefresh(s) PROVE LapseOK(t)'
  <2>0. Track({}) /\ UNCHANGED <<call, cred, jar, active>>
    BY <1>7 DEF HandleRefresh
  <2>1. CASE s # <<t, "shared">>
    <3>1. renewal'[<<t, "shared">>] = renewal[<<t, "shared">>]
      BY <1>7, <1>a, <1>b, <2>1 DEF HandleRefresh
    <3> QED
      BY <2>0, <3>1, LapseStays
  <2>2. CASE s = <<t, "shared">> /\ Tracked(t)'
    <3>1. LapseOK(t) /\ Renewable(jar', active')
      BY <2>0, <2>2, Blameless
    <3>2. renewal[s].csrf /\ renewal[s].token = "good" /\ active
      <4>1. renewal[s].state = "sent"
        BY <1>7 DEF HandleRefresh
      <4>2. renewal[s].csrf /\ renewal[s].token = "good"
        BY <2>2, <3>1, <4>1, Zenon DEF LapseOK
      <4>3. active'
        BY <3>1, Zenon DEF Renewable
      <4> QED
        BY <2>0, <4>2, <4>3
    <3>3. renewal'[s] = [renewal[s] EXCEPT !.state = "granted"]
      BY <1>7, <1>a, <3>2 DEF HandleRefresh, Granted
    <3>4. renewal'[s].state = "granted" /\ renewal'[s].token = "good"
      BY <1>a, <3>2, <3>3 DEF RequestTypes
    <3> QED
      BY <2>0, <2>2, <3>1, <3>4 DEF LapseOK
  <2> QED
    BY <2>0, <2>1, <2>2, Blameless
<1>8. ASSUME NEW s \in Sources, RefreshLost(s) PROVE LapseOK(t)'
  <2>0. Track({s[1]}) /\ UNCHANGED <<call, cred, jar, active>>
    BY <1>8 DEF RefreshLost
  <2>1. CASE s # <<t, "shared">>
    <3>1. renewal'[<<t, "shared">>] = renewal[<<t, "shared">>]
      BY <1>8, <1>a, <1>b, <2>1 DEF RefreshLost
    <3> QED
      BY <2>0, <3>1, LapseStays
  <2>2. CASE s = <<t, "shared">> /\ Tracked(t)'
    BY <2>0, <2>2, Blameless
  <2> QED
    BY <2>0, <2>1, <2>2, Blameless
<1>9. ASSUME NEW u \in Tabs, RefreshGranted(u) PROVE LapseOK(t)'
  <2>0. Track({})
    BY <1>9 DEF RefreshGranted
  <2>1. CASE u # t
    <3>1. /\ call'[t] = call[t] /\ cred'[t] = cred[t]
          /\ renewal'[<<t, "shared">>] = renewal[<<t, "shared">>]
      BY <1>9, <1>a, <1>b, <2>1 DEF RefreshGranted, Settled
    <3> QED
      BY <2>0, <3>1, LapseStays
  <2>2. CASE u = t /\ Tracked(t)'
    <3>1. LapseOK(t) /\ Renewable(jar', active')
      BY <2>0, <2>2, Blameless
    <3>2. /\ \A c \in Calls :
                /\ call'[t][c] = IF call[t][c] = "waiting" THEN "again" ELSE call[t][c]
                /\ cred'[t][c] = IF call[t][c] = "waiting" THEN jar'.access ELSE cred[t][c]
          /\ renewal'[<<t, "shared">>] = Quiet
      BY <1>9, <1>a, <1>b, <2>2 DEF RefreshGranted, Settled
    <3>3. jar'.access = "good"
      BY <1>9, <2>2, <3>1 DEF RefreshGranted, LapseOK, Cookies
    <3>4. \A c \in Calls : /\ call'[t][c] # "denied again"
                           /\ call'[t][c] = "again" => cred'[t][c] = "good"
      BY <3>1, <3>2, <3>3 DEF LapseOK
    <3>5. renewal'[<<t, "shared">>].state = "none"
      BY <3>2 DEF Quiet
    <3> QED
      BY <3>1, <3>4, <3>5 DEF LapseOK
  <2> QED
    BY <2>0, <2>1, <2>2, Blameless
<1>10. ASSUME NEW u \in Tabs,
              (\E remember \in BOOLEAN : SignIn(u, remember)) \/ SignOut(u) \/ SignedOut(u) \/ Loaded(u)
       PROVE  LapseOK(t)'
  <2>1. Track({}) /\ UNCHANGED <<call, cred, renewal>>
    BY <1>10 DEF SignIn, SignOut, SignedOut, Loaded
  <2> QED
    BY <2>1, LapseStays
<1>11. CASE Expire \/ Deactivate
  <2>1. Track({}) /\ UNCHANGED <<call, cred, renewal>>
    BY <1>11 DEF Expire, Deactivate
  <2> QED
    BY <2>1, LapseStays
\* A restart that loses the secret spoils the refresh token, too.
<1>12. CASE Restart
  <2>0. Track({})
    BY <1>12 DEF Restart
  <2>1. CASE Tracked(t)'
    <3>1. LapseOK(t) /\ Renewable(jar', active')
      BY <2>0, <2>1, Blameless
    <3>2. jar'.refresh # "good"
      BY <1>12, TypeInv DEF Restart, Lost, TypeInv, WebTypeOK
    <3> QED
      BY <3>1, <3>2 DEF Renewable
  <2> QED
    BY <2>0, <2>1, Blameless
<1>13. CASE UNCHANGED webVars
  <2>1. ~lapsed[t]
    BY <1>13 DEF webVars
  <2>2. LapseOK(t)
    BY <2>1 DEF LapseInv
  <2> QED
    BY <1>13, <2>2 DEF webVars, LapseOK, Tracked, Renewable
<1> QED
  BY <1>1, <1>2, <1>3, <1>5, <1>6, <1>7, <1>8, <1>9, <1>10, <1>11, <1>12, <1>13 DEF WebNext

-----------------------------------------------------------------------------
(* What the user asked for last *)

LEMMA AskedInit == WebInit => AskedInv
<1> SUFFICES ASSUME WebInit PROVE AskedInv
  OBVIOUS
<1>1. PICK remember \in BOOLEAN : /\ jar = Cookies("good", remember)
                                  /\ asked = Asking(Choice(remember), {})
  BY DEF WebInit
<1>2. asked \in [what : {"out", "short", "long"}, late : SUBSET Sources, undone : BOOLEAN]
      /\ asked.what = Choice(remember) /\ jar.remember = remember
  BY <1>1 DEF Asking, Choice, Cookies
<1>3. AsTheUserAsked
  BY <1>2 DEF AsTheUserAsked, Choice
<1>4. \A s \in Sources : ~Welcome(renewal[s])
  BY QuietFacts DEF WebInit, Welcome
<1> QED
  BY <1>2, <1>3, <1>4 DEF AskedInv

\* A step that sets no cookies, asks for nothing and makes no response welcome, but
\* may end some.
LEMMA AskedStays ==
    ASSUME AskedInv, UNCHANGED jar, NEW S, asked' = asked \/ asked' = Ends(S),
           \A s \in Sources : Welcome(renewal'[s]) =>
               /\ Welcome(renewal[s]) /\ renewal'[s].remember = renewal[s].remember
               /\ asked' = asked \/ s \notin S
    PROVE  AskedInv'
<1>1. /\ asked' \in [what : {"out", "short", "long"}, late : SUBSET Sources, undone : BOOLEAN]
      /\ asked'.what = asked.what /\ asked'.undone = asked.undone
      /\ asked' = asked \/ asked'.late = asked.late \ S
  BY DEF AskedInv, Ends
<1>2. AsTheUserAsked'
  BY <1>1 DEF AskedInv, AsTheUserAsked
<1>3. ASSUME ~asked'.undone, NEW s \in Sources, s \notin asked'.late, Welcome(renewal'[s])
      PROVE  asked'.what = Choice(renewal'[s].remember)
  BY <1>1, <1>3 DEF AskedInv, Choice
<1> QED
  BY <1>1, <1>2, <1>3 DEF AskedInv

\* A refresh sent with the cookies there are.
LEMMA AskedSent ==
    ASSUME TypeInv, AskedInv, UNCHANGED <<jar, asked>>, NEW r \in Sources,
           renewal' = [renewal EXCEPT ![r] = Request(jar.refresh)]
    PROVE  AskedInv'
<1>1. Request(jar.refresh).state = "sent" /\ Request(jar.refresh).token = jar.refresh
      /\ Request(jar.refresh).remember = jar.remember
  BY DEF Request
<1>2. \A s \in Sources : renewal'[s] = IF s = r THEN Request(jar.refresh) ELSE renewal[s]
  BY DEF TypeInv, RequestsOK
<1>3. AsTheUserAsked'
  BY DEF AskedInv, AsTheUserAsked
<1>4. ASSUME ~asked.undone, NEW s \in Sources, s \notin asked.late, Welcome(renewal'[s])
      PROVE  asked.what = Choice(renewal'[s].remember)
  <2>1. CASE s = r
    <3>1. jar.refresh = "good" /\ renewal'[s].remember = jar.remember
      BY <1>1, <1>2, <1>4, <2>1 DEF Welcome
    <3>2. asked.what \in {"out", "short", "long"}
      BY DEF AskedInv
    <3> QED
      BY <1>4, <3>1, <3>2 DEF AskedInv, AsTheUserAsked, Choice
  <2>2. CASE s # r
    BY <1>2, <1>4, <2>2 DEF AskedInv
  <2> QED
    BY <2>1, <2>2
<1> QED
  BY <1>3, <1>4 DEF AskedInv

\* The cookies of a response arrive: they are as the user asked, or undo it.
LEMMA AskedArrives ==
    ASSUME TypeInv, AskedInv, NEW r \in Sources, renewal[r].state = "granted",
           jar' = Cookies(renewal[r].token, renewal[r].remember),
           renewal' = [renewal EXCEPT ![r] = Quiet], Arrives(r)
    PROVE  AskedInv'
<1>1. CASE r \in asked.late
  <2>1. asked' = [asked EXCEPT !.undone = TRUE, !.late = {}]
    BY <1>1 DEF Arrives
  <2>2. asked.what \in {"out", "short", "long"} /\ asked'.undone
        /\ asked' \in [what : {"out", "short", "long"}, late : SUBSET Sources, undone : BOOLEAN]
    BY <2>1 DEF AskedInv
  <2> QED
    BY <2>2 DEF AskedInv, AsTheUserAsked
<1>2. CASE r \notin asked.late
  <2>1. asked' = asked
    BY <1>2 DEF Arrives
  <2>2. ~asked.undone => asked.what = Choice(renewal[r].remember)
    BY <1>2 DEF AskedInv, Welcome
  <2>3. jar'.remember = renewal[r].remember
    BY DEF Cookies
  <2>4. AsTheUserAsked'
    BY <2>1, <2>2, <2>3 DEF AsTheUserAsked, Choice
  <2>5. \A s \in Sources : Welcome(renewal'[s]) => renewal'[s] = renewal[s]
    BY QuietFacts DEF TypeInv, RequestsOK, Welcome
  <2> QED
    BY <2>1, <2>4, <2>5 DEF AskedInv
<1> QED
  BY <1>1, <1>2

\* The user asks for something: the cookies are as he asked, and so is every refresh
\* that is not remembered as contrary.
LEMMA AskedAnew ==
    ASSUME NEW what \in {"out", "short", "long"}, AsksFor(what), UNCHANGED renewal,
           what = "out" => jar' = NoCookies,
           what = "short" => jar' = Cookies("good", FALSE),
           what = "long" => jar' = Cookies("good", TRUE)
    PROVE  AskedInv'
<1>1. asked'.what = what /\ asked'.late = Contrary(what) /\ ~asked'.undone
      /\ asked' \in [what : {"out", "short", "long"}, late : SUBSET Sources, undone : BOOLEAN]
  BY DEF AsksFor, Asking, Contrary
<1>2. AsTheUserAsked'
  BY <1>1 DEF AsTheUserAsked, NoCookies, Cookies
<1>3. ASSUME NEW s \in Sources, s \notin asked'.late, Welcome(renewal'[s])
      PROVE  asked'.what = Choice(renewal'[s].remember)
  <2>1. s \notin Contrary(what) /\ renewal'[s] = renewal[s] /\ renewal[s].state \in {"sent", "granted"}
    BY <1>1, <1>3, QuietFacts DEF Welcome
  <2> QED
    BY <1>1, <2>1 DEF Contrary
<1> QED
  BY <1>1, <1>2, <1>3 DEF AskedInv

LEMMA AskedStep ==
    ASSUME ~Domain, TypeInv, AskedInv, [WebNext]_webVars
    PROVE  AskedInv'
<1>a. /\ renewal \in [Sources -> RequestTypes]
      /\ \A t \in Tabs : <<t, "shared">> \in Sources /\ <<t, "socket">> \in Sources
  BY SourceFacts DEF TypeInv, RequestsOK
<1>b. \A what : Contrary(what) \in SUBSET Sources
  BY DEF Contrary
<1>1. ASSUME NEW t \in Tabs, NEW c \in Calls, Fetch(t, c) \/ Serve(t, c) PROVE AskedInv'
  BY <1>1, AskedStays DEF Fetch, Serve
<1>2. ASSUME NEW t \in Tabs, NEW c \in Calls, Denied(t, c) PROVE AskedInv'
  <2>1. CASE renewal[<<t, "shared">>] = Quiet
    BY <1>2, <1>a, <2>1, AskedSent DEF Denied
  <2>2. CASE renewal[<<t, "shared">>] # Quiet
    BY <1>2, <2>2, AskedStays DEF Denied
  <2> QED
    BY <2>1, <2>2
<1>3. ASSUME NEW t \in Tabs, Navigate(t), UNCHANGED jar, asked' = Ends(Of(t)) PROVE AskedInv'
  <2>1. \A s \in Sources : renewal'[s] = Quiet \/ (s \notin Of(t) /\ renewal'[s] = renewal[s])
    BY <1>3 DEF Navigate, Sources, Of
  <2>2. \A s \in Sources : Welcome(renewal'[s]) => s \notin Of(t) /\ renewal'[s] = renewal[s]
    BY <2>1, QuietFacts DEF Welcome
  <2> QED
    BY <1>3, <2>2, AskedStays
<1>4. ASSUME NEW t \in Tabs, (\E c \in Calls : GiveUp(t, c)) \/ RefreshRefused(t) \/ Reload(t)
      PROVE  AskedInv'
  BY <1>3, <1>4 DEF GiveUp, RefreshRefused, Reload
<1>5. ASSUME NEW t \in Tabs, SocketRefresh(t) PROVE AskedInv'
  BY <1>5, <1>a, AskedSent DEF SocketRefresh
<1>6. ASSUME NEW r \in Sources, HandleRefresh(r) \/ RefreshLost(r) PROVE AskedInv'
  <2>1. UNCHANGED <<jar, asked>> /\ renewal[r].state = "sent"
    BY <1>6 DEF HandleRefresh, RefreshLost
  <2>2. \A s \in Sources : s # r => renewal'[s] = renewal[s]
    BY <1>6, <1>a DEF HandleRefresh, RefreshLost
  <2>3. \/ renewal'[r] = [renewal[r] EXCEPT !.state = "granted"] /\ renewal[r].token = "good"
        \/ renewal'[r] = [renewal[r] EXCEPT !.state = "refused"]
    BY <1>6, <1>a DEF HandleRefresh, RefreshLost, Granted
  <2>4. Welcome(renewal'[r]) => /\ Welcome(renewal[r])
                                /\ renewal'[r].remember = renewal[r].remember
    <3>1. renewal[r] \in RequestTypes
      BY <1>a
    <3> QED
      BY ONLY <2>1, <2>3, <3>1 DEF Welcome, RequestTypes
  <2> QED
    BY <2>1, <2>2, <2>4, AskedStays
<1>7. ASSUME NEW t \in Tabs, RefreshGranted(t) PROVE AskedInv'
  BY <1>7, <1>a, AskedArrives DEF RefreshGranted, Settled
<1>8. ASSUME NEW t \in Tabs, SocketRefreshed(t) PROVE AskedInv'
  <2>1. CASE renewal[<<t, "socket">>].state = "granted"
    BY <1>8, <1>a, <2>1, AskedArrives DEF SocketRefreshed
  <2>2. CASE renewal[<<t, "socket">>].state # "granted"
    <3>1. UNCHANGED jar /\ renewal' = [renewal EXCEPT ![<<t, "socket">>] = Quiet]
          /\ asked' = Ends({<<t, "socket">>})
      BY <1>8, <2>2 DEF SocketRefreshed
    <3>2. \A s \in Sources : Welcome(renewal'[s]) => /\ renewal'[s] = renewal[s]
                                                    /\ s \notin {<<t, "socket">>}
      BY <1>a, <3>1, QuietFacts DEF Welcome
    <3> QED
      BY <3>1, <3>2, AskedStays
  <2> QED
    BY <2>1, <2>2
<1>9. ASSUME NEW t \in Tabs, NEW remember \in BOOLEAN, SignIn(t, remember) PROVE AskedInv'
  <2>1. UNCHANGED renewal /\ jar' = Cookies("good", remember) /\ AsksFor(Choice(remember))
    BY <1>9 DEF SignIn
  <2>2. CASE remember
    <3>1. jar' = Cookies("good", TRUE) /\ AsksFor("long")
      BY <2>1, <2>2 DEF Choice
    <3> QED
      BY ONLY <2>1, <3>1, AskedAnew
  <2>3. CASE ~remember
    <3>1. jar' = Cookies("good", FALSE) /\ AsksFor("short")
      BY <2>1, <2>3 DEF Choice
    <3> QED
      BY ONLY <2>1, <3>1, AskedAnew
  <2> QED
    BY <2>2, <2>3
<1>10. ASSUME NEW t \in Tabs, OidcSignIn(t) PROVE AskedInv'
  <2>1. \A s \in Sources : \/ renewal'[s] = Quiet
                           \/ s \notin Of(t) /\ renewal'[s] = renewal[s]
    BY <1>10 DEF OidcSignIn, Navigate, Sources, Of
  <2>2. jar' = Cookies("good", TRUE) /\ asked' = Asking("long", Contrary("long") \ Of(t))
    BY <1>10 DEF OidcSignIn
  <2>3. /\ asked'.what = "long" /\ asked'.late = Contrary("long") \ Of(t) /\ ~asked'.undone
        /\ asked' \in [what : {"out", "short", "long"}, late : SUBSET Sources, undone : BOOLEAN]
    BY <1>b, <2>2 DEF Asking
  <2>4. AsTheUserAsked'
    BY <2>2, <2>3 DEF AsTheUserAsked, Cookies
  <2>5. ASSUME NEW s \in Sources, s \notin asked'.late, Welcome(renewal'[s])
        PROVE  asked'.what = Choice(renewal'[s].remember)
    <3>1. s \notin Of(t) /\ renewal'[s] = renewal[s] /\ renewal[s].state \in {"sent", "granted"}
      BY <2>1, <2>5, QuietFacts DEF Welcome
    <3> QED
      BY <2>3, <2>5, <3>1 DEF Contrary
  <2> QED
    BY <2>3, <2>4, <2>5 DEF AskedInv
<1>11. ASSUME NEW t \in Tabs, SignedOut(t) PROVE AskedInv'
  <2>1. UNCHANGED renewal
    BY <1>11 DEF SignedOut
  <2>2. CASE signing[t].csrf
    <3>1. jar' = NoCookies /\ AsksFor("out")
      BY <1>11, <2>2 DEF SignedOut, Cleared
    <3> QED
      BY ONLY <2>1, <3>1, AskedAnew
  <2>3. CASE ~signing[t].csrf
    BY <1>11, <2>1, <2>3, AskedStays DEF SignedOut
  <2> QED
    BY <2>2, <2>3
<1>12. ASSUME NEW t \in Tabs, SignOut(t) \/ Loaded(t) PROVE AskedInv'
  BY <1>12, AskedStays DEF SignOut, Loaded
<1>13. CASE Expire
  <2>1. UNCHANGED <<renewal, asked>>
    BY <1>13 DEF Expire
  <2>2. \/ jar'.access = "none" /\ jar'.refresh = jar.refresh /\ jar'.remember = jar.remember
        \/ jar' = NoCookies
    BY <1>13 DEF Expire, TypeInv, WebTypeOK
  <2>3. AsTheUserAsked'
    BY <2>1, <2>2 DEF AskedInv, AsTheUserAsked, NoCookies
  <2> QED
    BY <2>1, <2>3 DEF AskedInv
<1>14. CASE Restart
  <2>1. /\ jar'.access = Lost(jar.access) /\ jar'.refresh = Lost(jar.refresh)
        /\ jar'.remember = jar.remember /\ asked' = asked
    BY <1>14 DEF Restart, TypeInv, WebTypeOK
  <2>2. AsTheUserAsked'
    BY <2>1 DEF AskedInv, AsTheUserAsked, Lost
  <2>3. ASSUME NEW s \in Sources
        PROVE  Welcome(renewal'[s]) => /\ Welcome(renewal[s])
                                       /\ renewal'[s].remember = renewal[s].remember
    <3>1. renewal[s] \in RequestTypes /\ renewal'[s] = [renewal[s] EXCEPT !.token = Lost(@)]
      BY <1>14, <1>a DEF Restart
    <3> QED
      BY ONLY <3>1 DEF Welcome, RequestTypes, Lost
  <2> QED
    BY <2>1, <2>2, <2>3 DEF AskedInv
<1>15. CASE Deactivate
  BY <1>15, AskedStays DEF Deactivate
<1>16. CASE UNCHANGED webVars
  BY <1>16, AskedStays DEF webVars
<1> QED
  BY <1>1, <1>2, <1>4, <1>5, <1>6, <1>7, <1>8, <1>9, <1>10, <1>11, <1>12, <1>13,
     <1>14, <1>15, <1>16 DEF WebNext

LEMMA WebInvariance == WebSpec => [](TypeInv /\ LapseInv)
<1>1. TypeInv /\ LapseInv /\ [WebNext]_webVars => TypeInv' /\ LapseInv'
  BY TypeStep, LapseStep
<1> QED
  BY <1>1, TypeInit, LapseInit, PTL DEF WebSpec

\* Cookies, pages and calls keep their types, a page that loads has its /me request
\* under way, and a call waits only while a refresh of its tab is (api.ts, auth.tsx).
THEOREM WebTypeCorrect == WebSpec => []WebTypeOK
  BY WebInvariance, PTL DEF TypeInv

\* For any tabs, calls and faults, and whether or not restarts lose the secret: a
\* page gives its calls up only if since the oldest of them was made there was a
\* time when no refresh could be granted (api.ts 20-22).
THEOREM GivesUpOnlyWhenLapsed == WebSpec => GivesUpOnlyIfLapsed
<1> DEFINE Blamed == \A t \in Tabs :
                        (\E c \in Calls : GiveUp(t, c)) \/ RefreshRefused(t) => lapsed[t]
<1>1. TypeInv /\ LapseInv /\ [WebNext]_webVars => [Blamed]_webVars
  <2> SUFFICES ASSUME LapseInv, NEW t \in Tabs, ~lapsed[t]
               PROVE  ~(\E c \in Calls : GiveUp(t, c)) /\ ~RefreshRefused(t)
    OBVIOUS
  <2> QED
    BY DEF LapseInv, LapseOK, GiveUp, RefreshRefused
<1> HIDE DEF Blamed
<1>2. GivesUpOnlyIfLapsed <=> [][Blamed]_webVars
  BY PTL DEF GivesUpOnlyIfLapsed, Blamed
<1> QED
  BY <1>1, <1>2, WebInvariance, PTL DEF WebSpec

\* If cookies are cleared with the attributes they are set with, no refresh that
\* starts after the user signed in or out brings back a session that was signed out,
\* or forgets or invents the choice to be remembered (auth.py 94-99, deps.py 28-35):
\* that takes one that was under way when he did, carries another choice and is
\* granted.
THEOREM SessionAsAsked == ASSUME ~Domain PROVE WebSpec => []AsTheUserAsked
<1>1. TypeInv /\ AskedInv /\ [WebNext]_webVars => TypeInv' /\ AskedInv'
  BY TypeStep, AskedStep
<1>2. AskedInv => AsTheUserAsked
  BY DEF AskedInv
<1> QED
  BY <1>1, <1>2, TypeInit, AskedInit, PTL DEF WebSpec

-----------------------------------------------------------------------------

\* A handler that has its answer holds the token of its agent and, later, the
\* code of a link of its agent.
HandOK(h) ==
    /\ hand[h].at = "asked" /\ hand[h].what # "create" => hand[h].agent \in Agents
    /\ hand[h].at \in {"answered", "linking", "linked"} =>
          /\ hand[h].agent \in Agents /\ hand[h].token \in 1..Len(owner)
          /\ owner[hand[h].token] = hand[h].agent
    /\ hand[h].at = "linked" /\ hand[h].code \in DOMAIN links =>
          links[hand[h].code].agent = hand[h].agent

HandsOK == \A h \in Hands : HandOK(h)

\* A stored link was not served, has its time from its birth and the token of its
\* agent.
LinksOK ==
    /\ \A c \in DOMAIN links :
          /\ c \in Codes /\ served[c] = 0
          /\ owner[links[c].token] = links[c].agent
          /\ links[c].expires = born[c] + Ttl
    /\ \A c \in Codes : served[c] # 0 => c <= Len(born)

\* A row holds the newest token of its agent.
RowsOK ==
    \A a \in Agents : row[a] # 0 =>
        /\ owner[row[a]] = a
        /\ \A t \in 1..Len(owner) : owner[t] = a => t <= row[a]

\* The dialog has the token of its agent and, unless tokens were revealed across
\* each other, no link but its agent's, now or on its way.
DialogOK ==
    dialog.agent # NoAgent =>
        /\ dialog.token \in 1..Len(owner) /\ owner[dialog.token] = dialog.agent
        /\ ~crossed =>
              /\ dialog.code \in DOMAIN links => links[dialog.code].agent = dialog.agent
              /\ \A h \in Hands : hand[h].at \in {"linking", "linked"} =>
                                     hand[h].agent = dialog.agent

HostsOK ==
    ~crossed =>
        /\ \A d \in copied : d.code \in DOMAIN links => links[d.code].agent = d.host
        /\ \A a \in Agents : config[a] # 0 => owner[config[a]] = a

IInv == EnrolTypeOK /\ HandsOK /\ LinksOK /\ RowsOK /\ DialogOK /\ HostsOK

-----------------------------------------------------------------------------

LEMMA InitIInv == EnrolInit => IInv
<1> SUFFICES ASSUME EnrolInit PROVE IInv
  OBVIOUS
<1>1. Len(owner) = 0 /\ Len(born) = 0 /\ DOMAIN links = {}
  BY DEF EnrolInit
<1>2. Generated
  BY <1>1 DEF EnrolInit, Generated, Idle, Closed
<1>3. EnrolTypeOK
  <2>1. hand \in [Hands -> HandType]
    BY DEF EnrolInit, HandType, Idle, Stages
  <2>2. owner \in Seq(Agents) /\ born \in Seq(Nat)
    BY DEF EnrolInit
  <2> QED
    BY <1>1, <1>2, <2>1, <2>2 DEF EnrolInit, EnrolTypeOK, Closed, DialogType
<1>4. HandsOK /\ LinksOK /\ RowsOK /\ DialogOK /\ HostsOK
  BY <1>1 DEF EnrolInit, HandOK, HandsOK, LinksOK, RowsOK, DialogOK, HostsOK, Idle, Closed, Codes
<1> QED
  BY <1>3, <1>4 DEF IInv

\* Answer() changes one handler.
LEMMA AnswerOne ==
    ASSUME EnrolTypeOK, NEW h \in Hands, NEW r \in HandType, Answer(h, r)
    PROVE  /\ hand' \in [Hands -> HandType]
           /\ hand'[h] = r
           /\ \A g \in Hands : g # h => hand'[g] = hand[g]
  BY DEF Answer, EnrolTypeOK

\* So only that handler's numbers have to be looked at.
LEMMA AnswerGenerated ==
    ASSUME EnrolTypeOK, NEW h \in Hands, NEW r \in HandType, Answer(h, r),
           Len(owner') \in Nat, Len(born') \in Nat,
           Len(owner) <= Len(owner'), Len(born) <= Len(born'),
           r.token <= Len(owner'), r.code <= Len(born')
    PROVE  \A g \in Hands : hand'[g].token <= Len(owner') /\ hand'[g].code <= Len(born')
<1> SUFFICES ASSUME NEW g \in Hands
             PROVE  hand'[g].token <= Len(owner') /\ hand'[g].code <= Len(born')
  OBVIOUS
<1>1. CASE g = h
  BY <1>1, AnswerOne
<1>2. CASE g # h
  <2>1. hand'[g] = hand[g]
    BY <1>2, AnswerOne
  <2>2. hand[g].token \in Nat /\ hand[g].code \in Nat /\ Len(owner) \in Nat /\ Len(born) \in Nat
    BY DEF EnrolTypeOK, HandType
  <2>3. hand[g].token <= Len(owner) /\ hand[g].code <= Len(born)
    BY DEF EnrolTypeOK, Generated
  <2> QED
    BY <2>1, <2>2, <2>3
<1> QED
  BY <1>1, <1>2

\* A new token: its number, and what becomes of the others.
LEMMA NewToken ==
    ASSUME EnrolTypeOK, NEW a \in Agents, owner' = Append(owner, a)
    PROVE  /\ owner' \in Seq(Agents) /\ Len(owner') = Len(owner) + 1
           /\ owner'[Len(owner) + 1] = a
           /\ \A t \in 1..Len(owner) : owner'[t] = owner[t]
  BY DEF EnrolTypeOK

\* A new code: likewise.
LEMMA NewCode ==
    ASSUME EnrolTypeOK, born' = Append(born, now)
    PROVE  /\ born' \in Seq(Nat) /\ Len(born') = Len(born) + 1
           /\ born'[Len(born) + 1] = now
           /\ \A c \in 1..Len(born) : born'[c] = born[c]
  BY DEF EnrolTypeOK

\* How many there are.
LEMMA Lengths == EnrolTypeOK => Len(owner) \in Nat /\ Len(born) \in Nat
  BY DEF EnrolTypeOK

\* The record of a handler.
LEMMA HandRecord ==
    ASSUME EnrolTypeOK, NEW h \in Hands
    PROVE  /\ hand[h] \in HandType /\ hand[h].token \in Nat /\ hand[h].code \in Nat
           /\ hand[h].token <= Len(owner) /\ hand[h].code <= Len(born)
  BY DEF EnrolTypeOK, Generated, HandType

\* The handlers move from stage to stage.
LEMMA StageType ==
    ASSUME EnrolTypeOK, NEW h \in Hands, NEW at \in Stages
    PROVE  /\ [hand[h] EXCEPT !.at = at] \in HandType
           /\ [hand[h] EXCEPT !.at = at].token = hand[h].token
           /\ [hand[h] EXCEPT !.at = at].code = hand[h].code
  BY HandRecord DEF HandType

LEMMA IdleType == Idle \in HandType /\ Idle.token = 0 /\ Idle.code = 0
  BY DEF Idle, HandType, Stages

LEMMA ClosedType == Closed \in DialogType /\ Closed.token = 0 /\ Closed.code = 0
  BY DEF Closed, DialogType

\* What stays the same has the numbers it had.
LEMMA OldNumbers ==
    ASSUME EnrolTypeOK, Len(owner') \in Nat, Len(born') \in Nat,
           Len(owner) <= Len(owner'), Len(born) <= Len(born')
    PROVE  /\ \A a \in Agents : config[a] <= Len(owner') /\ row[a] <= Len(owner')
           /\ dialog.token <= Len(owner') /\ dialog.code <= Len(born')
           /\ \A d \in copied : d.code <= Len(born')
           /\ \A c \in DOMAIN links : c \in 1..Len(born') /\ links[c].token \in 1..Len(owner')
<1>1. Len(owner) \in Nat /\ Len(born) \in Nat
  BY Lengths
<1>2. \A a \in Agents : config[a] \in Nat /\ row[a] \in Nat
  BY DEF EnrolTypeOK
<1>3. dialog.token \in Nat /\ dialog.code \in Nat
  BY DEF EnrolTypeOK, DialogType
<1>4. \A d \in copied : d.code \in Nat
  BY DEF EnrolTypeOK
<1>5. \A a \in Agents : config[a] <= Len(owner') /\ row[a] <= Len(owner')
  BY <1>1, <1>2 DEF EnrolTypeOK, Generated
<1>6. dialog.token <= Len(owner') /\ dialog.code <= Len(born')
  BY <1>1, <1>3 DEF EnrolTypeOK, Generated
<1>7. \A d \in copied : d.code <= Len(born')
  BY <1>1, <1>4 DEF EnrolTypeOK, Generated
<1>8. \A c \in DOMAIN links : c \in 1..Len(born') /\ links[c].token \in 1..Len(owner')
  BY <1>1, SMTT(30) DEF EnrolTypeOK, Generated
<1> QED
  BY <1>5, <1>6, <1>7, <1>8

LEMMA EnrolTypeStep == IInv /\ [EnrolNext]_enrolVars => EnrolTypeOK'
<1> SUFFICES ASSUME IInv, [EnrolNext]_enrolVars PROVE EnrolTypeOK'
  OBVIOUS
<1>0. EnrolTypeOK /\ HandsOK /\ LinksOK /\ Ttl \in Nat
  BY EnrolmentAssumption DEF IInv, EnrolmentAssumption
<1>1. ASSUME NEW h \in Hands, Fails(h) PROVE EnrolTypeOK'
  <2> DEFINE r == Idle
  <2>1. r \in HandType /\ r.token = 0 /\ r.code = 0
    BY <1>0, IdleType DEF Stages
  <2>2. Answer(h, r)
    BY <1>1 DEF Fails
  <2> HIDE DEF r
  <2>3. hand' \in [Hands -> HandType]
    BY <1>0, <2>1, <2>2, AnswerOne
  <2>4. UNCHANGED <<owner, born>>
    BY <1>1 DEF Fails, serverVars
  <2>5. \A g \in Hands : hand'[g].token <= Len(owner') /\ hand'[g].code <= Len(born')
    BY <1>0, <2>1, <2>2, <2>4, HandRecord, Lengths, AnswerGenerated
  <2> QED
    BY <1>0, <1>1, <2>3, <2>5 DEF Fails, EnrolTypeOK, Generated, serverVars, pageVars, hostVars
<1>2. ASSUME NEW h \in Hands, Create(h) PROVE EnrolTypeOK'
  <2>1. PICK a \in Agents : /\ row' = [row EXCEPT ![a] = Len(owner) + 1]
                            /\ owner' = Append(owner, a)
                            /\ Answer(h, [hand[h] EXCEPT !.at = "answered", !.agent = a,
                                                         !.token = Len(owner) + 1])
    BY <1>2 DEF Create
  <2> DEFINE r == [hand[h] EXCEPT !.at = "answered", !.agent = a, !.token = Len(owner) + 1]
  <2>2. Len(owner) + 1 \in Nat
    BY <1>0, Lengths
  <2>3. r \in HandType /\ r.token = Len(owner) + 1 /\ r.code = hand[h].code
    BY <1>0, <2>1, <2>2, HandRecord DEF HandType, Stages
  <2>4. Answer(h, r)
    BY <2>1
  <2> HIDE DEF r
  <2>5. hand' \in [Hands -> HandType]
    BY <1>0, <2>3, <2>4, AnswerOne
  <2>6. owner' \in Seq(Agents) /\ Len(owner') = Len(owner) + 1 /\ UNCHANGED born
    BY <1>0, <1>2, <2>1, NewToken DEF Create
  <2>7. \A g \in Hands : hand'[g].token <= Len(owner') /\ hand'[g].code <= Len(born')
    BY <1>0, <2>2, <2>3, <2>4, <2>6, HandRecord, Lengths, AnswerGenerated
  <2>8. row' \in [Agents -> Nat] /\ \A b \in Agents : row'[b] <= Len(owner')
    BY <1>0, <2>1, <2>2, <2>6 DEF EnrolTypeOK, Generated
  <2>9. UNCHANGED <<links, born, served, dialog, listed, crossed, copied, config, now>>
    BY <1>2 DEF Create, pageVars, hostVars
  <2>10. Generated'
    BY <1>0, <2>2, <2>6, <2>7, <2>8, <2>9, Lengths, OldNumbers DEF Generated
  <2> QED
    BY <1>0, <2>5, <2>6, <2>8, <2>9, <2>10 DEF EnrolTypeOK
<1>3. ASSUME NEW h \in Hands, Reissue(h) PROVE EnrolTypeOK'
  <2> DEFINE a == hand[h].agent
             r == [hand[h] EXCEPT !.at = "answered", !.token = Len(owner) + 1]
  <2>1. /\ a \in Agents /\ row' = [row EXCEPT ![a] = Len(owner) + 1]
        /\ owner' = Append(owner, a) /\ Answer(h, r)
    BY <1>0, <1>3 DEF Reissue, HandOK, HandsOK
  <2>2. Len(owner) + 1 \in Nat
    BY <1>0, Lengths
  <2>3. r \in HandType /\ r.token = Len(owner) + 1 /\ r.code = hand[h].code
    BY <1>0, <2>1, <2>2, HandRecord DEF HandType, Stages
  <2>4. Answer(h, r)
    BY <2>1
  <2> HIDE DEF r, a
  <2>5. hand' \in [Hands -> HandType]
    BY <1>0, <2>3, <2>4, AnswerOne
  <2>6. owner' \in Seq(Agents) /\ Len(owner') = Len(owner) + 1 /\ UNCHANGED born
    BY <1>0, <1>3, <2>1, NewToken DEF Reissue
  <2>7. \A g \in Hands : hand'[g].token <= Len(owner') /\ hand'[g].code <= Len(born')
    BY <1>0, <2>2, <2>3, <2>4, <2>6, HandRecord, Lengths, AnswerGenerated
  <2>8. row' \in [Agents -> Nat] /\ \A b \in Agents : row'[b] <= Len(owner')
    BY <1>0, <2>1, <2>2, <2>6 DEF EnrolTypeOK, Generated
  <2>9. UNCHANGED <<links, born, served, dialog, listed, crossed, copied, config, now>>
    BY <1>3 DEF Reissue, pageVars, hostVars
  <2>10. Generated'
    BY <1>0, <2>2, <2>6, <2>7, <2>8, <2>9, Lengths, OldNumbers DEF Generated
  <2> QED
    BY <1>0, <2>5, <2>6, <2>8, <2>9, <2>10 DEF EnrolTypeOK
<1>4. ASSUME NEW h \in Hands, Delete(h) PROVE EnrolTypeOK'
  <2> DEFINE r == [hand[h] EXCEPT !.at = "refreshing"]
  <2>1. r \in HandType /\ r.token = hand[h].token /\ r.code = hand[h].code
    BY <1>0, StageType DEF Stages
  <2>2. Answer(h, r)
    BY <1>4 DEF Delete
  <2> HIDE DEF r
  <2>3. hand' \in [Hands -> HandType]
    BY <1>0, <2>1, <2>2, AnswerOne
  <2>4. UNCHANGED <<owner, born>>
    BY <1>4 DEF Delete, serverVars
  <2>5. \A g \in Hands : hand'[g].token <= Len(owner') /\ hand'[g].code <= Len(born')
    BY <1>0, <2>1, <2>2, <2>4, HandRecord, Lengths, AnswerGenerated
  <2> QED
    BY <1>0, <1>4, <2>3, <2>5 DEF Delete, EnrolTypeOK, Generated, HandOK, HandsOK, pageVars, hostVars
<1>5. ASSUME NEW h \in Hands, CreateLink(h) PROVE EnrolTypeOK'
  <2> DEFINE code == Len(born) + 1
             r == [hand[h] EXCEPT !.at = "linked", !.code = code]
  <2>1. code \in Nat /\ Answer(h, r)
    BY <1>0, <1>5, Lengths DEF CreateLink
  <2>2. r \in HandType /\ r.token = hand[h].token /\ r.code = code
    BY <1>0, <2>1, HandRecord DEF HandType, Stages
  <2>3. /\ hand[h].agent \in Agents /\ hand[h].token \in 1..Len(owner)
    BY <1>0, <1>5 DEF CreateLink, HandOK, HandsOK
  <2>4. LinkOf(h) \in [agent : Agents, token : Nat, expires : Nat] /\ LinkOf(h).token \in 1..Len(owner)
    BY <1>0, <2>3, Lengths DEF LinkOf, EnrolTypeOK
  <2>5. /\ DOMAIN links' = Unexpired \union {code}
        /\ links'[code] = LinkOf(h)
        /\ \A c \in Unexpired : c # code => links'[c] = links[c]
    BY <1>5 DEF CreateLink
  <2>6. /\ born' = Append(born, now) /\ Len(born') = code /\ born' \in Seq(Nat)
        /\ UNCHANGED <<row, owner, served, dialog, listed, crossed, copied, config, now>>
    BY <1>0, <1>5, NewCode DEF CreateLink, pageVars, hostVars
  <2> HIDE DEF r
  <2>7. hand' \in [Hands -> HandType]
    BY <1>0, <2>1, <2>2, AnswerOne
  <2>8. \A g \in Hands : hand'[g].token <= Len(owner') /\ hand'[g].code <= Len(born')
    BY <1>0, <2>1, <2>2, <2>6, HandRecord, Lengths, AnswerGenerated
  <2>9. \A c \in DOMAIN links' : /\ links'[c] \in [agent : Agents, token : Nat, expires : Nat]
                                 /\ c \in 1..Len(born') /\ links'[c].token \in 1..Len(owner)
    BY <1>0, <2>1, <2>4, <2>5, <2>6, Lengths, SMTT(30) DEF EnrolTypeOK, Generated, Unexpired
  <2>10. Generated'
    BY <1>0, <2>1, <2>6, <2>8, <2>9, Lengths, SMTT(30) DEF EnrolTypeOK, Generated, DialogType
  <2> QED
    BY <1>0, <2>6, <2>7, <2>9, <2>10 DEF EnrolTypeOK
<1>6. ASSUME NEW h \in Hands, LinkFails(h) PROVE EnrolTypeOK'
  <2> DEFINE r == [hand[h] EXCEPT !.at = "refreshing"]
  <2>1. r \in HandType /\ r.token = hand[h].token /\ r.code = hand[h].code
    BY <1>0, StageType DEF Stages
  <2>2. Answer(h, r)
    BY <1>6 DEF LinkFails
  <2> HIDE DEF r
  <2>3. hand' \in [Hands -> HandType]
    BY <1>0, <2>1, <2>2, AnswerOne
  <2>4. UNCHANGED <<owner, born>>
    BY <1>6 DEF LinkFails, serverVars
  <2>5. \A g \in Hands : hand'[g].token <= Len(owner') /\ hand'[g].code <= Len(born')
    BY <1>0, <2>1, <2>2, <2>4, HandRecord, Lengths, AnswerGenerated
  <2> QED
    BY <1>0, <1>6, <2>3, <2>5 DEF LinkFails, EnrolTypeOK, Generated, serverVars, pageVars, hostVars
<1>7. ASSUME NEW h \in Hands, Click(h) PROVE EnrolTypeOK'
  <2>1. PICK r \in HandType : r.token = 0 /\ r.code = 0 /\ Answer(h, r)
    <3>1. CASE Answer(h, [Idle EXCEPT !.at = "asked", !.what = "create"])
      <4> DEFINE r == [Idle EXCEPT !.at = "asked", !.what = "create"]
      <4>1. r \in HandType /\ r.token = 0 /\ r.code = 0
        BY DEF Idle, HandType, Stages
      <4> QED
        BY <3>1, <4>1
    <3>2. ASSUME NEW what \in {"reissue", "delete"}, NEW a \in listed,
                 Answer(h, [Idle EXCEPT !.at = "asked", !.what = what, !.agent = a])
          PROVE  \E r \in HandType : r.token = 0 /\ r.code = 0 /\ Answer(h, r)
      <4> DEFINE r == [Idle EXCEPT !.at = "asked", !.what = what, !.agent = a]
      <4>0. a \in Agents
        BY <1>0 DEF EnrolTypeOK
      <4>1. r \in HandType /\ r.token = 0 /\ r.code = 0
        BY <4>0 DEF Idle, HandType, Stages
      <4> QED
        BY <3>2, <4>1
    <3> QED
      BY <1>7, <3>1, <3>2 DEF Click
  <2>3. hand' \in [Hands -> HandType]
    BY <1>0, <2>1, AnswerOne
  <2>4. UNCHANGED <<owner, born>>
    BY <1>7 DEF Click, serverVars
  <2>5. \A g \in Hands : hand'[g].token <= Len(owner') /\ hand'[g].code <= Len(born')
    BY <1>0, <2>1, <2>4, HandRecord, Lengths, AnswerGenerated
  <2> QED
    BY <1>0, <1>7, <2>3, <2>5 DEF Click, EnrolTypeOK, Generated, serverVars, pageVars, hostVars
<1>8. ASSUME NEW h \in Hands, Reveal(h) PROVE EnrolTypeOK'
  <2> DEFINE r == [hand[h] EXCEPT !.at = "linking"]
  <2>1. r \in HandType /\ r.token = hand[h].token /\ r.code = hand[h].code
    BY <1>0, StageType DEF Stages
  <2>2. Answer(h, r)
    BY <1>8 DEF Reveal
  <2> HIDE DEF r
  <2>3. hand' \in [Hands -> HandType]
    BY <1>0, <2>1, <2>2, AnswerOne
  <2>4. /\ UNCHANGED <<row, owner, links, born, served, listed, copied, config, now>>
        /\ dialog' = Opened(h) /\ crossed' \in BOOLEAN
    BY <1>0, <1>8 DEF Reveal, EnrolTypeOK, serverVars, hostVars
  <2>5. \A g \in Hands : hand'[g].token <= Len(owner') /\ hand'[g].code <= Len(born')
    BY <1>0, <2>1, <2>2, <2>4, HandRecord, Lengths, AnswerGenerated
  <2>6. dialog' \in DialogType /\ dialog'.token = hand[h].token /\ dialog'.code = 0
    BY <1>0, <2>4, HandRecord DEF Opened, HandType, DialogType
  <2>7. Generated'
    BY <1>0, <2>4, <2>5, <2>6, HandRecord, Lengths DEF EnrolTypeOK, Generated
  <2> QED
    BY <1>0, <2>3, <2>4, <2>6, <2>7 DEF EnrolTypeOK
<1>9. ASSUME NEW h \in Hands, LinkShown(h) PROVE EnrolTypeOK'
  <2> DEFINE r == [hand[h] EXCEPT !.at = "refreshing"]
  <2>1. r \in HandType /\ r.token = hand[h].token /\ r.code = hand[h].code
    BY <1>0, StageType DEF Stages
  <2>2. Answer(h, r)
    BY <1>9 DEF LinkShown
  <2> HIDE DEF r
  <2>3. hand' \in [Hands -> HandType]
    BY <1>0, <2>1, <2>2, AnswerOne
  <2>4. /\ UNCHANGED <<row, owner, links, born, served, listed, crossed, copied, config, now>>
        /\ dialog' = [dialog EXCEPT !.code = hand[h].code]
    BY <1>9 DEF LinkShown, serverVars, hostVars
  <2>5. \A g \in Hands : hand'[g].token <= Len(owner') /\ hand'[g].code <= Len(born')
    BY <1>0, <2>1, <2>2, <2>4, HandRecord, Lengths, AnswerGenerated
  <2>6. dialog' \in DialogType /\ dialog'.token = dialog.token /\ dialog'.code = hand[h].code
    BY <1>0, <2>4, HandRecord DEF EnrolTypeOK, DialogType
  <2>7. Generated'
    BY <1>0, <2>4, <2>5, <2>6, HandRecord, Lengths DEF EnrolTypeOK, Generated
  <2> QED
    BY <1>0, <2>3, <2>4, <2>6, <2>7 DEF EnrolTypeOK
<1>10. ASSUME NEW h \in Hands, Refresh(h) PROVE EnrolTypeOK'
  <2> DEFINE r == Idle
  <2>1. r \in HandType /\ r.token = 0 /\ r.code = 0
    BY <1>0, IdleType DEF Stages
  <2>2. Answer(h, r)
    BY <1>10 DEF Refresh
  <2> HIDE DEF r
  <2>3. hand' \in [Hands -> HandType]
    BY <1>0, <2>1, <2>2, AnswerOne
  <2>4. UNCHANGED <<owner, born>>
    BY <1>10 DEF Refresh, serverVars
  <2>5. \A g \in Hands : hand'[g].token <= Len(owner') /\ hand'[g].code <= Len(born')
    BY <1>0, <2>1, <2>2, <2>4, HandRecord, Lengths, AnswerGenerated
  <2> QED
    BY <1>0, <1>10, <2>3, <2>5 DEF Refresh, EnrolTypeOK, Generated, serverVars, hostVars
<1>11. ASSUME NEW d \in copied, Download(d) PROVE EnrolTypeOK'
  <2>1. /\ DOMAIN links' \subseteq DOMAIN links
        /\ \A c \in DOMAIN links' : links'[c] = links[c]
    BY <1>11 DEF Download, Consume
  <2>2. /\ config' \in [Agents -> Nat] /\ served' \in [Codes -> Nat]
        /\ \A a \in Agents : config'[a] <= Len(owner)
    <3>1. CASE d.code \in Unexpired
      <4>1. d.code \in DOMAIN links /\ d.code \in Codes /\ d.host \in Agents
        BY <1>0, <1>11, <3>1 DEF Unexpired, LinksOK, EnrolTypeOK
      <4>2. links[d.code].token \in Nat /\ links[d.code].token <= Len(owner)
        BY <1>0, <4>1 DEF EnrolTypeOK, Generated
      <4>3. served' = [served EXCEPT ![d.code] = @ + 1]
        BY <1>11, <3>1 DEF Download
      <4>4. config' = config \/ config' = [config EXCEPT ![d.host] = links[d.code].token]
        BY <1>11, <3>1 DEF Download
      <4>5. served' \in [Codes -> Nat]
        BY <1>0, <4>1, <4>3 DEF EnrolTypeOK
      <4>6. CASE config' = config
        BY <1>0, <4>5, <4>6 DEF EnrolTypeOK, Generated
      <4>7. CASE config' = [config EXCEPT ![d.host] = links[d.code].token]
        BY <1>0, <4>1, <4>2, <4>5, <4>7 DEF EnrolTypeOK, Generated
      <4> QED
        BY <4>4, <4>6, <4>7
    <3>2. CASE d.code \notin Unexpired
      BY <1>0, <1>11, <3>2 DEF Download, EnrolTypeOK, Generated
    <3> QED
      BY <3>1, <3>2
  <2>3. UNCHANGED <<row, owner, born, now, hand, pageVars, copied>>
    BY <1>11 DEF Download
  <2> QED
    BY <1>0, <2>1, <2>2, <2>3 DEF EnrolTypeOK, Generated, pageVars
<1>12. ASSUME ServerRestart PROVE EnrolTypeOK'
  <2>1. DOMAIN links' = {}
    BY <1>12 DEF ServerRestart
  <2> QED
    BY <1>0, <1>12, <2>1 DEF ServerRestart, EnrolTypeOK, Generated, pageVars, hostVars
<1>13. ASSUME Tick PROVE EnrolTypeOK'
  BY <1>0, <1>13 DEF Tick, EnrolTypeOK, Generated, serverVars, pageVars, hostVars
<1>14. ASSUME CloseDialog PROVE EnrolTypeOK'
  <2>1. UNCHANGED <<owner, born>> /\ dialog' = Closed
    BY <1>14 DEF CloseDialog, serverVars
  <2> QED
    BY <1>0, <1>14, <2>1, ClosedType, Lengths DEF CloseDialog, EnrolTypeOK, Generated, serverVars, hostVars
<1>15. ASSUME CopyCommand PROVE EnrolTypeOK'
  <2>1. /\ dialog.agent \in Agents /\ dialog.code \in Nat /\ dialog.code <= Len(born)
    BY <1>0, <1>15 DEF CopyCommand, EnrolTypeOK, DialogType, Generated
  <2> DEFINE d == [host |-> dialog.agent, code |-> dialog.code]
  <2>2. copied' = copied \union {d} /\ d \in [host : Agents, code : Nat] /\ d.code <= Len(born)
    BY <1>15, <2>1 DEF CopyCommand
  <2> HIDE DEF d
  <2>3. copied' \subseteq [host : Agents, code : Nat] /\ \A e \in copied' : e.code <= Len(born)
    BY <1>0, <2>2 DEF EnrolTypeOK, Generated
  <2> QED
    BY <1>0, <1>15, <2>3 DEF CopyCommand, EnrolTypeOK, Generated, serverVars, pageVars
<1>16. ASSUME InstallByHand PROVE EnrolTypeOK'
  <2>1. /\ dialog.agent \in Agents /\ dialog.token \in Nat /\ dialog.token <= Len(owner)
    BY <1>0, <1>16 DEF InstallByHand, EnrolTypeOK, DialogType, Generated
  <2>2. config' \in [Agents -> Nat] /\ \A a \in Agents : config'[a] <= Len(owner)
    BY <1>0, <1>16, <2>1 DEF InstallByHand, EnrolTypeOK, Generated
  <2> QED
    BY <1>0, <1>16, <2>2 DEF InstallByHand, EnrolTypeOK, Generated, serverVars, pageVars
<1>17. ASSUME UNCHANGED enrolVars PROVE EnrolTypeOK'
  BY <1>0, <1>17 DEF enrolVars, EnrolTypeOK, Generated
<1> QED
  BY <1>1, <1>2, <1>3, <1>4, <1>5, <1>6, <1>7, <1>8, <1>9, <1>10, <1>11, <1>12,
     <1>13, <1>14, <1>15, <1>16, <1>17 DEF EnrolNext

-----------------------------------------------------------------------------

\* Tokens keep their agents, and a code that was generated gets no other link.
Kept ==
    /\ Len(owner) \in Nat /\ Len(owner') \in Nat /\ Len(owner) <= Len(owner')
    /\ \A t \in 1..Len(owner) : owner'[t] = owner[t]
    /\ \A c \in 0..Len(born) : c \in DOMAIN links' =>
          c \in DOMAIN links /\ links'[c] = links[c]

LEMMA KeptStep == IInv /\ [EnrolNext]_enrolVars => Kept
<1> SUFFICES ASSUME IInv, [EnrolNext]_enrolVars PROVE Kept
  OBVIOUS
<1>0. EnrolTypeOK /\ Len(owner) \in Nat /\ Len(born) \in Nat
  BY Lengths DEF IInv
<1>1. CASE UNCHANGED <<owner, links>>
  BY <1>0, <1>1 DEF Kept
<1>2. ASSUME NEW h \in Hands, Create(h) \/ Reissue(h) PROVE Kept
  <2>1. \E a \in Agents : owner' = Append(owner, a)
    BY <1>2 DEF Create, Reissue, HandOK, HandsOK, IInv
  <2>2. UNCHANGED links
    BY <1>2 DEF Create, Reissue
  <2> QED
    BY <1>0, <2>1, <2>2, NewToken DEF Kept
<1>3. ASSUME NEW h \in Hands, CreateLink(h) PROVE Kept
  BY <1>0, <1>3 DEF CreateLink, Unexpired, Kept
<1>4. ASSUME NEW d \in copied, Download(d) PROVE Kept
  BY <1>0, <1>4 DEF Download, Consume, Kept
<1>5. ASSUME ServerRestart PROVE Kept
  <2>1. DOMAIN links' = {} /\ UNCHANGED owner
    BY <1>5 DEF ServerRestart
  <2> QED
    BY <1>0, <2>1 DEF Kept
<1>6. ASSUME NEW h \in Hands,
             Fails(h) \/ Delete(h) \/ LinkFails(h) \/ Click(h) \/ Reveal(h) \/ LinkShown(h) \/ Refresh(h)
      PROVE  UNCHANGED <<owner, links>>
  BY <1>6 DEF Fails, Delete, LinkFails, Click, Reveal, LinkShown, Refresh, serverVars
<1>7. ASSUME Tick \/ CloseDialog \/ CopyCommand \/ InstallByHand \/ UNCHANGED enrolVars
      PROVE  UNCHANGED <<owner, links>>
  BY <1>7 DEF Tick, CloseDialog, CopyCommand, InstallByHand, serverVars, enrolVars
<1> QED
  BY <1>1, <1>2, <1>3, <1>4, <1>5, <1>6, <1>7 DEF EnrolNext

\* A handler that does not move keeps its agent and its link's agent.
LEMMA HandStays ==
    ASSUME EnrolTypeOK, HandsOK, Kept, NEW g \in Hands, hand'[g] = hand[g]
    PROVE  HandOK(g)'
<1>1. hand[g].code \in 0..Len(born)
  BY HandRecord, Lengths
<1>2. hand[g].at \in {"answered", "linking", "linked"} =>
         /\ hand[g].token \in 1..Len(owner') /\ owner'[hand[g].token] = hand[g].agent
  BY DEF Kept, HandsOK, HandOK
<1> QED
  BY <1>1, <1>2 DEF Kept, HandsOK, HandOK

LEMMA HandsStep == IInv /\ [EnrolNext]_enrolVars => HandsOK'
<1> SUFFICES ASSUME IInv, [EnrolNext]_enrolVars PROVE HandsOK'
  OBVIOUS
<1>0. EnrolTypeOK /\ HandsOK /\ Kept /\ Len(owner) \in Nat /\ Len(born) \in Nat
  BY KeptStep, Lengths DEF IInv
<1>a. ASSUME NEW h \in Hands, NEW r \in HandType, Answer(h, r), HandOK(h)' PROVE HandsOK'
  <2>1. \A g \in Hands : g # h => hand'[g] = hand[g]
    BY <1>0, <1>a, AnswerOne
  <2> QED
    BY <1>0, <1>a, <2>1, HandStays DEF HandsOK
<1>b. ASSUME UNCHANGED hand PROVE HandsOK'
  BY <1>0, <1>b, HandStays DEF HandsOK
<1>1. ASSUME NEW h \in Hands, Fails(h) \/ Refresh(h) PROVE HandsOK'
  <2>1. Answer(h, Idle) /\ Idle \in HandType
    BY <1>1, IdleType DEF Fails, Refresh
  <2>2. hand'[h] = Idle
    BY <1>0, <2>1, AnswerOne
  <2>3. HandOK(h)'
    BY <2>2 DEF HandOK, Idle
  <2> QED
    BY <1>a, <2>1, <2>3
<1>2. ASSUME NEW h \in Hands, Delete(h) \/ LinkFails(h) \/ LinkShown(h) PROVE HandsOK'
  <2> DEFINE r == [hand[h] EXCEPT !.at = "refreshing"]
  <2>1. Answer(h, r) /\ r \in HandType /\ r.at = "refreshing"
    BY <1>0, <1>2, HandRecord DEF Delete, LinkFails, LinkShown, HandType, Stages
  <2> HIDE DEF r
  <2>2. hand'[h] = r
    BY <1>0, <2>1, AnswerOne
  <2>3. HandOK(h)'
    BY <2>1, <2>2 DEF HandOK
  <2> QED
    BY <1>a, <2>1, <2>3
<1>3. ASSUME NEW h \in Hands, NEW a \in Agents, owner' = Append(owner, a),
             Answer(h, [hand[h] EXCEPT !.at = "answered", !.agent = a,
                                       !.token = Len(owner) + 1])
      PROVE  HandsOK'
  <2> DEFINE r == [hand[h] EXCEPT !.at = "answered", !.agent = a, !.token = Len(owner) + 1]
  <2>0. Len(owner) + 1 \in Nat
    BY <1>0
  <2>1. Answer(h, r) /\ r \in HandType /\ r.at = "answered" /\ r.agent = a /\ r.token = Len(owner) + 1
    BY <1>0, <1>3, <2>0, HandRecord DEF HandType, Stages
  <2> HIDE DEF r
  <2>2. hand'[h] = r
    BY <1>0, <2>1, AnswerOne
  <2>3. Len(owner') = Len(owner) + 1 /\ owner'[Len(owner) + 1] = a
    BY <1>0, <1>3, NewToken
  <2>4. HandOK(h)'
    BY <1>0, <2>1, <2>2, <2>3 DEF HandOK
  <2> QED
    BY <1>a, <2>1, <2>4
<1>4. ASSUME NEW h \in Hands, Create(h) PROVE HandsOK'
  BY <1>3, <1>4 DEF Create
<1>5. ASSUME NEW h \in Hands, Reissue(h) PROVE HandsOK'
  <2>1. /\ hand[h].agent \in Agents /\ owner' = Append(owner, hand[h].agent)
        /\ Answer(h, [hand[h] EXCEPT !.at = "answered", !.token = Len(owner) + 1])
    BY <1>0, <1>5 DEF Reissue, HandOK, HandsOK
  <2>2. [hand[h] EXCEPT !.at = "answered", !.token = Len(owner) + 1]
          = [hand[h] EXCEPT !.at = "answered", !.agent = hand[h].agent, !.token = Len(owner) + 1]
    BY <1>0, HandRecord DEF HandType
  <2> QED
    BY <1>3, <2>1, <2>2
<1>6. ASSUME NEW h \in Hands, CreateLink(h) PROVE HandsOK'
  <2> DEFINE code == Len(born) + 1
             r == [hand[h] EXCEPT !.at = "linked", !.code = code]
  <2>0. code \in Nat /\ Answer(h, r)
    BY <1>0, <1>6 DEF CreateLink
  <2>1. /\ Answer(h, r) /\ r \in HandType /\ r.at = "linked" /\ r.code = code
        /\ r.agent = hand[h].agent /\ r.token = hand[h].token
    BY <1>0, <2>0, HandRecord DEF HandType, Stages
  <2>2. links'[code].agent = hand[h].agent /\ UNCHANGED owner
    BY <1>6 DEF CreateLink, LinkOf
  <2> HIDE DEF r
  <2>3. hand'[h] = r
    BY <1>0, <2>1, AnswerOne
  <2>4. HandOK(h)'
    BY <1>0, <1>6, <2>1, <2>2, <2>3 DEF CreateLink, HandOK, HandsOK
  <2> QED
    BY <1>a, <2>1, <2>4
<1>7. ASSUME NEW h \in Hands, Click(h) PROVE HandsOK'
  <2>1. PICK r \in HandType :
          /\ Answer(h, r) /\ r.at = "asked" /\ (r.what # "create" => r.agent \in Agents)
    <3>1. CASE Answer(h, [Idle EXCEPT !.at = "asked", !.what = "create"])
      <4> DEFINE r == [Idle EXCEPT !.at = "asked", !.what = "create"]
      <4>1. r \in HandType /\ r.at = "asked" /\ r.what = "create"
        BY DEF Idle, HandType, Stages
      <4> QED
        BY <3>1, <4>1
    <3>2. ASSUME NEW what \in {"reissue", "delete"}, NEW a \in listed,
                 Answer(h, [Idle EXCEPT !.at = "asked", !.what = what, !.agent = a])
          PROVE  \E r \in HandType :
                    Answer(h, r) /\ r.at = "asked" /\ (r.what # "create" => r.agent \in Agents)
      <4> DEFINE r == [Idle EXCEPT !.at = "asked", !.what = what, !.agent = a]
      <4>0. a \in Agents
        BY <1>0 DEF EnrolTypeOK
      <4>1. r \in HandType /\ r.at = "asked" /\ r.agent = a
        BY <4>0 DEF Idle, HandType, Stages
      <4> QED
        BY <3>2, <4>0, <4>1
    <3> QED
      BY <1>7, <3>1, <3>2 DEF Click
  <2>2. hand'[h] = r
    BY <1>0, <2>1, AnswerOne
  <2>3. HandOK(h)'
    BY <2>1, <2>2 DEF HandOK
  <2> QED
    BY <1>a, <2>1, <2>3
<1>8. ASSUME NEW h \in Hands, Reveal(h) PROVE HandsOK'
  <2> DEFINE r == [hand[h] EXCEPT !.at = "linking"]
  <2>1. /\ Answer(h, r) /\ r \in HandType /\ r.at = "linking"
        /\ r.agent = hand[h].agent /\ r.token = hand[h].token
    BY <1>0, <1>8, HandRecord DEF Reveal, HandType, Stages
  <2>2. UNCHANGED owner
    BY <1>8 DEF Reveal, serverVars
  <2> HIDE DEF r
  <2>3. hand'[h] = r
    BY <1>0, <2>1, AnswerOne
  <2>4. HandOK(h)'
    BY <1>0, <1>8, <2>1, <2>2, <2>3 DEF Reveal, HandOK, HandsOK
  <2> QED
    BY <1>a, <2>1, <2>4
<1>9. ASSUME \/ \E d \in copied : Download(d)
             \/ ServerRestart \/ Tick \/ CloseDialog \/ CopyCommand \/ InstallByHand
             \/ UNCHANGED enrolVars
      PROVE  HandsOK'
  BY <1>b, <1>9 DEF Download, ServerRestart, Tick, CloseDialog, CopyCommand, InstallByHand, enrolVars
<1> QED
  BY <1>1, <1>2, <1>4, <1>5, <1>6, <1>7, <1>8, <1>9 DEF EnrolNext

LEMMA LinksStep == IInv /\ [EnrolNext]_enrolVars => LinksOK'
<1> SUFFICES ASSUME IInv, [EnrolNext]_enrolVars PROVE LinksOK'
  OBVIOUS
<1>0. /\ EnrolTypeOK /\ HandsOK /\ LinksOK /\ Kept
      /\ Len(owner) \in Nat /\ Len(born) \in Nat
  BY KeptStep, Lengths DEF IInv
<1>1. ASSUME UNCHANGED <<links, owner, born, served>> PROVE LinksOK'
  BY <1>0, <1>1 DEF LinksOK
<1>2. ASSUME NEW h \in Hands, Create(h) \/ Reissue(h) PROVE LinksOK'
  <2>1. UNCHANGED <<links, born, served>>
    BY <1>2 DEF Create, Reissue
  <2>2. \A c \in DOMAIN links : owner'[links[c].token] = owner[links[c].token]
    BY <1>0 DEF Kept, EnrolTypeOK, Generated
  <2> QED
    BY <1>0, <2>1, <2>2 DEF LinksOK
<1>3. ASSUME NEW h \in Hands, CreateLink(h) PROVE LinksOK'
  <2> DEFINE code == Len(born) + 1
  <2>1. /\ code \in Codes /\ served[code] = 0
    BY <1>0, <1>3, EnrolmentAssumption DEF CreateLink, LinksOK, Codes, EnrolmentAssumption
  <2>2. /\ DOMAIN links' = Unexpired \union {code} /\ links'[code] = LinkOf(h)
        /\ \A c \in Unexpired : c # code => links'[c] = links[c]
        /\ UNCHANGED <<owner, served>>
    BY <1>3 DEF CreateLink
  <2>3. /\ Len(born') = code /\ born'[code] = now
        /\ \A c \in 1..Len(born) : born'[c] = born[c]
    BY <1>0, <1>3, NewCode DEF CreateLink
  <2>4. owner[LinkOf(h).token] = LinkOf(h).agent /\ LinkOf(h).expires = now + Ttl
    BY <1>0, <1>3 DEF CreateLink, LinkOf, HandOK, HandsOK
  <2>5. \A c \in Unexpired : c \in 1..Len(born) /\ c # code /\ c \in DOMAIN links
    BY <1>0 DEF Unexpired, EnrolTypeOK, Generated
  <2>6. ASSUME NEW c \in DOMAIN links'
        PROVE  /\ c \in Codes /\ served[c] = 0
               /\ owner[links'[c].token] = links'[c].agent
               /\ links'[c].expires = born'[c] + Ttl
    <3>1. CASE c = code
      BY <2>1, <2>2, <2>3, <2>4, <3>1
    <3>2. CASE c \in Unexpired
      BY <1>0, <2>2, <2>3, <2>5, <3>2 DEF LinksOK
    <3> QED
      BY <2>2, <3>1, <3>2
  <2>7. \A c \in Codes : served[c] # 0 => c <= Len(born')
    BY <1>0, <2>3 DEF LinksOK, Codes
  <2> QED
    BY <2>2, <2>6, <2>7 DEF LinksOK
<1>4. ASSUME NEW d \in copied, Download(d) PROVE LinksOK'
  <2>1. /\ DOMAIN links' = DOMAIN links \ {d.code}
        /\ \A c \in DOMAIN links' : links'[c] = links[c]
        /\ UNCHANGED <<owner, born>>
    BY <1>4 DEF Download, Consume
  <2>2. CASE d.code \in Unexpired
    <3>1. d.code \in DOMAIN links /\ served' = [served EXCEPT ![d.code] = @ + 1]
      BY <1>4, <2>2 DEF Download, Unexpired
    <3>2. \A c \in Codes : c # d.code => served'[c] = served[c]
      BY <1>0, <3>1 DEF EnrolTypeOK
    <3>3. d.code \in 1..Len(born)
      BY <1>0, <3>1 DEF EnrolTypeOK, Generated
    <3> QED
      BY <1>0, <2>1, <3>1, <3>2, <3>3 DEF LinksOK
  <2>3. CASE d.code \notin Unexpired
    BY <1>0, <1>4, <2>1, <2>3 DEF Download, LinksOK
  <2> QED
    BY <2>2, <2>3
<1>5. ASSUME ServerRestart PROVE LinksOK'
  <2>1. DOMAIN links' = {} /\ UNCHANGED <<served, born>>
    BY <1>5 DEF ServerRestart
  <2> QED
    BY <1>0, <2>1 DEF LinksOK
<1>6. ASSUME NEW h \in Hands,
             Fails(h) \/ Delete(h) \/ LinkFails(h) \/ Click(h) \/ Reveal(h) \/ LinkShown(h) \/ Refresh(h)
      PROVE  UNCHANGED <<links, owner, born, served>>
  BY <1>6 DEF Fails, Delete, LinkFails, Click, Reveal, LinkShown, Refresh, serverVars
<1>7. ASSUME Tick \/ CloseDialog \/ CopyCommand \/ InstallByHand \/ UNCHANGED enrolVars
      PROVE  UNCHANGED <<links, owner, born, served>>
  BY <1>7 DEF Tick, CloseDialog, CopyCommand, InstallByHand, serverVars, enrolVars
<1> QED
  BY <1>1, <1>2, <1>3, <1>4, <1>5, <1>6, <1>7 DEF EnrolNext

LEMMA RowsStep == IInv /\ [EnrolNext]_enrolVars => RowsOK'
<1> SUFFICES ASSUME IInv, [EnrolNext]_enrolVars PROVE RowsOK'
  OBVIOUS
<1>0. EnrolTypeOK /\ HandsOK /\ RowsOK /\ Len(owner) \in Nat
  BY Lengths DEF IInv
<1>1. ASSUME UNCHANGED <<row, owner>> PROVE RowsOK'
  BY <1>0, <1>1 DEF RowsOK
<1>2. ASSUME NEW a \in Agents, row' = [row EXCEPT ![a] = Len(owner) + 1],
             owner' = Append(owner, a)
      PROVE  RowsOK'
  <2>1. /\ Len(owner') = Len(owner) + 1 /\ owner'[Len(owner) + 1] = a
        /\ \A t \in 1..Len(owner) : owner'[t] = owner[t]
    BY <1>0, <1>2, NewToken
  <2>2. /\ row'[a] = Len(owner) + 1 /\ \A b \in Agents : b # a => row'[b] = row[b]
        /\ \A b \in Agents : row[b] \in 0..Len(owner)
    BY <1>0, <1>2 DEF EnrolTypeOK, Generated
  <2> QED
    BY <1>0, <2>1, <2>2 DEF RowsOK
<1>3. ASSUME NEW h \in Hands, Create(h) PROVE RowsOK'
  BY <1>2, <1>3 DEF Create
<1>4. ASSUME NEW h \in Hands, Reissue(h) PROVE RowsOK'
  BY <1>0, <1>2, <1>4 DEF Reissue, HandOK, HandsOK
<1>5. ASSUME NEW h \in Hands, Delete(h) PROVE RowsOK'
  BY <1>0, <1>5 DEF Delete, HandOK, HandsOK, RowsOK, EnrolTypeOK
<1>6. ASSUME NEW h \in Hands,
             \/ Fails(h) \/ CreateLink(h) \/ LinkFails(h) \/ Click(h) \/ Reveal(h) \/ LinkShown(h)
             \/ Refresh(h)
      PROVE  UNCHANGED <<row, owner>>
  BY <1>6 DEF Fails, CreateLink, LinkFails, Click, Reveal, LinkShown, Refresh, serverVars
<1>7. ASSUME \/ \E d \in copied : Download(d)
             \/ ServerRestart \/ Tick \/ CloseDialog \/ CopyCommand \/ InstallByHand
             \/ UNCHANGED enrolVars
      PROVE  UNCHANGED <<row, owner>>
  BY <1>7 DEF Download, ServerRestart, Tick, CloseDialog, CopyCommand, InstallByHand, serverVars,
              enrolVars
<1> QED
  BY <1>1, <1>3, <1>4, <1>5, <1>6, <1>7 DEF EnrolNext

\* The dialog stays right when it stays and no handler starts to make a link.
LEMMA DialogStays ==
    ASSUME EnrolTypeOK, DialogOK, Kept, UNCHANGED <<dialog, crossed>>,
           \A g \in Hands : hand'[g].at \in {"linking", "linked"} =>
              hand[g].at \in {"linking", "linked"} /\ hand'[g].agent = hand[g].agent
    PROVE  DialogOK'
<1>1. dialog.code \in 0..Len(born)
  BY Lengths DEF EnrolTypeOK, DialogType, Generated
<1>2. dialog.code \in DOMAIN links' => dialog.code \in DOMAIN links /\ links'[dialog.code] = links[dialog.code]
  BY <1>1 DEF Kept
<1>3. dialog.token \in 1..Len(owner) =>
         dialog.token \in 1..Len(owner') /\ owner'[dialog.token] = owner[dialog.token]
  BY DEF Kept
<1> QED
  BY <1>2, <1>3 DEF DialogOK

LEMMA DialogStep == IInv /\ [EnrolNext]_enrolVars => DialogOK'
<1> SUFFICES ASSUME IInv, [EnrolNext]_enrolVars PROVE DialogOK'
  OBVIOUS
<1>0. EnrolTypeOK /\ HandsOK /\ LinksOK /\ DialogOK /\ Kept /\ Len(owner) \in Nat /\ Len(born) \in Nat
  BY KeptStep, Lengths DEF IInv
<1>a. ASSUME NEW h \in Hands, NEW r \in HandType, Answer(h, r), UNCHANGED <<dialog, crossed>>,
             r.at \in {"linking", "linked"} =>
                hand[h].at \in {"linking", "linked"} /\ r.agent = hand[h].agent
      PROVE  DialogOK'
  <2>1. hand'[h] = r /\ \A g \in Hands : g # h => hand'[g] = hand[g]
    BY <1>0, <1>a, AnswerOne
  <2> QED
    BY <1>0, <1>a, <2>1, DialogStays
<1>1. ASSUME NEW h \in Hands, Fails(h) \/ Refresh(h) PROVE DialogOK'
  <2>1. Answer(h, Idle) /\ Idle \in HandType /\ UNCHANGED <<dialog, crossed>>
    BY <1>1, IdleType DEF Fails, Refresh, pageVars
  <2> QED
    BY <1>a, <2>1 DEF Idle
<1>2. ASSUME NEW h \in Hands, Delete(h) \/ LinkFails(h) PROVE DialogOK'
  <2> DEFINE r == [hand[h] EXCEPT !.at = "refreshing"]
  <2>1. Answer(h, r) /\ r \in HandType /\ r.at = "refreshing" /\ UNCHANGED <<dialog, crossed>>
    BY <1>0, <1>2, HandRecord DEF Delete, LinkFails, HandType, Stages, pageVars
  <2> HIDE DEF r
  <2> QED
    BY <1>a, <2>1
<1>3. ASSUME NEW h \in Hands, Create(h) \/ Reissue(h) PROVE DialogOK'
  <2>0. Len(owner) + 1 \in Nat
    BY <1>0
  <2>1. PICK a \in Agents :
           Answer(h, [hand[h] EXCEPT !.at = "answered", !.agent = a, !.token = Len(owner) + 1])
    <3>1. CASE Create(h)
      BY <3>1 DEF Create
    <3>2. CASE Reissue(h)
      <4>1. hand[h].agent \in Agents
        BY <1>0, <3>2 DEF Reissue, HandOK, HandsOK
      <4>2. [hand[h] EXCEPT !.at = "answered", !.token = Len(owner) + 1]
              = [hand[h] EXCEPT !.at = "answered", !.agent = hand[h].agent, !.token = Len(owner) + 1]
        BY <1>0, HandRecord DEF HandType
      <4> QED
        BY <3>2, <4>1, <4>2 DEF Reissue
    <3> QED
      BY <1>3, <3>1, <3>2
  <2> DEFINE r == [hand[h] EXCEPT !.at = "answered", !.agent = a, !.token = Len(owner) + 1]
  <2>2. r \in HandType /\ r.at = "answered" /\ Answer(h, r)
    BY <1>0, <2>0, <2>1, HandRecord DEF HandType, Stages
  <2>3. UNCHANGED <<dialog, crossed>>
    BY <1>3 DEF Create, Reissue, pageVars
  <2> HIDE DEF r
  <2> QED
    BY <1>a, <2>2, <2>3
<1>4. ASSUME NEW h \in Hands, CreateLink(h) PROVE DialogOK'
  <2> DEFINE code == Len(born) + 1
             r == [hand[h] EXCEPT !.at = "linked", !.code = code]
  <2>0. code \in Nat /\ Answer(h, r) /\ UNCHANGED <<dialog, crossed>> /\ hand[h].at = "linking"
    BY <1>0, <1>4 DEF CreateLink, pageVars
  <2>1. r \in HandType /\ r.at = "linked" /\ r.agent = hand[h].agent
    BY <1>0, <2>0, HandRecord DEF HandType, Stages
  <2> HIDE DEF r
  <2> QED
    BY <1>a, <2>0, <2>1
<1>5. ASSUME NEW h \in Hands, Click(h) PROVE DialogOK'
  <2>1. dialog.agent = NoAgent /\ UNCHANGED dialog
    BY <1>5 DEF Click, pageVars
  <2> QED
    BY <2>1 DEF DialogOK
<1>6. ASSUME NEW h \in Hands, Reveal(h) PROVE DialogOK'
  <2> DEFINE r == [hand[h] EXCEPT !.at = "linking"]
  <2>1. Answer(h, r) /\ r \in HandType /\ r.agent = hand[h].agent
    BY <1>0, <1>6, HandRecord DEF Reveal, HandType, Stages
  <2> HIDE DEF r
  <2>2. hand'[h] = r /\ \A g \in Hands : g # h => hand'[g] = hand[g]
    BY <1>0, <2>1, AnswerOne
  <2>3. /\ dialog' = Opened(h) /\ UNCHANGED <<owner, links>>
        /\ ~crossed' => \A g \in Hands : hand[g].at \notin {"linking", "linked"}
    BY <1>6 DEF Reveal, serverVars
  <2>4. /\ dialog'.agent = hand[h].agent /\ dialog'.token = hand[h].token /\ dialog'.code = 0
    BY <2>3 DEF Opened
  <2>5. hand[h].token \in 1..Len(owner) /\ owner[hand[h].token] = hand[h].agent
    BY <1>0, <1>6 DEF Reveal, HandOK, HandsOK
  <2>6. 0 \notin DOMAIN links
    BY <1>0 DEF EnrolTypeOK, Generated
  <2>7. ~crossed' => \A g \in Hands : hand'[g].at \in {"linking", "linked"} => g = h
    BY <2>2, <2>3
  <2> QED
    BY <2>1, <2>2, <2>3, <2>4, <2>5, <2>6, <2>7 DEF DialogOK
<1>7. ASSUME NEW h \in Hands, LinkShown(h) PROVE DialogOK'
  <2> DEFINE r == [hand[h] EXCEPT !.at = "refreshing"]
  <2>1. Answer(h, r) /\ r \in HandType /\ r.at = "refreshing"
    BY <1>0, <1>7, HandRecord DEF LinkShown, HandType, Stages
  <2> HIDE DEF r
  <2>2. hand'[h] = r /\ \A g \in Hands : g # h => hand'[g] = hand[g]
    BY <1>0, <2>1, AnswerOne
  <2>3. /\ dialog'.agent = dialog.agent /\ dialog'.token = dialog.token
        /\ dialog'.code = hand[h].code /\ UNCHANGED <<owner, links, crossed>>
    BY <1>0, <1>7 DEF LinkShown, serverVars, EnrolTypeOK, DialogType
  <2>4. hand[h].code \in DOMAIN links => links[hand[h].code].agent = hand[h].agent
    BY <1>0, <1>7 DEF LinkShown, HandOK, HandsOK
  <2>5. dialog.agent # NoAgent /\ ~crossed => hand[h].agent = dialog.agent
    BY <1>0, <1>7 DEF LinkShown, DialogOK
  <2> QED
    BY <1>0, <2>1, <2>2, <2>3, <2>4, <2>5 DEF DialogOK
<1>8. ASSUME CloseDialog PROVE DialogOK'
  BY <1>8 DEF CloseDialog, Closed, DialogOK
<1>9. ASSUME \/ \E d \in copied : Download(d)
             \/ ServerRestart \/ Tick \/ CopyCommand \/ InstallByHand \/ UNCHANGED enrolVars
      PROVE  DialogOK'
  <2>1. UNCHANGED <<hand, dialog, crossed>>
    BY <1>9 DEF Download, ServerRestart, Tick, CopyCommand, InstallByHand, pageVars, enrolVars
  <2> QED
    BY <1>0, <2>1, DialogStays
<1> QED
  BY <1>1, <1>2, <1>3, <1>4, <1>5, <1>6, <1>7, <1>8, <1>9 DEF EnrolNext

LEMMA HostsStep == IInv /\ [EnrolNext]_enrolVars => HostsOK'
<1> SUFFICES ASSUME IInv, [EnrolNext]_enrolVars, ~crossed' PROVE HostsOK'
  BY DEF HostsOK
<1>0. EnrolTypeOK /\ LinksOK /\ DialogOK /\ Kept /\ Len(owner) \in Nat /\ Len(born) \in Nat
  BY KeptStep, Lengths DEF IInv
<1>1. ~crossed
  BY DEF EnrolNext, Fails, Create, Reissue, Delete, CreateLink, LinkFails, Click, Reveal, LinkShown,
         Refresh, Download, ServerRestart, Tick, CloseDialog, CopyCommand, InstallByHand, pageVars,
         enrolVars
<1>2. /\ \A d \in copied : d.code \in DOMAIN links => links[d.code].agent = d.host
      /\ \A a \in Agents : config[a] # 0 => owner[config[a]] = a
  BY <1>1 DEF IInv, HostsOK
\* What was copied stays right, and what is configured.
<1>3. \A d \in copied : d.code \in DOMAIN links' => links'[d.code].agent = d.host
  <2>1. \A d \in copied : d.code \in 0..Len(born)
    BY <1>0 DEF EnrolTypeOK, Generated
  <2> QED
    BY <1>0, <1>2, <2>1 DEF Kept
<1>4. \A a \in Agents : config[a] # 0 => owner'[config[a]] = a
  <2>1. \A a \in Agents : config[a] # 0 => config[a] \in 1..Len(owner)
    BY <1>0 DEF EnrolTypeOK, Generated
  <2> QED
    BY <1>0, <1>2, <2>1 DEF Kept
<1>5. ASSUME UNCHANGED hostVars PROVE HostsOK'
  BY <1>3, <1>4, <1>5 DEF HostsOK, hostVars
<1>6. ASSUME NEW d \in copied, Download(d) PROVE HostsOK'
  <2>1. UNCHANGED <<copied, owner>>
    BY <1>6 DEF Download
  <2>2. config' = config \/ (d.code \in Unexpired
                               /\ config' = [config EXCEPT ![d.host] = links[d.code].token])
    BY <1>6 DEF Download
  <2>3. CASE config' = config
    BY <1>3, <1>4, <2>1, <2>3 DEF HostsOK
  <2>4. CASE d.code \in Unexpired /\ config' = [config EXCEPT ![d.host] = links[d.code].token]
    <3>1. d.code \in DOMAIN links /\ d.host \in Agents
      BY <1>0, <2>4 DEF Unexpired, EnrolTypeOK
    <3>2. owner[links[d.code].token] = d.host
      BY <1>0, <1>2, <3>1 DEF LinksOK
    <3>3. \A a \in Agents : config'[a] # 0 => owner[config'[a]] = a
      BY <1>0, <1>2, <2>4, <3>1, <3>2 DEF EnrolTypeOK
    <3> QED
      BY <1>3, <2>1, <3>3 DEF HostsOK
  <2> QED
    BY <2>2, <2>3, <2>4
<1>7. ASSUME CopyCommand PROVE HostsOK'
  <2> DEFINE d == [host |-> dialog.agent, code |-> dialog.code]
  <2>1. copied' = copied \union {d} /\ UNCHANGED <<config, links, owner>>
    BY <1>7 DEF CopyCommand, serverVars
  <2>2. d.code \in DOMAIN links => links[d.code].agent = d.host
    BY <1>0, <1>1, <1>7 DEF CopyCommand, DialogOK
  <2> HIDE DEF d
  <2> QED
    BY <1>2, <2>1, <2>2 DEF HostsOK
<1>8. ASSUME InstallByHand PROVE HostsOK'
  <2>1. /\ owner[dialog.token] = dialog.agent /\ UNCHANGED <<copied, owner>>
        /\ config' = [config EXCEPT ![dialog.agent] = dialog.token]
    BY <1>0, <1>8 DEF InstallByHand, DialogOK, serverVars
  <2>2. \A a \in Agents : config'[a] # 0 => owner[config'[a]] = a
    BY <1>0, <1>2, <2>1 DEF EnrolTypeOK
  <2> QED
    BY <1>3, <2>1, <2>2 DEF HostsOK
<1>9. ASSUME NEW h \in Hands,
             \/ Fails(h) \/ Create(h) \/ Reissue(h) \/ Delete(h) \/ CreateLink(h) \/ LinkFails(h)
             \/ Click(h) \/ Reveal(h) \/ LinkShown(h) \/ Refresh(h)
      PROVE  UNCHANGED hostVars
  BY <1>9 DEF Fails, Create, Reissue, Delete, CreateLink, LinkFails, Click, Reveal, LinkShown, Refresh
<1>10. ASSUME ServerRestart \/ Tick \/ CloseDialog \/ UNCHANGED enrolVars PROVE UNCHANGED hostVars
  BY <1>10 DEF ServerRestart, Tick, CloseDialog, enrolVars, hostVars
<1> QED
  BY <1>5, <1>6, <1>7, <1>8, <1>9, <1>10 DEF EnrolNext

LEMMA Invariance == EnrolSpec => []IInv
<1>1. IInv /\ [EnrolNext]_enrolVars => IInv'
  BY EnrolTypeStep, HandsStep, LinksStep, RowsStep, DialogStep, HostsStep DEF IInv
<1> QED
  BY <1>1, InitIInv, PTL DEF EnrolSpec

-----------------------------------------------------------------------------

\* Rows, handlers, links, dialog, commands and hosts keep their types, and no token
\* or code is used before it was generated (agents/service.py, install_links.py).
THEOREM EnrolTypeCorrect == EnrolSpec => []EnrolTypeOK
  BY Invariance, PTL DEF IInv

\* Whatever is deleted, reissued, swept or restarted, a code gives one script at
\* most, and only in its time (install_links.py 45-53).
THEOREM LinkGivesOneScript == EnrolSpec => LinkServedOnce
<1> DEFINE Once == \A c \in Codes : served'[c] # served[c] =>
                      served[c] = 0 /\ served'[c] = 1 /\ now - born[c] <= Ttl
<1>1. IInv /\ [EnrolNext]_enrolVars => [Once]_enrolVars
  <2> SUFFICES ASSUME IInv, [EnrolNext]_enrolVars PROVE Once \/ UNCHANGED enrolVars
    OBVIOUS
  <2>1. ASSUME NEW d \in copied, Download(d) PROVE Once
    <3>1. CASE d.code \in Unexpired
      <4>1. /\ served' = [served EXCEPT ![d.code] = @ + 1]
            /\ d.code \in DOMAIN links /\ now <= links[d.code].expires
        BY <2>1, <3>1 DEF Download, Unexpired
      <4>2. /\ served[d.code] = 0 /\ links[d.code].expires = born[d.code] + Ttl
            /\ d.code \in Codes /\ d.code \in 1..Len(born)
        BY <4>1 DEF IInv, LinksOK, EnrolTypeOK, Generated
      <4>3. born[d.code] \in Nat /\ now \in Nat /\ Ttl \in Nat /\ served \in [Codes -> Nat]
        BY <4>2, EnrolmentAssumption, SMTT(30) DEF IInv, EnrolTypeOK, EnrolmentAssumption
      <4>4. now - born[d.code] <= Ttl
        BY <4>1, <4>2, <4>3
      <4> QED
        BY <4>1, <4>2, <4>3, <4>4
    <3>2. CASE d.code \notin Unexpired
      BY <2>1, <3>2 DEF Download
    <3> QED
      BY <3>1, <3>2
  <2>2. ASSUME NEW h \in Hands,
               \/ Fails(h) \/ Create(h) \/ Reissue(h) \/ Delete(h) \/ CreateLink(h)
               \/ LinkFails(h) \/ Click(h) \/ Reveal(h) \/ LinkShown(h) \/ Refresh(h)
        PROVE  UNCHANGED served
    BY <2>2 DEF Fails, Create, Reissue, Delete, CreateLink, LinkFails, Click, Reveal, LinkShown,
                Refresh, serverVars
  <2>3. ASSUME ServerRestart \/ Tick \/ CloseDialog \/ CopyCommand \/ InstallByHand
        PROVE  UNCHANGED served
    BY <2>3 DEF ServerRestart, Tick, CloseDialog, CopyCommand, InstallByHand, serverVars
  <2> QED
    BY <2>1, <2>2, <2>3 DEF EnrolNext
<1> HIDE DEF Once
<1>2. LinkServedOnce <=> [][Once]_enrolVars
  BY PTL DEF LinkServedOnce, Once
<1> QED
  BY <1>1, <1>2, Invariance, PTL DEF EnrolSpec

\* However the handlers of the page overlap and however late a command is run, as
\* long as no token is revealed across another's link (ws_agent.py 59-67,
\* AgentsPage.tsx 161-207).
THEOREM HostAuthenticatesAsItself == EnrolSpec => []HostIsItself
<1>1. IInv => HostIsItself
  <2> SUFFICES ASSUME IInv, NEW a \in Agents
               PROVE  /\ ~crossed => Authenticated(config[a]) \ {b \in Agents : row[b] = 0} \subseteq {a}
                      /\ config[a] # 0 /\ row[a] # 0 /\ owner[config[a]] = a => config[a] <= row[a]
    BY DEF HostIsItself
  <2>1. config[a] # 0 => config[a] \in 1..Len(owner)
    BY Lengths DEF IInv, EnrolTypeOK, Generated
  <2>2. ASSUME ~crossed, NEW b \in Agents, row[b] = config[a], row[b] # 0 PROVE b = a
    BY <2>2 DEF IInv, RowsOK, HostsOK
  <2>3. config[a] # 0 /\ row[a] # 0 /\ owner[config[a]] = a => config[a] <= row[a]
    BY <2>1 DEF IInv, RowsOK
  <2> QED
    BY <2>2, <2>3 DEF Authenticated
<1> QED
  BY <1>1, Invariance, PTL

-----------------------------------------------------------------------------

\* Side by side the two are each what they are alone.
LEMMA SideBySide == AccountsSpec => WebSpec /\ EnrolSpec
<1>1. AccountsInit => WebInit /\ EnrolInit
  BY DEF AccountsInit
<1>2. [AccountsNext]_mcVars => [WebNext]_webVars /\ [EnrolNext]_enrolVars
  BY DEF AccountsNext, mcVars
<1> QED
  BY <1>1, <1>2, PTL DEF AccountsSpec, WebSpec, EnrolSpec

\* The type invariant of the run, for any tabs, calls, agents, handlers and bounds.
THEOREM AccountsTypeCorrect == AccountsSpec => []AccountsTypeOK
<1>1. WebTypeOK /\ EnrolTypeOK => AccountsTypeOK
  BY DEF AccountsTypeOK
<1> QED
  BY <1>1, SideBySide, WebTypeCorrect, EnrolTypeCorrect, PTL
=============================================================================
