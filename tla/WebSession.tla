----------------------------- MODULE WebSession -----------------------------
(***************************************************************************)
(* The session of one user in one browser: the cookies its tabs share, the *)
(* calls a page makes and how an expired access token is refreshed for     *)
(* them, signing in and out, and a server that checks tokens, may be       *)
(* restarted and may find the account deactivated.  frontend/src/lib/api.ts*)
(* and auth.tsx, backend/app/api/routes/auth.py and app/security/.         *)
(*                                                                         *)
(* A request carries the cookies of the moment it is sent, and a response  *)
(* sets cookies when it arrives.                                           *)
(***************************************************************************)
EXTENDS Naturals, FiniteSets

CONSTANTS
    Tabs,       \* tabs of the browser
    Calls,      \* calls a page may have outstanding
    Ephemeral,  \* does a restart lose the signing secret (no jwt_secret)?
    Domain,     \* is cookie_domain set?
    Faults      \* which of "deactivate", "network" may happen

VARIABLES
    jar,      \* the cookies
    active,   \* User.is_active
    page,     \* what each tab shows
    call,     \* the calls of each tab
    cred,     \* the access token each call was sent with
    renewal,  \* refresh requests: the shared one of a tab, and its socket's
    signing,  \* the sign-out or /me request of each tab
    lapsed,   \* the session could not be renewed at some time since the oldest
              \* call of the tab was made
    asked     \* what the user asked for last, which renewals under way then carry
              \* another choice, and whether one of those has set cookies since

webVars == <<jar, active, page, call, cred, renewal, signing, lapsed, asked>>

Of(t) == {t} \X {"shared", "socket"}
Sources == Tabs \X {"shared", "socket"}

\* A token is good or signed with a lost secret, or its cookie has expired.
Tokens == {"none", "good", "bad"}
Lost(token) == IF token = "good" /\ Ephemeral THEN "bad" ELSE token

\* set_auth_cookies(); the choice to be remembered is in the refresh token.  The
\* csrf cookie lasts as long as the refresh token.
Cookies(token, remember) ==
    [access |-> token, refresh |-> token, csrf |-> TRUE, remember |-> remember]

NoCookies == [access |-> "none", refresh |-> "none", csrf |-> FALSE, remember |-> FALSE]

\* clear_auth_cookies() names no domain: it does not match cookies that have one.
Cleared == IF Domain THEN jar ELSE NoCookies

\* A request with a csrf header, or the cookies a granted one comes back with.
Quiet == [state |-> "none", token |-> "none", csrf |-> FALSE, remember |-> FALSE]
Request(token) == [state |-> "sent", token |-> token, csrf |-> jar.csrf,
                   remember |-> jar.remember]

CallStates == {"idle", "sent", "denied", "waiting", "again", "denied again"}
AllIdle == [c \in Calls |-> "idle"]

Choice(remember) == IF remember THEN "long" ELSE "short"
Asking(what, late) == [what |-> what, late |-> late, undone |-> FALSE]

WebInit ==
    /\ \E remember \in BOOLEAN : /\ jar = Cookies("good", remember)
                                 /\ asked = Asking(Choice(remember), {})
    /\ active = TRUE
    /\ page = [t \in Tabs |-> "app"]
    /\ call = [t \in Tabs |-> AllIdle]
    /\ cred = [t \in Tabs |-> [c \in Calls |-> "none"]]
    /\ renewal = [s \in Sources |-> Quiet]
    /\ signing = [t \in Tabs |-> Quiet]
    /\ lapsed = [t \in Tabs |-> FALSE]

-----------------------------------------------------------------------------

\* A refresh sent now would be granted.
Renewable(cookies, on) == cookies.refresh = "good" /\ cookies.csrf /\ on

\* Conjoined to every action: since when a tab could not blame the server.
Track(blame) ==
    lapsed' = [t \in Tabs |->
                 /\ call'[t] # AllIdle \/ renewal'[<<t, "shared">>] # Quiet
                 /\ lapsed[t] \/ t \in blame \/ ~Renewable(jar', active')]

\* Renewals that may still set cookies with another choice than the user's.
Contrary(what) == {s \in Sources : /\ renewal[s].state \in {"sent", "granted"}
                                   /\ Choice(renewal[s].remember) # what}

\* Renewals end, with cookies that arrive or without.
Ends(S) == [asked EXCEPT !.late = @ \ S]
Arrives(s) == asked' = IF s \in asked.late THEN [asked EXCEPT !.undone = TRUE, !.late = {}]
                       ELSE asked

\* window.location: the page starts again and its requests are given up.
Navigate(t) ==
    /\ page' = [page EXCEPT ![t] = "loading"]
    /\ call' = [call EXCEPT ![t] = AllIdle]
    /\ renewal' = [s \in Sources |-> IF s[1] = t THEN Quiet ELSE renewal[s]]
    /\ signing' = [signing EXCEPT ![t] = [Request(jar.access) EXCEPT !.state = "me"]]

(* Calls of apiFetch *)

Fetch(t, c) ==
    /\ page[t] = "app" /\ call[t][c] = "idle"
    /\ call' = [call EXCEPT ![t][c] = "sent"]
    /\ cred' = [cred EXCEPT ![t][c] = jar.access]
    /\ UNCHANGED <<jar, active, page, renewal, signing, asked>>
    /\ Track({})

\* get_current_user(): the token, then the account, each time.
Serve(t, c) ==
    /\ call[t][c] \in {"sent", "again"}
    /\ call' = [call EXCEPT ![t][c] =
                  IF cred[t][c] = "good" /\ active THEN "idle"
                  ELSE IF @ = "sent" THEN "denied" ELSE "denied again"]
    /\ UNCHANGED <<jar, active, page, cred, renewal, signing, asked>>
    /\ Track({})

\* Wrong variant: a call that finds a refresh in flight does not wait for it.
DeniedAlone(t, c) ==
    /\ call[t][c] = "denied"
    /\ IF renewal[<<t, "shared">>] = Quiet
       THEN /\ call' = [call EXCEPT ![t][c] = "waiting"]
            /\ renewal' = [renewal EXCEPT ![<<t, "shared">>] = Request(jar.refresh)]
       ELSE /\ call' = [call EXCEPT ![t][c] = "denied again"]
            /\ UNCHANGED renewal
    /\ UNCHANGED <<jar, active, page, cred, signing, asked>>
    /\ Track({})

\* tryRefresh(): joins the refresh in flight or starts one.
Denied(t, c) ==
    /\ call[t][c] = "denied"
    /\ call' = [call EXCEPT ![t][c] = "waiting"]
    /\ renewal' = IF renewal[<<t, "shared">>] = Quiet
                  THEN [renewal EXCEPT ![<<t, "shared">>] = Request(jar.refresh)]
                  ELSE renewal
    /\ UNCHANGED <<jar, active, page, cred, signing, asked>>
    /\ Track({})

\* A call that was already retried is not retried again.
GiveUp(t, c) ==
    /\ call[t][c] = "denied again"
    /\ Navigate(t) /\ asked' = Ends(Of(t))
    /\ UNCHANGED <<jar, active, cred>>
    /\ Track({})

(* Refreshing *)

\* handleReauthRequired() of the live socket does not share the promise.
SocketRefresh(t) ==
    /\ page[t] = "app" /\ renewal[<<t, "socket">>] = Quiet
    /\ renewal' = [renewal EXCEPT ![<<t, "socket">>] = Request(jar.refresh)]
    /\ UNCHANGED <<jar, active, page, call, cred, signing, asked>>
    /\ Track({})

\* Wrong variant: the choice is not rolled forward.
GrantedDefault(request) == [request EXCEPT !.state = "granted", !.remember = FALSE]

Granted(request) == [request EXCEPT !.state = "granted"]

\* CsrfMiddleware, then refresh().
HandleRefresh(s) ==
    /\ renewal[s].state = "sent"
    /\ renewal' = [renewal EXCEPT ![s] =
                     IF @.csrf /\ @.token = "good" /\ active THEN Granted(@)
                     ELSE [@ EXCEPT !.state = "refused"]]
    /\ UNCHANGED <<jar, active, page, call, cred, signing, asked>>
    /\ Track({})

RefreshLost(s) ==
    /\ "network" \in Faults /\ renewal[s].state = "sent"
    /\ renewal' = [renewal EXCEPT ![s].state = "refused"]
    /\ UNCHANGED <<jar, active, page, call, cred, signing, asked>>
    /\ Track({s[1]})

\* Wrong variant: the refresh in flight is forgotten with one call still waiting.
SettledForOne(t) ==
    /\ \E c \in Calls : call[t][c] = "waiting" /\ call' = [call EXCEPT ![t][c] = "again"]
    /\ renewal' = [renewal EXCEPT ![<<t, "shared">>] = Quiet]

\* Everyone who awaits the promise repeats its call with the new cookie.
Settled(t) ==
    /\ call' = [call EXCEPT ![t] = [c \in Calls |-> IF @[c] = "waiting" THEN "again" ELSE @[c]]]
    /\ renewal' = [renewal EXCEPT ![<<t, "shared">>] = Quiet]

RefreshGranted(t) ==
    /\ renewal[<<t, "shared">>].state = "granted"
    /\ LET r == renewal[<<t, "shared">>] IN jar' = Cookies(r.token, r.remember)
    /\ Settled(t)
    /\ cred' = [cred EXCEPT ![t] = [c \in Calls |->
                  IF call[t][c] = "waiting" THEN jar'.access ELSE @[c]]]
    /\ Arrives(<<t, "shared">>)
    /\ UNCHANGED <<active, page, signing>>
    /\ Track({})

\* "This really is log in again."
RefreshRefused(t) ==
    /\ renewal[<<t, "shared">>].state = "refused"
    /\ Navigate(t) /\ asked' = Ends(Of(t))
    /\ UNCHANGED <<jar, active, cred>>
    /\ Track({})

SocketRefreshed(t) ==
    /\ renewal[<<t, "socket">>].state \in {"granted", "refused"}
    /\ LET r == renewal[<<t, "socket">>]
       IN  IF r.state = "granted"
           THEN jar' = Cookies(r.token, r.remember) /\ Arrives(<<t, "socket">>)
           ELSE jar' = jar /\ asked' = Ends({<<t, "socket">>})
    /\ renewal' = [renewal EXCEPT ![<<t, "socket">>] = Quiet]
    /\ UNCHANGED <<active, page, call, cred, signing>>
    /\ Track({})

(* Signing in and out *)

AsksFor(what) == asked' = Asking(what, Contrary(what))

\* The password is right and the account active, or nothing changes.
SignIn(t, remember) ==
    /\ page[t] = "login" /\ signing[t] = Quiet /\ active
    /\ jar' = Cookies("good", remember)
    /\ AsksFor(Choice(remember))
    /\ page' = [page EXCEPT ![t] = "app"]
    /\ UNCHANGED <<active, call, cred, renewal, signing>>
    /\ Track({})

\* oidc_callback() remembers always, and redirects to a page that loads.
OidcSignIn(t) ==
    /\ page[t] = "login" /\ signing[t] = Quiet /\ active
    /\ jar' = Cookies("good", TRUE)
    /\ asked' = Asking("long", Contrary("long") \ Of(t))
    /\ Navigate(t)
    /\ UNCHANGED <<active, cred>>
    /\ Track({})

SignOut(t) ==
    /\ page[t] = "app" /\ signing[t] = Quiet
    /\ signing' = [signing EXCEPT ![t] = [Request("none") EXCEPT !.state = "out"]]
    /\ UNCHANGED <<jar, active, page, call, cred, renewal, asked>>
    /\ Track({})

\* The cookies are cleared unless the csrf check refused; the page forgets the
\* user either way.
SignedOut(t) ==
    /\ signing[t].state = "out"
    /\ jar' = IF signing[t].csrf THEN Cleared ELSE jar
    /\ IF signing[t].csrf THEN AsksFor("out") ELSE UNCHANGED asked
    /\ signing' = [signing EXCEPT ![t] = Quiet]
    /\ page' = [page EXCEPT ![t] = "login"]
    /\ UNCHANGED <<active, call, cred, renewal>>
    /\ Track({})

Reload(t) ==
    /\ page[t] # "loading"
    /\ Navigate(t) /\ asked' = Ends(Of(t))
    /\ UNCHANGED <<jar, active, cred>>
    /\ Track({})

\* AuthProvider's GET /api/auth/me, which is never refreshed.
Loaded(t) ==
    /\ signing[t].state = "me"
    /\ page' = [page EXCEPT ![t] = IF signing[t].token = "good" /\ active
                                   THEN "app" ELSE "login"]
    /\ signing' = [signing EXCEPT ![t] = Quiet]
    /\ UNCHANGED <<jar, active, call, cred, renewal, asked>>
    /\ Track({})

(* Time and the server *)

\* The browser drops a cookie when its token ends: first the access token.
Expire ==
    /\ jar.access # "none" \/ jar.refresh # "none"
    /\ jar' = IF jar.access # "none" THEN [jar EXCEPT !.access = "none"] ELSE NoCookies
    /\ UNCHANGED <<active, page, call, cred, renewal, signing, asked>>
    /\ Track({})

Restart ==
    /\ Ephemeral
    /\ jar' = [jar EXCEPT !.access = Lost(@), !.refresh = Lost(@)]
    /\ cred' = [t \in Tabs |-> [c \in Calls |-> Lost(cred[t][c])]]
    /\ renewal' = [s \in Sources |-> [renewal[s] EXCEPT !.token = Lost(@)]]
    /\ signing' = [t \in Tabs |-> [signing[t] EXCEPT !.token = Lost(@)]]
    /\ UNCHANGED <<active, page, call, asked>>
    /\ Track({})

Deactivate ==
    /\ "deactivate" \in Faults /\ active
    /\ active' = FALSE
    /\ UNCHANGED <<jar, page, call, cred, renewal, signing, asked>>
    /\ Track({})

-----------------------------------------------------------------------------

WebNext ==
    \/ \E t \in Tabs :
          \/ \E c \in Calls : Fetch(t, c) \/ Serve(t, c) \/ Denied(t, c) \/ GiveUp(t, c)
          \/ SocketRefresh(t) \/ RefreshGranted(t) \/ RefreshRefused(t) \/ SocketRefreshed(t)
          \/ \E remember \in BOOLEAN : SignIn(t, remember)
          \/ OidcSignIn(t) \/ SignOut(t) \/ SignedOut(t) \/ Reload(t) \/ Loaded(t)
    \/ \E s \in Sources : HandleRefresh(s) \/ RefreshLost(s)
    \/ Expire \/ Restart \/ Deactivate

WebSpec == WebInit /\ [][WebNext]_webVars

-----------------------------------------------------------------------------

WebTypeOK ==
    /\ jar \in [access : Tokens, refresh : Tokens, csrf : BOOLEAN, remember : BOOLEAN]
    /\ page \in [Tabs -> {"loading", "login", "app"}]
    /\ call \in [Tabs -> [Calls -> CallStates]]
    /\ \A t \in Tabs : page[t] = "loading" <=> signing[t].state = "me"
    /\ \A t \in Tabs, c \in Calls :
          call[t][c] = "waiting" => renewal[<<t, "shared">>] # Quiet

\* "A 401 on an access token that just expired doesn't have to mean log in again"
\* (api.ts 20-22): a page with calls gives up and asks for the password only if
\* at some time since they were made no refresh could have been granted,
\* whichever calls fail together and whoever else refreshes.
GivesUpOnlyIfLapsed ==
    [][\A t \in Tabs :
          (\E c \in Calls : GiveUp(t, c)) \/ RefreshRefused(t) => lapsed[t]]_webVars

\* What the user asked for last holds until the next time, whatever is refreshed
\* in between: after signing out no token is left, and the choice to be
\* remembered is rolled forward (auth.py 94-99, deps.py 28-35).  Only a refresh
\* that was already under way when he asked can undo it, and only by its cookies
\* arriving.
AsTheUserAsked ==
    ~asked.undone =>
       /\ asked.what = "out" => jar.access # "good" /\ jar.refresh # "good"
       /\ asked.what = "short" /\ jar.refresh # "none" => ~jar.remember
       /\ asked.what = "long" /\ jar.refresh # "none" => jar.remember

(* What a test says and the code does not keep *)

\* "test_logout_clears_cookies" (backend/tests/test_auth.py 68-72) signs out and is
\* refused from then on: after signing out no token is left until the user signs in.
SignedOutStaysOut ==
    asked.what = "out" => jar.access # "good" /\ jar.refresh # "good"
=============================================================================
