----------------------------- MODULE WebSession -----------------------------
(***************************************************************************)
(* One browser's session: the login page, the router's guard, which asks    *)
(* the device before every page, leaving by logout, password change and     *)
(* factory reset, and the device's side, which knows one token at a time.   *)
(* Other clients log in and reset the device.  Requests are handled and     *)
(* answered in any order; the answer, or the request before it, may be      *)
(* lost.  Pages other than login and password are one, "main".              *)
(***************************************************************************)
EXTENDS Naturals, Sequences, SequencesExt

CONSTANTS
    MaxTokens,  \* bound: tokens the device issues
    MaxLogins   \* bound: login requests on the way at once

VARIABLES
    token, issued,  \* the device's token, 0 for none; tokens issued so far
    pass,           \* the password: "default" has to be changed
    cookie,         \* the browser's token, 0 for none
    route,          \* the page shown, "blank" before the first
    nav,            \* the navigation the router's guard has pending
    logins,         \* login requests on the way
    leave,          \* the logout, password or reset request on the way
    upset           \* history: see LoginAnswer and the actions of others

sessionVars == <<token, issued, pass, cookie, route, nav, logins, leave, upset>>

Pages == {"main", "password"}
Idle == [st |-> "idle"]
Lost == [st |-> "lost"]
\* me() is asked with the cookie the browser has then
Guard(to) == [st |-> "sent", to |-> to, cookie |-> cookie']

\* The program is opened in a browser without a cookie
Init ==
    /\ token = 0 /\ issued = 0 /\ pass \in {"default", "own"}
    /\ cookie = 0 /\ route = "blank"
    /\ nav = [st |-> "sent", to |-> "main", cookie |-> 0]
    /\ logins = <<>> /\ leave = Idle /\ upset = FALSE

auth_ok(c) == c = token /\ token # 0

issue_token ==
    /\ issued < MaxTokens
    /\ issued' = issued + 1 /\ token' = issued + 1

-----------------------------------------------------------------------------
\* The menu; a new navigation takes the place of a pending one
Go(to) ==
    /\ route \in Pages
    /\ UNCHANGED <<token, issued, pass, cookie, route, logins, leave, upset>>
    /\ nav' = Guard(to)

\* handle_me
MeHandled ==
    /\ nav.st = "sent"
    /\ nav' \in {[st |-> "back", to |-> nav.to, ok |-> auth_ok(nav.cookie),
                   must_change |-> pass = "default"], Lost}
    /\ UNCHANGED <<token, issued, pass, cookie, route, logins, leave, upset>>

\* The rest of beforeEach; a redirection to the password page is guarded again
\* (with a defect: only a login looks at must_change)
GuardedByLoginOnly ==
    /\ nav.st \in {"back", "lost"}
    /\ UNCHANGED <<token, issued, pass, cookie, logins, leave, upset>>
    /\ nav' = Idle
    /\ route' = IF nav = Lost THEN "login" ELSE IF nav.ok THEN nav.to ELSE "login"

Guarded ==
    /\ nav.st \in {"back", "lost"}
    /\ UNCHANGED <<token, issued, pass, cookie, logins, leave, upset>>
    /\ IF nav = Lost THEN route' = "login" /\ nav' = Idle
       ELSE IF ~nav.ok THEN route' = "login" /\ nav' = Idle
       ELSE IF nav.must_change /\ nav.to # "password"
            THEN nav' = Guard("password") /\ UNCHANGED route
       ELSE route' = nav.to /\ nav' = Idle

-----------------------------------------------------------------------------
\* LoginView's onSubmit; the button is both clicked and submits the form, so
\* one press may ask twice
onLogin(p) ==
    /\ route = "login" /\ Len(logins) < MaxLogins
    /\ logins' = Append(logins, [st |-> "sent", pass |-> p])
    /\ UNCHANGED <<token, issued, pass, cookie, route, nav, leave, upset>>

\* handle_login
LoginHandled(i) ==
    /\ logins[i].st = "sent"
    /\ logins[i].pass = pass
    /\ issue_token
    /\ logins' = [logins EXCEPT ![i] = [st |-> "back", token |-> token',
                                         must_change |-> pass = "default"]]
    /\ UNCHANGED <<pass, cookie, route, nav, leave, upset>>

\* The browser takes the cookie and the page navigates on.  An answer that
\* comes after that of a later token leaves the browser with the older one.
LoginAnswer(i) ==
    /\ logins[i].st = "back"
    /\ cookie' = logins[i].token
    /\ nav' = Guard(IF logins[i].must_change THEN "password" ELSE "main")
    /\ logins' = RemoveAt(logins, i)
    /\ upset' = (cookie' # token)
    /\ UNCHANGED <<token, issued, pass, route, leave>>

\* A refused login changes nothing; a lost answer leaves a token nobody has
LoginLost(i) ==
    /\ logins' = RemoveAt(logins, i)
    /\ upset' = (upset \/ logins[i].st = "back")
    /\ UNCHANGED <<token, issued, pass, cookie, route, nav, leave>>

-----------------------------------------------------------------------------
\* onLogout, the password page's onSubmit and onReset, up to the request
Request(what) ==
    /\ leave = Idle
    /\ leave' = what
    /\ UNCHANGED <<token, issued, pass, cookie, route, nav, logins, upset>>

onLogout == route \in Pages /\ Request([st |-> "logout"])
onPassword(old) ==
    route = "password" /\ Request([st |-> "password", cookie |-> cookie, old |-> old])
onReset == route = "main" /\ Request([st |-> "reset", cookie |-> cookie])

Done(what, ok) == leave' = [st |-> "back", what |-> what, ok |-> ok]

\* handle_logout asks nobody who they are
LogoutHandled ==
    /\ leave.st = "logout"
    /\ token' = 0
    /\ Done("logout", TRUE)
    /\ UNCHANGED <<issued, pass, cookie, route, nav, logins, upset>>

\* handle_password keeps the session
PasswordHandled ==
    /\ leave.st = "password"
    /\ IF auth_ok(leave.cookie) /\ leave.old = pass
       THEN pass' = "own" /\ Done("password", TRUE)
       ELSE Done("password", FALSE) /\ UNCHANGED pass
    /\ UNCHANGED <<token, issued, cookie, route, nav, logins, upset>>

\* handle_system_reset ends it
ResetHandled ==
    /\ leave.st = "reset"
    /\ IF auth_ok(leave.cookie)
       THEN pass' = "default" /\ token' = 0 /\ Done("reset", TRUE)
       ELSE Done("reset", FALSE) /\ UNCHANGED <<pass, token>>
    /\ UNCHANGED <<issued, cookie, route, nav, logins, upset>>

\* The rest of the three: where the page goes
\* (with a defect: a logout stays on the page)
LeaveAnswerStays ==
    /\ leave.st = "back"
    /\ leave' = Idle
    /\ cookie' = IF leave.what = "logout" THEN 0 ELSE cookie
    /\ IF leave.ok /\ leave.what = "password" THEN nav' = Guard("main") ELSE UNCHANGED nav
    /\ UNCHANGED <<token, issued, pass, route, logins, upset>>

LeaveAnswer ==
    /\ leave.st = "back"
    /\ leave' = Idle
    /\ cookie' = IF leave.what = "logout" THEN 0 ELSE cookie
    /\ IF ~leave.ok THEN UNCHANGED <<route, nav>>
       ELSE IF leave.what = "password" THEN nav' = Guard("main") /\ UNCHANGED route
       ELSE route' = "login" /\ nav' = Idle
    /\ UNCHANGED <<token, issued, pass, logins, upset>>

LeaveLost ==
    /\ leave # Idle
    /\ leave' = Idle
    /\ upset' = (upset \/ (leave.st = "back" /\ token = 0))
    /\ UNCHANGED <<token, issued, pass, cookie, route, nav, logins>>

-----------------------------------------------------------------------------
\* Another client logs in or resets the device, or the token expires
OtherLogin ==
    /\ issue_token
    /\ upset' = TRUE
    /\ UNCHANGED <<pass, cookie, route, nav, logins, leave>>

OtherReset ==
    /\ pass' = "default" /\ token' = 0
    /\ upset' = TRUE
    /\ UNCHANGED <<issued, cookie, route, nav, logins, leave>>

Expire ==
    /\ token # 0 /\ token' = 0
    /\ upset' = TRUE
    /\ UNCHANGED <<issued, pass, cookie, route, nav, logins, leave>>

Next ==
    \/ \E to \in Pages : Go(to)
    \/ MeHandled \/ Guarded
    \/ \E p \in {"default", "own"} : onLogin(p) \/ onPassword(p)
    \/ \E i \in DOMAIN logins : LoginHandled(i) \/ LoginAnswer(i) \/ LoginLost(i)
    \/ onLogout \/ onReset
    \/ LogoutHandled \/ PasswordHandled \/ ResetHandled \/ LeaveAnswer \/ LeaveLost
    \/ OtherLogin \/ OtherReset \/ Expire

Spec == Init /\ [][Next]_sessionVars

-----------------------------------------------------------------------------
TypeOK ==
    /\ issued \in 0 .. MaxTokens /\ {token, cookie} \subseteq 0 .. issued
    /\ pass \in {"default", "own"} /\ upset \in BOOLEAN
    /\ route \in Pages \cup {"blank", "login"}
    /\ nav.st \in {"idle", "sent", "back", "lost"}
    /\ leave.st \in {"idle", "logout", "password", "reset", "back"}
    /\ Len(logins) <= MaxLogins

\* "The default password has to be changed before the preview and the rest can
\* be used": a browser with a valid session, and not about to leave its page,
\* shows one only once the default password was changed, with a guard's answer
\* overtaken by a reset, a late login, or another client's.
MustChangeConfines ==
    route = "main" /\ nav = Idle /\ auth_ok(cookie) => pass = "own"

\* A browser on a page of the program, with no request on the way, holds the
\* device's token: pressing the login button twice, changing the password,
\* logging out and resetting never leave it there without one, unless an answer
\* was lost or overtaken, or somebody else logged in or reset the device.
SessionHolds ==
    nav = Idle /\ logins = <<>> /\ leave = Idle /\ ~upset /\ route \in Pages =>
        auth_ok(cookie)
=============================================================================
