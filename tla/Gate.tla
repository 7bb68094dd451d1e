-------------------------------- MODULE Gate --------------------------------
(***************************************************************************)
(* The gate of the vault in browser tabs: VaultGate.tsx with its unlock    *)
(* and onboarding screens, the calls they make, and as much of the API as  *)
(* they depend on: sessions, recovery sessions and the two cookies that    *)
(* all tabs share.                                                         *)
(*                                                                         *)
(* Time is a tick, the second of the countdown. A call in flight knows how *)
(* many ticks its client still waits; the server may serve it after the    *)
(* client gave up. A call carries the cookies of the moment it was sent,   *)
(* and its reply sets them when it arrives.                                *)
(***************************************************************************)
EXTENDS Integers, FiniteSets

CONSTANTS
    None,          \* no cookie, no tab
    Tabs,          \* browser tabs
    Calls,         \* calls that may be in flight at once
    Tokens,        \* session and recovery tokens
    IdleLimit,     \* IDLE_LIMIT_SECONDS, in ticks
    Timeout,       \* timeout of the client's calls, in ticks
    HastyUser      \* may the user unlock while a logout is in flight?

ASSUME GateAssumption ==
    /\ None \notin Tabs \cup Tokens
    /\ {IdleLimit, Timeout} \subseteq Nat \ {0}
    /\ HastyUser \in BOOLEAN

VARIABLES
    registered,    \* is there a credential?
    sessions,      \* server: valid sessions
    recoveries,    \* server: valid recovery sessions
    cookie,        \* browser: sm_session
    pass,          \* browser: sm_recovery
    calls,         \* calls in flight
    view,          \* view.state of a tab
    busy,          \* what its screen is doing
    idle,          \* idleRemaining
    opened,        \* history: session the tab was opened with
    unattended     \* history: ticks since the user did something in the tab

browser == <<cookie, pass>>
server == <<registered, sessions, recoveries>>
page == <<view, busy, idle, opened, unattended>>
vars == <<server, browser, calls, page>>

-----------------------------------------------------------------------------
Kinds == {"status", "login", "recovery", "register", "logout"}

Call ==
    [at: {"free", "sent", "served", "refused"},
     kind: Kinds \cup {None}, tab: Tabs \cup {None},
     heard: BOOLEAN,                \* does the client still wait for it?
     left: 0..Timeout,              \* for so many ticks
     cookie: Tokens \cup {None}, pass: Tokens \cup {None},   \* it carries
     grant: Tokens \cup {None},     \* it brings back
     found: BOOLEAN]                \* status: registered; register: a
                                    \* recovery session, which it ended

Free ==
    [at |-> "free", kind |-> None, tab |-> None, heard |-> FALSE, left |-> 0,
     cookie |-> None, pass |-> None, grant |-> None, found |-> FALSE]

New(kind, tab) ==
    [at |-> "sent", kind |-> kind, tab |-> tab, heard |-> TRUE,
     left |-> Timeout, cookie |-> cookie, pass |-> pass,
     grant |-> None, found |-> FALSE]

Views == {"loading", "error", "onboarding", "locked", "unlocked"}

(* "code": the recovery code is shown, to be confirmed.                    *)
Screens == {"idle", "unlocking", "recovering", "registering", "code"}

Init ==
    /\ registered \in BOOLEAN
    /\ sessions = {}
    /\ recoveries = {}
    /\ cookie = None
    /\ pass = None
    /\ calls = [c \in Calls |-> Free]
    /\ view = [t \in Tabs |-> "error"]
    /\ busy = [t \in Tabs |-> "idle"]
    /\ idle = [t \in Tabs |-> IdleLimit]
    /\ opened = [t \in Tabs |-> None]
    /\ unattended = [t \in Tabs |-> 0]

Heard(t) == {c \in Calls : calls[c].heard /\ calls[c].tab = t}

FreshToken ==
    {g \in Tokens :
        /\ g \notin sessions \cup recoveries
        /\ g \notin {cookie, pass}
        /\ \A t \in Tabs : opened[t] # g
        /\ \A c \in Calls : g \notin {calls[c].cookie, calls[c].pass,
                                      calls[c].grant}}

(* A call whose client is gone: on its way to the server, or over.         *)
Unheard(call) ==
    IF call.at = "sent"
    THEN [call EXCEPT !.heard = FALSE, !.left = 0, !.tab = None]
    ELSE Free

Send(c, kind, t) ==
    /\ calls[c].at = "free"
    /\ calls' = [calls EXCEPT ![c] = New(kind, t)]

-----------------------------------------------------------------------------
(* The user.                                                               *)

(* The page is loaded, or loaded again: the key and all that ran are gone. *)
LoadPage(t) ==
    /\ \E c \in Calls :
           /\ calls[c].at = "free"
           /\ calls' = [d \in Calls |->
                           IF d = c THEN New("status", t)
                           ELSE IF d \in Heard(t)
                           THEN Unheard(calls[d])
                           ELSE calls[d]]
    /\ view' = [view EXCEPT ![t] = "loading"]
    /\ busy' = [busy EXCEPT ![t] = "idle"]
    /\ idle' = [idle EXCEPT ![t] = IdleLimit]
    /\ opened' = [opened EXCEPT ![t] = None]
    /\ unattended' = [unattended EXCEPT ![t] = 0]
    /\ UNCHANGED <<server, browser>>

LogoutsOf(t) == {c \in Heard(t) : calls[c].kind = "logout"}

(* A button of a screen that starts a chain of calls with the first one.   *)
Press(t, on, doing, kind) ==
    /\ view[t] = on
    /\ busy[t] = "idle"
    /\ HastyUser \/ LogoutsOf(t) = {}
    /\ \E c \in Calls : Send(c, kind, t)
    /\ busy' = [busy EXCEPT ![t] = doing]
    /\ UNCHANGED <<server, browser, view, idle, opened, unattended>>

HandlePasskeyUnlock(t) == Press(t, "locked", "unlocking", "login")
HandleRecover(t) == Press(t, "locked", "recovering", "recovery")
HandleRegister(t) == Press(t, "onboarding", "registering", "register")

(* handleUnlocked()                                                        *)
Open(t, token) ==
    /\ view' = [view EXCEPT ![t] = "unlocked"]
    /\ busy' = [busy EXCEPT ![t] = "idle"]
    /\ idle' = [idle EXCEPT ![t] = IdleLimit]
    /\ opened' = [opened EXCEPT ![t] = token]
    /\ unattended' = [unattended EXCEPT ![t] = 0]

(* onConfirmed() of the recovery code.                                     *)
ConfirmCode(t) ==
    /\ busy[t] = "code"
    /\ Open(t, opened[t])
    /\ UNCHANGED <<server, browser, calls>>

(* Whatever calls resetIdle().                                             *)
ResetIdle(t) ==
    /\ view[t] = "unlocked"
    /\ idle' = [idle EXCEPT ![t] = IdleLimit]
    /\ unattended' = [unattended EXCEPT ![t] = 0]
    /\ UNCHANGED <<server, browser, calls, view, busy, opened>>

(* The lock button: the view stays until the call has ended.               *)
HandleLock(t) ==
    /\ view[t] = "unlocked"
    /\ \E c \in Calls : Send(c, "logout", t)
    /\ UNCHANGED <<server, browser, page>>

-----------------------------------------------------------------------------
(* The countdown.                                                          *)

(* Mutant: no stop at 0. *)
RemainingBelow(n) == n - 1

Remaining(n) == IF n <= 1 THEN 0 ELSE n - 1

Waited(t) ==
    [c \in Calls |-> IF c \in Heard(t)
                     THEN [calls[c] EXCEPT !.left = @ - 1] ELSE calls[c]]

Longer(n) == IF n <= IdleLimit + Timeout THEN n + 1 ELSE n

(* A tick of a tab's clock: at the end of the countdown every one sends    *)
(* another logout, as long as the view is unlocked.                        *)
Tick(t) ==
    /\ \A c \in Heard(t) : calls[c].left > 0
    /\ IF view[t] # "unlocked"
       THEN calls' = Waited(t) /\ UNCHANGED <<idle, unattended>>
       ELSE /\ idle' = [idle EXCEPT ![t] = Remaining(@)]
            /\ unattended' = [unattended EXCEPT ![t] = Longer(@)]
            /\ IF idle[t] > 1 THEN calls' = Waited(t)
               ELSE \E c \in Calls :
                        /\ calls[c].at = "free"
                        /\ calls' = [Waited(t) EXCEPT ![c] = New("logout", t)]
    /\ UNCHANGED <<server, browser, view, busy, opened>>

-----------------------------------------------------------------------------
(* The API. Challenges, back-off and the rows are the business of module   *)
(* Auth; here any of these calls may be refused.                           *)

(* Nobody hears the answer of a call whose client is gone.                 *)
Answer(c, answer) ==
    calls' = [calls EXCEPT ![c] = IF @.heard THEN answer ELSE Free]

Served(c) == [calls[c] EXCEPT !.at = "served"]

Refuse(c) ==
    /\ calls[c].kind \notin {"status", "logout"}
    /\ Answer(c, [calls[c] EXCEPT !.at = "refused"])
    /\ UNCHANGED server

Status(c) ==
    /\ calls[c].kind = "status"
    /\ Answer(c, [Served(c) EXCEPT !.found = registered])
    /\ UNCHANGED server

LoginVerify(c) ==
    /\ calls[c].kind = "login"
    /\ registered
    /\ \E g \in FreshToken :
           /\ Answer(c, [Served(c) EXCEPT !.grant = g])
           /\ sessions' = sessions \cup {g}
    /\ UNCHANGED <<registered, recoveries>>

RecoveryVerify(c) ==
    /\ calls[c].kind = "recovery"
    /\ registered
    /\ \E g \in FreshToken :
           /\ Answer(c, [Served(c) EXCEPT !.grant = g])
           /\ recoveries' = recoveries \cup {g}
    /\ UNCHANGED <<registered, sessions>>

(* canRegister(), and the end of a recovery session that registered.       *)
RegisterVerify(c) ==
    /\ calls[c].kind = "register"
    /\ \/ ~registered
       \/ calls[c].cookie \in sessions
       \/ calls[c].pass \in recoveries
    /\ \E g \in FreshToken :
           /\ Answer(c, [Served(c) EXCEPT !.grant = g,
                                          !.found = calls[c].pass \in recoveries])
           /\ sessions' = sessions \cup {g}
    /\ recoveries' = recoveries \ {calls[c].pass}
    /\ registered' = TRUE

(* Mutant: the reply clears the cookie, the session goes on. *)
RevokedNot(c) == UNCHANGED <<sessions, recoveries>>

Revoked(c) ==
    /\ sessions' = sessions \ {calls[c].cookie}
    /\ recoveries' = recoveries \ {calls[c].pass}

Logout(c) ==
    /\ calls[c].kind = "logout"
    /\ Answer(c, Served(c))
    /\ Revoked(c)
    /\ UNCHANGED registered

Serve(c) ==
    /\ calls[c].at = "sent"
    /\ \/ Refuse(c)
       \/ Status(c)
       \/ LoginVerify(c)
       \/ RecoveryVerify(c)
       \/ RegisterVerify(c)
       \/ Logout(c)
    /\ UNCHANGED <<browser, page>>

(* A session runs out, or the process restarts.                            *)
Expire(g) ==
    /\ g \in sessions \cup recoveries
    /\ sessions' = sessions \ {g}
    /\ recoveries' = recoveries \ {g}
    /\ UNCHANGED <<registered, browser, calls, page>>

-----------------------------------------------------------------------------
(* The client gets an answer.                                              *)

End(c) == calls' = [calls EXCEPT ![c] = Free]

Idle(t) ==
    /\ busy' = [busy EXCEPT ![t] = "idle"]
    /\ UNCHANGED <<view, idle, opened, unattended>>

(* The finally of handleLock().                                            *)
Lock(t) ==
    /\ view' = [view EXCEPT ![t] = "locked"]
    /\ idle' = [idle EXCEPT ![t] = IdleLimit]
    /\ UNCHANGED <<busy, opened, unattended>>

(* refresh()                                                               *)
Refreshed(c, t) ==
    /\ view' = [view EXCEPT ![t] =
                   IF @ = "unlocked" THEN @
                   ELSE IF calls[c].found THEN "locked" ELSE "onboarding"]
    /\ End(c)
    /\ UNCHANGED <<browser, busy, idle, opened, unattended>>

(* The wrap that came along opens, or it does not.                         *)
LoggedIn(c, t) ==
    /\ cookie' = calls[c].grant
    /\ Open(t, calls[c].grant) \/ Idle(t)
    /\ End(c)
    /\ UNCHANGED pass

(* The recovery code opens the key: register a new passkey with the        *)
(* recovery session that came along, unless the user cancels.              *)
Recovered(c, t) ==
    /\ pass' = calls[c].grant
    /\ \/ /\ calls' = [calls EXCEPT ![c] = [New("register", t) EXCEPT
                                               !.pass = calls[c].grant]]
          /\ UNCHANGED page
       \/ End(c) /\ Idle(t)
    /\ UNCHANGED cookie

(* After recovery the vault opens, after onboarding the code is shown.     *)
Registered(c, t) ==
    /\ cookie' = calls[c].grant
    /\ pass' = IF calls[c].found THEN None ELSE pass
    /\ IF busy[t] = "recovering" THEN Open(t, calls[c].grant)
       ELSE /\ busy' = [busy EXCEPT ![t] = "code"]
            /\ opened' = [opened EXCEPT ![t] = calls[c].grant]
            /\ UNCHANGED <<view, idle, unattended>>
    /\ End(c)

LoggedOut(c, t) ==
    /\ cookie' = None
    /\ pass' = None
    /\ Lock(t)
    /\ End(c)

Refused(c, t) ==
    /\ calls[c].at = "refused"
    /\ Idle(t)
    /\ End(c)
    /\ UNCHANGED browser

Reply(c) ==
    LET t == calls[c].tab
        kind == calls[c].kind
    IN  /\ calls[c].heard
        /\ \/ Refused(c, t)
           \/ /\ calls[c].at = "served"
              /\ \/ kind = "status" /\ Refreshed(c, t)
                 \/ kind = "login" /\ LoggedIn(c, t)
                 \/ kind = "recovery" /\ Recovered(c, t)
                 \/ kind = "register" /\ Registered(c, t)
                 \/ kind = "logout" /\ LoggedOut(c, t)
        /\ UNCHANGED server

-----------------------------------------------------------------------------
(* The client gives up, or the network fails; the call may still arrive.   *)

(* Mutant: the vault is locked only when the server has answered. *)
LogoutFailedOnly(t) == UNCHANGED page

LogoutFailed(t) == Lock(t)

(* Mutant: a failure leaves the button as it is. *)
ScreenFailedStuck(t) == UNCHANGED page

ScreenFailed(t) == Idle(t)

StatusFailed(t) ==
    /\ view' = [view EXCEPT ![t] = "error"]
    /\ UNCHANGED <<busy, idle, opened, unattended>>

Fail(c) ==
    LET t == calls[c].tab
    IN  /\ calls[c].heard
        /\ calls' = [calls EXCEPT ![c] = Unheard(@)]
        /\ CASE calls[c].kind = "status" -> StatusFailed(t)
             [] calls[c].kind = "logout" -> LogoutFailed(t)
             [] OTHER -> ScreenFailed(t)
        /\ UNCHANGED <<server, browser>>

(* A call whose client is gone does not reach the server.                  *)
Lose(c) ==
    /\ calls[c].at = "sent"
    /\ ~calls[c].heard
    /\ End(c)
    /\ UNCHANGED <<server, browser, page>>

-----------------------------------------------------------------------------
TabStep(t) ==
    \/ LoadPage(t)
    \/ HandlePasskeyUnlock(t)
    \/ HandleRecover(t)
    \/ HandleRegister(t)
    \/ ConfirmCode(t)
    \/ ResetIdle(t)
    \/ HandleLock(t)
    \/ Tick(t)

CallStep(c) ==
    \/ Serve(c)
    \/ Reply(c)
    \/ Fail(c)
    \/ Lose(c)

Next ==
    \/ \E t \in Tabs : TabStep(t)
    \/ \E c \in Calls : CallStep(c)
    \/ \E g \in Tokens : Expire(g)

Spec == Init /\ [][Next]_vars
=============================================================================
