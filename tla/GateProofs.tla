----------------------------- MODULE GateProofs -----------------------------
(***************************************************************************)
(* Proofs about the gate, for any number of tabs and of calls in flight:   *)
(* no key is left in an abandoned tab, no button hangs, and in one tab     *)
(* with a patient user a lock ends the session it locks.                   *)
(***************************************************************************)
EXTENDS GateProperties, TLAPS

-----------------------------------------------------------------------------
(* The inductive invariant of the types: a call that a client waits for    *)
(* belongs to a tab, and the API refuses no status and no logout.          *)

SoundCall ==
    {call \in Call :
        /\ call.heard => /\ call.at # "free"
                         /\ call.kind \in Kinds
                         /\ call.tab \in Tabs
        /\ call.at = "refused" => call.kind \notin {"status", "logout"}}

TypeInv ==
    /\ TypeOK
    /\ calls \in [Calls -> SoundCall]

LEMMA FreeIsSound == Free \in SoundCall
<1>1. Timeout \in Nat
  BY GateAssumption
<1>2. QED
  BY <1>1 DEF Free, SoundCall, Call

LEMMA NewIsSound ==
    ASSUME TypeInv, NEW kind \in Kinds, NEW t \in Tabs
    PROVE  /\ New(kind, t) \in SoundCall
           /\ New(kind, t).heard
           /\ New(kind, t).at = "sent"
           /\ New(kind, t).kind = kind
           /\ New(kind, t).tab = t
           /\ New(kind, t).left = Timeout
           /\ New(kind, t).cookie = cookie
<1>1. Timeout \in 0..Timeout
  BY GateAssumption
<1>2. cookie \in Tokens \cup {None} /\ pass \in Tokens \cup {None}
  BY DEF TypeInv, TypeOK
<1>3. New(kind, t) \in Call
  BY <1>1, <1>2 DEF New, Call
<1>4. QED
  BY <1>3 DEF New, SoundCall

LEMMA UnheardIsSound ==
    ASSUME NEW call \in SoundCall
    PROVE  Unheard(call) \in SoundCall /\ ~Unheard(call).heard
<1>1. Timeout \in Nat
  BY GateAssumption
<1>2. QED
  BY <1>1, FreeIsSound DEF Unheard, SoundCall, Call, Free

(* The fields that an answer or a later call of a chain changes.           *)
LEMMA FieldsAreSound ==
    ASSUME NEW call \in SoundCall, NEW at \in {"served", "refused"},
           NEW g \in Tokens \cup {None}, NEW found \in BOOLEAN
    PROVE  /\ at = "served" \/ call.kind \notin {"status", "logout"} =>
                  [call EXCEPT !.at = at] \in SoundCall
           /\ [call EXCEPT !.grant = g] \in SoundCall
           /\ [call EXCEPT !.pass = g] \in SoundCall
           /\ [call EXCEPT !.found = found] \in SoundCall
<1>1. at = "served" \/ call.kind \notin {"status", "logout"} =>
          [call EXCEPT !.at = at] \in SoundCall
  BY DEF SoundCall, Call
<1>2. [call EXCEPT !.grant = g] \in SoundCall
  BY DEF SoundCall, Call
<1>3. [call EXCEPT !.pass = g] \in SoundCall
  BY DEF SoundCall, Call
<1>4. [call EXCEPT !.found = found] \in SoundCall
  BY DEF SoundCall, Call
<1>5. QED
  BY <1>1, <1>2, <1>3, <1>4

LEMMA WaitedIsSound ==
    ASSUME NEW call \in SoundCall, call.left > 0
    PROVE  [call EXCEPT !.left = @ - 1] \in SoundCall
<1>1. Timeout \in Nat
  BY GateAssumption
<1>2. call.left \in 0..Timeout /\ call.left - 1 \in 0..Timeout
  BY <1>1 DEF SoundCall, Call
<1>3. QED
  BY <1>2 DEF SoundCall, Call

-----------------------------------------------------------------------------
(* The inductive invariant of the screens.                                 *)

WorkOf(t) ==
    {c \in Heard(t) : calls[c].kind \in {"login", "recovery", "register"}}

(* The countdown runs, or it is over and a logout has been under way for   *)
(* as long as the tab was left alone since.                                *)
Counting(t) ==
    view[t] = "unlocked" =>
        \/ idle[t] > 0 /\ unattended[t] + idle[t] <= IdleLimit
        \/ \E c \in LogoutsOf(t) :
               unattended[t] <= IdleLimit + Timeout - calls[c].left

Backed(t) ==
    busy[t] \in {"unlocking", "recovering", "registering"} => WorkOf(t) # {}

TabInv ==
    \A t \in Tabs : Counting(t) /\ Backed(t)

LEMMA Replaced ==
    ASSUME TypeInv, NEW c \in Calls, NEW call \in SoundCall,
           calls' = [calls EXCEPT ![c] = call]
    PROVE  /\ calls' \in [Calls -> SoundCall]
           /\ calls'[c] = call
           /\ \A d \in Calls : d # c => calls'[d] = calls[d]
BY DEF TypeInv

(* What becomes of the calls that a tab waits for decides about a tab      *)
(* whose own state stays as it is.                                         *)
LEMMA TabStays ==
    ASSUME TabInv, NEW t \in Tabs,
           view'[t] = view[t], busy'[t] = busy[t], idle'[t] = idle[t],
           unattended'[t] = unattended[t],
           \A c \in Heard(t) :
               \/ /\ calls'[c].heard
                  /\ calls'[c].tab = t
                  /\ calls'[c].kind = calls[c].kind
                  /\ calls'[c].left = calls[c].left
    PROVE  Counting(t)' /\ Backed(t)'
<1>1. \A c \in LogoutsOf(t) :
          c \in LogoutsOf(t)' /\ calls'[c].left = calls[c].left
  BY DEF LogoutsOf, Heard
<1>2. \A c \in WorkOf(t) : c \in WorkOf(t)'
  BY DEF WorkOf, Heard
<1>3. Counting(t)'
  BY <1>1 DEF TabInv, Counting
<1>4. Backed(t)'
  BY <1>2 DEF TabInv, Backed
<1>5. QED
  BY <1>3, <1>4

(* A tab that is not unlocked needs no countdown.                          *)
LEMMA TabLocked ==
    ASSUME TabInv, NEW t \in Tabs,
           view'[t] # "unlocked",
           busy'[t] = busy[t],
           \A c \in WorkOf(t) : c \in WorkOf(t)'
    PROVE  Counting(t)' /\ Backed(t)'
BY DEF TabInv, Counting, Backed

LEMMA TabOpens ==
    ASSUME TypeInv, TypeInv', NEW t \in Tabs, NEW token, Open(t, token)
    PROVE  Counting(t)' /\ Backed(t)'
<1>1. /\ view'[t] = "unlocked"
      /\ busy'[t] = "idle"
      /\ idle'[t] = IdleLimit
      /\ unattended'[t] = 0
  BY DEF TypeInv, TypeOK, Open
<1>2. IdleLimit \in Nat \ {0}
  BY GateAssumption
<1>3. QED
  BY <1>1, <1>2 DEF Counting, Backed

LEMMA OtherTabs ==
    ASSUME TypeInv, TabInv, NEW t \in Tabs, NEW u \in Tabs, u # t,
           \E token \in Tokens \cup {None} :
               \/ Open(t, token)
               \/ Idle(t)
               \/ Lock(t)
               \/ StatusFailed(t),
           \A c \in Heard(u) : calls'[c] = calls[c]
    PROVE  Counting(u)' /\ Backed(u)'
<1>1. /\ view'[u] = view[u]
      /\ busy'[u] = busy[u]
      /\ idle'[u] = idle[u]
      /\ unattended'[u] = unattended[u]
  BY DEF TypeInv, TypeOK, Open, Idle, Lock, StatusFailed
<1>2. QED
  BY <1>1, TabStays DEF Heard

PageTyped ==
    /\ view \in [Tabs -> Views]
    /\ busy \in [Tabs -> Screens]
    /\ idle \in [Tabs -> 0..IdleLimit]
    /\ opened \in [Tabs -> Tokens \cup {None}]
    /\ unattended \in [Tabs -> Nat]

LEMMA PageSteps ==
    ASSUME TypeInv, NEW t \in Tabs, NEW token \in Tokens \cup {None},
           \/ Open(t, token)
           \/ Idle(t)
           \/ Lock(t)
           \/ StatusFailed(t)
    PROVE  PageTyped'
<1>1. PageTyped
  BY DEF TypeInv, TypeOK, PageTyped
<1>2. IdleLimit \in 0..IdleLimit
  BY GateAssumption
<1>3. CASE Open(t, token)
  BY <1>1, <1>2, <1>3 DEF Open, PageTyped, Views, Screens
<1>4. CASE Idle(t)
  BY <1>1, <1>4 DEF Idle, PageTyped, Screens
<1>5. CASE Lock(t)
  BY <1>1, <1>2, <1>5 DEF Lock, PageTyped, Views
<1>6. CASE StatusFailed(t)
  BY <1>1, <1>6 DEF StatusFailed, PageTyped, Views
<1>7. QED
  BY <1>3, <1>4, <1>5, <1>6

LEMMA TypesTogether ==
    ASSUME calls' \in [Calls -> SoundCall], PageTyped',
           registered' \in BOOLEAN,
           sessions' \subseteq Tokens, recoveries' \subseteq Tokens,
           {cookie', pass'} \subseteq Tokens \cup {None}
    PROVE  TypeInv'
<1>1. calls' \in [Calls -> Call]
  BY DEF SoundCall
<1>2. QED
  BY <1>1 DEF TypeInv, TypeOK, PageTyped

-----------------------------------------------------------------------------
(* The user.                                                               *)

LEMMA LoadPageStep ==
    ASSUME TypeInv, TabInv, NEW t \in Tabs, LoadPage(t)
    PROVE  TypeInv' /\ TabInv'
<1>1. PICK c \in Calls :
          /\ calls[c].at = "free"
          /\ calls' = [d \in Calls |->
                          IF d = c THEN New("status", t)
                          ELSE IF d \in Heard(t)
                          THEN Unheard(calls[d])
                          ELSE calls[d]]
  BY DEF LoadPage
<1>2. calls \in [Calls -> SoundCall] /\ PageTyped
  BY DEF TypeInv, TypeOK, PageTyped
<1>3. calls' \in [Calls -> SoundCall]
  <2>1. New("status", t) \in SoundCall
    BY NewIsSound DEF Kinds
  <2>2. \A d \in Calls : calls[d] \in SoundCall
                         /\ Unheard(calls[d]) \in SoundCall
    BY <1>2, UnheardIsSound
  <2>3. QED
    BY <1>1, <2>1, <2>2
<1>4. PageTyped'
  <2>1. IdleLimit \in 0..IdleLimit
    BY GateAssumption
  <2>2. QED
    BY <1>2, <2>1 DEF LoadPage, PageTyped, Views, Screens
<1>5. TypeInv'
  BY <1>3, <1>4, TypesTogether DEF LoadPage, server, browser, TypeInv, TypeOK
<1>6. view'[t] = "loading" /\ busy'[t] = "idle"
  BY <1>2 DEF LoadPage, PageTyped
<1>7. ASSUME NEW u \in Tabs
      PROVE  Counting(u)' /\ Backed(u)'
  <2>1. CASE u = t
    BY <1>6, <2>1 DEF Counting, Backed
  <2>2. CASE u # t
    <3>1. \A d \in Heard(u) : d # c /\ d \notin Heard(t)
      BY <1>1, <1>2, <2>2 DEF Heard, SoundCall
    <3>2. \A d \in Heard(u) : calls'[d] = calls[d]
      BY <1>1, <3>1 DEF Heard
    <3>3. /\ view'[u] = view[u]
          /\ busy'[u] = busy[u]
          /\ idle'[u] = idle[u]
          /\ unattended'[u] = unattended[u]
      BY <1>2, <2>2 DEF LoadPage, PageTyped
    <3>4. QED
      BY <3>2, <3>3, TabStays DEF Heard
  <2>3. QED
    BY <2>1, <2>2
<1>8. QED
  BY <1>5, <1>7 DEF TabInv

(* A new call disturbs none of those under way.                            *)
LEMMA SendFacts ==
    ASSUME TypeInv, NEW c \in Calls, NEW kind \in Kinds, NEW t \in Tabs,
           Send(c, kind, t)
    PROVE  /\ calls' \in [Calls -> SoundCall]
           /\ calls'[c] = New(kind, t)
           /\ calls[c].at = "free"
           /\ \A u \in Tabs : \A d \in Heard(u) : calls'[d] = calls[d]
<1>1. New(kind, t) \in SoundCall
  BY NewIsSound
<1>2. calls' = [calls EXCEPT ![c] = New(kind, t)]
  BY DEF Send
<1>3. /\ calls' \in [Calls -> SoundCall]
      /\ calls'[c] = New(kind, t)
      /\ \A d \in Calls : d # c => calls'[d] = calls[d]
  BY <1>1, <1>2, Replaced
<1>4. calls[c].at = "free"
  BY DEF Send
<1>5. ~calls[c].heard
  BY <1>4 DEF TypeInv, SoundCall
<1>6. QED
  BY <1>3, <1>4, <1>5 DEF Heard

LEMMA PressStep ==
    ASSUME TypeInv, TabInv, NEW t \in Tabs,
           NEW on, NEW doing \in {"unlocking", "recovering", "registering"},
           NEW kind \in {"login", "recovery", "register"},
           Press(t, on, doing, kind)
    PROVE  TypeInv' /\ TabInv'
<1>1. PICK c \in Calls : Send(c, kind, t)
  BY DEF Press
<1>2. kind \in Kinds
  BY DEF Kinds
<1>3. /\ calls' \in [Calls -> SoundCall]
      /\ calls'[c] = New(kind, t)
      /\ \A u \in Tabs : \A d \in Heard(u) : calls'[d] = calls[d]
  BY <1>1, <1>2, SendFacts
<1>4. TypeInv'
  <2>1. PageTyped'
    BY DEF Press, PageTyped, Screens, TypeInv, TypeOK
  <2>2. QED
    BY <1>3, <2>1, TypesTogether DEF Press, server, browser, TypeInv, TypeOK
<1>5. ASSUME NEW u \in Tabs
      PROVE  Counting(u)' /\ Backed(u)'
  <2>1. \A d \in LogoutsOf(u) :
            d \in LogoutsOf(u)' /\ calls'[d].left = calls[d].left
    BY <1>3 DEF LogoutsOf, Heard
  <2>2. Counting(u)'
    BY <2>1 DEF Press, TabInv, Counting
  <2>3. CASE u = t
    <3>1. c \in WorkOf(t)'
      BY <1>2, <1>3, NewIsSound DEF WorkOf, Heard
    <3>2. QED
      BY <2>2, <2>3, <3>1 DEF Backed
  <2>4. CASE u # t
    <3>1. busy'[u] = busy[u]
      BY <2>4 DEF Press, TypeInv, TypeOK
    <3>2. QED
      BY <1>3, <3>1, TabStays DEF Press, Heard
  <2>5. QED
    BY <2>3, <2>4
<1>6. QED
  BY <1>4, <1>5 DEF TabInv

LEMMA ConfirmCodeStep ==
    ASSUME TypeInv, TabInv, NEW t \in Tabs, ConfirmCode(t)
    PROVE  TypeInv' /\ TabInv'
<1>1. Open(t, opened[t]) /\ calls' = calls
  BY DEF ConfirmCode
<1>2. opened[t] \in Tokens \cup {None}
  BY DEF TypeInv, TypeOK
<1>3. TypeInv'
  <2>1. PageTyped'
    BY <1>1, <1>2, PageSteps
  <2>2. QED
    BY <2>1, TypesTogether
       DEF ConfirmCode, server, browser, TypeInv, TypeOK
<1>4. QED
  BY <1>1, <1>2, <1>3, TabOpens, OtherTabs DEF TabInv

LEMMA ResetIdleStep ==
    ASSUME TypeInv, TabInv, NEW t \in Tabs, ResetIdle(t)
    PROVE  TypeInv' /\ TabInv'
<1>1. IdleLimit \in Nat \ {0}
  BY GateAssumption
<1>2. PageTyped /\ PageTyped'
  BY <1>1 DEF ResetIdle, PageTyped, TypeInv, TypeOK
<1>3. TypeInv'
  BY <1>2, TypesTogether DEF ResetIdle, server, browser, TypeInv, TypeOK
<1>4. ASSUME NEW u \in Tabs
      PROVE  Counting(u)' /\ Backed(u)'
  <2>1. CASE u = t
    <3>1. idle'[t] = IdleLimit /\ unattended'[t] = 0
      BY <1>2 DEF ResetIdle, PageTyped
    <3>2. Counting(t)'
      BY <1>1, <3>1 DEF Counting
    <3>3. Backed(t)'
      BY DEF ResetIdle, TabInv, Backed, WorkOf, Heard
    <3>4. QED
      BY <2>1, <3>2, <3>3
  <2>2. CASE u # t
    <3>1. idle'[u] = idle[u] /\ unattended'[u] = unattended[u]
      BY <1>2, <2>2 DEF ResetIdle, PageTyped
    <3>2. QED
      BY <3>1, TabStays DEF ResetIdle, Heard
  <2>3. QED
    BY <2>1, <2>2
<1>5. QED
  BY <1>3, <1>4 DEF TabInv

LEMMA HandleLockStep ==
    ASSUME TypeInv, TabInv, NEW t \in Tabs, HandleLock(t)
    PROVE  TypeInv' /\ TabInv'
<1>1. PICK c \in Calls : Send(c, "logout", t)
  BY DEF HandleLock
<1>2. "logout" \in Kinds
  BY DEF Kinds
<1>3. /\ calls' \in [Calls -> SoundCall]
      /\ \A u \in Tabs : \A d \in Heard(u) : calls'[d] = calls[d]
  BY <1>1, <1>2, SendFacts
<1>4. TypeInv'
  BY <1>3, TypesTogether
     DEF HandleLock, server, browser, page, PageTyped, TypeInv, TypeOK
<1>5. ASSUME NEW u \in Tabs
      PROVE  Counting(u)' /\ Backed(u)'
  BY <1>3, TabStays DEF HandleLock, page, Heard
<1>6. QED
  BY <1>4, <1>5 DEF TabInv

(* Waiting shortens what a tab waits for, of its own calls only.           *)
LEMMA WaitedFacts ==
    ASSUME TypeInv, NEW t \in Tabs, \A c \in Heard(t) : calls[c].left > 0
    PROVE  /\ Waited(t) \in [Calls -> SoundCall]
           /\ \A c \in Calls :
                  /\ Waited(t)[c].at = calls[c].at
                  /\ Waited(t)[c].heard = calls[c].heard
                  /\ Waited(t)[c].kind = calls[c].kind
                  /\ Waited(t)[c].tab = calls[c].tab
                  /\ Waited(t)[c].cookie = calls[c].cookie
           /\ \A c \in Heard(t) : Waited(t)[c].left = calls[c].left - 1
           /\ \A c \in Calls : c \notin Heard(t) => Waited(t)[c] = calls[c]
<1>1. calls \in [Calls -> SoundCall]
  BY DEF TypeInv
<1>2. \A c \in Heard(t) : [calls[c] EXCEPT !.left = @ - 1] \in SoundCall
  BY <1>1, WaitedIsSound DEF Heard
<1>3. Waited(t) \in [Calls -> SoundCall]
  BY <1>1, <1>2 DEF Waited
<1>4. \A c \in Calls : c \notin Heard(t) => Waited(t)[c] = calls[c]
  BY DEF Waited
<1>5. ASSUME NEW c \in Heard(t)
      PROVE  /\ Waited(t)[c].at = calls[c].at
             /\ Waited(t)[c].heard = calls[c].heard
             /\ Waited(t)[c].kind = calls[c].kind
             /\ Waited(t)[c].tab = calls[c].tab
             /\ Waited(t)[c].cookie = calls[c].cookie
             /\ Waited(t)[c].left = calls[c].left - 1
  <2>1. c \in Calls /\ calls[c] \in SoundCall
    BY <1>1 DEF Heard
  <2>2. Waited(t)[c] = [calls[c] EXCEPT !.left = calls[c].left - 1]
    BY <2>1 DEF Waited
  <2>3. QED
    BY <2>1, <2>2 DEF SoundCall, Call
<1>6. QED
  BY <1>3, <1>4, <1>5

(* A tick lets the calls of its tab wait, and may add a logout.            *)
LEMMA TickFacts ==
    ASSUME TypeInv, NEW t \in Tabs, Tick(t)
    PROVE  /\ calls' \in [Calls -> SoundCall]
           /\ \A c \in Heard(t) :
                  /\ calls'[c].heard
                  /\ calls'[c].tab = t
                  /\ calls'[c].kind = calls[c].kind
                  /\ calls'[c].left = calls[c].left - 1
           /\ \A u \in Tabs : u # t =>
                  \A c \in Heard(u) : calls'[c] = calls[c]
           /\ \A c \in Calls :
                  \/ /\ calls'[c].at = calls[c].at
                     /\ calls'[c].heard = calls[c].heard
                     /\ calls'[c].kind = calls[c].kind
                     /\ calls'[c].tab = calls[c].tab
                     /\ calls'[c].cookie = calls[c].cookie
                  \/ view[t] = "unlocked" /\ calls'[c] = New("logout", t)
           /\ view[t] = "unlocked" /\ idle[t] <= 1 =>
                  \E c \in Calls : calls'[c] = New("logout", t)
<1>1. \A c \in Heard(t) : calls[c].left > 0
  BY DEF Tick
<1>2. /\ Waited(t) \in [Calls -> SoundCall]
      /\ \A c \in Calls :
             /\ Waited(t)[c].at = calls[c].at
             /\ Waited(t)[c].heard = calls[c].heard
             /\ Waited(t)[c].kind = calls[c].kind
             /\ Waited(t)[c].tab = calls[c].tab
             /\ Waited(t)[c].cookie = calls[c].cookie
      /\ \A c \in Heard(t) : Waited(t)[c].left = calls[c].left - 1
      /\ \A c \in Calls : c \notin Heard(t) => Waited(t)[c] = calls[c]
  BY <1>1, WaitedFacts
<1>3. idle[t] \in Int
  BY DEF TypeInv, TypeOK
<1>4. \/ calls' = Waited(t) /\ ~(view[t] = "unlocked" /\ idle[t] <= 1)
      \/ /\ view[t] = "unlocked"
         /\ \E c \in Calls :
                /\ calls[c].at = "free"
                /\ calls' = [Waited(t) EXCEPT ![c] = New("logout", t)]
  BY <1>3 DEF Tick
<1>5. CASE calls' = Waited(t) /\ ~(view[t] = "unlocked" /\ idle[t] <= 1)
  BY <1>2, <1>5 DEF Heard
<1>6. CASE /\ view[t] = "unlocked"
           /\ \E c \in Calls :
                  /\ calls[c].at = "free"
                  /\ calls' = [Waited(t) EXCEPT ![c] = New("logout", t)]
  <2>1. PICK c \in Calls :
            /\ calls[c].at = "free"
            /\ calls' = [Waited(t) EXCEPT ![c] = New("logout", t)]
    BY <1>6
  <2>2. New("logout", t) \in SoundCall
    BY NewIsSound DEF Kinds
  <2>3. /\ calls' \in [Calls -> SoundCall]
        /\ calls'[c] = New("logout", t)
        /\ \A d \in Calls : d # c => calls'[d] = Waited(t)[d]
    BY <1>2, <2>1, <2>2
  <2>4. ~calls[c].heard
    BY <2>1 DEF TypeInv, SoundCall
  <2>5. QED
    BY <1>2, <1>6, <2>3, <2>4 DEF Heard
<1>7. QED
  BY <1>4, <1>5, <1>6

LEMMA TickStep ==
    ASSUME TypeInv, TabInv, NEW t \in Tabs, Tick(t)
    PROVE  TypeInv' /\ TabInv'
<1>1. PageTyped /\ IdleLimit \in Nat \ {0} /\ Timeout \in Nat \ {0}
  BY GateAssumption DEF TypeInv, TypeOK, PageTyped
<1>2. /\ calls' \in [Calls -> SoundCall]
      /\ \A c \in Heard(t) :
             /\ calls'[c].heard
             /\ calls'[c].tab = t
             /\ calls'[c].kind = calls[c].kind
             /\ calls'[c].left = calls[c].left - 1
      /\ \A u \in Tabs : u # t =>
             \A c \in Heard(u) : calls'[c] = calls[c]
      /\ view[t] = "unlocked" /\ idle[t] <= 1 =>
             \E c \in Calls : calls'[c] = New("logout", t)
  BY TickFacts
<1>3. /\ view' = view /\ busy' = busy /\ opened' = opened
      /\ view[t] # "unlocked" =>
             idle' = idle /\ unattended' = unattended
      /\ view[t] = "unlocked" =>
             /\ idle' = [idle EXCEPT ![t] = Remaining(@)]
             /\ unattended' = [unattended EXCEPT ![t] = Longer(@)]
  BY DEF Tick
<1>4. /\ Remaining(idle[t]) \in 0..IdleLimit
      /\ Longer(unattended[t]) \in Nat
      /\ Longer(unattended[t]) <= unattended[t] + 1
      /\ idle[t] > 1 => Remaining(idle[t]) = idle[t] - 1
      /\ idle[t] \in Nat /\ unattended[t] \in Nat
  BY <1>1 DEF Remaining, Longer, PageTyped
<1>5. PageTyped'
  BY <1>1, <1>3, <1>4 DEF PageTyped
<1>6. TypeInv'
  BY <1>2, <1>5, TypesTogether DEF Tick, server, browser, TypeInv, TypeOK
<1>7. ASSUME NEW u \in Tabs, u # t
      PROVE  Counting(u)' /\ Backed(u)'
  <2>1. idle'[u] = idle[u] /\ unattended'[u] = unattended[u]
    BY <1>1, <1>3, <1>7 DEF PageTyped
  <2>2. \A c \in Heard(u) : calls'[c] = calls[c]
    BY <1>2, <1>7
  <2>3. QED
    BY <1>3, <2>1, <2>2, TabStays DEF Heard
<1>8. Backed(t)'
  BY <1>2, <1>3 DEF TabInv, Backed, WorkOf, Heard
<1>9. Counting(t)'
  <2>1. SUFFICES ASSUME view[t] = "unlocked" PROVE Counting(t)'
    BY <1>3 DEF Counting
  <2>2. idle'[t] = Remaining(idle[t]) /\ unattended'[t] = Longer(unattended[t])
    BY <1>1, <1>3, <2>1 DEF PageTyped
  <2>3. CASE \E c \in LogoutsOf(t) :
                 unattended[t] <= IdleLimit + Timeout - calls[c].left
    <3>1. PICK c \in LogoutsOf(t) :
              unattended[t] <= IdleLimit + Timeout - calls[c].left
      BY <2>3
    <3>2. c \in LogoutsOf(t)' /\ calls'[c].left = calls[c].left - 1
      BY <1>2 DEF LogoutsOf, Heard
    <3>3. calls[c].left \in Int
      BY DEF LogoutsOf, Heard, TypeInv, SoundCall, Call
    <3>4. unattended'[t] <= IdleLimit + Timeout - calls'[c].left
      BY <1>1, <1>4, <2>2, <3>1, <3>2, <3>3
    <3>5. QED
      BY <3>2, <3>4 DEF Counting
  <2>4. CASE idle[t] > 0 /\ unattended[t] + idle[t] <= IdleLimit
    <3>1. CASE idle[t] > 1
      <4>1. idle'[t] > 0 /\ unattended'[t] + idle'[t] <= IdleLimit
        BY <1>1, <1>4, <2>2, <2>4, <3>1
      <4>2. QED
        BY <4>1 DEF Counting
    <3>2. CASE idle[t] <= 1
      <4>1. PICK c \in Calls : calls'[c] = New("logout", t)
        BY <1>2, <2>1, <3>2
      <4>2. c \in LogoutsOf(t)' /\ calls'[c].left = Timeout
        BY <4>1, NewIsSound DEF Kinds, LogoutsOf, Heard
      <4>3. unattended'[t] <= IdleLimit + Timeout - calls'[c].left
        BY <1>1, <1>4, <2>2, <2>4, <3>2, <4>2
      <4>4. QED
        BY <4>2, <4>3 DEF Counting
    <3>3. QED
      BY <1>4, <3>1, <3>2
  <2>5. QED
    BY <2>1, <2>3, <2>4 DEF TabInv, Counting
<1>10. QED
  BY <1>6, <1>7, <1>8, <1>9 DEF TabInv

-----------------------------------------------------------------------------
(* The API.                                                                *)

(* An answer is a call of the same tab, to go on with what it was.         *)
AnswerTo(call, answer) ==
    /\ answer \in SoundCall
    /\ answer.heard = call.heard
    /\ answer.tab = call.tab
    /\ answer.kind = call.kind
    /\ answer.left = call.left
    /\ answer.cookie = call.cookie

LEMMA AnswersTo ==
    ASSUME NEW call \in SoundCall, NEW answer, AnswerTo(call, answer),
           NEW at \in {"served", "refused"},
           NEW g \in Tokens \cup {None}, NEW found \in BOOLEAN
    PROVE  /\ AnswerTo(call, call)
           /\ at = "served" \/ call.kind \notin {"status", "logout"} =>
                  AnswerTo(call, [answer EXCEPT !.at = at])
           /\ AnswerTo(call, [answer EXCEPT !.grant = g])
           /\ AnswerTo(call, [answer EXCEPT !.found = found])
           /\ [answer EXCEPT !.at = at].at = at
           /\ [answer EXCEPT !.grant = g].at = answer.at
           /\ [answer EXCEPT !.found = found].at = answer.at
           /\ [answer EXCEPT !.grant = g].grant = g
           /\ [answer EXCEPT !.found = found].grant = answer.grant
<1>1. AnswerTo(call, call)
  BY DEF AnswerTo
<1>2. answer \in SoundCall
  BY DEF AnswerTo
<1>3. /\ at = "served" \/ answer.kind \notin {"status", "logout"} =>
             [answer EXCEPT !.at = at] \in SoundCall
      /\ [answer EXCEPT !.grant = g] \in SoundCall
      /\ [answer EXCEPT !.found = found] \in SoundCall
  BY <1>2, FieldsAreSound
<1>4. /\ at = "served" \/ call.kind \notin {"status", "logout"} =>
             AnswerTo(call, [answer EXCEPT !.at = at])
      /\ [answer EXCEPT !.at = at].at = at
  BY <1>2, <1>3 DEF AnswerTo, SoundCall, Call
<1>5. /\ AnswerTo(call, [answer EXCEPT !.grant = g])
      /\ [answer EXCEPT !.grant = g].at = answer.at
      /\ [answer EXCEPT !.grant = g].grant = g
  BY <1>2, <1>3 DEF AnswerTo, SoundCall, Call
<1>6. /\ AnswerTo(call, [answer EXCEPT !.found = found])
      /\ [answer EXCEPT !.found = found].at = answer.at
      /\ [answer EXCEPT !.found = found].grant = answer.grant
  BY <1>2, <1>3 DEF AnswerTo, SoundCall, Call
<1>7. QED
  BY <1>1, <1>4, <1>5, <1>6

LEMMA ServedFacts ==
    ASSUME TypeInv, NEW c \in Calls, NEW g \in Tokens \cup {None},
           NEW found \in BOOLEAN
    PROVE  /\ AnswerTo(calls[c], Served(c))
           /\ calls[c].kind \notin {"status", "logout"} =>
                  AnswerTo(calls[c], [calls[c] EXCEPT !.at = "refused"])
           /\ AnswerTo(calls[c], [Served(c) EXCEPT !.grant = g])
           /\ AnswerTo(calls[c], [Served(c) EXCEPT !.found = found])
           /\ AnswerTo(calls[c], [Served(c) EXCEPT !.grant = g,
                                                   !.found = found])
<1>1. calls[c] \in SoundCall
  BY DEF TypeInv
<1>2. /\ AnswerTo(calls[c], Served(c))
      /\ calls[c].kind \notin {"status", "logout"} =>
             AnswerTo(calls[c], [calls[c] EXCEPT !.at = "refused"])
  <2>1. AnswerTo(calls[c], calls[c])
    BY <1>1 DEF AnswerTo
  <2>2. \A at \in {"served", "refused"} :
            at = "served" \/ calls[c].kind \notin {"status", "logout"} =>
                AnswerTo(calls[c], [calls[c] EXCEPT !.at = at])
    BY <1>1, <2>1, AnswersTo
  <2>3. QED
    BY <2>2 DEF Served
<1>3. /\ AnswerTo(calls[c], [Served(c) EXCEPT !.grant = g])
      /\ AnswerTo(calls[c], [Served(c) EXCEPT !.found = found])
  BY <1>1, <1>2, AnswersTo
<1>4. AnswerTo(calls[c], [[Served(c) EXCEPT !.grant = g]
                              EXCEPT !.found = found])
  BY <1>1, <1>3, AnswersTo
<1>5. QED
  BY <1>2, <1>3, <1>4

(* What the API leaves of a call.                                          *)
LEMMA ServeFacts ==
    ASSUME TypeInv, NEW c \in Calls, Serve(c)
    PROVE  /\ calls' \in [Calls -> SoundCall]
           /\ calls'[c] = Free \/ AnswerTo(calls[c], calls'[c])
           /\ calls[c].heard => AnswerTo(calls[c], calls'[c])
           /\ \A d \in Calls : d # c => calls'[d] = calls[d]
           /\ registered' \in BOOLEAN
           /\ sessions' \subseteq Tokens
           /\ recoveries' \subseteq Tokens
<1>1. /\ registered \in BOOLEAN
      /\ sessions \subseteq Tokens
      /\ recoveries \subseteq Tokens
      /\ calls[c] \in SoundCall
  BY DEF TypeInv, TypeOK
<1>2. FreshToken \subseteq Tokens \cup {None}
  BY DEF FreshToken
<1>3. \E answer : AnswerTo(calls[c], answer) /\ Answer(c, answer)
  <2>1. CASE Refuse(c)
    BY <2>1, ServedFacts DEF Refuse
  <2>2. CASE Status(c)
    BY <1>1, <2>2, ServedFacts DEF Status
  <2>3. CASE LoginVerify(c)
    BY <1>2, <2>3, ServedFacts DEF LoginVerify
  <2>4. CASE RecoveryVerify(c)
    BY <1>2, <2>4, ServedFacts DEF RecoveryVerify
  <2>5. CASE RegisterVerify(c)
    <3>1. PICK g \in FreshToken :
              Answer(c, [Served(c) EXCEPT !.grant = g,
                             !.found = calls[c].pass \in recoveries])
      BY <2>5 DEF RegisterVerify
    <3>2. (calls[c].pass \in recoveries) \in BOOLEAN
      OBVIOUS
    <3>3. AnswerTo(calls[c], [Served(c) EXCEPT !.grant = g,
                                  !.found = calls[c].pass \in recoveries])
      BY <1>2, <3>2, ServedFacts
    <3>4. QED
      BY <3>1, <3>3
  <2>6. CASE Logout(c)
    BY <2>6, ServedFacts DEF Logout
  <2>7. QED
    BY <2>1, <2>2, <2>3, <2>4, <2>5, <2>6 DEF Serve
<1>4. PICK answer : AnswerTo(calls[c], answer) /\ Answer(c, answer)
  BY <1>3
<1>5. answer \in SoundCall /\ Free \in SoundCall
  BY <1>4, FreeIsSound DEF AnswerTo
<1>6. calls' = [calls EXCEPT ![c] = IF calls[c].heard THEN answer ELSE Free]
  BY <1>4 DEF Answer
<1>7. /\ calls' \in [Calls -> SoundCall]
      /\ calls'[c] = IF calls[c].heard THEN answer ELSE Free
      /\ \A d \in Calls : d # c => calls'[d] = calls[d]
  BY <1>5, <1>6, Replaced
<1>8. registered' \in BOOLEAN /\ sessions' \subseteq Tokens
                              /\ recoveries' \subseteq Tokens
  BY <1>1 DEF Serve, Refuse, Status, LoginVerify, RecoveryVerify,
              RegisterVerify, Logout, Revoked, server, FreshToken
<1>9. QED
  BY <1>4, <1>7, <1>8

LEMMA ServeStep ==
    ASSUME TypeInv, TabInv, NEW c \in Calls, Serve(c)
    PROVE  TypeInv' /\ TabInv'
<1>1. /\ calls' \in [Calls -> SoundCall]
      /\ calls[c].heard => AnswerTo(calls[c], calls'[c])
      /\ \A d \in Calls : d # c => calls'[d] = calls[d]
      /\ registered' \in BOOLEAN
      /\ sessions' \subseteq Tokens
      /\ recoveries' \subseteq Tokens
  BY ServeFacts
<1>2. TypeInv'
  BY <1>1, TypesTogether
     DEF Serve, browser, page, PageTyped, TypeInv, TypeOK
<1>3. ASSUME NEW u \in Tabs
      PROVE  Counting(u)' /\ Backed(u)'
  BY <1>1, TabStays DEF Serve, page, Heard, AnswerTo
<1>4. QED
  BY <1>2, <1>3 DEF TabInv

LEMMA ExpireStep ==
    ASSUME TypeInv, TabInv, NEW g \in Tokens, Expire(g)
    PROVE  TypeInv' /\ TabInv'
<1>1. TypeInv'
  BY TypesTogether DEF Expire, browser, page, PageTyped, TypeInv, TypeOK
<1>2. ASSUME NEW u \in Tabs
      PROVE  Counting(u)' /\ Backed(u)'
  BY TabStays DEF Expire, page, Heard
<1>3. QED
  BY <1>1, <1>2 DEF TabInv

-----------------------------------------------------------------------------
(* The client.                                                             *)

LEMMA HeardCall ==
    ASSUME TypeInv, NEW c \in Calls, calls[c].heard
    PROVE  /\ calls[c] \in SoundCall
           /\ calls[c].tab \in Tabs
           /\ calls[c].kind \in Kinds
           /\ calls[c].grant \in Tokens \cup {None}
           /\ c \in Heard(calls[c].tab)
BY DEF TypeInv, SoundCall, Call, Heard

(* A call is over for its client: what its tab makes of it.                *)
LEMMA CallOver ==
    ASSUME TypeInv, TabInv, TypeInv', NEW c \in Calls, calls[c].heard,
           \A d \in Calls : d # c => calls'[d] = calls[d],
           NEW t \in Tabs, t = calls[c].tab,
           \A u \in Tabs : u # t =>
               /\ view'[u] = view[u]
               /\ busy'[u] = busy[u]
               /\ idle'[u] = idle[u]
               /\ unattended'[u] = unattended[u],
           \/ \E token : Open(t, token)
           \/ /\ calls[c].kind # "logout"
              /\ view'[t] = view[t]
              /\ idle'[t] = idle[t]
              /\ unattended'[t] = unattended[t]
              /\ busy'[t] \in {"idle", "code"}
           \/ /\ calls[c].kind \in {"status", "logout"}
              /\ busy'[t] = busy[t]
              /\ view'[t] # "unlocked"
           \/ /\ calls[c].kind = "status"
              /\ view'[t] = view[t]
              /\ busy'[t] = busy[t]
              /\ idle'[t] = idle[t]
              /\ unattended'[t] = unattended[t]
    PROVE  TabInv'
<1>1. ASSUME NEW u \in Tabs, u # t
      PROVE  Counting(u)' /\ Backed(u)'
  <2>1. \A d \in Heard(u) : calls'[d] = calls[d]
    BY <1>1 DEF Heard
  <2>2. QED
    BY <1>1, <2>1, TabStays DEF Heard
<1>2. Counting(t)' /\ Backed(t)'
  <2>1. CASE \E token : Open(t, token)
    BY <2>1, TabOpens
  <2>2. CASE /\ calls[c].kind # "logout"
             /\ view'[t] = view[t]
             /\ idle'[t] = idle[t]
             /\ unattended'[t] = unattended[t]
             /\ busy'[t] \in {"idle", "code"}
    <3>1. \A d \in LogoutsOf(t) :
              d \in LogoutsOf(t)' /\ calls'[d].left = calls[d].left
      BY <2>2 DEF LogoutsOf, Heard
    <3>2. Counting(t)'
      BY <2>2, <3>1 DEF TabInv, Counting
    <3>3. Backed(t)'
      BY <2>2 DEF Backed
    <3>4. QED
      BY <3>2, <3>3
  <2>3. CASE /\ calls[c].kind \in {"status", "logout"}
             /\ busy'[t] = busy[t]
             /\ view'[t] # "unlocked"
    <3>1. \A d \in WorkOf(t) : d \in WorkOf(t)'
      BY <2>3 DEF WorkOf, Heard
    <3>2. QED
      BY <2>3, <3>1, TabLocked
  <2>4. CASE /\ calls[c].kind = "status"
             /\ view'[t] = view[t]
             /\ busy'[t] = busy[t]
             /\ idle'[t] = idle[t]
             /\ unattended'[t] = unattended[t]
    <3>1. /\ \A d \in WorkOf(t) : d \in WorkOf(t)'
          /\ \A d \in LogoutsOf(t) :
                 d \in LogoutsOf(t)' /\ calls'[d].left = calls[d].left
      BY <2>4 DEF WorkOf, LogoutsOf, Heard
    <3>2. QED
      BY <2>4, <3>1 DEF TabInv, Counting, Backed
  <2>5. QED
    BY <2>1, <2>2, <2>3, <2>4
<1>3. QED
  BY <1>1, <1>2 DEF TabInv

LEMMA EndFacts ==
    ASSUME TypeInv, NEW c \in Calls, End(c)
    PROVE  /\ calls' \in [Calls -> SoundCall]
           /\ ~calls'[c].heard
           /\ calls'[c].at = "free"
           /\ \A d \in Calls : d # c => calls'[d] = calls[d]
<1>1. Free \in SoundCall
  BY FreeIsSound
<1>2. /\ calls' \in [Calls -> SoundCall]
      /\ calls'[c] = Free
      /\ \A d \in Calls : d # c => calls'[d] = calls[d]
  BY <1>1, Replaced DEF End
<1>3. QED
  BY <1>2 DEF Free

(* What a step of a screen does to the tab, and to no other.               *)
LEMMA PageFacts ==
    ASSUME TypeInv, NEW t \in Tabs,
           \/ \E token \in Tokens \cup {None} : Open(t, token)
           \/ Idle(t)
           \/ Lock(t)
           \/ StatusFailed(t)
    PROVE  /\ PageTyped'
           /\ \A u \in Tabs : u # t =>
                  /\ view'[u] = view[u]
                  /\ busy'[u] = busy[u]
                  /\ idle'[u] = idle[u]
                  /\ unattended'[u] = unattended[u]
           /\ Idle(t) => /\ busy'[t] = "idle"
                         /\ view' = view /\ idle' = idle
                         /\ unattended' = unattended
           /\ Lock(t) => view'[t] = "locked" /\ busy' = busy
           /\ StatusFailed(t) => view'[t] = "error" /\ busy' = busy
<1>1. None \in Tokens \cup {None}
  OBVIOUS
<1>2. PageTyped'
  BY <1>1, PageSteps
<1>3. \A u \in Tabs : u # t =>
          /\ view'[u] = view[u]
          /\ busy'[u] = busy[u]
          /\ idle'[u] = idle[u]
          /\ unattended'[u] = unattended[u]
  BY DEF Open, Idle, Lock, StatusFailed, TypeInv, TypeOK
<1>4. QED
  BY <1>2, <1>3 DEF Idle, Lock, StatusFailed, TypeInv, TypeOK

LEMMA RefusedStep ==
    ASSUME TypeInv, TabInv, NEW c \in Calls, calls[c].heard,
           Refused(c, calls[c].tab), UNCHANGED server
    PROVE  TypeInv' /\ TabInv'
<1> DEFINE t == calls[c].tab
<1>1. t \in Tabs /\ calls[c].kind \notin {"status", "logout"}
  BY HeardCall DEF Refused, SoundCall
<1>2. Idle(t) /\ End(c) /\ UNCHANGED browser
  BY DEF Refused
<1>3. TypeInv'
  BY <1>1, <1>2, PageFacts, EndFacts, TypesTogether
     DEF server, browser, TypeInv, TypeOK
<1>4. QED
  BY <1>1, <1>2, <1>3, PageFacts, EndFacts, CallOver

LEMMA RefreshedStep ==
    ASSUME TypeInv, TabInv, NEW c \in Calls, calls[c].heard,
           calls[c].kind = "status",
           Refreshed(c, calls[c].tab), UNCHANGED server
    PROVE  TypeInv' /\ TabInv'
<1> DEFINE t == calls[c].tab
<1>1. t \in Tabs
  BY HeardCall
<1>2. /\ End(c)
      /\ UNCHANGED <<browser, busy, idle, opened, unattended>>
      /\ view' = [view EXCEPT ![t] = view'[t]]
      /\ \/ view[t] = "unlocked" /\ view'[t] = view[t]
         \/ view'[t] \in {"locked", "onboarding"}
  BY <1>1 DEF Refreshed, TypeInv, TypeOK
<1>3. PageTyped'
  BY <1>1, <1>2 DEF PageTyped, Views, TypeInv, TypeOK
<1>4. TypeInv'
  BY <1>2, <1>3, EndFacts, TypesTogether
     DEF server, browser, TypeInv, TypeOK
<1>5. \A u \in Tabs : u # t => view'[u] = view[u]
  BY <1>2 DEF TypeInv, TypeOK
<1>6. QED
  BY <1>1, <1>2, <1>4, <1>5, EndFacts, CallOver

LEMMA LoggedInStep ==
    ASSUME TypeInv, TabInv, NEW c \in Calls, calls[c].heard,
           calls[c].kind = "login",
           LoggedIn(c, calls[c].tab), UNCHANGED server
    PROVE  TypeInv' /\ TabInv'
<1> DEFINE t == calls[c].tab
           token == calls[c].grant
<1>1. t \in Tabs /\ token \in Tokens \cup {None}
  BY HeardCall
<1>2. End(c) /\ cookie' = token /\ pass' = pass
  BY DEF LoggedIn
<1>3. Open(t, token) \/ Idle(t)
  BY DEF LoggedIn
<1>4. PageTyped'
  BY <1>1, <1>3, PageFacts
<1>5. TypeInv'
  BY <1>1, <1>2, <1>4, EndFacts, TypesTogether
     DEF server, TypeInv, TypeOK
<1>6. CASE Open(t, token)
  BY <1>1, <1>2, <1>5, <1>6, PageFacts, EndFacts, CallOver
<1>7. CASE Idle(t)
  BY <1>1, <1>2, <1>5, <1>7, PageFacts, EndFacts, CallOver
<1>8. QED
  BY <1>3, <1>6, <1>7

(* The chain goes on: the call that brings a recovery session is followed  *)
(* by one that registers.                                                  *)
LEMMA ChainFacts ==
    ASSUME TypeInv, NEW c \in Calls, calls[c].heard,
           calls' = [calls EXCEPT
                       ![c] = [New("register", calls[c].tab) EXCEPT
                                  !.pass = calls[c].grant]]
    PROVE  /\ calls' \in [Calls -> SoundCall]
           /\ calls'[c].heard
           /\ calls'[c].tab = calls[c].tab
           /\ calls'[c].kind = "register"
           /\ calls'[c].at = "sent"
           /\ \A d \in Calls : d # c => calls'[d] = calls[d]
<1> DEFINE next == New("register", calls[c].tab)
<1>1. calls[c].tab \in Tabs /\ calls[c].grant \in Tokens \cup {None}
  BY HeardCall
<1>2. /\ next \in SoundCall
      /\ next.heard
      /\ next.at = "sent"
      /\ next.kind = "register"
      /\ next.tab = calls[c].tab
  BY <1>1, NewIsSound DEF Kinds
<1> HIDE DEF next
<1>3. [next EXCEPT !.pass = calls[c].grant] \in SoundCall
  BY <1>1, <1>2, FieldsAreSound
<1>4. calls' = [calls EXCEPT ![c] = [next EXCEPT !.pass = calls[c].grant]]
  BY DEF next
<1>5. /\ calls' \in [Calls -> SoundCall]
      /\ calls'[c] = [next EXCEPT !.pass = calls[c].grant]
      /\ \A d \in Calls : d # c => calls'[d] = calls[d]
  BY <1>3, <1>4, Replaced
<1>6. QED
  BY <1>2, <1>5 DEF SoundCall, Call

LEMMA RecoveredStep ==
    ASSUME TypeInv, TabInv, NEW c \in Calls, calls[c].heard,
           calls[c].kind = "recovery",
           Recovered(c, calls[c].tab), UNCHANGED server
    PROVE  TypeInv' /\ TabInv'
<1> DEFINE t == calls[c].tab
<1>1. t \in Tabs /\ calls[c].grant \in Tokens \cup {None}
  BY HeardCall
<1>2. pass' = calls[c].grant /\ cookie' = cookie
  BY DEF Recovered
<1>3. \/ /\ calls' = [calls EXCEPT ![c] = [New("register", t) EXCEPT
                                              !.pass = calls[c].grant]]
         /\ UNCHANGED page
      \/ End(c) /\ Idle(t)
  BY DEF Recovered
<1>4. CASE End(c) /\ Idle(t)
  <2>1. TypeInv'
    BY <1>1, <1>2, <1>4, PageFacts, EndFacts, TypesTogether
       DEF server, TypeInv, TypeOK
  <2>2. QED
    BY <1>1, <1>4, <2>1, PageFacts, EndFacts, CallOver
<1>5. CASE /\ calls' = [calls EXCEPT ![c] = [New("register", t) EXCEPT
                                                !.pass = calls[c].grant]]
           /\ UNCHANGED page
  <2>1. /\ calls' \in [Calls -> SoundCall]
        /\ calls'[c].heard
        /\ calls'[c].tab = t
        /\ calls'[c].kind = "register"
        /\ \A d \in Calls : d # c => calls'[d] = calls[d]
    BY <1>5, ChainFacts
  <2>2. PageTyped'
    BY <1>5 DEF page, PageTyped, TypeInv, TypeOK
  <2>3. TypeInv'
    BY <1>1, <1>2, <2>1, <2>2, TypesTogether DEF server, TypeInv, TypeOK
  <2>4. ASSUME NEW u \in Tabs
        PROVE  Counting(u)' /\ Backed(u)'
    <3>1. \A d \in LogoutsOf(u) :
              d \in LogoutsOf(u)' /\ calls'[d].left = calls[d].left
      BY <2>1 DEF LogoutsOf, Heard
    <3>2. \A d \in WorkOf(u) : d \in WorkOf(u)'
      BY <2>1 DEF WorkOf, Heard
    <3>3. QED
      BY <1>5, <3>1, <3>2 DEF page, TabInv, Counting, Backed
  <2>5. QED
    BY <2>3, <2>4 DEF TabInv
<1>6. QED
  BY <1>3, <1>4, <1>5

LEMMA RegisteredStep ==
    ASSUME TypeInv, TabInv, NEW c \in Calls, calls[c].heard,
           calls[c].kind = "register",
           Registered(c, calls[c].tab), UNCHANGED server
    PROVE  TypeInv' /\ TabInv'
<1> DEFINE t == calls[c].tab
           token == calls[c].grant
<1>1. t \in Tabs /\ token \in Tokens \cup {None}
  BY HeardCall
<1>2. End(c) /\ cookie' = token /\ pass' \in {None, pass}
  BY DEF Registered
<1>3. \/ Open(t, token)
      \/ /\ busy' = [busy EXCEPT ![t] = "code"]
         /\ opened' = [opened EXCEPT ![t] = token]
         /\ UNCHANGED <<view, idle, unattended>>
  BY DEF Registered
<1>4. CASE Open(t, token)
  <2>1. TypeInv'
    BY <1>1, <1>2, <1>4, PageFacts, EndFacts, TypesTogether
       DEF server, TypeInv, TypeOK
  <2>2. QED
    BY <1>1, <1>2, <1>4, <2>1, PageFacts, EndFacts, CallOver
<1>5. CASE /\ busy' = [busy EXCEPT ![t] = "code"]
           /\ opened' = [opened EXCEPT ![t] = token]
           /\ UNCHANGED <<view, idle, unattended>>
  <2>1. PageTyped'
    BY <1>1, <1>5 DEF PageTyped, Screens, TypeInv, TypeOK
  <2>2. TypeInv'
    BY <1>1, <1>2, <2>1, EndFacts, TypesTogether DEF server, TypeInv, TypeOK
  <2>3. /\ busy'[t] = "code"
        /\ \A u \in Tabs : u # t => busy'[u] = busy[u]
    BY <1>1, <1>5 DEF TypeInv, TypeOK
  <2>4. QED
    BY <1>1, <1>2, <1>5, <2>2, <2>3, EndFacts, CallOver
<1>6. QED
  BY <1>3, <1>4, <1>5

LEMMA LoggedOutStep ==
    ASSUME TypeInv, TabInv, NEW c \in Calls, calls[c].heard,
           calls[c].kind = "logout",
           LoggedOut(c, calls[c].tab), UNCHANGED server
    PROVE  TypeInv' /\ TabInv'
<1> DEFINE t == calls[c].tab
<1>1. t \in Tabs
  BY HeardCall
<1>2. End(c) /\ Lock(t) /\ cookie' = None /\ pass' = None
  BY DEF LoggedOut
<1>3. TypeInv'
  BY <1>1, <1>2, PageFacts, EndFacts, TypesTogether
     DEF server, TypeInv, TypeOK
<1>4. QED
  BY <1>1, <1>2, <1>3, PageFacts, EndFacts, CallOver

LEMMA ReplyStep ==
    ASSUME TypeInv, TabInv, NEW c \in Calls, Reply(c)
    PROVE  TypeInv' /\ TabInv'
BY RefusedStep, RefreshedStep, LoggedInStep, RecoveredStep, RegisteredStep,
   LoggedOutStep, Zenon DEF Reply

LEMMA FailStep ==
    ASSUME TypeInv, TabInv, NEW c \in Calls, Fail(c)
    PROVE  TypeInv' /\ TabInv'
<1> DEFINE t == calls[c].tab
<1>1. calls[c].heard /\ calls[c] \in SoundCall
  BY DEF Fail, TypeInv
<1>2. t \in Tabs /\ calls[c].kind \in Kinds
  BY <1>1, HeardCall
<1>3. \/ calls[c].kind = "status" /\ StatusFailed(t)
      \/ calls[c].kind = "logout" /\ Lock(t)
      \/ calls[c].kind \notin {"status", "logout"} /\ Idle(t)
  BY DEF Fail, LogoutFailed, ScreenFailed
<1>4. Unheard(calls[c]) \in SoundCall
  BY <1>1, UnheardIsSound
<1>5. calls' = [calls EXCEPT ![c] = Unheard(calls[c])]
  BY DEF Fail
<1>6. /\ calls' \in [Calls -> SoundCall]
      /\ \A d \in Calls : d # c => calls'[d] = calls[d]
  BY <1>4, <1>5, Replaced
<1>7. TypeInv'
  BY <1>2, <1>3, <1>6, PageFacts, TypesTogether
     DEF Fail, server, browser, TypeInv, TypeOK
<1>8. QED
  BY <1>1, <1>2, <1>3, <1>6, <1>7, PageFacts, CallOver

LEMMA LoseStep ==
    ASSUME TypeInv, TabInv, NEW c \in Calls, Lose(c)
    PROVE  TypeInv' /\ TabInv'
<1>1. /\ calls' \in [Calls -> SoundCall]
      /\ \A d \in Calls : d # c => calls'[d] = calls[d]
      /\ ~calls[c].heard
  BY EndFacts DEF Lose
<1>2. TypeInv'
  BY <1>1, TypesTogether
     DEF Lose, server, browser, page, PageTyped, TypeInv, TypeOK
<1>3. ASSUME NEW u \in Tabs
      PROVE  Counting(u)' /\ Backed(u)'
  BY <1>1, TabStays DEF Lose, page, Heard
<1>4. QED
  BY <1>2, <1>3 DEF TabInv

-----------------------------------------------------------------------------
(* Every step keeps both invariants.                                       *)

LEMMA StartsWell == Init => TypeInv /\ TabInv
<1> SUFFICES ASSUME Init PROVE TypeInv /\ TabInv
  OBVIOUS
<1>1. IdleLimit \in Nat \ {0}
  BY GateAssumption
<1>2. calls \in [Calls -> SoundCall]
  BY FreeIsSound DEF Init
<1>3. TypeInv
  BY <1>1, <1>2 DEF Init, TypeInv, TypeOK, SoundCall, Views, Screens
<1>4. TabInv
  BY <1>1 DEF Init, TabInv, Counting, Backed
<1>5. QED
  BY <1>3, <1>4

LEMMA StutterStep ==
    ASSUME TypeInv, TabInv, UNCHANGED vars
    PROVE  TypeInv' /\ TabInv'
<1>1. TypeInv'
  BY DEF vars, server, browser, page, TypeInv, TypeOK
<1>2. TabInv'
  BY DEF vars, server, browser, page, TabInv, Counting, Backed, WorkOf,
         LogoutsOf, Heard
<1>3. QED
  BY <1>1, <1>2

LEMMA StepsKeep ==
    ASSUME TypeInv, TabInv, [Next]_vars
    PROVE  TypeInv' /\ TabInv'
<1>1. ASSUME NEW t \in Tabs, TabStep(t)
      PROVE  TypeInv' /\ TabInv'
  <2>1. CASE LoadPage(t)
    BY <2>1, LoadPageStep
  <2>2. CASE HandlePasskeyUnlock(t)
    BY <2>2, PressStep DEF HandlePasskeyUnlock
  <2>3. CASE HandleRecover(t)
    BY <2>3, PressStep DEF HandleRecover
  <2>4. CASE HandleRegister(t)
    BY <2>4, PressStep DEF HandleRegister
  <2>5. CASE ConfirmCode(t)
    BY <2>5, ConfirmCodeStep
  <2>6. CASE ResetIdle(t)
    BY <2>6, ResetIdleStep
  <2>7. CASE HandleLock(t)
    BY <2>7, HandleLockStep
  <2>8. CASE Tick(t)
    BY <2>8, TickStep
  <2>9. QED
    BY <1>1, <2>1, <2>2, <2>3, <2>4, <2>5, <2>6, <2>7, <2>8 DEF TabStep
<1>2. ASSUME NEW c \in Calls, CallStep(c)
      PROVE  TypeInv' /\ TabInv'
  BY <1>2, ServeStep, ReplyStep, FailStep, LoseStep DEF CallStep
<1>3. ASSUME NEW g \in Tokens, Expire(g)
      PROVE  TypeInv' /\ TabInv'
  BY <1>3, ExpireStep
<1>4. QED
  BY <1>1, <1>2, <1>3, StutterStep DEF Next

LEMMA Invariant == Spec => [](TypeInv /\ TabInv)
<1>1. Init => TypeInv /\ TabInv
  BY StartsWell
<1>2. TypeInv /\ TabInv /\ [Next]_vars => (TypeInv /\ TabInv)'
  BY StepsKeep
<1>3. QED
  BY <1>1, <1>2, PTL DEF Spec

(* Every variable keeps its shape, whatever tabs and calls there are.      *)
THEOREM TypeCorrect == Spec => []TypeOK
<1>1. TypeInv => TypeOK
  BY DEF TypeInv
<1>2. QED
  BY <1>1, Invariant, PTL

(* A vault that nobody uses is locked after the countdown and the timeout  *)
(* of one logout, whatever the network does (VaultGate.tsx:66-96).         *)
THEOREM KeyDoesNotLinger == Spec => []UnattendedBounded
<1>1. TypeInv /\ TabInv => UnattendedBounded
  <2> SUFFICES ASSUME TypeInv, TabInv,
                      NEW t \in Tabs, view[t] = "unlocked"
               PROVE  unattended[t] <= IdleLimit + Timeout
    BY DEF UnattendedBounded
  <2>1. /\ IdleLimit \in Nat /\ Timeout \in Nat
        /\ unattended[t] \in Nat /\ idle[t] \in Nat
    BY GateAssumption DEF TypeInv, TypeOK
  <2>2. \A c \in LogoutsOf(t) : calls[c].left \in Nat
    BY <2>1 DEF LogoutsOf, Heard, TypeInv, SoundCall, Call
  <2>3. QED
    BY <2>1, <2>2 DEF TabInv, Counting
<1>2. QED
  BY <1>1, Invariant, PTL

(* A button that is busy comes back: a call of its tab is under way        *)
(* (UnlockScreen.tsx:90-151, OnboardingScreen.tsx:107-110).                *)
THEOREM ButtonsComeBack == Spec => []BusyIsBacked
<1>1. TabInv => BusyIsBacked
  BY DEF TabInv, Backed, WorkOf, BusyIsBacked
<1>2. QED
  BY <1>1, Invariant, PTL

-----------------------------------------------------------------------------
(* One tab and a patient user: the session that a logout ends is the one   *)
(* the vault was opened with.                                              *)

OneTab == \A t, u \in Tabs : t = u

(* A screen does one thing at a time.                                      *)
WorksAlone(t) ==
    \A c \in WorkOf(t) :
        /\ busy[t] \in {"unlocking", "recovering", "registering"}
        /\ \A d \in WorkOf(t) : c = d

(* The browser carries the session of the open vault, and so does a logout *)
(* that may still lock it.                                                 *)
OwnSession(t) ==
    /\ view[t] = "unlocked" => busy[t] = "idle" /\ cookie = opened[t]
    /\ busy[t] = "code" => cookie = opened[t]
    /\ LogoutsOf(t) # {} => busy[t] = "idle"
    /\ view[t] = "unlocked" =>
           \A c \in LogoutsOf(t) : calls[c].cookie = opened[t]

(* The API has ended the session of a logout it has answered.              *)
EndedAtAPI ==
    \A c \in Calls :
        calls[c].kind = "logout" /\ calls[c].at = "served" =>
            calls[c].cookie \notin sessions

LockInv ==
    /\ \A t \in Tabs : WorksAlone(t) /\ OwnSession(t)
    /\ EndedAtAPI

LEMMA EndedStays ==
    ASSUME EndedAtAPI, sessions' \subseteq sessions,
           \A c \in Calls :
               \/ calls'[c].at # "served"
               \/ /\ calls'[c].at = calls[c].at
                  /\ calls'[c].kind = calls[c].kind
                  /\ calls'[c].cookie = calls[c].cookie
    PROVE  EndedAtAPI'
BY DEF EndedAtAPI

(* A step that adds no call to the tab.                                    *)
LEMMA NoNewCall ==
    ASSUME LockInv, NEW t \in Tabs,
           \A c \in Calls : calls'[c].heard /\ calls'[c].tab = t =>
               /\ c \in Heard(t)
               /\ calls'[c].kind = calls[c].kind
               /\ calls'[c].cookie = calls[c].cookie,
           busy'[t] = busy[t], opened'[t] = opened[t],
           view'[t] = "unlocked" => view[t] = "unlocked",
           view'[t] = "unlocked" \/ busy[t] = "code" => cookie' = cookie
    PROVE  WorksAlone(t)' /\ OwnSession(t)'
<1>1. \A c \in WorkOf(t)' : c \in WorkOf(t)
  BY DEF WorkOf, Heard
<1>2. \A c \in LogoutsOf(t)' :
          c \in LogoutsOf(t) /\ calls'[c].cookie = calls[c].cookie
  BY DEF LogoutsOf, Heard
<1>3. WorksAlone(t)'
  BY <1>1 DEF LockInv, WorksAlone
<1>4. OwnSession(t)'
  BY <1>2 DEF LockInv, OwnSession
<1>5. QED
  BY <1>3, <1>4

(* What a screen was doing ends, and nothing else was under way but a      *)
(* question for the status.                                                *)
LEMMA WorkEnds ==
    ASSUME NEW t \in Tabs,
           WorkOf(t)' = {}, LogoutsOf(t)' = {},
           view'[t] = "unlocked" => busy'[t] = "idle" /\ cookie' = opened'[t],
           busy'[t] = "code" => cookie' = opened'[t]
    PROVE  WorksAlone(t)' /\ OwnSession(t)'
BY DEF WorksAlone, OwnSession

LEMMA LoadPageLocks ==
    ASSUME OneTab, TypeInv, LockInv, NEW t \in Tabs, LoadPage(t)
    PROVE  LockInv'
<1>1. PICK c \in Calls :
          /\ calls[c].at = "free"
          /\ calls' = [d \in Calls |->
                          IF d = c THEN New("status", t)
                          ELSE IF d \in Heard(t)
                          THEN Unheard(calls[d])
                          ELSE calls[d]]
  BY DEF LoadPage
<1>2. calls'[c].kind = "status" /\ calls'[c].at = "sent"
  BY <1>1, NewIsSound DEF Kinds
<1>3. ASSUME NEW d \in Calls, d # c
      PROVE  /\ ~(calls'[d].heard /\ calls'[d].tab = t)
             /\ \/ calls'[d].at # "served"
                \/ calls'[d] = calls[d]
  <2>1. calls[d] \in SoundCall
    BY DEF TypeInv
  <2>2. CASE d \in Heard(t)
    <3>1. calls'[d] = Unheard(calls[d])
      BY <1>1, <1>3, <2>2
    <3>2. Unheard(calls[d]).at # "served"
      BY <2>1 DEF Unheard, Free, SoundCall, Call
    <3>3. QED
      BY <2>1, <3>1, <3>2, UnheardIsSound
  <2>3. CASE d \notin Heard(t)
    BY <1>1, <1>3, <2>3 DEF Heard
  <2>4. QED
    BY <2>2, <2>3
<1>4. WorkOf(t)' = {} /\ LogoutsOf(t)' = {}
  BY <1>2, <1>3 DEF WorkOf, LogoutsOf, Heard
<1>5. view'[t] = "loading" /\ busy'[t] = "idle"
  BY DEF LoadPage, TypeInv, TypeOK
<1>6. WorksAlone(t)' /\ OwnSession(t)'
  BY <1>4, <1>5, WorkEnds
<1>7. EndedAtAPI'
  BY <1>2, <1>3, EndedStays DEF LoadPage, server, LockInv
<1>8. QED
  BY <1>6, <1>7 DEF OneTab, LockInv

LEMMA PressLocks ==
    ASSUME OneTab, ~HastyUser, TypeInv, LockInv, NEW t \in Tabs,
           NEW on \in {"locked", "onboarding"},
           NEW doing \in {"unlocking", "recovering", "registering"},
           NEW kind \in {"login", "recovery", "register"},
           Press(t, on, doing, kind)
    PROVE  LockInv'
<1>1. PICK c \in Calls : Send(c, kind, t)
  BY DEF Press
<1>2. calls' = [calls EXCEPT ![c] = New(kind, t)]
  BY <1>1 DEF Send
<1>3. /\ New(kind, t) \in SoundCall
      /\ New(kind, t).kind = kind
      /\ New(kind, t).at = "sent"
  BY NewIsSound DEF Kinds
<1>4. /\ calls'[c] = New(kind, t)
      /\ \A d \in Calls : d # c => calls'[d] = calls[d]
  BY <1>2, <1>3, Replaced
<1>5. WorkOf(t) = {} /\ LogoutsOf(t) = {}
  BY DEF Press, LockInv, WorksAlone
<1>6. LogoutsOf(t)' = {} /\ WorkOf(t)' \subseteq {c}
  BY <1>3, <1>4, <1>5 DEF LogoutsOf, WorkOf, Heard
<1>7. view'[t] = on /\ busy'[t] = doing
  BY DEF Press, TypeInv, TypeOK
<1>8. WorksAlone(t)' /\ OwnSession(t)'
  BY <1>6, <1>7 DEF WorksAlone, OwnSession
<1>9. EndedAtAPI'
  BY <1>3, <1>4, EndedStays DEF Press, server, LockInv
<1>10. QED
  BY <1>8, <1>9 DEF OneTab, LockInv

LEMMA ConfirmCodeLocks ==
    ASSUME OneTab, TypeInv, LockInv, NEW t \in Tabs, ConfirmCode(t)
    PROVE  LockInv'
<1>1. /\ busy[t] = "code" /\ Open(t, opened[t])
      /\ calls' = calls /\ cookie' = cookie /\ sessions' = sessions
  BY DEF ConfirmCode, server, browser
<1>2. WorkOf(t) = {} /\ LogoutsOf(t) = {} /\ cookie = opened[t]
  BY <1>1 DEF LockInv, WorksAlone, OwnSession
<1>3. busy'[t] = "idle" /\ opened'[t] = opened[t]
  BY <1>1 DEF Open, TypeInv, TypeOK
<1>4. WorksAlone(t)' /\ OwnSession(t)'
  BY <1>1, <1>2, <1>3, WorkEnds DEF WorkOf, LogoutsOf, Heard
<1>5. EndedAtAPI'
  BY <1>1, EndedStays DEF LockInv
<1>6. QED
  BY <1>4, <1>5 DEF OneTab, LockInv

LEMMA ResetIdleLocks ==
    ASSUME LockInv, NEW t \in Tabs, ResetIdle(t)
    PROVE  LockInv'
BY DEF ResetIdle, server, browser, LockInv, WorksAlone, OwnSession,
       EndedAtAPI, WorkOf, LogoutsOf, Heard

(* A logout that is sent carries the session of the open vault.            *)
LEMMA NewLogout ==
    ASSUME OneTab, TypeInv, LockInv, NEW t \in Tabs,
           \A c \in Calls :
               \/ /\ calls'[c].at = calls[c].at
                  /\ calls'[c].heard = calls[c].heard
                  /\ calls'[c].kind = calls[c].kind
                  /\ calls'[c].tab = calls[c].tab
                  /\ calls'[c].cookie = calls[c].cookie
               \/ view[t] = "unlocked" /\ calls'[c] = New("logout", t),
           view' = view, busy' = busy, opened' = opened,
           cookie' = cookie, sessions' = sessions
    PROVE  LockInv'
<1>1. /\ New("logout", t).kind = "logout"
      /\ New("logout", t).at = "sent"
      /\ New("logout", t).cookie = cookie
  BY NewIsSound DEF Kinds
<1>2. WorkOf(t)' \subseteq WorkOf(t)
  BY <1>1 DEF WorkOf, Heard
<1>3. WorksAlone(t)'
  BY <1>2 DEF LockInv, WorksAlone
<1>4. \A c \in LogoutsOf(t)' :
          \/ c \in LogoutsOf(t) /\ calls'[c].cookie = calls[c].cookie
          \/ view[t] = "unlocked" /\ calls'[c].cookie = cookie
  BY <1>1 DEF LogoutsOf, Heard
<1>5. OwnSession(t)'
  BY <1>4 DEF LockInv, OwnSession
<1>6. EndedAtAPI'
  BY <1>1, EndedStays DEF LockInv
<1>7. QED
  BY <1>3, <1>5, <1>6 DEF OneTab, LockInv

LEMMA HandleLockLocks ==
    ASSUME OneTab, TypeInv, LockInv, NEW t \in Tabs, HandleLock(t)
    PROVE  LockInv'
<1>1. PICK c \in Calls : Send(c, "logout", t)
  BY DEF HandleLock
<1>2. New("logout", t) \in SoundCall
  BY NewIsSound DEF Kinds
<1>3. calls' = [calls EXCEPT ![c] = New("logout", t)]
  BY <1>1 DEF Send
<1>4. /\ calls'[c] = New("logout", t)
      /\ \A d \in Calls : d # c => calls'[d] = calls[d]
  BY <1>2, <1>3, Replaced
<1>5. /\ view[t] = "unlocked"
      /\ UNCHANGED <<view, busy, opened, cookie, sessions>>
  BY DEF HandleLock, server, browser, page
<1>6. QED
  BY <1>4, <1>5, NewLogout

LEMMA TickLocks ==
    ASSUME OneTab, TypeInv, LockInv, NEW t \in Tabs, Tick(t)
    PROVE  LockInv'
<1>1. UNCHANGED <<view, busy, opened, cookie, sessions>>
  BY DEF Tick, server, browser
<1>2. QED
  BY <1>1, TickFacts, NewLogout

LEMMA ServeLocks ==
    ASSUME OneTab, TypeInv, LockInv, NEW c \in Calls, Serve(c)
    PROVE  LockInv'
<1>1. /\ calls'[c] = Free \/ AnswerTo(calls[c], calls'[c])
      /\ calls[c].heard => AnswerTo(calls[c], calls'[c])
      /\ \A d \in Calls : d # c => calls'[d] = calls[d]
      /\ UNCHANGED <<view, busy, opened, cookie>>
  BY ServeFacts DEF Serve, browser, page
<1>2. ~Free.heard /\ Free.at = "free"
  BY DEF Free
<1>3. ASSUME NEW t \in Tabs
      PROVE  WorksAlone(t)' /\ OwnSession(t)'
  <2>1. \A d \in Calls : calls'[d].heard /\ calls'[d].tab = t =>
            /\ d \in Heard(t)
            /\ calls'[d].kind = calls[d].kind
            /\ calls'[d].cookie = calls[d].cookie
    BY <1>1, <1>2 DEF Heard, AnswerTo
  <2>2. /\ busy'[t] = busy[t] /\ opened'[t] = opened[t]
        /\ view'[t] = "unlocked" => view[t] = "unlocked"
        /\ view'[t] = "unlocked" \/ busy[t] = "code" => cookie' = cookie
    BY <1>1
  <2>3. QED
    BY <2>1, <2>2, NoNewCall
<1>4. ASSUME NEW d \in Calls,
             calls'[d].kind = "logout", calls'[d].at = "served"
      PROVE  calls'[d].cookie \notin sessions'
  <2>1. CASE d = c
    <3>1. AnswerTo(calls[c], calls'[c])
      BY <1>1, <1>2, <1>4, <2>1
    <3>2. Refuse(c) \/ Logout(c)
      BY <1>4, <2>1, <3>1
         DEF AnswerTo, Serve, Status, LoginVerify, RecoveryVerify,
             RegisterVerify
    <3>3. ~Refuse(c)
      BY <1>4, <2>1, <3>1 DEF Refuse, AnswerTo
    <3>4. QED
      BY <2>1, <3>1, <3>2, <3>3 DEF Logout, Revoked, AnswerTo
  <2>2. CASE d # c
    <3>1. calls[d].cookie \notin sessions
      BY <1>1, <1>4, <2>2 DEF LockInv, EndedAtAPI
    <3>2. \A g \in FreshToken : g # calls[d].cookie
      BY DEF FreshToken
    <3>3. \A g \in sessions' : g \in sessions \/ g \in FreshToken
      BY DEF Serve, Refuse, Status, LoginVerify, RecoveryVerify,
             RegisterVerify, Logout, Revoked, server
    <3>4. QED
      BY <1>1, <2>2, <3>1, <3>2, <3>3
  <2>3. QED
    BY <2>1, <2>2
<1>5. QED
  BY <1>3, <1>4 DEF LockInv, EndedAtAPI

LEMMA ExpireLocks ==
    ASSUME LockInv, NEW g \in Tokens, Expire(g)
    PROVE  LockInv'
BY DEF Expire, browser, page, LockInv, WorksAlone, OwnSession,
       EndedAtAPI, WorkOf, LogoutsOf, Heard

(* What a screen was doing, alone, is over.                                *)
LEMMA LastWork ==
    ASSUME TypeInv, LockInv, NEW c \in Calls, calls[c].heard,
           calls[c].kind \in {"login", "recovery", "register"},
           ~calls'[c].heard,
           \A d \in Calls : d # c => calls'[d] = calls[d],
           NEW t \in Tabs, t = calls[c].tab
    PROVE  /\ busy[t] \in {"unlocking", "recovering", "registering"}
           /\ view[t] # "unlocked"
           /\ WorkOf(t)' = {} /\ LogoutsOf(t)' = {}
<1>1. c \in WorkOf(t)
  BY DEF WorkOf, Heard
<1>2. /\ busy[t] \in {"unlocking", "recovering", "registering"}
      /\ \A d \in WorkOf(t) : c = d
  BY <1>1 DEF LockInv, WorksAlone
<1>3. LogoutsOf(t) = {} /\ view[t] # "unlocked"
  BY <1>2 DEF LockInv, OwnSession
<1>4. WorkOf(t)' = {}
  BY <1>2 DEF WorkOf, Heard
<1>5. LogoutsOf(t)' = {}
  BY <1>3 DEF LogoutsOf, Heard
<1>6. QED
  BY <1>2, <1>3, <1>4, <1>5

(* The end of a call adds none, and none that the API has answered.        *)
LEMMA OverLocks ==
    ASSUME OneTab, TypeInv, LockInv, NEW c \in Calls, calls[c].heard,
           ~calls'[c].heard, calls'[c].at # "served",
           \A d \in Calls : d # c => calls'[d] = calls[d],
           sessions' = sessions,
           NEW t \in Tabs, t = calls[c].tab,
           \/ /\ calls[c].kind \in {"login", "recovery", "register"}
              /\ \/ busy'[t] = "idle" /\ view'[t] # "unlocked"
                 \/ busy'[t] = "idle" /\ cookie' = opened'[t]
                 \/ /\ busy'[t] = "code" /\ cookie' = opened'[t]
                    /\ view'[t] # "unlocked"
           \/ /\ busy'[t] = busy[t] /\ opened'[t] = opened[t]
              /\ view'[t] = "unlocked" => view[t] = "unlocked"
              /\ view'[t] = "unlocked" \/ busy[t] = "code" => cookie' = cookie
    PROVE  LockInv'
<1>1. EndedAtAPI'
  BY EndedStays DEF LockInv
<1>2. WorksAlone(t)' /\ OwnSession(t)'
  <2>1. CASE /\ calls[c].kind \in {"login", "recovery", "register"}
             /\ \/ busy'[t] = "idle" /\ view'[t] # "unlocked"
                \/ busy'[t] = "idle" /\ cookie' = opened'[t]
                \/ /\ busy'[t] = "code" /\ cookie' = opened'[t]
                   /\ view'[t] # "unlocked"
    <3>1. WorkOf(t)' = {} /\ LogoutsOf(t)' = {}
      BY <2>1, LastWork
    <3>2. /\ view'[t] = "unlocked" =>
                 busy'[t] = "idle" /\ cookie' = opened'[t]
          /\ busy'[t] = "code" => cookie' = opened'[t]
      BY <2>1
    <3>3. QED
      BY <3>1, <3>2, WorkEnds
  <2>2. CASE /\ busy'[t] = busy[t] /\ opened'[t] = opened[t]
             /\ view'[t] = "unlocked" => view[t] = "unlocked"
             /\ view'[t] = "unlocked" \/ busy[t] = "code" => cookie' = cookie
    <3>1. \A d \in Calls : calls'[d].heard /\ calls'[d].tab = t =>
              /\ d \in Heard(t)
              /\ calls'[d].kind = calls[d].kind
              /\ calls'[d].cookie = calls[d].cookie
      BY DEF Heard
    <3>2. QED
      BY <2>2, <3>1, NoNewCall
  <2>3. QED
    BY <2>1, <2>2
<1>3. QED
  BY <1>1, <1>2 DEF OneTab, LockInv

LEMMA RefusedLocks ==
    ASSUME OneTab, TypeInv, LockInv, NEW c \in Calls, calls[c].heard,
           Refused(c, calls[c].tab), UNCHANGED server
    PROVE  LockInv'
<1> DEFINE t == calls[c].tab
<1>1. t \in Tabs /\ calls[c].kind \in {"login", "recovery", "register"}
  BY HeardCall DEF Refused, SoundCall, Kinds
<1>2. Idle(t) /\ End(c) /\ sessions' = sessions
  BY DEF Refused, server
<1>3. /\ ~calls'[c].heard /\ calls'[c].at # "served"
      /\ \A d \in Calls : d # c => calls'[d] = calls[d]
  BY <1>2, EndFacts
<1>4. view[t] # "unlocked"
  BY <1>1, <1>3, LastWork
<1>5. busy'[t] = "idle" /\ view'[t] # "unlocked"
  BY <1>1, <1>2, <1>4, PageFacts
<1>6. QED
  BY <1>1, <1>2, <1>3, <1>5, OverLocks

LEMMA RefreshedLocks ==
    ASSUME OneTab, TypeInv, LockInv, NEW c \in Calls, calls[c].heard,
           Refreshed(c, calls[c].tab), UNCHANGED server
    PROVE  LockInv'
<1> DEFINE t == calls[c].tab
<1>1. t \in Tabs
  BY HeardCall
<1>2. /\ End(c)
      /\ UNCHANGED <<cookie, busy, opened, sessions>>
      /\ view'[t] = "unlocked" => view[t] = "unlocked"
  BY <1>1 DEF Refreshed, server, browser, TypeInv, TypeOK
<1>3. /\ ~calls'[c].heard /\ calls'[c].at # "served"
      /\ \A d \in Calls : d # c => calls'[d] = calls[d]
  BY <1>2, EndFacts
<1>4. /\ busy'[t] = busy[t] /\ opened'[t] = opened[t]
      /\ view'[t] = "unlocked" => view[t] = "unlocked"
      /\ view'[t] = "unlocked" \/ busy[t] = "code" => cookie' = cookie
  BY <1>2
<1>5. QED
  BY <1>1, <1>2, <1>3, <1>4, OverLocks

(* A screen opens the vault, shows the recovery code or gives up.          *)
LEMMA WorkLocks ==
    ASSUME OneTab, TypeInv, LockInv, NEW c \in Calls, calls[c].heard,
           calls[c].kind \in {"login", "recovery", "register"},
           End(c), sessions' = sessions,
           NEW t \in Tabs, t = calls[c].tab,
           \/ Open(t, cookie')
           \/ Idle(t)
           \/ /\ busy' = [busy EXCEPT ![t] = "code"]
              /\ opened' = [opened EXCEPT ![t] = cookie']
              /\ view' = view
    PROVE  LockInv'
<1>1. /\ ~calls'[c].heard /\ calls'[c].at # "served"
      /\ \A d \in Calls : d # c => calls'[d] = calls[d]
  BY EndFacts
<1>2. view[t] # "unlocked"
  BY <1>1, LastWork
<1>3. \/ busy'[t] = "idle" /\ view'[t] # "unlocked"
      \/ busy'[t] = "idle" /\ cookie' = opened'[t]
      \/ /\ busy'[t] = "code" /\ cookie' = opened'[t]
         /\ view'[t] # "unlocked"
  BY <1>2 DEF Open, Idle, TypeInv, TypeOK
<1>4. QED
  BY <1>1, <1>3, OverLocks

LEMMA RecoveredLocks ==
    ASSUME OneTab, TypeInv, LockInv, NEW c \in Calls, calls[c].heard,
           calls[c].kind = "recovery",
           Recovered(c, calls[c].tab), UNCHANGED server
    PROVE  LockInv'
<1>1. PICK t \in Tabs : t = calls[c].tab
  BY HeardCall
<1>2. cookie' = cookie /\ sessions' = sessions
  BY DEF Recovered, server
<1>3. CASE End(c) /\ Idle(t)
  BY <1>1, <1>2, <1>3, WorkLocks
<1>4. CASE /\ calls' = [calls EXCEPT ![c] = [New("register", t) EXCEPT
                                                !.pass = calls[c].grant]]
           /\ UNCHANGED page
  <2>1. /\ calls'[c].heard
        /\ calls'[c].tab = t
        /\ calls'[c].kind = "register"
        /\ calls'[c].at = "sent"
        /\ \A d \in Calls : d # c => calls'[d] = calls[d]
    BY <1>1, <1>4, ChainFacts
  <2>2. /\ view' = view /\ busy' = busy /\ opened' = opened
    BY <1>4 DEF page
  <2>3. \A d \in WorkOf(t)' : d \in WorkOf(t)
    BY <1>1, <2>1 DEF WorkOf, Heard
  <2>4. \A d \in LogoutsOf(t)' : d \in LogoutsOf(t) /\ calls'[d] = calls[d]
    BY <1>1, <2>1 DEF LogoutsOf, Heard
  <2>5. WorksAlone(t)'
    BY <2>2, <2>3 DEF LockInv, WorksAlone
  <2>6. OwnSession(t)'
    BY <1>2, <2>2, <2>4 DEF LockInv, OwnSession
  <2>7. EndedAtAPI'
    BY <1>2, <2>1, EndedStays DEF LockInv
  <2>8. QED
    BY <2>5, <2>6, <2>7 DEF OneTab, LockInv
<1>5. QED
  BY <1>1, <1>3, <1>4 DEF Recovered

LEMMA LoggedOutLocks ==
    ASSUME OneTab, TypeInv, LockInv, NEW c \in Calls, calls[c].heard,
           calls[c].kind = "logout",
           LoggedOut(c, calls[c].tab), UNCHANGED server
    PROVE  LockInv'
<1> DEFINE t == calls[c].tab
<1>1. t \in Tabs /\ c \in LogoutsOf(t)
  BY HeardCall DEF LogoutsOf
<1>2. End(c) /\ Lock(t) /\ sessions' = sessions
  BY DEF LoggedOut, server
<1>3. /\ ~calls'[c].heard /\ calls'[c].at # "served"
      /\ \A d \in Calls : d # c => calls'[d] = calls[d]
  BY <1>2, EndFacts
<1>4. busy[t] = "idle"
  BY <1>1 DEF LockInv, OwnSession
<1>5. /\ busy'[t] = busy[t] /\ opened'[t] = opened[t]
      /\ view'[t] = "locked"
  BY <1>1, <1>2 DEF Lock, TypeInv, TypeOK
<1>6. QED
  BY <1>1, <1>2, <1>3, <1>4, <1>5, OverLocks

LEMMA ReplyLocks ==
    ASSUME OneTab, TypeInv, LockInv, NEW c \in Calls, Reply(c)
    PROVE  LockInv'
<1> DEFINE t == calls[c].tab
<1>1. calls[c].heard /\ UNCHANGED server /\ sessions' = sessions
  BY DEF Reply, server
<1>2. t \in Tabs
  BY <1>1, HeardCall
<1>3. CASE Refused(c, t)
  BY <1>1, <1>3, RefusedLocks
<1>4. CASE calls[c].kind = "status" /\ Refreshed(c, t)
  BY <1>1, <1>4, RefreshedLocks
<1>5. CASE calls[c].kind = "login" /\ LoggedIn(c, t)
  <2>1. /\ End(c)
        /\ Open(t, cookie') \/ Idle(t)
    BY <1>5 DEF LoggedIn
  <2>2. QED
    BY <1>1, <1>2, <1>5, <2>1, WorkLocks
<1>6. CASE calls[c].kind = "recovery" /\ Recovered(c, t)
  BY <1>1, <1>6, RecoveredLocks
<1>7. CASE calls[c].kind = "register" /\ Registered(c, t)
  <2>1. /\ End(c)
        /\ \/ Open(t, cookie')
           \/ /\ busy' = [busy EXCEPT ![t] = "code"]
              /\ opened' = [opened EXCEPT ![t] = cookie']
              /\ view' = view
    BY <1>7 DEF Registered
  <2>2. QED
    BY <1>1, <1>2, <1>7, <2>1, WorkLocks
<1>8. CASE calls[c].kind = "logout" /\ LoggedOut(c, t)
  BY <1>1, <1>8, LoggedOutLocks
<1>9. QED
  BY <1>3, <1>4, <1>5, <1>6, <1>7, <1>8, Zenon DEF Reply

LEMMA FailLocks ==
    ASSUME OneTab, TypeInv, LockInv, NEW c \in Calls, Fail(c)
    PROVE  LockInv'
<1> DEFINE t == calls[c].tab
<1>1. /\ calls[c].heard /\ calls[c] \in SoundCall
      /\ cookie' = cookie /\ sessions' = sessions
  BY DEF Fail, server, browser, TypeInv
<1>2. t \in Tabs /\ calls[c].kind \in Kinds
  BY <1>1, HeardCall
<1>3. Unheard(calls[c]) \in SoundCall /\ ~Unheard(calls[c]).heard
  BY <1>1, UnheardIsSound
<1>4. Unheard(calls[c]).at # "served"
  BY <1>1 DEF Unheard, Free, SoundCall, Call
<1>5. calls' = [calls EXCEPT ![c] = Unheard(calls[c])]
  BY DEF Fail
<1>6. /\ ~calls'[c].heard /\ calls'[c].at # "served"
      /\ \A d \in Calls : d # c => calls'[d] = calls[d]
  BY <1>3, <1>4, <1>5, Replaced
<1>7. CASE calls[c].kind \in {"status", "logout"}
  <2>1. StatusFailed(t) \/ Lock(t)
    BY <1>7 DEF Fail, LogoutFailed
  <2>2. /\ busy'[t] = busy[t] /\ opened'[t] = opened[t]
        /\ view'[t] # "unlocked"
    BY <1>2, <2>1 DEF Lock, StatusFailed, TypeInv, TypeOK
  <2>3. QED
    BY <1>1, <1>2, <1>6, <2>2, OverLocks
<1>8. CASE calls[c].kind \in {"login", "recovery", "register"}
  <2>1. Idle(t)
    BY <1>8 DEF Fail, ScreenFailed
  <2>2. view[t] # "unlocked"
    BY <1>1, <1>2, <1>6, <1>8, LastWork
  <2>3. busy'[t] = "idle" /\ view'[t] # "unlocked"
    BY <1>2, <2>1, <2>2, PageFacts
  <2>4. QED
    BY <1>1, <1>2, <1>6, <1>8, <2>3, OverLocks
<1>9. QED
  BY <1>2, <1>7, <1>8 DEF Kinds

LEMMA LoseLocks ==
    ASSUME OneTab, TypeInv, LockInv, NEW c \in Calls, Lose(c)
    PROVE  LockInv'
<1>1. /\ ~calls'[c].heard /\ calls'[c].at = "free"
      /\ \A d \in Calls : d # c => calls'[d] = calls[d]
      /\ UNCHANGED <<view, busy, opened, cookie, sessions>>
  BY EndFacts DEF Lose, server, browser, page
<1>2. ASSUME NEW t \in Tabs
      PROVE  WorksAlone(t)' /\ OwnSession(t)'
  <2>1. \A d \in Calls : calls'[d].heard /\ calls'[d].tab = t =>
            /\ d \in Heard(t)
            /\ calls'[d].kind = calls[d].kind
            /\ calls'[d].cookie = calls[d].cookie
    BY <1>1 DEF Heard
  <2>2. /\ busy'[t] = busy[t] /\ opened'[t] = opened[t]
        /\ view'[t] = "unlocked" => view[t] = "unlocked"
        /\ view'[t] = "unlocked" \/ busy[t] = "code" => cookie' = cookie
    BY <1>1
  <2>3. QED
    BY <2>1, <2>2, NoNewCall
<1>3. EndedAtAPI'
  BY <1>1, EndedStays DEF LockInv
<1>4. QED
  BY <1>2, <1>3 DEF LockInv

LEMMA StepsLock ==
    ASSUME OneTab, ~HastyUser, TypeInv, LockInv, [Next]_vars
    PROVE  LockInv'
<1>1. ASSUME NEW t \in Tabs, TabStep(t)
      PROVE  LockInv'
  <2>1. CASE LoadPage(t)
    BY <2>1, LoadPageLocks
  <2>2. CASE HandlePasskeyUnlock(t)
    BY <2>2, PressLocks DEF HandlePasskeyUnlock
  <2>3. CASE HandleRecover(t)
    BY <2>3, PressLocks DEF HandleRecover
  <2>4. CASE HandleRegister(t)
    BY <2>4, PressLocks DEF HandleRegister
  <2>5. CASE ConfirmCode(t)
    BY <2>5, ConfirmCodeLocks
  <2>6. CASE ResetIdle(t)
    BY <2>6, ResetIdleLocks
  <2>7. CASE HandleLock(t)
    BY <2>7, HandleLockLocks
  <2>8. CASE Tick(t)
    BY <2>8, TickLocks
  <2>9. QED
    BY <1>1, <2>1, <2>2, <2>3, <2>4, <2>5, <2>6, <2>7, <2>8 DEF TabStep
<1>2. ASSUME NEW c \in Calls, CallStep(c)
      PROVE  LockInv'
  BY <1>2, ServeLocks, ReplyLocks, FailLocks, LoseLocks DEF CallStep
<1>3. ASSUME NEW g \in Tokens, Expire(g)
      PROVE  LockInv'
  BY <1>3, ExpireLocks
<1>4. CASE UNCHANGED vars
  BY <1>4 DEF vars, server, browser, page, LockInv, WorksAlone, OwnSession,
              EndedAtAPI, WorkOf, LogoutsOf, Heard
<1>5. QED
  BY <1>1, <1>2, <1>3, <1>4 DEF Next

(* A step that locks an open vault serves no call.                         *)
LEMMA LockingStep ==
    ASSUME NEW t \in Tabs, view'[t] # view[t], Next
    PROVE  sessions' = sessions
<1>1. ASSUME NEW u \in Tabs, TabStep(u)
      PROVE  sessions' = sessions
  BY <1>1 DEF TabStep, LoadPage, HandlePasskeyUnlock, HandleRecover,
              HandleRegister, Press, ConfirmCode, ResetIdle, HandleLock,
              Tick, server
<1>2. ASSUME NEW c \in Calls, CallStep(c)
      PROVE  sessions' = sessions
  <2>1. CASE Serve(c)
    BY <2>1 DEF Serve, page
  <2>2. CASE Reply(c) \/ Fail(c) \/ Lose(c)
    BY <2>2 DEF Reply, Fail, Lose, server
  <2>3. QED
    BY <1>2, <2>1, <2>2 DEF CallStep
<1>3. ASSUME NEW g \in Tokens, Expire(g)
      PROVE  sessions' = sessions
  BY <1>3 DEF Expire, page
<1>4. QED
  BY <1>1, <1>2, <1>3 DEF Next

(* In one tab, and with a user who waits for a lock to end, a lock ends    *)
(* the session the vault was opened with (VaultGate.tsx:65).               *)
THEOREM LockIsEffective ==
    ASSUME OneTab, ~HastyUser
    PROVE  Spec => LockEndsSession
<1>1. Init => LockInv
  BY DEF Init, Free, LockInv, WorksAlone, OwnSession, EndedAtAPI, WorkOf,
         LogoutsOf, Heard
<1>2. TypeInv /\ TabInv /\ LockInv /\ [Next]_vars => LockInv'
  BY StepsLock
<1>3. LockInv /\ [Next]_vars =>
          [\A t \in Tabs :
              /\ view[t] = "unlocked"
              /\ view'[t] = "locked"
              /\ \E c \in LogoutsOf(t) :
                     calls[c].at = "served" /\ calls'[c].at = "free"
              => opened[t] \notin sessions']_vars
  <2> SUFFICES ASSUME LockInv, Next, NEW t \in Tabs,
                      view[t] = "unlocked", view'[t] = "locked",
                      NEW c \in LogoutsOf(t), calls[c].at = "served"
               PROVE  opened[t] \notin sessions'
    OBVIOUS
  <2>1. sessions' = sessions
    BY LockingStep
  <2>2. calls[c].cookie = opened[t]
    BY DEF LockInv, OwnSession
  <2>3. calls[c].cookie \notin sessions
    BY DEF LockInv, EndedAtAPI, LogoutsOf, Heard
  <2>4. QED
    BY <2>1, <2>2, <2>3
<1>4. QED
  BY <1>1, <1>2, <1>3, Invariant, PTL DEF Spec, LockEndsSession
=============================================================================
