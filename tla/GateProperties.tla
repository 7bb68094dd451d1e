--------------------------- MODULE GateProperties ---------------------------
(* What the gate promises.                                                 *)
EXTENDS Gate

(* Every variable keeps its shape.                                         *)
TypeOK ==
    /\ registered \in BOOLEAN
    /\ sessions \subseteq Tokens
    /\ recoveries \subseteq Tokens
    /\ {cookie, pass} \subseteq Tokens \cup {None}
    /\ calls \in [Calls -> Call]
    /\ view \in [Tabs -> Views]
    /\ busy \in [Tabs -> Screens]
    /\ idle \in [Tabs -> 0..IdleLimit]
    /\ opened \in [Tabs -> Tokens \cup {None}]
    /\ unattended \in [Tabs -> Nat]

(* A key does not stay in a tab that nobody uses: whatever the network     *)
(* does, the countdown and one timed-out logout later the vault is locked  *)
(* (VaultGate.tsx:66-96).                                                  *)
UnattendedBounded ==
    \A t \in Tabs :
        view[t] = "unlocked" => unattended[t] <= IdleLimit + Timeout

(* Locking ends the session the vault was opened with: when the answer of  *)
(* a logout locks a tab, the server no longer knows that session           *)
(* (VaultGate.tsx:65, vault-context.tsx:25).                               *)
LockEndsSession ==
    [][\A t \in Tabs :
        /\ view[t] = "unlocked"
        /\ view'[t] = "locked"
        /\ \E c \in LogoutsOf(t) :
               calls[c].at = "served" /\ calls'[c].at = "free"
        => opened[t] \notin sessions']_vars

(* A screen that says it is working works: a call of its tab is under way, *)
(* so the button comes back (UnlockScreen.tsx:90-151,                      *)
(* OnboardingScreen.tsx:107-110).                                          *)
BusyIsBacked ==
    \A t \in Tabs : busy[t] \in {"unlocking", "recovering", "registering"} =>
        \E c \in Heard(t) : calls[c].kind \in {"login", "recovery", "register"}
=============================================================================
