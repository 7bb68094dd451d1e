----------------------------- MODULE AuthMemory -----------------------------
(***************************************************************************)
(* What the API process keeps in memory for authentication, as operators   *)
(* on values: session and recovery tokens (session.service.ts), challenge  *)
(* slots (challenge.service.ts), the failure back-off                      *)
(* (backoff.service.ts) and the two sliding rate windows                   *)
(* (auth.service.ts).                                                      *)
(*                                                                         *)
(* The code stores absolute deadlines and compares them with Date.now();   *)
(* here every deadline is the number of ticks left until it passes, so     *)
(* that "now >= deadline" reads "0 ticks left" and time needs no bound.    *)
(***************************************************************************)
EXTENDS Integers, FiniteSetsExt

CONSTANTS
    None,               \* no token, no challenge, no key: undefined or null
    Tokens,             \* session tokens (sm_session)
    RecoveryTokens,     \* recovery tokens (sm_recovery)
    Challenges,         \* WebAuthn challenge values
    IdleTimeout,        \* IDLE_TIMEOUT_MS in ticks
    RecoveryTtl,        \* RECOVERY_SESSION_TTL_MS in ticks
    ChallengeTtl,       \* CHALLENGE_TTL_MS in ticks
    BackoffDuration,    \* BACKOFF_DURATION_MS in ticks
    MaxLoginFailures,   \* MAX_LOGIN_FAILURES
    Window,             \* OPTIONS_WINDOW_MS and RECOVERY_WINDOW_MS in ticks
    OptionsMax,         \* OPTIONS_MAX_PER_WINDOW
    RecoveryMax         \* RECOVERY_MAX_PER_WINDOW

ASSUME NoneAssumption ==
    None \notin Tokens \cup RecoveryTokens \cup Challenges

ASSUME DurationAssumption ==
    /\ IdleTimeout \in Nat \ {0}
    /\ RecoveryTtl \in Nat \ {0}
    /\ ChallengeTtl \in Nat \ {0}
    /\ BackoffDuration \in Nat \ {0}
    /\ Window \in Nat \ {0}

ASSUME LimitAssumption ==
    /\ MaxLoginFailures \in Nat \ {0}
    /\ OptionsMax \in Nat
    /\ RecoveryMax \in Nat

-----------------------------------------------------------------------------
(* A deadline one tick later. *)
Elapse(left) == IF left = 0 THEN 0 ELSE left - 1

-----------------------------------------------------------------------------
(* SessionService. A map from token to ticks left; 0 is an expired or an   *)
(* absent entry, which the code treats alike.                              *)

SessionMap == [Tokens -> 0..IdleTimeout]
RecoveryMap == [RecoveryTokens -> 0..RecoveryTtl]

Live(map, t) == t # None /\ map[t] > 0

(* issue(): a token no one holds, with a full idle period. *)
Issued(map, t) == [map EXCEPT ![t] = IdleTimeout]

(* isValid() on a live token slides its deadline; on any other it changes  *)
(* nothing that is still live.                                             *)
Touched(map, t) == IF Live(map, t) THEN [map EXCEPT ![t] = IdleTimeout] ELSE map

(* revoke() and revokeRecovery(). *)
Revoked(map, t) == IF t = None THEN map ELSE [map EXCEPT ![t] = 0]

(* Mutant: a recovery token lives as long as a session. *)
RecoveryIssuedForIdle(map, t) == [map EXCEPT ![t] = IdleTimeout]

(* issueRecovery(): a fixed lifetime; isRecoveryValid() never extends it. *)
RecoveryIssued(map, t) == [map EXCEPT ![t] = RecoveryTtl]

-----------------------------------------------------------------------------
(* ChallengeService: one slot for each kind of ceremony. *)

Kinds == {"register", "login"}
Slot == [value : Challenges \cup {None}, left : 0..ChallengeTtl]
EmptySlot == [value |-> None, left |-> 0]

(* set(): overwrites whatever the slot held. *)
ChallengeSet(slots, kind, c) ==
    [slots EXCEPT ![kind] = [value |-> c, left |-> ChallengeTtl]]

(* consume(): the value if it has not expired, None otherwise ...          *)
Consumed(slots, kind) ==
    IF slots[kind].left > 0 THEN slots[kind].value ELSE None

(* Mutant: the slot is emptied only when it has expired. *)
AfterConsumeKept(slots, kind) ==
    IF slots[kind].left > 0 THEN slots ELSE [slots EXCEPT ![kind] = EmptySlot]

(* ... and in either case the slot is emptied.                             *)
AfterConsume(slots, kind) == [slots EXCEPT ![kind] = EmptySlot]

-----------------------------------------------------------------------------
(* BackoffService: one global counter. "armed" is blockedUntil # 0: a block *)
(* that has run out stays armed until the next isBlocked() clears it.       *)

Backoff == [failures : Nat, armed : BOOLEAN, left : 0..BackoffDuration]
NoBackoff == [failures |-> 0, armed |-> FALSE, left |-> 0]

Blocked(b) == b.left > 0

(* What isBlocked() leaves behind when it answers false. *)
AfterCheck(b) == IF b.armed THEN NoBackoff ELSE b

(* Mutant: the block starts one failure late. *)
FailureRecordedLate(b) ==
    IF b.failures >= MaxLoginFailures
    THEN [failures |-> b.failures + 1, armed |-> TRUE, left |-> BackoffDuration]
    ELSE [b EXCEPT !.failures = @ + 1]

(* recordFailure(): every failure from the MaxLoginFailures-th on starts   *)
(* the block anew.                                                         *)
FailureRecorded(b) ==
    IF b.failures + 1 >= MaxLoginFailures
    THEN [failures |-> b.failures + 1, armed |-> TRUE, left |-> BackoffDuration]
    ELSE [b EXCEPT !.failures = @ + 1]

-----------------------------------------------------------------------------
(* The sliding windows of assertOptionsRate() and assertRecoveryRate():    *)
(* hits[k] calls have k ticks left in the window.                          *)

HitMap == [1..Window -> Nat]
NoHits == [k \in 1..Window |-> 0]

HitsInWindow(hits) == MapThenSumSet(LAMBDA k : hits[k], 1..Window)

HitRecorded(hits) == [hits EXCEPT ![Window] = @ + 1]

HitsElapsed(hits) ==
    [k \in 1..Window |-> IF k = Window THEN 0 ELSE hits[k + 1]]
=============================================================================
