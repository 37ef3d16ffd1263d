------------------------------- MODULE RateLimit -------------------------------
(***************************************************************************)
(* The limit of calls per method (src/ratelimit.rs): a sliding window of   *)
(* the instants of the calls let through, one per method, in one process.  *)
(* Calls without the channel's token pass without using the window: the    *)
(* layer below refuses them.                                               *)
(***************************************************************************)
EXTENDS Integers, Sequences

CONSTANTS
    Methods,
    LimitOf,     \* rpm or rpm_heavy, in calls per window; 0 switches it off
    Window,      \* the length of a window, in ticks
    MaxNow       \* ticks of a run

ASSUME RateAssumption ==
    /\ LimitOf \in [Methods -> Nat] /\ "none" \notin Methods
    /\ Window \in Nat \ {0} /\ MaxNow \in Nat

VARIABLES
    now,
    windows,     \* per method, the instants in its queue, oldest first
    passed,      \* how many calls with a token passed, per method and instant
    refused      \* the last refusal, and how many calls it had before it

rateVars == <<now, windows, passed, refused>>

NoRefusal == [method |-> "none", recent |-> 0]

RateInit ==
    /\ now = 0
    /\ windows = [m \in Methods |-> <<>>]
    /\ passed = [m \in Methods |-> [t \in 0..MaxNow |-> 0]]
    /\ refused = NoRefusal

Tick == now < MaxNow /\ now' = now + 1 /\ UNCHANGED <<windows, passed, refused>>

\* The front of the queue leaves while it is older than the window.
Expired_AtEdge(t) == now - t >= Window                                  \* mutant
Expired(t) == now - t > Window
Popped(q) == CHOOSE n \in 0..Len(q) : /\ \A i \in 1..n : Expired(q[i])
                                      /\ n < Len(q) => ~Expired(q[n + 1])
Pruned(q) == SubSeq(q, Popped(q) + 1, Len(q))

\* How many calls of the method were really let through in the last window.
Total(f) == LET upTo[n \in 0..MaxNow] == IF n = 0 THEN f[0] ELSE f[n] + upTo[n - 1]
            IN upTo[MaxNow]
Recent(m) == Total([t \in 0..MaxNow |-> IF t >= now - Window THEN passed[m][t] ELSE 0])

\* A call without the token and a method without a limit pass unseen.
Counts(m, auth) == auth /\ LimitOf[m] > 0

\* A refused call does not enter the queue.
Allow(m, auth) ==
    LET q == Pruned(windows[m])
    IN /\ Counts(m, auth) /\ Len(q) < LimitOf[m]
       /\ windows' = [windows EXCEPT ![m] = Append(q, now)]
       /\ passed' = [passed EXCEPT ![m][now] = @ + 1]
       /\ UNCHANGED <<now, refused>>

Refuse(m, auth) ==
    LET q == Pruned(windows[m])
    IN /\ Counts(m, auth) /\ Len(q) >= LimitOf[m]
       /\ windows' = [windows EXCEPT ![m] = q]
       /\ refused' = [method |-> m, recent |-> Recent(m)]
       /\ UNCHANGED <<now, passed>>

RateNext ==
    \/ Tick
    \/ \E m \in Methods, auth \in BOOLEAN : Allow(m, auth) \/ Refuse(m, auth)
RateSpec == RateInit /\ [][RateNext]_rateVars

-----------------------------------------------------------------------------
(* Properties *)

\* No stretch of a window's length, both ends included, sees more calls of a
\* method pass than its limit, wherever the stretch begins.
WindowHolds ==
    \A m \in Methods : LimitOf[m] > 0 =>
        \A s \in 0..MaxNow :
            Total([t \in 0..MaxNow |-> IF t \in s..(s + Window) THEN passed[m][t] ELSE 0])
              <= LimitOf[m]

\* A call is refused only when the limit was really used up in the last window:
\* refusals and calls without a token cost nobody anything.
RefusedOnlyWhenFull ==
    refused.method \in Methods => refused.recent = LimitOf[refused.method]

\* The window lets through no more than the limit, and no less.
LimitIsExact == WindowHolds /\ RefusedOnlyWhenFull
=============================================================================
