----------------------------- MODULE BillingCycle -----------------------------
(***************************************************************************)
(* The billing cycle of the statistics recorder (stats/stats.go): credits  *)
(* of the current subscription period, the reset boundary that the gateway *)
(* reports, late, early or not at all, and that the recorder advances by   *)
(* its own clock in between; and the view of them the panel is shown.      *)
(*                                                                         *)
(* Time is a small number and a calendar month a constant: a step of one   *)
(* month that does not advance, which the code guards against, is one from *)
(* an instant in Stuck. Each method holds the recorder's lock throughout.  *)
(*                                                                         *)
(* The recorder follows the boundary of whichever account is active when   *)
(* the status is asked for, and a switch resets nothing: each report may   *)
(* be about another subscription than the last.                            *)
(***************************************************************************)
EXTENDS Integers, FiniteSets

CONSTANTS
  Month,        \* one calendar month
  Tolerance,    \* cycleDriftToleranceMs: a smaller forward move is the same period
  MaxCatchUps,  \* maxCycleCatchUps
  Sentinel,     \* the "never expires" instant, which plausibleResetMs rejects
  Stuck,        \* instants one month from which is not later
  Drift,        \* how far a report may lie behind the boundary
  Phases,       \* the instant of its month at which each account's subscription renews
  MaxTime,      \* bound on the clock
  MaxUsage,     \* bound on the billed requests
  MaxCrashes    \* bound on the restarts from the last save

ASSUME BillingAssumption ==
  /\ Month \in Nat \ {0} /\ Tolerance \in Nat \ {0} /\ MaxCatchUps \in Nat \ {0}
  /\ MaxTime \in Nat \ {0} /\ Sentinel \in Nat /\ Sentinel > MaxTime + 2 * Month
  /\ Stuck \subseteq Nat /\ Drift \subseteq Nat /\ Phases \subseteq 0..(Month - 1) /\ Phases # {}
  /\ MaxUsage \in Nat /\ MaxCrashes \in Nat

\* A report lies less off its boundary than the tolerance (stats.go:17-23), and an
\* instant from which a month does not advance, of which stats.go:522-526 knows in a
\* few historical zones, is no subscription's boundary reported early.
ASSUME DriftAssumption ==
  /\ \E d \in Drift : \A e \in Drift : e <= d
  /\ Tolerance <= Month /\ \A d \in Drift : d < Tolerance
  /\ \A t \in Stuck, d \in Drift \ {0}, p \in Phases : (t + d - p) % Month # 0

VARIABLES
  now,      \* the clock
  cycle,    \* NextResetMs, CycleStartMs, CycleCredits and, as history, the usage
  saved,    \* cycle as saved last
  dirty,    \* the recorder's dirty flag
  crashes

billingVars == <<now, cycle, saved, dirty, crashes>>

\* used: the instants of the billed requests, in a sequence's place a bag: how
\* many at each instant. blind: the tracked boundary was past when it was
\* adopted. lost: the roll past such a boundary began the cycle. booted: the
\* credits reach back to the first start. sub: the phase of the subscription
\* whose boundary is tracked, if any was yet. skewed: since the last boundary
\* passed, another subscription's was tracked.
NoCycle == [next |-> 0, start |-> 0, credits |-> 0,
            used |-> [t \in 1..MaxTime |-> 0], blind |-> FALSE, lost |-> FALSE, booted |-> TRUE,
            sub |-> {}, skewed |-> FALSE]

Plausible(t) == t > 0 /\ t < Sentinel

\* advanceBoundaryMs: 0 where a month does not advance.
Advance(t) == IF t \in Stuck THEN 0 ELSE t + Month

\* One step of rollCycleLocked's loop.
Behind(c) == c.next > 0 /\ now >= c.next
RollStep(c) == [c EXCEPT !.start = c.next, !.credits = 0, !.next = Advance(c.next),
                         !.blind = FALSE, !.lost = cycle.blind, !.booted = FALSE, !.skewed = FALSE]
\* Mutant: one boundary is advanced past, however many have passed.
RollOnce == IF Behind(cycle) THEN RollStep(cycle) ELSE cycle

\* rollCycleLocked: rolled[i] is the cycle after at most i steps of the loop.
Roll ==
  LET rolled[i \in 0..MaxCatchUps] ==
        IF i = 0 THEN cycle
        ELSE IF Behind(rolled[i - 1]) THEN RollStep(rolled[i - 1]) ELSE rolled[i - 1]
      last == rolled[MaxCatchUps]
  IN IF Behind(last) THEN [last EXCEPT !.next = 0] ELSE last

\* projectCycleLocked: what the panel is shown, computed on copies.
Project ==
  LET instants[i \in 0..MaxCatchUps] ==
        IF i = 0 THEN cycle.next
        ELSE IF instants[i - 1] > 0 /\ now >= instants[i - 1]
             THEN Advance(instants[i - 1]) ELSE instants[i - 1]
      passed == {instants[i] : i \in 0..(MaxCatchUps - 1)} \cap 1..now
      last == instants[MaxCatchUps]
  IN [next    |-> IF last > now THEN last ELSE 0,
      start   |-> IF passed = {} THEN cycle.start ELSE CHOOSE t \in passed : \A u \in passed : u <= t,
      credits |-> IF passed = {} THEN cycle.credits ELSE 0]

BillingInit ==
  /\ now = 1
  /\ \E next \in {0, Sentinel} : cycle = [NoCycle EXCEPT !.next = next]
  /\ saved = cycle
  /\ dirty = FALSE
  /\ crashes = 0

Tick ==
  /\ now < MaxTime /\ now' = now + 1
  /\ UNCHANGED <<cycle, saved, dirty, crashes>>

Used == LET c[t \in 0..MaxTime] == IF t = 0 THEN 0 ELSE c[t - 1] + cycle.used[t] IN c[MaxTime]

\* RecordUsage of one credit; a frame that is not billable only counts tokens.
RecordUsage(billable) ==
  /\ IF billable
     THEN /\ Used < MaxUsage
          /\ cycle' = [Roll EXCEPT !.credits = @ + 1, !.used[now] = @ + 1]
     ELSE UNCHANGED cycle
  /\ dirty' = TRUE
  /\ UNCHANGED <<now, saved, crashes>>

\* What the history records of a boundary of subscription p taking over from c's.
Track(c, reported, p) ==
  [c EXCEPT !.next = reported, !.start = reported - Month, !.blind = reported <= now,
            !.sub = {p}, !.skewed = @ \/ ~(c.sub \subseteq {p})]

\* Mutant: every forward move is a new cycle.
AdoptZeroing(c, reported, p) ==
  [Track(c, reported, p) EXCEPT !.credits = IF c.next # 0 THEN 0 ELSE @,
                                !.booted = c.next = 0 \/ ~Plausible(c.next)]

\* setBillingCycleAt, once it has rolled: a boundary that moves forward by less than the
\* tolerance is the tracked one, by more is a new cycle's.
Adopt(c, reported, p) ==
  LET refreshed == c.next # 0 /\ reported - c.next >= Tolerance
  IN [Track(c, reported, p) EXCEPT
        !.credits = IF refreshed THEN 0 ELSE @,
        !.booted = c.next = 0 \/ ~Plausible(c.next) \/ (@ /\ ~refreshed)]

SetBillingCycle(reported, p) ==
  /\ reported > 0
  /\ LET stale == reported = Roll.next \/ (Plausible(Roll.next) /\ reported <= Roll.next)
     IN /\ cycle' = IF stale THEN Roll ELSE Adopt(Roll, reported, p)
        /\ dirty' = (dirty \/ ~stale \/ Roll # cycle)
  /\ UNCHANGED <<now, saved, crashes>>

\* What the gateway may report of a subscription: the end of its running period or,
\* from a cached answer, of the one before it, either somewhat off.
Boundary(p) == p + Month * ((now - p) \div Month + 1)
Reports(p) == {Boundary(p) - d : d \in Drift} \cup {Boundary(p) - Month - d : d \in Drift}

Save ==
  /\ dirty /\ dirty' = FALSE
  /\ saved' = cycle
  /\ UNCHANGED <<now, cycle, crashes>>

Crash ==
  /\ crashes < MaxCrashes /\ crashes' = crashes + 1
  /\ cycle' = saved /\ dirty' = FALSE
  /\ UNCHANGED <<now, saved>>

BillingNext ==
  \/ Tick \/ Save \/ Crash
  \/ \E billable \in BOOLEAN : RecordUsage(billable)
  \/ \E p \in Phases : \E reported \in Reports(p) : SetBillingCycle(reported, p)

BillingSpec == BillingInit /\ [][BillingNext]_billingVars

-------------------------------------------------------------------------------
(* Properties                                                              *)

UsedSince(t) == LET c[u \in 0..MaxTime] ==
                      IF u = 0 THEN 0 ELSE c[u - 1] + (IF u >= t THEN cycle.used[u] ELSE 0)
                IN c[MaxTime]

\* How far apart two reports of one boundary can be.
Span == CHOOSE d \in Drift : \A e \in Drift : e <= d

\* The panel is shown what the next write will make of the cycle, however many
\* boundaries have passed (stats.go:548-555, "matches what the next write would
\* persist").
ProjectionIsNextWrite ==
  Project = [next |-> Roll.next, start |-> Roll.start, credits |-> Roll.credits]

\* The cycle's total is what was charged in the cycle, give or take the drift of
\* its start. No report of the subscription that is tracked, roll or restart discards
\* more, so neither a stale report nor a drifting one wipes a live total, unless the
\* cycle began at a boundary that was past already when it was adopted for want of a
\* tracked one; and once a boundary has passed nothing older is left in it
\* (stats.go:380-400). A switch to an account whose boundary differs skews the total,
\* but only until the next boundary passes. A restart brings the cycle back as it was:
\* a clean recorder's is the saved one, although a report found stale may have rolled
\* it (stats.go:411-417).
TotalIsThisCycle ==
  /\ cycle.next > 0 /\ ~cycle.lost /\ ~cycle.blind /\ ~cycle.skewed =>
       cycle.credits >= UsedSince(cycle.start + Span)
  /\ ~cycle.booted /\ ~cycle.skewed => cycle.credits <= UsedSince(cycle.start - Span)
  /\ ~dirty => cycle = saved
===============================================================================
