----------------------------- MODULE ClockSync -----------------------------
(***************************************************************************)
(* The sandboxer keeps the guest's clock near the host's: every period it   *)
(* asks the guest for its time, estimates the difference from four          *)
(* timestamps, and has the guest add it when it is above the tolerance.     *)
(* Only the difference of the clocks matters, so the host's starts at 0 in  *)
(* every round.                                                             *)
(***************************************************************************)
EXTENDS Integers

CONSTANTS
  MaxSkew,     \* bound: how far apart the clocks are when a round starts
  MaxDelay,    \* bound: how long a message takes
  Tolerance,   \* TIME_DIFF_TOLERANCE_IN_MS
  Width,       \* of the integers that carry nanoseconds (64 in the code)
  MaxRounds    \* bound: rounds

VARIABLES
  skew,        \* the guest's clock minus the host's
  before,      \* skew when the round started
  now,         \* the host's clock, since the round started
  packet,      \* SyncClockPacket
  clock,       \* where the round is
  rounds

clockVars == <<skew, before, now, packet, clock, rounds>>

Abs(x) == IF x < 0 THEN -x ELSE x
\* checked_div rounds toward zero.
Half(x) == IF x < 0 THEN -((-x) \div 2) ELSE x \div 2


Delta(p) == Half((p.cSend - p.cArrive) + (p.sArrive - p.sSend))

\* `Delta as u64`, as a duration of nanoseconds.
AsUnsigned(d) == d % 2^Width
\* The kernel refuses a time beyond what a signed count of nanoseconds holds.
Settable(t) == t < 2^(Width - 1)

-----------------------------------------------------------------------------
\* sleep, then read the host's clock and ask.
Ask ==
  /\ clock = "sleep" /\ rounds < MaxRounds
  /\ before' = skew /\ now' = 0
  /\ packet' = [cSend |-> 0, cArrive |-> 0, sSend |-> 0, sArrive |-> 0, delta |-> 0]
  /\ clock' = "asked" /\ rounds' = rounds + 1
  /\ UNCHANGED skew

\* sync_clock of a packet without a difference: the guest's time, twice.
Stamp(delay) ==
  /\ clock = "asked"
  /\ now' = now + delay
  /\ packet' = [packet EXCEPT !.cArrive = now + delay + skew, !.sSend = now + delay + skew]
  /\ clock' = "stamped"
  /\ UNCHANGED <<skew, before, rounds>>

Compare(delay) ==
  /\ clock = "stamped"
  /\ now' = now + delay
  /\ LET p == [packet EXCEPT !.sArrive = now + delay] IN
       /\ packet' = [p EXCEPT !.delta = Delta(p)]
       /\ clock' = IF Abs(Delta(p)) > Tolerance THEN "set" ELSE "done"
  /\ UNCHANGED <<skew, before, rounds>>

\* sync_clock of a packet with a difference.
SetClock(delay) ==
  /\ clock = "set"
  /\ now' = now + delay
  /\ LET t == now + delay + skew + AsUnsigned(packet.delta) IN
       skew' = IF Settable(t) THEN t - (now + delay) ELSE skew
  /\ clock' = "done"
  /\ UNCHANGED <<before, packet, rounds>>

\* A call fails or is not answered in time.  A set of which only the answer is
\* lost is SetClock: nothing follows it in the round.
CallLost ==
  /\ clock \in {"asked", "stamped", "set"}
  /\ clock' = "sleep"
  /\ UNCHANGED <<skew, before, now, packet, rounds>>

\* Until the next round the clocks drift apart.
Sleep ==
  /\ clock = "done"
  /\ \E drift \in {-1, 0, 1} : skew' = skew + drift /\ Abs(skew + drift) <= MaxSkew
  /\ clock' = "sleep"
  /\ UNCHANGED <<before, now, packet, rounds>>

ClockInit ==
  /\ skew \in -MaxSkew..MaxSkew /\ before = skew /\ now = 0 /\ clock = "sleep" /\ rounds = 0
  /\ packet = [cSend |-> 0, cArrive |-> 0, sSend |-> 0, sArrive |-> 0, delta |-> 0]

ClockNext ==
  \/ Ask \/ CallLost \/ Sleep
  \/ \E delay \in 0..MaxDelay : Stamp(delay) \/ Compare(delay) \/ SetClock(delay)

ClockSpec == ClockInit /\ [][ClockNext]_clockVars

-----------------------------------------------------------------------------
(* Properties. *)

\* Type invariant of the two clocks and the round.
ClockTypeOK == skew \in Int /\ now \in 0..3 * MaxDelay /\ clock \in {"sleep", "asked", "stamped", "set", "done"}

=============================================================================
