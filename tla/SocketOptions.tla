---------------------------- MODULE SocketOptions ----------------------------
(***************************************************************************)
(* The options of a descriptor, as the setters and getters of Net::Socket  *)
(* write and read them: each setter is a function from what the kernel     *)
(* kept to what it keeps.  Integers have the width of IntMax.  Nothing     *)
(* here checks the sign of a duration, as the code does not either.        *)
(***************************************************************************)
EXTENDS Integers

CONSTANTS Flags,    \* the options that are on or off (TCP_NODELAY, ...)
          IntMax,   \* the largest std::int32_t
          Jiffy,    \* milliseconds between two ticks of the kernel's clock
          Durations \* bound: what callers ask for, in milliseconds or seconds

ASSUME JiffyAssumption == Jiffy \in {1, 4, 10}
ASSUME IntMaxAssumption == IntMax \in Nat /\ IntMax > 1000
ASSUME DurationsAssumption == Durations \subseteq Int

Options == [ timeout : Int, lingers : BOOLEAN, linger : Int, on : SUBSET Flags,
             nonBlocking : BOOLEAN ]

\* What a send waits for when no timeout is set.
Forever == -1

Default == [ timeout |-> Forever, lingers |-> FALSE, linger |-> 0, on |-> {},
             nonBlocking |-> FALSE ]

\* Division of C++, which truncates towards zero.
Quotient(a, b) == IF a >= 0 THEN a \div b ELSE -((-a) \div b)
Remainder(a, b) == a - b * Quotient(a, b)

\* A conversion of a wider integer to std::int32_t.
NarrowToInt(a) == ((a + IntMax + 1) % (2 * (IntMax + 1))) - (IntMax + 1)

Ticks == 1000 \div Jiffy  \* a second's worth

\* SO_SNDTIMEO in the kernel: EDOM (which Socket::OnError does not list, so
\* that the setter returns as if all was well), a timeout that has expired
\* already, none, or the ticks, rounded up.
SndTimeo(old, sec, usec) ==
  CASE usec < 0 \/ usec > 999999 -> old
    [] usec >= 0 /\ usec <= 999999 /\ sec < 0 -> 0
    [] usec = 0 /\ sec = 0 -> Forever
    [] usec >= 0 /\ usec <= 999999 /\ sec >= 0 /\ usec + sec > 0 ->
         sec * Ticks + (usec + 1000 * Jiffy - 1) \div (1000 * Jiffy)

(* Mutant: the milliseconds that are left are passed as microseconds.      *)
SetSendTimeoutUnscaled(old, ms) ==
  IF ms > IntMax THEN old
  ELSE [old EXCEPT !.timeout = SndTimeo(@, Quotient(ms, 1000), Remainder(ms, 1000))]

\* From milliseconds to a timeval.  A count that is too large is refused
\* before the descriptor is touched.
SetSendTimeout(old, ms) ==
  IF ms > IntMax THEN old
  ELSE [old EXCEPT !.timeout =
          SndTimeo(@, Quotient(ms, 1000), Remainder(ms, 1000) * 1000)]

\* And back.  The sum is a signed 32-bit one: in the last tick of the range it
\* may be more than IntMax, which is undefined.
GetSendTimeout(option) ==
  IF option.timeout = Forever THEN 0
  ELSE (option.timeout \div Ticks) * 1000
         + ((option.timeout % Ticks) * Jiffy * 1000) \div 1000

\* The test for too many seconds has no effect: the throw was left out.  The
\* kernel keeps the old time when lingering is switched off.
SetLinger(old, on, seconds) ==
  [old EXCEPT !.lingers = on, !.linger = IF on THEN NarrowToInt(seconds) ELSE @]

GetLinger(option) == IF option.lingers THEN option.linger ELSE 0

\* SetNoDelay, SetKeepAlive, SetReuseAddress and SetOOBInline.
SetFlag(old, f, enabled) ==
  [old EXCEPT !.on = IF enabled THEN @ \cup {f} ELSE @ \ {f}]

\* The flags of the descriptor are computed, and the call that should set them
\* is fcntl(F_SETFL, flags): it names another descriptor, and no mode changes.
SetNonBlocking(old, enabled) == old

\* What one call of a setter makes of the options.
Set(old) == {SetSendTimeout(old, ms) : ms \in Durations}
              \cup {SetLinger(old, on, seconds) : on \in BOOLEAN, seconds \in Durations}
              \cup {SetFlag(old, f, enabled) : f \in Flags, enabled \in BOOLEAN}
              \cup {SetNonBlocking(old, enabled) : enabled \in BOOLEAN}

-----------------------------------------------------------------------------
(***************************************************************************)
(* What each setter accepts is in force and is what the getter returns,    *)
(* whatever was set before, and no setter changes the option of another: a *)
(* timeout is kept to the tick, rounded up, and 0 means none.  It says     *)
(* nothing of negative durations, of lingering for longer than IntMax and  *)
(* of SetNonBlocking: those are accepted and mean something else.          *)
(***************************************************************************)
TimeoutInForce(old, ms) ==
  LET new == SetSendTimeout(old, ms)
  IN  /\ new = [old EXCEPT !.timeout = new.timeout]
      /\ ms = 0 => new.timeout = Forever
      /\ ms \in 1..IntMax =>
           new.timeout > 0 /\ GetSendTimeout(new) \in ms..(ms + Jiffy - 1)

LingerInForce(old, on, seconds) ==
  LET new == SetLinger(old, on, seconds)
  IN  /\ new = [old EXCEPT !.lingers = on, !.linger = new.linger]
      /\ seconds \in 0..IntMax => GetLinger(new) = IF on THEN seconds ELSE 0

FlagInForce(old, f, enabled) ==
  LET new == SetFlag(old, f, enabled)
  IN  /\ new = [old EXCEPT !.on = new.on]
      /\ (f \in new.on) = enabled
      /\ new.on \ {f} = old.on \ {f}

InForce(old) ==
  /\ \A ms \in Durations : TimeoutInForce(old, ms)
  /\ \A on \in BOOLEAN, seconds \in Durations : LingerInForce(old, on, seconds)
  /\ \A f \in Flags, enabled \in BOOLEAN : FlagInForce(old, f, enabled)
=============================================================================
