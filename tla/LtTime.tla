------------------------------- MODULE LtTime -------------------------------
(***************************************************************************)
(* lt_time_t (a struct timespec) and the arithmetic event_lea.c does on    *)
(* it.  NSEC stands for the 1000000000L of the code, so that the carry     *)
(* happens within small bounds.                                            *)
(***************************************************************************)
EXTENDS Integers

CONSTANT NSEC     \* nanoseconds in a second

ASSUME NSECAssumption == NSEC \in Nat \ {0, 1}

Time == [sec : Int, nsec : Int]

\* What clock_gettime stores c nanoseconds after the clock's origin.
lt_gettime(c) == [sec |-> c \div NSEC, nsec |-> c % NSEC]

\* Mutant: no carry.
Carries_none(nsec) == 0

\* Iterations of the carry loop: it runs while nsec > NSEC, so a sum of
\* exactly NSEC stays as it is.
Carries(nsec) == IF nsec > NSEC THEN (nsec - 1) \div NSEC ELSE 0

lt_time_addition(time, to) ==
  LET nsec == to + time.nsec IN
  [sec  |-> time.sec + Carries(nsec),
   nsec |-> nsec - Carries(nsec) * NSEC]

lt_time_a_sub_b(a, b) == a.sec * NSEC + a.nsec - b.sec * NSEC - b.nsec

\* TRUE where the code returns 1: endtime is not before nowtime.
lt_ev_check_timeout(endtime, nowtime) ==
  \/ endtime.sec > nowtime.sec
  \/ endtime.sec = nowtime.sec /\ endtime.nsec >= nowtime.nsec

\* Mutant: both sides compared as signed numbers.
time_a_gt_b_signed(diff, timeout, wrap) == diff > timeout

\* (long long)diff > (unsigned long long)timeout: both sides are compared as
\* unsigned numbers of the machine's width, whose modulus is wrap.
time_a_gt_b(diff, timeout, wrap) == diff % wrap > timeout % wrap
=============================================================================
