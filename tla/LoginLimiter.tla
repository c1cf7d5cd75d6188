---------------------------- MODULE LoginLimiter ----------------------------
(***************************************************************************)
(* LoginRateLimiter (admin/auth.py): the failed attempts of an address      *)
(* inside a sliding window, oldest first.  Time goes by in ticks, and an    *)
(* attempt is its age: what is as old as the window is not there any more.  *)
(***************************************************************************)
EXTENDS Naturals, Sequences, FiniteSets

CONSTANTS MaxAttempts, Window

ASSUME LimiterAssumption == MaxAttempts \in Nat \ {0} /\ Window \in Nat \ {0}

Clean == <<>>

\* check
Allowed(attempts) == Len(attempts) < MaxAttempts

\* record_attempt
Recorded(attempts) == Append(attempts, 0)

\* _purge, as time goes by: the attempts that leave the window are the first of the list
Aged(attempts) ==
  LET gone == Cardinality({i \in DOMAIN attempts : attempts[i] + 1 >= Window})
  IN  [i \in 1 .. Len(attempts) - gone |-> attempts[gone + i] + 1]
=============================================================================
