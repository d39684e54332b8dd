---------------------------- MODULE ReplayIdeal ----------------------------
(***************************************************************************)
(* What a replay store promises: a memory that is never restarted, has no  *)
(* file and no limit, and forgets a key at the moment its TTL has passed.  *)
(***************************************************************************)
EXTENDS Naturals

CONSTANTS Keys, Ttls, MaxClock

VARIABLES
    remembered,  \* until when a key is refused, 0 if it is not
    clock

vars == <<remembered, clock>>

RememberedAt(t, now) == IF t > now THEN t ELSE 0

\* A key that is not remembered is accepted, and remembered for the TTL.
Accept(k) ==
    /\ remembered[k] = 0
    /\ \E ttl \in Ttls :
         remembered' = [remembered EXCEPT ![k] = RememberedAt(clock + ttl, clock)]
    /\ UNCHANGED clock

\* The application forgets on purpose.
ForgetAll == remembered' = [k \in Keys |-> 0] /\ UNCHANGED clock

Tick ==
    /\ clock < MaxClock
    /\ clock' = clock + 1
    /\ remembered' = [k \in Keys |-> RememberedAt(remembered[k], clock')]

Init == remembered = [k \in Keys |-> 0] /\ clock = 0

Next == (\E k \in Keys : Accept(k)) \/ ForgetAll \/ Tick

Spec == Init /\ [][Next]_vars
=============================================================================
