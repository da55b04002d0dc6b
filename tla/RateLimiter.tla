----------------------------- MODULE RateLimiter -----------------------------
(***************************************************************************)
(* What a rate limiter with fixed windows promises, whatever it keeps to   *)
(* do so: a call is let through in a window, windows are opened one after  *)
(* the other and do not overlap, and none lets more than its number of     *)
(* calls through.  ApiGateway implements it (LimiterHolds).                *)
(***************************************************************************)
EXTENDS Naturals

CONSTANTS MaxRequests, Window,
          Time      \* when a window may start

VARIABLE admitted   \* calls let through in the window that starts at each time

Init == admitted = [t \in Time |-> 0]

\* A window that has been opened: a call was let through in it.
Opened(t) == admitted[t] > 0

\* One more call in the window that starts at t: the first one opens it, after all the
\* others are over; later ones find room in it, while it is the last.
Admit(t) ==
  /\ admitted[t] < MaxRequests
  /\ \A u \in Time \ {t} : Opened(u) => u + Window <= t
  /\ admitted' = [admitted EXCEPT ![t] = @ + 1]

Next == \E t \in Time : Admit(t)

Spec == Init /\ [][Next]_admitted
=============================================================================
