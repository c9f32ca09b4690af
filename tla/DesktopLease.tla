----------------------------- MODULE DesktopLease -----------------------------
(***************************************************************************)
(* What the desktop coordinator promises, without queues, cleanup or       *)
(* native calls: the desktop is leased to one control at a time, controls  *)
(* are numbered in the order they are granted, and whatever uses the       *)
(* desktop uses it alone.  A lease may be revoked while it is in use; the  *)
(* next one is granted only when the desktop is no longer in use.          *)
(***************************************************************************)
EXTENDS Naturals

CONSTANTS Clients, Nobody

VARIABLES lease,    \* control that may start operations; 0 when there is none
          granted,  \* number of leases granted so far
          user,     \* client whose operation is using the desktop, or Nobody
          under,    \* control that operation was started under; 0 for a borrower
          open      \* the coordinator accepts work

leaseVars == <<lease, granted, user, under, open>>

LeaseInit == lease = 0 /\ granted = 0 /\ user = Nobody /\ under = 0 /\ open = TRUE

\* A fresh number, to a desktop nobody holds or uses.
Grant == /\ open /\ lease = 0 /\ user = Nobody
         /\ granted' = granted + 1 /\ lease' = granted + 1
         /\ UNCHANGED <<user, under, open>>

EndLease == /\ lease # 0 /\ lease' = 0
            /\ UNCHANGED <<granted, user, under, open>>

\* Under the current lease, or as a borrower while there is none.
Use(c) == /\ open /\ user = Nobody
          /\ user' = c /\ under' = lease
          /\ UNCHANGED <<lease, granted, open>>

Leave == /\ user # Nobody /\ user' = Nobody /\ under' = 0
         /\ UNCHANGED <<lease, granted, open>>

Shut == /\ open /\ open' = FALSE /\ lease' = 0
        /\ UNCHANGED <<granted, user, under>>

LeaseNext == Grant \/ EndLease \/ Leave \/ Shut \/ \E c \in Clients : Use(c)

LeaseSpec == LeaseInit /\ [][LeaseNext]_leaseVars
===============================================================================
