------------------------------ MODULE AccessGate ------------------------------
(***************************************************************************)
(* What the access control of the backend promises of the access tokens:   *)
(* a token is accepted only after it was issued, and once it has expired   *)
(* or been revoked it is never accepted again, however tables are purged   *)
(* and bans come and go.  One that was refused and is not dead is let in   *)
(* again only because time went on or a ban changed.  Sessions implements  *)
(* it.                                                                     *)
(***************************************************************************)
VARIABLES
    issued,   \* tokens handed to clients
    dead,     \* expired or revoked
    open,     \* those a request with the token would be let in for
    now, bans \* the time and the bans

Init == issued = {} /\ dead = {} /\ open = {}

\* A token may be dead on arrival: another logout in the second it was signed.
Issue ==
    /\ \E t \in issued' \ issued :
          /\ issued' = issued \cup {t}
          /\ dead' \in {dead, dead \cup {t}}
          /\ open' \subseteq (open \cup {t}) \ dead'
    /\ UNCHANGED <<now, bans>>

\* A session ends: nobody is let in for it who was not before.
Kill ==
    /\ UNCHANGED <<issued, now, bans>>
    /\ dead \subseteq dead' /\ dead' \subseteq issued
    /\ open' \subseteq open \ dead'

\* Time passes, or a ban starts or ends, perhaps as a session ends: tokens die,
\* and those that are still good may be let in again.
Change ==
    /\ <<now, bans>>' # <<now, bans>> /\ UNCHANGED issued
    /\ dead \subseteq dead' /\ dead' \subseteq issued
    /\ open' \subseteq issued \ dead'

Next == Issue \/ Kill \/ Change

Spec == Init /\ [][Next]_<<issued, dead, open, now, bans>>
=============================================================================
