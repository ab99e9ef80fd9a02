-------------------------- MODULE DossierLifecycle --------------------------
(***************************************************************************)
(* What the synchronization promises the agency about the dashboard,       *)
(* without polls, pages, counters or failures: dossiers appear and retire, *)
(* and from the baseline on every appearance raises one alert.             *)
(***************************************************************************)
EXTENDS Naturals

CONSTANT Records

VARIABLES
  life,     \* [Records -> {"unknown", "active", "inactive"}]
  alerts,   \* [Records -> Nat], notifications raised so far
  watched   \* the baseline has been taken

lifeVars == <<life, alerts, watched>>

LifeInit ==
  /\ life = [r \in Records |-> "unknown"]
  /\ alerts = [r \in Records |-> 0]
  /\ watched = FALSE

\* One look at the portal: the dossiers seen are on the dashboard, the
\* retired ones have left it.  Nothing retires before the baseline, and a
\* dossier that was already there raises no alert.
Observe(seen, retired) ==
  /\ retired \subseteq {r \in Records \ seen : life[r] = "active"}
  /\ retired # {} => watched
  /\ life' = [r \in Records |-> IF r \in seen THEN "active"
                                ELSE IF r \in retired THEN "inactive" ELSE life[r]]
  /\ alerts' = [r \in Records |->
                  IF watched /\ r \in seen /\ life[r] # "active"
                  THEN alerts[r] + 1 ELSE alerts[r]]
  /\ watched' \in {watched, TRUE}

LifeNext == \E seen, retired \in SUBSET Records : Observe(seen, retired)

LifeSpec == LifeInit /\ [][LifeNext]_lifeVars
=============================================================================
