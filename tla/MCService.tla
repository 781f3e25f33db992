------------------------------ MODULE MCService ------------------------------
(* Instances of Service. *)
EXTENDS Service

CONSTANTS admin, rule, demo1, demo2

MCDefaults == [t \in Table |-> CASE t = "users"       -> <<admin>>
                                 [] t = "alert_rules" -> <<rule>>
                                 [] OTHER             -> <<demo1, demo2>>]

\* The settings as shipped, with accounts and without alerts, and with neither
\* polling nor demo switches.
MCConfigurations ==
    {[AUTH_ENABLED |-> FALSE, SEED_DEMO |-> TRUE,  POLL_INTERVAL |-> 60, ALERT_EVAL_ON_POLL |-> TRUE],
     [AUTH_ENABLED |-> TRUE,  SEED_DEMO |-> TRUE,  POLL_INTERVAL |-> 60, ALERT_EVAL_ON_POLL |-> FALSE],
     [AUTH_ENABLED |-> FALSE, SEED_DEMO |-> FALSE, POLL_INTERVAL |-> 0,  ALERT_EVAL_ON_POLL |-> TRUE]}
=============================================================================
