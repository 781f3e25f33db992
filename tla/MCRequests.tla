----------------------------- MODULE MCRequests -----------------------------
(* Instances of Requests.                                                  *)
EXTENDS Requests

CONSTANTS ip1, ip2, ip3, apac, emea

\* One demo switch.
MCDemo == <<[ip |-> ip1, region |-> apac, method |-> DemoMethod]>>

\* A second and a third switch of its region, and one of another region with a
\* method that has no collector; two of them ask for one address.
MCCreates == {[ip |-> ip2, region |-> apac, method |-> DemoMethod],
              [ip |-> ip3, region |-> apac, method |-> DemoMethod],
              [ip |-> ip3, region |-> emea, method |-> "telnet"]}

\* An address, a region and coordinates, coordinates, and nothing.
MCUpdates == {[ip |-> ip2, region |-> NULL, method |-> NULL, geo |-> FALSE],
              [ip |-> NULL, region |-> emea, method |-> NULL, geo |-> TRUE],
              [ip |-> NULL, region |-> NULL, method |-> NULL, geo |-> TRUE],
              [ip |-> NULL, region |-> NULL, method |-> NULL, geo |-> FALSE]}
=============================================================================
