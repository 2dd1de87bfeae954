---------------------------- MODULE ProxyService ----------------------------
(***************************************************************************)
(* What the reverse tunnel promises, without sockets, channels or the      *)
(* registry: a request is admitted only for a network of the caller's own  *)
(* tenant, only an admitted request reaches an agent, it ends once, and a  *)
(* page or an agent's error is what some agent replied.                    *)
(***************************************************************************)
CONSTANTS Requests, Tenants, Principal, Nets, Target, NetOwner

VARIABLES status, served

Kinds    == {"ok", "error"}
Refusals == {"no_agent", "timed_out", "cancelled"}

ServiceInit ==
  /\ status = [r \in Requests |-> "idle"]
  /\ served = {}

Admitted(r) == status[r] \notin {"idle", "not_found"}

\* The caller asks; someone else's network does not exist for it.
Submit(r) ==
  /\ status[r] = "idle"
  /\ status' = [status EXCEPT ![r] =
                  IF NetOwner[Target[r]] = Principal[r] THEN "open" ELSE "not_found"]
  /\ UNCHANGED served

\* An agent replies, perhaps too late or more than once.
Serve(r, kind) ==
  /\ Admitted(r)
  /\ served' = served \cup {<<r, kind>>}
  /\ UNCHANGED status

\* The request ends with a reply it got, or without one.
Finish(r) ==
  /\ status[r] = "open"
  /\ \E o \in {"answered", "agent_error"} \cup Refusals :
       /\ o = "answered" => <<r, "ok">> \in served
       /\ o = "agent_error" => <<r, "error">> \in served
       /\ status' = [status EXCEPT ![r] = o]
  /\ UNCHANGED served

\* The service stops and starts again: nothing stays open.
Crash ==
  /\ status' = [r \in Requests |-> IF status[r] = "open" THEN "cancelled" ELSE status[r]]
  /\ UNCHANGED served

ServiceNext ==
  \/ \E r \in Requests : Submit(r) \/ Finish(r) \/ \E kind \in Kinds : Serve(r, kind)
  \/ Crash

ServiceSpec == ServiceInit /\ [][ServiceNext]_<<status, served>>
=============================================================================
