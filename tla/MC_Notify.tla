----------------------------- MODULE MC_Notify -----------------------------
(* A small instance of Notify for TLC. *)
EXTENDS Notify

CONSTANTS n1, n2, t1, t2, p1, p2, joined, moved

MCTenantOf == [p \in Pushes |-> IF p = p1 THEN t1 ELSE t2]
MCNews     == [p \in Pushes |-> IF p = p1 THEN {joined, moved} ELSE {joined}]

MCRequired == [k \in {"ntfy", "telegram"} |-> IF k = "ntfy" THEN {"url"} ELSE {"token", "chat_id"}]

Ask(kind, config, from, to) == [kind |-> kind, config |-> config, from |-> from, to |-> to]

\* A night and a plain channel, one without a key it needs and one with a config
\* that does not parse; two that are refused.
MCInputs ==
  {Ask("ntfy", {"url"}, 22, 7), Ask("telegram", {"token"}, None, None), Ask("ntfy", NotJson, 6, 8),
   Ask("ntfy", {"url"}, 24, 7), Ask("ntfy", {"url"}, 22, None)}

\* 22:00 and, the day after, 7:00: the ends of the window.
MCInstants == {79200, 111600}
=============================================================================
