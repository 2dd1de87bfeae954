------------------------------ MODULE AuditLog ------------------------------
(***************************************************************************)
(* What the events table promises an auditor, without handlers, locks or   *)
(* statements: a batch of events is added to one network's chain at its    *)
(* end, each linked to the one before, and only old ends are ever removed. *)
(***************************************************************************)
EXTENDS Integers

CONSTANT Nets

VARIABLES
  log,   \* the events that are left
  ever   \* all events there have been

Chain(n, rows) == {e \in rows : e.net = n}

LogInit == log = {} /\ ever = {}

\* One batch of events is added after all others of the network.  Its first
\* is linked to the last there is, if any is left.
Extend(n) ==
  LET batch == ever' \ ever IN
  /\ ever \subseteq ever' /\ log' = log \cup batch
  /\ \A f \in batch :
       /\ f.net = n
       /\ \A e \in Chain(n, ever) : e.seq < f.seq
       /\ \A e \in Chain(n, log') :
            e.seq < f.seq /\ (\A g \in Chain(n, log') : g.seq <= e.seq \/ f.seq <= g.seq)
              => f.prev = e.row

\* Events go from the old end of each chain.
Trim ==
  /\ log' \subseteq log /\ ever' = ever
  /\ \A e \in log', f \in log : f.net = e.net /\ f.seq > e.seq => f \in log'

LogSpec == LogInit /\ [][Trim \/ \E n \in Nets : Extend(n)]_<<log, ever>>
=============================================================================
