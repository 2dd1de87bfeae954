----------------------------- MODULE Inventory -----------------------------
(***************************************************************************)
(* Inventory pushes: post_inventory, the event hash chain with             *)
(* get_audit_verify, presence sessions and retention pruning, and what the *)
(* read endpoints make of them (routes.rs), over the tables of migrations  *)
(* 0001, 0003 and 0006.                                                    *)
(*                                                                         *)
(* Each push is a handler whose transaction runs in PostgreSQL's default   *)
(* READ COMMITTED isolation: a statement sees what was committed before    *)
(* it, and the upsert of the networks row holds that row's lock until the  *)
(* transaction ends.  The database itself is external: its tables are the  *)
(* variables below, and a handler's uncommitted rows are its own.          *)
(***************************************************************************)
EXTENDS Integers, Sequences, FiniteSets

CONSTANTS
  Handlers,   \* calls of post_inventory
  Nets,       \* networks, keyed as in the table by (tenant, fingerprint)
  TenantOf,   \* networks.tenant_id
  Macs,       \* devices
  Reports,    \* call -> the device lists its agent may report
  NetOf,      \* the network a call's report is about
  OldNets,    \* networks whose first push came before, with no device in it
  Retention,  \* NETSCAN_RETENTION_DAYS in clock ticks, 0 when off
  EventLimit, \* events a reader is given at most, 100 in the code
  MaxTime,    \* bound on the clock
  NoHandler

ASSUME InventoryConstants ==
  /\ \A h \in Handlers : Reports[h] \subseteq Seq([mac : Macs, online : BOOLEAN])
  /\ NetOf \in [Handlers -> Nets] /\ OldNets \subseteq Nets
  /\ DOMAIN TenantOf = Nets
  /\ Retention \in Nat /\ MaxTime \in Nat /\ EventLimit \in Nat
  /\ NoHandler \notin Handlers

VARIABLES
  clock,      \* now_unix()
  networks,   \* rows of networks
  dev,        \* devices: network -> mac -> "absent", or is_online as "on"/"off"
  open,       \* presence_sessions with ended_ts NULL: network -> mac -> started_ts
  closed,     \* presence_sessions with an ended_ts
  events,     \* rows of events
  nextSeq,    \* the sequence behind events.seq
  lock,       \* network -> the handler holding the row lock
  pc, report, baseline, known, at, prev, cursor,  \* a handler's locals
  mine,       \* a handler's view of its network: committed rows and its own
  announced,  \* events handed to notify::dispatch
  appended,   \* history: every event ever committed
  pushes      \* history: network -> the calls that committed, in that order

tables  == <<networks, dev, open, closed, events>>
locals  == <<report, baseline, known, at, prev, cursor, mine>>
history == <<appended, pushes>>
vars    == <<clock, tables, nextSeq, lock, pc, locals, announced, history>>

NoTime == -1

\* Operators named <Operator>_<bug> are variants of the definition that follows
\* them; no behaviour of Spec takes them.

\* Variant: the device is left out of the hash.
Hash_WithoutDevice(p, n, m, t) == <<p, n, t>>

\* sha256 over the previous hash and the row's fields: distinct inputs give
\* distinct hashes.  The code joins the fields by newlines, so that this holds
\* of MACs and host names without one.  The first event of a chain has the empty
\* hash before it.
Hash(p, n, m, t) == <<p, n, m, t>>
NoHash == <<>>

InTransaction == {"selected", "locked", "writing"}
Ended         == {"done", "failed"}

NoRows == [dev |-> [m \in Macs |-> "absent"], open |-> [m \in Macs |-> NoTime], events |-> {}]

Init ==
  /\ clock = 0
  /\ networks = OldNets
  /\ dev = [n \in Nets |-> [m \in Macs |-> "absent"]]
  /\ open = [n \in Nets |-> [m \in Macs |-> NoTime]]
  /\ closed = {}
  /\ events = {}
  /\ nextSeq = 1
  /\ lock = [n \in Nets |-> NoHandler]
  /\ pc = [h \in Handlers |-> "idle"]
  /\ report = [h \in Handlers |-> <<>>]
  /\ baseline = [h \in Handlers |-> FALSE]
  /\ known = [h \in Handlers |-> {}]
  /\ at = [h \in Handlers |-> 0]
  /\ prev = [h \in Handlers |-> NoHash]
  /\ cursor = [h \in Handlers |-> 0]
  /\ mine = [h \in Handlers |-> NoRows]
  /\ announced = {}
  /\ appended = {}
  /\ pushes = [n \in Nets |-> <<>>]

-----------------------------------------------------------------------------
(* The events of a network *)

EventsOf(n, rows) == {e \in rows : e.net = n}

\* Variant: ORDER BY ts DESC, which leaves the order of equal times open.
LastHash_ByTime(n) ==
  LET rows == EventsOf(n, events) IN
  IF rows = {} THEN NoHash
  ELSE (CHOOSE e \in rows : \A f \in rows : f.ts <= e.ts).row

\* ORDER BY seq DESC LIMIT 1, its row_hash or "".
LastHash(n) ==
  LET rows == EventsOf(n, events) IN
  IF rows = {} THEN NoHash
  ELSE (CHOOSE e \in rows : \A f \in rows : f.seq <= e.seq).row

\* f is the next row after e, in the order of seq.
Follows(f, e, rows) ==
  e.seq < f.seq /\ ~ \E g \in rows : e.seq < g.seq /\ g.seq < f.seq

\* get_audit_verify: every row must carry the hash of the row before it, the
\* first the empty hash, and the hash of its own fields.
Verifies(n, table) ==
  LET rows == EventsOf(n, table) IN
  \A f \in rows :
    /\ f.row = Hash(f.prev, n, f.mac, f.ts)
    /\ \A e \in rows : Follows(f, e, rows) => f.prev = e.row
    /\ (\A e \in rows : f.seq <= e.seq) => f.prev = NoHash

-----------------------------------------------------------------------------
(* post_inventory *)

Step(h, from, to) == pc[h] = from /\ pc' = [pc EXCEPT ![h] = to]

MacsIn(rep)   == {rep[i].mac : i \in DOMAIN rep}
OnlineIn(rep) == {rep[i].mac : i \in {j \in DOMAIN rep : rep[j].online}}

\* The authenticated agent's report is read, the transaction begins, and the
\* network is looked up: not there yet means a baseline push.
SelectNetwork(h) ==
  /\ Step(h, "idle", "selected")
  /\ \E rep \in Reports[h] : report' = [report EXCEPT ![h] = rep]
  /\ baseline' = [baseline EXCEPT ![h] = NetOf[h] \notin networks]
  /\ UNCHANGED <<clock, tables, nextSeq, lock, known, at, prev, cursor, mine, announced, history>>

\* Variant: the row is not locked.
Free_Always(n) == TRUE

\* No other transaction holds the row.
Free(n) == lock[n] = NoHandler

\* INSERT ... ON CONFLICT DO UPDATE: waits while another transaction holds the row.
UpsertNetwork(h) ==
  /\ Step(h, "selected", "locked")
  /\ Free(NetOf[h])
  /\ lock' = [lock EXCEPT ![NetOf[h]] = h]
  /\ UNCHANGED <<clock, tables, nextSeq, locals, announced, history>>

\* Variant: only the devices that are online are known.
KnownMacs_Online(n) == {m \in Macs : dev[n][m] = "on"}

KnownMacs(n) == {m \in Macs : dev[n][m] # "absent"}

\* The known MACs, the time and the head of the chain are read.
ReadSnapshot(h) ==
  LET n == NetOf[h] IN
  /\ Step(h, "locked", "writing")
  /\ known' = [known EXCEPT ![h] = IF baseline[h] THEN {} ELSE KnownMacs(n)]
  /\ at' = [at EXCEPT ![h] = clock]
  /\ prev' = [prev EXCEPT ![h] = LastHash(n)]
  /\ cursor' = [cursor EXCEPT ![h] = 1]
  /\ mine' = [mine EXCEPT ![h] = [dev |-> dev[n], open |-> open[n], events |-> {}]]
  /\ UNCHANGED <<clock, tables, nextSeq, lock, report, baseline, announced, history>>

\* Variant: the sequence is read ahead of its value.
EventOf_SkipsSeq(h, m) ==
  [net |-> NetOf[h], mac |-> m, ts |-> at[h], seq |-> nextSeq + 1, prev |-> prev[h],
   row |-> Hash(prev[h], NetOf[h], m, at[h])]

\* The event for device m, next in the chain.
EventOf(h, m) ==
  [net |-> NetOf[h], mac |-> m, ts |-> at[h], seq |-> nextSeq, prev |-> prev[h],
   row |-> Hash(prev[h], NetOf[h], m, at[h])]

\* Variant: prev_hash is not moved on.
HeadAfter_Unmoved(e) == e.prev

HeadAfter(e) == e.row

\* One turn of the loop over the report: the device row, its presence session
\* (an open one is kept), and an event if the device is new to a known network.
WriteDevice(h) ==
  LET d     == report[h][cursor[h]]
      isNew == ~baseline[h] /\ d.mac \notin known[h]
      e     == EventOf(h, d.mac)
  IN
  /\ pc[h] = "writing" /\ cursor[h] \in DOMAIN report[h]
  /\ mine' = [mine EXCEPT
       ![h].dev[d.mac] = IF d.online THEN "on" ELSE "off",
       ![h].open[d.mac] = IF d.online /\ @ = NoTime THEN at[h] ELSE @,
       ![h].events = IF isNew THEN @ \cup {e} ELSE @]
  /\ prev' = IF isNew THEN [prev EXCEPT ![h] = HeadAfter(e)] ELSE prev
  /\ nextSeq' = IF isNew THEN nextSeq + 1 ELSE nextSeq
  /\ cursor' = [cursor EXCEPT ![h] = @ + 1]
  /\ UNCHANGED <<clock, tables, lock, pc, report, baseline, known, at, announced, history>>

\* Variant: the session of a device that is reported offline stays open.
Closing_Unlisted(h) == {m \in Macs : mine[h].open[m] # NoTime /\ m \notin MacsIn(report[h])}

\* The devices whose session ends: those not online in this report.
Closing(h) == {m \in Macs : mine[h].open[m] # NoTime /\ m \notin OnlineIn(report[h])}

\* Variant: the lock stays.
Release_Never(h) == lock

\* The end of h's transaction unlocks what it holds.
Release(h) ==
  IF lock[NetOf[h]] = h THEN [lock EXCEPT ![NetOf[h]] = NoHandler] ELSE lock

\* Those sessions end, and the transaction commits: its rows become visible.
Commit(h) ==
  LET n == NetOf[h] IN
  /\ cursor[h] \notin DOMAIN report[h]
  /\ Step(h, "writing", "committed")
  /\ networks' = networks \cup {n}
  /\ dev' = [dev EXCEPT ![n] = mine[h].dev]
  /\ open' = [open EXCEPT ![n] = [m \in Macs |-> IF m \in Closing(h) THEN NoTime ELSE mine[h].open[m]]]
  /\ closed' = closed \cup
       {[net |-> n, mac |-> m, from |-> mine[h].open[m], to |-> at[h]] : m \in Closing(h)}
  /\ events' = events \cup mine[h].events
  /\ lock' = Release(h)
  /\ appended' = appended \cup mine[h].events
  /\ pushes' = [pushes EXCEPT ![n] = Append(@, h)]
  /\ UNCHANGED <<clock, nextSeq, locals, announced>>

-----------------------------------------------------------------------------
(* After the commit *)

Cutoff(h) == at[h] - Retention

\* maybe_prune_retention returns at once: no retention, or nine times in ten.
SkipPrune(h) ==
  /\ Step(h, "committed", "notifying")
  /\ UNCHANGED <<clock, tables, nextSeq, lock, locals, announced, history>>

\* Ended sessions older than the cutoff are deleted; an error is ignored.
PruneSessions(h) ==
  /\ Retention > 0
  /\ Step(h, "committed", "pruning")
  /\ closed' \in {closed, {s \in closed : s.to >= Cutoff(h)}}
  /\ UNCHANGED <<clock, networks, dev, open, events, nextSeq, lock, locals, announced, history>>

\* Events older than the cutoff are deleted, of every network; an error is ignored.
PruneEvents(h) ==
  /\ Step(h, "pruning", "notifying")
  /\ events' \in {events, {e \in events : e.ts >= Cutoff(h)}}
  /\ UNCHANGED <<clock, networks, dev, open, closed, nextSeq, lock, locals, announced, history>>

\* The new devices' messages go to the tenant's channels, if it has any.
Notify(h) ==
  /\ Step(h, "notifying", "done")
  /\ announced' \in {announced, announced \cup mine[h].events}
  /\ UNCHANGED <<clock, tables, nextSeq, lock, locals, history>>

\* Variant: an error at the end of the transaction is not looked at.
AfterError_Ignored(h) == IF pc[h] = "writing" THEN "committed" ELSE "failed"

AfterError(h) == "failed"

\* A database error before the commit, or, at any await, the client hanging up
\* or the relay stopping: an open transaction is rolled back, and after the
\* commit what is left of the call is not done.
Fail(h) ==
  /\ pc[h] \in InTransaction \cup {"committed", "pruning", "notifying"}
  /\ pc' = [pc EXCEPT ![h] = AfterError(h)]
  /\ lock' = Release(h)
  /\ UNCHANGED <<clock, tables, nextSeq, locals, announced, history>>

\* The wall clock moves on; it is assumed not to go back.
Tick ==
  /\ clock < MaxTime
  /\ clock' = clock + 1
  /\ UNCHANGED <<tables, nextSeq, lock, pc, locals, announced, history>>

Handle(h) ==
  \/ UpsertNetwork(h) \/ ReadSnapshot(h) \/ WriteDevice(h) \/ Commit(h)
  \/ SkipPrune(h) \/ PruneSessions(h) \/ PruneEvents(h) \/ Notify(h)

Next ==
  \/ \E h \in Handlers : SelectNetwork(h) \/ Handle(h) \/ Fail(h)
  \/ Tick

Spec == Init /\ [][Next]_vars

\* The database answers, and tokio runs the handlers.
FairSpec == Spec /\ \A h \in Handlers : WF_vars(Handle(h))

-----------------------------------------------------------------------------
(* What a reader of tenant t is shown, by one SELECT each *)

GetDevices(t, n) ==
  {[mac |-> m, is_online |-> dev[n][m] = "on"] :
     m \in {x \in Macs : TenantOf[n] = t /\ dev[n][x] # "absent"}}

\* The tenant's networks, with their devices counted.
GetNetworks(t) ==
  {[id |-> n, device_count |-> Cardinality(GetDevices(t, n)),
    online_count |-> Cardinality({d \in GetDevices(t, n) : d.is_online})] :
     n \in {x \in networks : TenantOf[x] = t}}

\* ORDER BY ts DESC LIMIT EventLimit: the answers PostgreSQL may give, as it
\* may break ties either way.
GetEvents(t) ==
  LET rows == {e \in events : TenantOf[e.net] = t} IN
  {shown \in SUBSET rows :
     /\ Cardinality(shown) = IF Cardinality(rows) < EventLimit THEN Cardinality(rows) ELSE EventLimit
     /\ \A e \in shown, f \in rows \ shown : e.ts >= f.ts}

\* Of a network the tenant owns, the sessions that started and the events that
\* happened between two times.
GetAudit(n, from, to) ==
  [sessions |-> {[mac |-> m, from |-> open[n][m], to |-> NoTime] :
                   m \in {x \in Macs : open[n][x] \in from..to}}
                \cup {[mac |-> s.mac, from |-> s.from, to |-> s.to] :
                        s \in {x \in closed : x.net = n /\ x.from \in from..to}},
   events   |-> {e \in EventsOf(n, events) : e.ts \in from..to}]

-----------------------------------------------------------------------------
(* Properties *)

TypeOK ==
  /\ clock \in 0..MaxTime
  /\ networks \subseteq Nets
  /\ dev \in [Nets -> [Macs -> {"absent", "off", "on"}]]
  /\ open \in [Nets -> [Macs -> 0..MaxTime \cup {NoTime}]]
  /\ closed \subseteq [net : Nets, mac : Macs, from : 0..MaxTime, to : 0..MaxTime]
  /\ \A e \in events \cup appended :
       e.net \in Nets /\ e.mac \in Macs /\ e.ts \in 0..MaxTime /\ e.seq \in 1..(nextSeq - 1)
  /\ nextSeq \in Nat \ {0}
  /\ lock \in [Nets -> Handlers \cup {NoHandler}]
  /\ pc \in [Handlers -> {"idle", "committed", "pruning", "notifying"} \cup InTransaction \cup Ended]
  /\ \A h \in Handlers : report[h] \in Reports[h] \cup {<<>>}
  /\ baseline \in [Handlers -> BOOLEAN]
  /\ known \in [Handlers -> SUBSET Macs]
  /\ at \in [Handlers -> 0..MaxTime]
  /\ cursor \in [Handlers -> Nat]
  /\ pushes \in [Nets -> Seq(Handlers)]

\* The audit endpoint accepts the chain that post_inventory wrote, as long as
\* nothing of it was deleted: concurrent pushes, rollbacks and the gaps they
\* leave in seq never break it.
WholeChainVerifies ==
  \A n \in Nets : EventsOf(n, appended) \subseteq events => Verifies(n, events)

\* Whatever retention has deleted, and whatever period a reader asks for, the
\* events get_audit returns are consecutive links of the chain: it selects by
\* time, and the chain is in the order of insertion.
AuditPagesLinked ==
  \A n \in Nets : \A from, to \in 0..MaxTime :
    LET page == GetAudit(n, from, to).events IN
    \A e, f \in page : Follows(f, e, page) => f.prev = e.row

\* A reader who is shown the newest events by time misses none that came later
\* in a chain than one it is shown, other than at the same second.
LatestEventsShown ==
  \A n \in Nets : \A shown \in GetEvents(TenantOf[n]) :
    \A e \in EventsOf(n, shown), f \in EventsOf(n, events) \ shown :
      f.seq > e.seq => f.ts = e.ts

\* Retention deletes from the old end of a network's chain only, though its
\* cutoff is a time and the chain's order is that of insertion.
RetainedIsSuffix ==
  \A e \in events, f \in appended :
    f.net = e.net /\ f.seq > e.seq => f \in events

\* An accepted chain is no longer accepted once a row other than the last is
\* missing, is given another device (even with a fresh hash), or the last row
\* is given another device under its old hash.
TamperEvident ==
  \A n \in Nets : Verifies(n, events) =>
    \A e \in EventsOf(n, events) :
      LET others == events \ {e}
          isLast == \A f \in EventsOf(n, events) : f.seq <= e.seq
      IN
      /\ ~isLast => ~Verifies(n, others)
      /\ \A m \in Macs \ {e.mac} :
           /\ ~Verifies(n, others \cup {[e EXCEPT !.mac = m]})
           /\ ~isLast => ~Verifies(n, others \cup
                            {[e EXCEPT !.mac = m, !.row = Hash(e.prev, n, m, e.ts)]})

\* What the last of the network's reports that lists device m says of it.
LastSaid(n, m) ==
  LET lists(i) == m \in MacsIn(report[pushes[n][i]])
      rep      == report[pushes[n][CHOOSE i \in DOMAIN pushes[n] :
                    lists(i) /\ \A j \in DOMAIN pushes[n] : lists(j) => j <= i]]
  IN rep[CHOOSE i \in DOMAIN rep :
           rep[i].mac = m /\ \A j \in DOMAIN rep : rep[j].mac = m => j <= i].online

\* Overlapping and failed pushes leave the tables as the committed ones would
\* have, one after the other, and readers see them so: a device is as its last
\* report said, its session is open iff it was online in the network's last
\* report, and a network counts its devices.
SerialOutcome ==
  \A n \in Nets :
    LET listed == UNION {MacsIn(report[pushes[n][i]]) : i \in DOMAIN pushes[n]}
        online == {m \in listed : LastSaid(n, m)}
        last   == Len(pushes[n])
    IN
    /\ GetDevices(TenantOf[n], n) = {[mac |-> m, is_online |-> m \in online] : m \in listed}
    /\ {s \in GetNetworks(TenantOf[n]) : s.id = n} =
         IF last = 0 /\ n \notin OldNets THEN {} ELSE
         {[id |-> n, device_count |-> Cardinality(listed), online_count |-> Cardinality(online)]}
    /\ {s.mac : s \in {x \in GetAudit(n, 0, MaxTime).sessions : x.to = NoTime}} =
         IF last = 0 THEN {} ELSE OnlineIn(report[pushes[n][last]])

\* The sessions an audit shows of a device do not overlap and do not end before
\* they start.
SessionsDisjoint ==
  \A n \in Nets :
    LET sessions == GetAudit(n, 0, MaxTime).sessions
        Before(s, u) == s.to # NoTime /\ s.to <= u.from
    IN
    \A s \in sessions :
      /\ s.to # NoTime => s.from <= s.to
      /\ \A u \in sessions \ {s} : s.mac = u.mac => Before(s, u) \/ Before(u, s)

\* How often handler h's report lists device m.
Listed(h, m) == Cardinality({i \in DOMAIN report[h] : report[h][i].mac = m})

\* Of the network's pushes, the i-th is the first whose report lists device m.
FirstToList(n, i, m) ==
  /\ m \in MacsIn(report[pushes[n][i]])
  /\ \A j \in DOMAIN pushes[n] : m \in MacsIn(report[pushes[n][j]]) => i <= j

\* However many calls report a device, all events for it were written by the
\* committed push that listed it first: none if that push took the network for
\* new, else one for every time its report lists the device (a second entry
\* counts as new again).
NewDeviceOnce ==
  \A n \in Nets, m \in Macs :
    LET itsEvents == {e \in appended : e.net = n /\ e.mac = m} IN
    /\ \A i \in DOMAIN pushes[n] : FirstToList(n, i, m) =>
         /\ itsEvents \subseteq mine[pushes[n][i]].events
         /\ Cardinality(itsEvents) = IF baseline[pushes[n][i]] THEN 0 ELSE Listed(pushes[n][i], m)
    /\ itsEvents # {} => \E i \in DOMAIN pushes[n] : FirstToList(n, i, m)

\* Nobody is told of a device whose event was rolled back.
AnnouncedAreRecorded == announced \subseteq appended

\* Every push that reached the database ends; none waits for ever for a lock.
PushesEnd == \A h \in Handlers : (pc[h] # "idle") ~> (pc[h] \in Ended)

\* The events table as an append-only log that may lose its oldest rows.
Log == INSTANCE AuditLog WITH log <- events, ever <- appended

\* Interleaved pushes, rollbacks and pruning do to the events only what an
\* audit log allows.
ImplementsAuditLog == Log!LogSpec

\* "baseline - ilk push" (routes.rs:183): only the devices of a network's first
\* push go without an event.
LaterDevicesAnnounced ==
  \A n \in Nets, m \in Macs :
    dev[n][m] # "absent" /\ m \notin MacsIn(report[pushes[n][1]])
      => \E e \in appended : e.net = n /\ e.mac = m

\* "tutarli zincir dogrulanmali" (integration.rs:1176): the endpoint accepts
\* every chain that only post_inventory and retention have touched.
AuditVerifies == \A n \in Nets : Verifies(n, events)
=============================================================================
