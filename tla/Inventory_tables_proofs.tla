----------------------- MODULE Inventory_tables_proofs -----------------------
(***************************************************************************)
(* Proofs about the tables of devices and sessions of Inventory: what      *)
(* overlapping, failed and repeated pushes leave in them.  The invariant   *)
(* of Inventory_proofs, of types, locks and chains, is used throughout.    *)
(***************************************************************************)
EXTENDS Inventory_proofs, SequenceTheorems

-----------------------------------------------------------------------------
(* Sessions *)

\* Of a device's two ended sessions one is over when the other starts.
Disjoint(rows) ==
  \A s, u \in rows : s.net = u.net /\ s.mac = u.mac => s = u \/ s.to <= u.from \/ u.to <= s.from

\* The ended sessions of network n are over by time t.
EndedBy(n, t) == \A s \in closed : s.net = n => s.to <= t

\* A started session, of those given by device, is later than all ended ones.
LaterThanEnded(n, started) ==
  \A m \in Macs : started[m] # NoTime => \A s \in closed : s.net = n /\ s.mac = m => s.to <= started[m]

\* Sessions in the table, and what a writer makes of them.
Sessions ==
  /\ Disjoint(closed)
  /\ \A s \in closed : s.from <= s.to /\ s.to <= clock
  /\ \A n \in Nets : LaterThanEnded(n, open[n])
  /\ \A n \in Nets, m \in Macs : open[n][m] # NoTime => open[n][m] <= clock
  /\ \A h \in Handlers : pc[h] = "writing" =>
       /\ at[h] <= clock
       /\ EndedBy(NetOf[h], at[h]) /\ LaterThanEnded(NetOf[h], mine[h].open)
       /\ \A m \in Macs : mine[h].open[m] # NoTime => mine[h].open[m] <= at[h]

\* Steps that open and end no session keep them apart.
LEMMA SessionsQuiet ==
  ASSUME Typed, Typed', Sessions, UNCHANGED <<open, at, mine>>, closed' \subseteq closed, clock <= clock',
         \A h \in Handlers : pc'[h] = "writing" => pc[h] = "writing"
  PROVE  Sessions'
<1> USE InventoryConstants DEF InventoryConstants
<1>1. /\ clock \in Int /\ clock' \in Int /\ \A h \in Handlers : at[h] \in Int
      /\ \A s \in closed : s.to \in Int /\ s.from \in Int
      /\ \A n \in Nets, m \in Macs : open[n][m] # NoTime => open[n][m] \in Int
  BY DEF Typed, TypeOK
<1>2. \A s \in closed' : s.from <= s.to /\ s.to <= clock'
  BY <1>1 DEF Sessions
<1>3. \A n \in Nets, m \in Macs : open'[n][m] # NoTime => open'[n][m] <= clock'
  BY <1>1 DEF Sessions
<1>4. \A h \in Handlers : pc'[h] = "writing" => at'[h] <= clock'
  BY <1>1 DEF Sessions
<1>5. Disjoint(closed') /\ \A n \in Nets : LaterThanEnded(n, open[n])'
  BY DEF Sessions, Disjoint, LaterThanEnded
<1> QED
  BY <1>2, <1>3, <1>4, <1>5 DEF Sessions, EndedBy, LaterThanEnded

\* A writer starts from the sessions in the table, none of which is later than now.
LEMMA SessionsSnapshot ==
  ASSUME Typed, Typed', Sessions, NEW h \in Handlers, ReadSnapshot(h)
  PROVE  Sessions'
<1> USE InventoryConstants DEF InventoryConstants
<1>1. /\ UNCHANGED <<clock, open, closed>>
      /\ \A g \in Handlers \ {h} : pc'[g] = pc[g] /\ at'[g] = at[g] /\ mine'[g] = mine[g]
      /\ at'[h] = clock /\ mine'[h].open = open[NetOf[h]]
  BY DEF ReadSnapshot, Step, tables, Typed, TypeOK, LocalsOK
<1>2. NetOf[h] \in Nets /\ clock \in Int
  BY DEF Typed, TypeOK
<1>3. ASSUME NEW g \in Handlers, pc'[g] = "writing"
      PROVE  /\ at'[g] <= clock
             /\ EndedBy(NetOf[g], at[g])' /\ LaterThanEnded(NetOf[g], mine[g].open)'
             /\ \A m \in Macs : mine'[g].open[m] # NoTime => mine'[g].open[m] <= at'[g]
  BY <1>1, <1>2, <1>3 DEF Sessions, EndedBy, LaterThanEnded
<1>4. Disjoint(closed') /\ \A n \in Nets : LaterThanEnded(n, open[n])'
  BY <1>1 DEF Sessions, LaterThanEnded
<1> QED
  BY <1>1, <1>3, <1>4 DEF Sessions

\* A session that a turn of the loop opens is later than all ended ones.
LEMMA SessionsTurn ==
  ASSUME Typed, Typed', Sessions, NEW h \in Handlers, WriteDevice(h)
  PROVE  Sessions'
<1> USE InventoryConstants DEF InventoryConstants
<1> DEFINE d == report[h][cursor[h]]
<1>1. UNCHANGED <<clock, open, closed, pc, at>> /\ pc[h] = "writing"
  BY DEF WriteDevice, tables
<1>2. /\ \A g \in Handlers \ {h} : mine'[g] = mine[g]
      /\ d \in Device
      /\ mine'[h].open = [mine[h].open EXCEPT ![d.mac] = IF d.online /\ @ = NoTime THEN at[h] ELSE @]
  BY TurnEffect
<1>3. mine[h].open \in [Macs -> Times] /\ at[h] \in Int
  BY <1>1 DEF Typed, TypeOK, WrittenOK
<1> HIDE DEF d
<1>4. \A m \in Macs : mine'[h].open[m] = mine[h].open[m] \/ mine'[h].open[m] = at[h]
  BY <1>2, <1>3
<1>5. ASSUME NEW g \in Handlers, pc[g] = "writing"
      PROVE  /\ LaterThanEnded(NetOf[g], mine[g].open)'
             /\ \A m \in Macs : mine'[g].open[m] # NoTime => mine'[g].open[m] <= at[g]
  <2>1. CASE g = h
    BY <1>1, <1>3, <1>4, <2>1 DEF Sessions, EndedBy, LaterThanEnded
  <2>2. CASE g # h
    BY <1>1, <1>2, <1>5, <2>2 DEF Sessions, LaterThanEnded
  <2> QED
    BY <2>1, <2>2
<1>6. \A n \in Nets : LaterThanEnded(n, open[n])'
  BY <1>1 DEF Sessions, LaterThanEnded
<1> QED
  BY <1>1, <1>5, <1>6 DEF Sessions, EndedBy

\* The sessions that a commit ends are over before later ones start.
LEMMA SessionsCommit ==
  ASSUME Typed, Typed', Locking, Sessions, NEW h \in Handlers, Commit(h)
  PROVE  Sessions'
<1> USE InventoryConstants DEF InventoryConstants
<1> DEFINE n == NetOf[h]
           ended == {[net |-> n, mac |-> m, from |-> mine[h].open[m], to |-> at[h]] : m \in Closing(h)}
<1>1. /\ UNCHANGED <<clock, at, mine>>
      /\ closed' = closed \cup ended
      /\ open' = [open EXCEPT ![n] =
                    [m \in Macs |-> IF m \in Closing(h) THEN NoTime ELSE mine[h].open[m]]]
      /\ pc[h] = "writing" /\ pc' = [pc EXCEPT ![h] = "committed"]
  BY DEF Commit, Step, locals
<1>2. /\ at[h] <= clock /\ EndedBy(n, at[h]) /\ LaterThanEnded(n, mine[h].open)
      /\ \A m \in Macs : mine[h].open[m] # NoTime => mine[h].open[m] <= at[h]
  BY <1>1 DEF Sessions
<1>3. /\ \A m \in Closing(h) : m \in Macs /\ mine[h].open[m] # NoTime
      /\ mine[h].open \in [Macs -> Times] /\ at[h] \in Int /\ clock \in Int /\ n \in Nets
      /\ open \in [Nets -> [Macs -> Times]]
  BY <1>1 DEF Closing, Typed, TypeOK, WrittenOK, Times
<1>4. \A s \in ended : /\ s.net = n /\ s.mac \in Closing(h) /\ s.from = mine[h].open[s.mac] /\ s.to = at[h]
                       /\ s = [net |-> n, mac |-> s.mac, from |-> mine[h].open[s.mac], to |-> at[h]]
  OBVIOUS
<1> HIDE DEF ended
<1>5. Disjoint(closed')
  <2>1. ASSUME NEW s \in ended, NEW u \in closed, u.net = n, u.mac = s.mac PROVE u.to <= s.from
    BY <1>2, <1>3, <1>4, <2>1 DEF LaterThanEnded
  <2>2. \A s, u \in ended : s.mac = u.mac => s = u
    BY <1>4
  <2> QED
    BY <1>1, <1>4, <2>1, <2>2 DEF Disjoint, Sessions
<1>6. \A s \in closed' : s.from <= s.to /\ s.to <= clock
  BY <1>1, <1>2, <1>3, <1>4 DEF Sessions
<1>7. ASSUME NEW k \in Nets
      PROVE  /\ LaterThanEnded(k, open[k])'
             /\ \A m \in Macs : open'[k][m] # NoTime => open'[k][m] <= clock
  <2>1. CASE k = n
    <3>1. \A m \in Macs : /\ m \in Closing(h) => open'[n][m] = NoTime
                          /\ m \notin Closing(h) => open'[n][m] = mine[h].open[m]
      BY <1>1, <1>3
    <3>2. LaterThanEnded(n, open[n])'
      BY <1>1, <1>2, <1>4, <3>1 DEF LaterThanEnded
    <3>3. \A m \in Macs : open'[n][m] # NoTime => open'[n][m] <= clock
      BY <1>2, <1>3, <3>1 DEF Times
    <3> QED
      BY <2>1, <3>2, <3>3
  <2>2. CASE k # n
    <3>1. open'[k] = open[k]
      BY <1>1, <1>3, <2>2
    <3> QED
      BY <1>1, <1>4, <2>2, <3>1 DEF Sessions, LaterThanEnded
  <2> QED
    BY <2>1, <2>2
<1>8. ASSUME NEW g \in Handlers, pc'[g] = "writing"
      PROVE  /\ at[g] <= clock
             /\ EndedBy(NetOf[g], at[g])' /\ LaterThanEnded(NetOf[g], mine[g].open)'
             /\ \A m \in Macs : mine[g].open[m] # NoTime => mine[g].open[m] <= at[g]
  <2>1. g # h /\ pc[g] = "writing"
    BY <1>1, <1>8 DEF Typed, TypeOK
  <2>2. NetOf[g] # n
    BY <1>1, <2>1, HeldAlone DEF Holds
  <2> QED
    BY <1>1, <1>4, <2>1, <2>2 DEF Sessions, EndedBy, LaterThanEnded
<1> QED
  BY <1>1, <1>5, <1>6, <1>7, <1>8 DEF Sessions

\* Every step keeps sessions apart.
LEMMA SessionsStep ==
  ASSUME Inv, Inv', Sessions, [Next]_vars
  PROVE  Sessions'
<1> USE DEF Inv
<1>1. ASSUME NEW h \in Handlers,
             \/ SelectNetwork(h) \/ UpsertNetwork(h) \/ SkipPrune(h) \/ PruneSessions(h) \/ PruneEvents(h)
             \/ Notify(h) \/ Fail(h)
      PROVE  Sessions'
  <2>1. UNCHANGED <<clock, open, at, mine>> /\ closed' \subseteq closed
    BY <1>1 DEF SelectNetwork, UpsertNetwork, SkipPrune, PruneSessions, PruneEvents, Notify, Fail, tables,
                locals
  <2>2. \E to \in {"selected", "locked", "pruning", "notifying", "done", "failed"} :
          pc' = [pc EXCEPT ![h] = to]
    BY <1>1 DEF SelectNetwork, UpsertNetwork, SkipPrune, PruneSessions, PruneEvents, Notify, Fail, Step,
                AfterError
  <2>3. \A g \in Handlers : pc'[g] = "writing" => pc[g] = "writing"
    BY <2>2 DEF Typed, TypeOK
  <2>4. clock <= clock'
    BY <2>1 DEF Typed, TypeOK
  <2> QED
    BY <2>1, <2>3, <2>4, SessionsQuiet
<1>2. CASE Tick \/ UNCHANGED vars
  <2>1. UNCHANGED <<open, closed, pc, at, mine>> /\ (clock' = clock + 1 \/ clock' = clock)
    BY <1>2 DEF Tick, vars, tables, locals
  <2>2. clock <= clock'
    BY <2>1 DEF Typed, TypeOK
  <2> QED
    BY <2>1, <2>2, SessionsQuiet
<1> QED
  BY <1>1, <1>2, SessionsSnapshot, SessionsTurn, SessionsCommit DEF Next, Handle

\* Sessions of a device follow each other, in the table and in what a writer
\* makes of them (the presence part of post_inventory).
THEOREM SessionsInvariant == Spec => []Sessions
<1>1. Init => Sessions
  BY DEF Init, Sessions, Disjoint, LaterThanEnded
<1>2. Inv /\ Inv' /\ Sessions /\ [Next]_vars => Sessions'
  BY SessionsStep
<1> QED
  BY <1>1, <1>2, InventoryInvariant, PTL DEF Spec

\* So do those that an audit shows.
LEMMA AuditSessionsDisjoint ==
  ASSUME Typed, Sessions PROVE SessionsDisjoint
<1> USE InventoryConstants DEF InventoryConstants
<1> SUFFICES ASSUME NEW n \in Nets, NEW s \in GetAudit(n, 0, MaxTime).sessions
             PROVE  /\ s.to # NoTime => s.from <= s.to
                    /\ \A u \in GetAudit(n, 0, MaxTime).sessions \ {s} : s.mac = u.mac =>
                         (s.to # NoTime /\ s.to <= u.from) \/ (u.to # NoTime /\ u.to <= s.from)
  BY DEF SessionsDisjoint
<1> DEFINE Opened(x) == /\ x.mac \in Macs /\ open[n][x.mac] \in 0..MaxTime
                        /\ x = [mac |-> x.mac, from |-> open[n][x.mac], to |-> NoTime]
           Over(x) == \E c \in closed : c.net = n /\ x = [mac |-> c.mac, from |-> c.from, to |-> c.to]
<1>1. \A x \in GetAudit(n, 0, MaxTime).sessions : Opened(x) \/ Over(x)
  BY DEF GetAudit
<1>2. \A c \in closed : c.from \in 0..MaxTime /\ c.to \in 0..MaxTime
  BY DEF Typed, TypeOK
<1>3. s.to # NoTime => s.from <= s.to
  BY <1>1, <1>2 DEF Sessions
<1>4. ASSUME NEW u \in GetAudit(n, 0, MaxTime).sessions, u # s, s.mac = u.mac
      PROVE  (s.to # NoTime /\ s.to <= u.from) \/ (u.to # NoTime /\ u.to <= s.from)
  BY <1>1, <1>2, <1>4 DEF Sessions, Disjoint, LaterThanEnded, NoTime
<1> QED
  BY <1>3, <1>4

\* get_audit never shows two sessions of a device that overlap, or one that
\* ends before it starts, however its network's pushes overlap.
THEOREM SessionsApart == Spec => []SessionsDisjoint
BY SessionsInvariant, InventoryInvariant, AuditSessionsDisjoint, PTL DEF Inv

-----------------------------------------------------------------------------
(* Devices, sessions and events as the committed pushes left them *)

\* The first k entries of a report that list device m.
Entries(rep, k, m) == {i \in 1..k : rep[i].mac = m}

\* The last of them gives the device its status; without one it stays as it was.
StatusAfter(rep, k, m, before, after) ==
  \/ \E i \in Entries(rep, k, m) :
       (\A j \in Entries(rep, k, m) : j <= i) /\ after = IF rep[i].online THEN "on" ELSE "off"
  \/ Entries(rep, k, m) = {} /\ after = before

RepOf(n, i)   == report[pushes[n][i]]
Lists(n, i, m) == m \in MacsIn(RepOf(n, i))

\* Calls that committed stay so.
PushesOver(n) ==
  \A i \in DOMAIN pushes[n] :
    /\ pushes[n][i] \in Handlers
    /\ pc[pushes[n][i]] \in {"committed", "pruning", "notifying", "done", "failed"}

\* The tables of network n are those of its pushes, one after the other.
Serial(n) ==
  /\ n \in networks <=> n \in OldNets \/ Len(pushes[n]) # 0
  /\ \A m \in Macs :
       \/ \E i \in DOMAIN pushes[n] :
            /\ Lists(n, i, m) /\ \A j \in DOMAIN pushes[n] : Lists(n, j, m) => j <= i
            /\ StatusAfter(RepOf(n, i), Len(RepOf(n, i)), m, "absent", dev[n][m])
       \/ (\A i \in DOMAIN pushes[n] : ~Lists(n, i, m)) /\ dev[n][m] = "absent"
  /\ \A m \in Macs :
       open[n][m] # NoTime <=> Len(pushes[n]) # 0 /\ m \in OnlineIn(RepOf(n, Len(pushes[n])))

Its(rows, n, m) == {e \in rows : e.net = n /\ e.mac = m}

\* The events of network n for one device are those of the first push to list it.
EventsOnce(n) ==
  \A m \in Macs :
    /\ \A i \in DOMAIN pushes[n] : FirstToList(n, i, m) =>
         /\ Its(appended, n, m) \subseteq mine[pushes[n][i]].events
         /\ Cardinality(Its(appended, n, m)) =
              IF baseline[pushes[n][i]] THEN 0 ELSE Listed(pushes[n][i], m)
    /\ (\A i \in DOMAIN pushes[n] : ~Lists(n, i, m)) => Its(appended, n, m) = {}

\* What h has written is what the entries before its cursor make of the tables,
\* which nobody else has written to since h read them.
Writes(h) ==
  LET n == NetOf[h]
      k == cursor[h] - 1
  IN
  /\ k \in 0..Len(report[h])
  /\ known[h] = IF baseline[h] THEN {} ELSE KnownMacs(n)
  /\ \A m \in Macs :
       /\ StatusAfter(report[h], k, m, dev[n][m], mine[h].dev[m])
       /\ mine[h].open[m] # NoTime <=>
            open[n][m] # NoTime \/ \E i \in Entries(report[h], k, m) : report[h][i].online
       /\ IsFiniteSet(Its(Mine(h), n, m))
       /\ Cardinality(Its(Mine(h), n, m)) =
            IF baseline[h] \/ m \in known[h] THEN 0 ELSE Cardinality(Entries(report[h], k, m))

Outcome ==
  /\ \A n \in Nets : PushesOver(n) /\ Serial(n) /\ EventsOnce(n)
  /\ \A h \in Handlers : pc[h] = "writing" => Writes(h)

-----------------------------------------------------------------------------
(* Entries of a report *)

\* One entry more.
LEMMA NextEntry ==
  ASSUME NEW rep, NEW k \in Nat, NEW m
  PROVE  /\ Entries(rep, k + 1, m) =
              IF rep[k + 1].mac = m THEN Entries(rep, k, m) \cup {k + 1} ELSE Entries(rep, k, m)
         /\ \A i \in Entries(rep, k, m) : i < k + 1
         /\ IsFiniteSet(Entries(rep, k, m))
<1>1. \A i : i \in 1..(k + 1) <=> i \in 1..k \/ i = k + 1
  OBVIOUS
<1>2. Entries(rep, k + 1, m) =
         IF rep[k + 1].mac = m THEN Entries(rep, k, m) \cup {k + 1} ELSE Entries(rep, k, m)
  BY <1>1 DEF Entries
<1>3. \A i \in Entries(rep, k, m) : i < k + 1
  BY DEF Entries
<1>4. IsFiniteSet(1..k)
  BY FS_Interval
<1>5. Entries(rep, k, m) \in SUBSET (1..k)
  BY DEF Entries
<1> QED
  BY <1>2, <1>3, <1>4, <1>5, FS_Subset

\* It decides the status of its device and of no other.
LEMMA NextStatus ==
  ASSUME NEW rep, NEW k \in Nat, NEW m, NEW before, NEW after, NEW later, StatusAfter(rep, k, m, before, after),
         later = IF rep[k + 1].mac = m THEN IF rep[k + 1].online THEN "on" ELSE "off" ELSE after
  PROVE  StatusAfter(rep, k + 1, m, before, later)
<1>1. CASE rep[k + 1].mac = m
  <2>1. k + 1 \in Entries(rep, k + 1, m) /\ \A j \in Entries(rep, k + 1, m) : j <= k + 1
    BY <1>1 DEF Entries
  <2> QED
    BY <1>1, <2>1 DEF StatusAfter
<1>2. CASE rep[k + 1].mac # m
  <2>1. Entries(rep, k + 1, m) = Entries(rep, k, m)
    BY <1>2, NextEntry
  <2> QED
    BY <1>2, <2>1 DEF StatusAfter
<1> QED
  BY <1>1, <1>2

\* All entries of a report.
LEMMA AllEntries ==
  ASSUME NEW h \in Handlers, report[h] \in Seq(Device), NEW m
  PROVE  /\ DOMAIN report[h] = 1..Len(report[h]) /\ Len(report[h]) \in Nat
         /\ Entries(report[h], Len(report[h]), m) # {} <=> m \in MacsIn(report[h])
         /\ m \in OnlineIn(report[h]) <=>
              \E i \in Entries(report[h], Len(report[h]), m) : report[h][i].online
         /\ Listed(h, m) = Cardinality(Entries(report[h], Len(report[h]), m))
<1>1. DOMAIN report[h] = 1..Len(report[h]) /\ Len(report[h]) \in Nat
  OBVIOUS
<1> QED
  BY <1>1 DEF Entries, MacsIn, OnlineIn, Listed

\* A device that some committed push lists has a row.
LEMMA ListedIsThere ==
  ASSUME NEW n \in Nets, NEW m \in Macs, Serial(n), NEW i \in DOMAIN pushes[n], Lists(n, i, m),
         \A j \in DOMAIN pushes[n] : RepOf(n, j) \in Seq(Device)
  PROVE  dev[n][m] # "absent"
<1>1. PICK j \in DOMAIN pushes[n] :
         Lists(n, j, m) /\ StatusAfter(RepOf(n, j), Len(RepOf(n, j)), m, "absent", dev[n][m])
  BY DEF Serial
<1>2. Entries(RepOf(n, j), Len(RepOf(n, j)), m) # {}
  BY <1>1 DEF Lists, MacsIn, Entries
<1> QED
  BY <1>1, <1>2 DEF StatusAfter

-----------------------------------------------------------------------------
(* Networks and writers that a step leaves alone *)

After == {"committed", "pruning", "notifying", "done", "failed"}

\* Calls that have begun keep their reports, and calls that are over stay so, with
\* what they wrote.
Forward ==
  /\ \A g \in Handlers : pc[g] # "idle" => report'[g] = report[g] /\ baseline'[g] = baseline[g]
  /\ \A g \in Handlers : pc[g] \in After => pc'[g] \in After /\ mine'[g] = mine[g]

\* A network whose rows stay.
LEMMA NetStays ==
  ASSUME NEW n \in Nets, PushesOver(n), Serial(n), EventsOnce(n), Forward, pushes \in [Nets -> Seq(Handlers)],
         n \in networks' <=> n \in networks, dev'[n] = dev[n], open'[n] = open[n], pushes'[n] = pushes[n],
         \A m \in Macs : Its(appended', n, m) = Its(appended, n, m)
  PROVE  (PushesOver(n) /\ Serial(n) /\ EventsOnce(n))'
<1>1. ASSUME NEW i \in DOMAIN pushes[n]
      PROVE  /\ pushes[n][i] \in Handlers /\ pc'[pushes[n][i]] \in After
             /\ report'[pushes[n][i]] = report[pushes[n][i]] /\ baseline'[pushes[n][i]] = baseline[pushes[n][i]]
             /\ RepOf(n, i)' = RepOf(n, i) /\ mine'[pushes[n][i]] = mine[pushes[n][i]]
  BY DEF PushesOver, Forward, After, RepOf
<1>2. \A i \in DOMAIN pushes[n] : \A m : /\ Lists(n, i, m)' <=> Lists(n, i, m)
                                         /\ Listed(pushes[n][i], m)' = Listed(pushes[n][i], m)
  BY <1>1 DEF Lists, Listed
<1>3. PushesOver(n)'
  BY <1>1 DEF PushesOver, After
<1>4. DOMAIN pushes[n] = 1..Len(pushes[n]) /\ Len(pushes[n]) \in Nat
  OBVIOUS
<1>5. Serial(n)'
  <2>1. n \in networks' <=> n \in OldNets \/ Len(pushes'[n]) # 0
    BY DEF Serial
  <2>2. ASSUME NEW m \in Macs
        PROVE  (\/ \E i \in DOMAIN pushes[n] :
                     /\ Lists(n, i, m) /\ \A j \in DOMAIN pushes[n] : Lists(n, j, m) => j <= i
                     /\ StatusAfter(RepOf(n, i), Len(RepOf(n, i)), m, "absent", dev[n][m])
                \/ (\A i \in DOMAIN pushes[n] : ~Lists(n, i, m)) /\ dev[n][m] = "absent")'
    <3>1. CASE (\A i \in DOMAIN pushes[n] : ~Lists(n, i, m)) /\ dev[n][m] = "absent"
      BY <1>2, <3>1
    <3>2. ASSUME NEW i \in DOMAIN pushes[n], Lists(n, i, m), \A j \in DOMAIN pushes[n] : Lists(n, j, m) => j <= i,
                 StatusAfter(RepOf(n, i), Len(RepOf(n, i)), m, "absent", dev[n][m])
          PROVE  (\E k \in DOMAIN pushes[n] :
                     /\ Lists(n, k, m) /\ \A j \in DOMAIN pushes[n] : Lists(n, j, m) => j <= k
                     /\ StatusAfter(RepOf(n, k), Len(RepOf(n, k)), m, "absent", dev[n][m]))'
      <4>1. Lists(n, i, m)' /\ \A j \in DOMAIN pushes[n] : Lists(n, j, m)' => j <= i
        BY <1>2, <3>2
      <4>2. StatusAfter(RepOf(n, i), Len(RepOf(n, i)), m, "absent", dev[n][m])'
        BY <1>1, <3>2 DEF StatusAfter, Entries
      <4> QED
        BY <4>1, <4>2
    <3> QED
      BY <3>1, <3>2 DEF Serial
  <2>3. ASSUME NEW m \in Macs
        PROVE  (open[n][m] # NoTime <=> Len(pushes[n]) # 0 /\ m \in OnlineIn(RepOf(n, Len(pushes[n]))))'
    <3>1. Len(pushes[n]) # 0 => RepOf(n, Len(pushes[n]))' = RepOf(n, Len(pushes[n]))
      BY <1>1, <1>4
    <3>2. (Len(pushes[n]) # 0)' <=> Len(pushes[n]) # 0
      OBVIOUS
    <3>3. RepOf(n, Len(pushes[n]))' = RepOf(n, Len(pushes[n])) =>
            (m \in OnlineIn(RepOf(n, Len(pushes[n]))) <=> (m \in OnlineIn(RepOf(n, Len(pushes[n]))))')
      BY DEF OnlineIn
    <3>4. open[n][m] # NoTime <=> Len(pushes[n]) # 0 /\ m \in OnlineIn(RepOf(n, Len(pushes[n])))
      BY DEF Serial
    <3> QED
      BY <3>1, <3>2, <3>3, <3>4
  <2> QED
    BY <2>1, <2>2, <2>3 DEF Serial
<1>6. EventsOnce(n)'
  <2>1. \A i \in DOMAIN pushes[n] : \A m : FirstToList(n, i, m)' <=> FirstToList(n, i, m)
    BY <1>2 DEF FirstToList, Lists, RepOf
  <2>2. \A m \in Macs : Its(appended', n, m) = Its(appended, n, m)
    OBVIOUS
  <2> QED
    BY <1>1, <1>2, <2>1, <2>2 DEF EventsOnce
<1> QED
  BY <1>3, <1>5, <1>6

\* A writer whose rows stay.
LEMMA WriterStays ==
  ASSUME NEW g \in Handlers, Writes(g), report'[g] = report[g], baseline'[g] = baseline[g],
         known'[g] = known[g], cursor'[g] = cursor[g], mine'[g] = mine[g],
         dev'[NetOf[g]] = dev[NetOf[g]], open'[NetOf[g]] = open[NetOf[g]]
  PROVE  Writes(g)'
BY DEF Writes, KnownMacs, Mine

-----------------------------------------------------------------------------
(* Steps *)

\* Steps that change no device, session or recorded event.
LEMMA OutcomeQuiet ==
  ASSUME Typed, Outcome, Forward, UNCHANGED <<networks, dev, open, appended, pushes, known, cursor, mine>>,
         \A g \in Handlers : pc'[g] = "writing" => pc[g] = "writing"
  PROVE  Outcome'
<1>1. pushes \in [Nets -> Seq(Handlers)]
  BY DEF Typed, TypeOK
<1>2. \A n \in Nets : (PushesOver(n) /\ Serial(n) /\ EventsOnce(n))'
  BY <1>1, NetStays DEF Outcome
<1>3. ASSUME NEW g \in Handlers, pc'[g] = "writing" PROVE Writes(g)'
  <2>1. Writes(g) /\ report'[g] = report[g] /\ baseline'[g] = baseline[g]
    BY <1>3 DEF Outcome, Forward
  <2> QED
    BY <2>1, WriterStays
<1> QED
  BY <1>2, <1>3 DEF Outcome

\* A writer starts from the tables as they are.
LEMMA OutcomeSnapshot ==
  ASSUME Typed, Outcome, NEW h \in Handlers, ReadSnapshot(h)
  PROVE  Outcome'
<1> DEFINE n == NetOf[h]
<1>1. /\ UNCHANGED <<networks, dev, open, appended, pushes, report, baseline>>
      /\ pc[h] = "locked" /\ pc' = [pc EXCEPT ![h] = "writing"]
      /\ \A g \in Handlers \ {h} : known'[g] = known[g] /\ cursor'[g] = cursor[g] /\ mine'[g] = mine[g]
      /\ known'[h] = IF baseline[h] THEN {} ELSE KnownMacs(n)
      /\ cursor'[h] = 1 /\ mine'[h] = [dev |-> dev[n], open |-> open[n], events |-> {}]
  BY DEF ReadSnapshot, Step, tables, history, Typed, TypeOK, LocalsOK
<1>2. Forward
  BY <1>1 DEF Forward, After, Typed, TypeOK
<1>3. pushes \in [Nets -> Seq(Handlers)]
  BY DEF Typed, TypeOK
<1>4. \A k \in Nets : (PushesOver(k) /\ Serial(k) /\ EventsOnce(k))'
  BY <1>1, <1>2, <1>3, NetStays DEF Outcome
<1>5. ASSUME NEW g \in Handlers \ {h}, pc'[g] = "writing" PROVE Writes(g)'
  <2>1. Writes(g)
    BY <1>1, <1>5 DEF Outcome, Typed, TypeOK
  <2> QED
    BY <1>1, <2>1, WriterStays
<1>6. Writes(h)'
  <2>1. report'[h] = report[h] /\ Len(report[h]) \in Nat /\ cursor'[h] - 1 = 0
    BY <1>1 DEF Typed, LocalsOK
  <2>2. \A m : Entries(report[h], 0, m) = {}
    BY DEF Entries
  <2>3. known'[h] = IF baseline'[h] THEN {} ELSE KnownMacs(n)'
    BY <1>1 DEF KnownMacs
  <2>4. ASSUME NEW m \in Macs
        PROVE  /\ StatusAfter(report'[h], cursor'[h] - 1, m, dev'[n][m], mine'[h].dev[m])
               /\ mine'[h].open[m] # NoTime <=>
                    open'[n][m] # NoTime \/ \E i \in Entries(report'[h], cursor'[h] - 1, m) : report'[h][i].online
               /\ IsFiniteSet(Its(mine'[h].events, n, m))
               /\ Cardinality(Its(mine'[h].events, n, m)) = 0
               /\ Cardinality(Entries(report'[h], cursor'[h] - 1, m)) = 0
    <3>1. mine'[h].events = {} /\ mine'[h].dev = dev[n] /\ mine'[h].open = open[n]
      BY <1>1
    <3>2. Its(mine'[h].events, n, m) = {} /\ Entries(report'[h], cursor'[h] - 1, m) = {}
      BY <2>1, <2>2, <3>1 DEF Its
    <3> QED
      BY <1>1, <3>1, <3>2, FS_EmptySet DEF StatusAfter
  <2>5. cursor'[h] - 1 \in 0..Len(report'[h])
    BY <2>1
  <2> QED
    BY <2>3, <2>4, <2>5 DEF Writes, StatusAfter, Entries, Mine, Its
<1> QED
  BY <1>4, <1>5, <1>6 DEF Outcome

\* One turn of the loop does what one more entry asks for.
LEMMA OutcomeTurn ==
  ASSUME Typed, Outcome, NEW h \in Handlers, WriteDevice(h)
  PROVE  Outcome'
<1> DEFINE n == NetOf[h]
           d == report[h][cursor[h]]
           k == cursor[h] - 1
           isNew == ~baseline[h] /\ d.mac \notin known[h]
<1>1. /\ UNCHANGED <<networks, dev, open, appended, pushes, report, baseline, known, pc, at>>
      /\ cursor' = [cursor EXCEPT ![h] = cursor[h] + 1]
  BY DEF WriteDevice, tables, history
<1>2. /\ pc[h] = "writing" /\ cursor[h] \in DOMAIN report[h] /\ d \in Device
      /\ mine'[h].dev = [mine[h].dev EXCEPT ![d.mac] = IF d.online THEN "on" ELSE "off"]
      /\ mine'[h].open = [mine[h].open EXCEPT ![d.mac] = IF d.online /\ @ = NoTime THEN at[h] ELSE @]
      /\ Mine(h)' = IF isNew THEN Mine(h) \cup {EventOf(h, d.mac)} ELSE Mine(h)
      /\ \A g \in Handlers \ {h} : mine'[g] = mine[g]
  BY TurnEffect DEF Mine
<1>3. /\ Writes(h) /\ mine[h].dev \in [Macs -> Status] /\ mine[h].open \in [Macs -> Times]
      /\ at[h] # NoTime /\ Len(report[h]) \in Nat /\ DOMAIN report[h] = 1..Len(report[h])
      /\ \A e \in Mine(h) : e.seq < nextSeq /\ e.seq \in Nat
      /\ cursor \in [Handlers -> Nat] /\ pushes \in [Nets -> Seq(Handlers)] /\ nextSeq \in Nat
  <2>1. Writes(h)
    BY <1>2 DEF Outcome
  <2>2. mine[h].dev \in [Macs -> Status] /\ mine[h].open \in [Macs -> Times]
    BY <1>2 DEF Typed, WrittenOK
  <2>3. at[h] # NoTime
    BY InventoryConstants DEF InventoryConstants, Typed, TypeOK, NoTime
  <2>4. Len(report[h]) \in Nat /\ DOMAIN report[h] = 1..Len(report[h])
    BY DEF Typed, LocalsOK
  <2>5. \A e \in Mine(h) : e.seq < nextSeq /\ e.seq \in Nat
    BY <1>2 DEF Typed, TypeOK, WrittenOK
  <2>6. cursor \in [Handlers -> Nat] /\ pushes \in [Nets -> Seq(Handlers)] /\ nextSeq \in Nat
    BY DEF Typed, TypeOK
  <2> QED
    BY <2>1, <2>2, <2>3, <2>4, <2>5, <2>6
<1>4. Forward
  BY <1>1, <1>2 DEF Forward, After
<1>5. \A j \in Nets : (PushesOver(j) /\ Serial(j) /\ EventsOnce(j))'
  BY <1>1, <1>3, <1>4, NetStays DEF Outcome
<1>6. ASSUME NEW g \in Handlers \ {h}, pc'[g] = "writing" PROVE Writes(g)'
  <2>1. Writes(g) /\ cursor'[g] = cursor[g] /\ mine'[g] = mine[g]
    BY <1>1, <1>2, <1>3, <1>6 DEF Outcome
  <2> QED
    BY <1>1, <2>1, WriterStays
<1>7. k \in Nat /\ cursor[h] = k + 1 /\ cursor'[h] - 1 = k + 1 /\ k + 1 \in 0..Len(report[h])
  BY <1>1, <1>2, <1>3
<1> HIDE DEF k
<1>8. ASSUME NEW m \in Macs
      PROVE  /\ StatusAfter(report[h], k + 1, m, dev[n][m], mine'[h].dev[m])
             /\ mine'[h].open[m] # NoTime <=>
                  open[n][m] # NoTime \/ \E i \in Entries(report[h], k + 1, m) : report[h][i].online
             /\ IsFiniteSet(Its(Mine(h)', n, m))
             /\ Cardinality(Its(Mine(h)', n, m)) =
                  IF baseline[h] \/ m \in known[h] THEN 0 ELSE Cardinality(Entries(report[h], k + 1, m))
  <2>1. /\ StatusAfter(report[h], k, m, dev[n][m], mine[h].dev[m])
        /\ mine[h].open[m] # NoTime <=>
             open[n][m] # NoTime \/ \E i \in Entries(report[h], k, m) : report[h][i].online
        /\ IsFiniteSet(Its(Mine(h), n, m))
        /\ Cardinality(Its(Mine(h), n, m)) =
             IF baseline[h] \/ m \in known[h] THEN 0 ELSE Cardinality(Entries(report[h], k, m))
    BY <1>3 DEF Writes, k
  <2>2. /\ Entries(report[h], k + 1, m) =
             IF d.mac = m THEN Entries(report[h], k, m) \cup {k + 1} ELSE Entries(report[h], k, m)
        /\ k + 1 \notin Entries(report[h], k, m) /\ IsFiniteSet(Entries(report[h], k, m))
    <3>1. d = report[h][k + 1]
      BY <1>7
    <3>2. /\ Entries(report[h], k + 1, m) =
               IF report[h][k + 1].mac = m THEN Entries(report[h], k, m) \cup {k + 1} ELSE Entries(report[h], k, m)
          /\ \A i \in Entries(report[h], k, m) : i < k + 1
          /\ IsFiniteSet(Entries(report[h], k, m))
      BY <1>7, NextEntry
    <3>3. k + 1 \notin Entries(report[h], k, m)
      BY <1>7, <3>2
    <3> HIDE DEF d
    <3> QED
      BY <3>1, <3>2, <3>3
  <2>3. mine'[h].dev[m] = IF d.mac = m THEN IF d.online THEN "on" ELSE "off" ELSE mine[h].dev[m]
    BY <1>2, <1>3
  <2>4. StatusAfter(report[h], k + 1, m, dev[n][m], mine'[h].dev[m])
    BY <1>7, <2>1, <2>3, NextStatus
  <2>5. mine'[h].open[m] # NoTime <=> mine[h].open[m] # NoTime \/ (d.mac = m /\ d.online)
    BY <1>2, <1>3
  <2>6. /\ EventOf(h, d.mac).net = n /\ EventOf(h, d.mac).mac = d.mac
        /\ EventOf(h, d.mac) \notin Its(Mine(h), n, m)
    <3>1. EventOf(h, d.mac).seq = nextSeq
      BY DEF EventOf
    <3> QED
      BY <1>3, <3>1 DEF EventOf, Its
  <2>7. CASE isNew /\ d.mac = m
    <3>1. Its(Mine(h)', n, m) = Its(Mine(h), n, m) \cup {EventOf(h, d.mac)}
      BY <1>2, <2>6, <2>7 DEF Its
    <3>2. IsFiniteSet(Its(Mine(h)', n, m)) /\ Cardinality(Its(Mine(h)', n, m)) = Cardinality(Its(Mine(h), n, m)) + 1
      <4>1. IsFiniteSet(Its(Mine(h), n, m)) /\ EventOf(h, d.mac) \notin Its(Mine(h), n, m)
        BY <2>1, <2>6
      <4> QED
        BY <3>1, <4>1, FS_AddElement
    <3>3. Cardinality(Entries(report[h], k + 1, m)) = Cardinality(Entries(report[h], k, m)) + 1
      BY <2>2, <2>7, FS_AddElement
    <3> QED
      BY <1>7, <2>1, <2>2, <2>4, <2>5, <2>7, <3>2, <3>3
  <2>8. CASE ~(isNew /\ d.mac = m)
    <3>1. Its(Mine(h)', n, m) = Its(Mine(h), n, m)
      BY <1>2, <2>6, <2>8 DEF Its
    <3> QED
      BY <1>7, <2>1, <2>2, <2>4, <2>5, <2>8, <3>1
  <2> QED
    BY <2>7, <2>8
<1>9. Writes(h)'
  <2>1. /\ cursor'[h] - 1 = k + 1 /\ report'[h] = report[h] /\ baseline'[h] = baseline[h] /\ known'[h] = known[h]
        /\ dev' = dev /\ open' = open
    BY <1>1, <1>7
  <2>2. known[h] = IF baseline[h] THEN {} ELSE KnownMacs(n)
    BY <1>3 DEF Writes
  <2>3. known'[h] = IF baseline'[h] THEN {} ELSE KnownMacs(n)'
    BY <2>1, <2>2 DEF KnownMacs
  <2>4. ASSUME NEW m \in Macs
        PROVE  (/\ StatusAfter(report[h], cursor[h] - 1, m, dev[n][m], mine[h].dev[m])
                /\ mine[h].open[m] # NoTime <=>
                     open[n][m] # NoTime \/ \E i \in Entries(report[h], cursor[h] - 1, m) : report[h][i].online
                /\ IsFiniteSet(Its(Mine(h), n, m))
                /\ Cardinality(Its(Mine(h), n, m)) =
                     IF baseline[h] \/ m \in known[h] THEN 0
                     ELSE Cardinality(Entries(report[h], cursor[h] - 1, m)))'
    BY <1>8, <2>1
  <2>5. cursor'[h] - 1 \in 0..Len(report'[h])
    BY <1>7, <2>1
  <2> QED
    BY <2>3, <2>4, <2>5 DEF Writes
<1> QED
  BY <1>5, <1>6, <1>9 DEF Outcome

\* A commit makes its push the network's last.
LEMMA OutcomeCommit ==
  ASSUME Typed, Locking, Outcome, NEW h \in Handlers, Commit(h)
  PROVE  Outcome'
<1> DEFINE n == NetOf[h]
           all(m) == Entries(report[h], Len(report[h]), m)
<1>1. /\ UNCHANGED <<report, baseline, known, cursor, mine>>
      /\ cursor[h] \notin DOMAIN report[h] /\ pc[h] = "writing" /\ pc' = [pc EXCEPT ![h] = "committed"]
      /\ networks' = networks \cup {n}
      /\ dev' = [dev EXCEPT ![n] = mine[h].dev]
      /\ open' = [open EXCEPT ![n] = [m \in Macs |-> IF m \in Closing(h) THEN NoTime ELSE mine[h].open[m]]]
      /\ appended' = appended \cup Mine(h)
      /\ pushes' = [pushes EXCEPT ![n] = Append(pushes[n], h)]
  BY DEF Commit, Step, locals, Mine
<1>2. /\ n \in Nets /\ pushes \in [Nets -> Seq(Handlers)] /\ dev \in [Nets -> [Macs -> Status]]
      /\ open \in [Nets -> [Macs -> Times]] /\ DOMAIN pc = Handlers
  <2>1. n \in Nets
    BY InventoryConstants DEF InventoryConstants
  <2>2. pushes \in [Nets -> Seq(Handlers)] /\ DOMAIN pc = Handlers
    BY DEF Typed, TypeOK
  <2>3. dev \in [Nets -> [Macs -> Status]] /\ open \in [Nets -> [Macs -> Times]]
    BY DEF Typed, TypeOK, Status, Times
  <2> QED
    BY <2>1, <2>2, <2>3
<1>3. mine[h].dev \in [Macs -> Status] /\ mine[h].open \in [Macs -> Times] /\ \A e \in Mine(h) : e.net = n
  BY <1>1 DEF Typed, WrittenOK
<1>4. PushesOver(n) /\ Serial(n) /\ EventsOnce(n) /\ Writes(h)
  BY <1>1, <1>2 DEF Outcome
<1>5. Forward
  BY <1>1, <1>2 DEF Forward, After
<1>6. /\ DOMAIN report[h] = 1..Len(report[h]) /\ Len(report[h]) \in Nat
      /\ \A m : /\ all(m) # {} <=> m \in MacsIn(report[h])
                /\ m \in OnlineIn(report[h]) <=> \E i \in all(m) : report[h][i].online
                /\ Listed(h, m) = Cardinality(all(m))
  <2>1. report[h] \in Seq(Device)
    BY DEF Typed, LocalsOK
  <2> QED
    BY <2>1, AllEntries
<1>7. cursor[h] - 1 = Len(report[h])
  <2>1. cursor[h] \in Nat
    BY DEF Typed, TypeOK
  <2>2. cursor[h] - 1 \in 0..Len(report[h])
    BY <1>4 DEF Writes
  <2>3. cursor[h] \notin 1..Len(report[h])
    BY <1>1, <1>6
  <2>4. Len(report[h]) \in Nat
    BY <1>6
  <2> QED
    BY <2>1, <2>2, <2>3, <2>4
<1> PICK L : L = Len(pushes[n])
  OBVIOUS
<1>8. /\ L \in Nat /\ DOMAIN pushes[n] = 1..L /\ DOMAIN pushes'[n] = 1..(L + 1) /\ Len(pushes'[n]) = L + 1
      /\ pushes'[n][L + 1] = h /\ \A i \in 1..L : pushes'[n][i] = pushes[n][i]
  <2>1. pushes[n] \in Seq(Handlers) /\ pushes'[n] = Append(pushes[n], h)
    BY <1>1, <1>2
  <2> QED
    BY <2>1, AppendProperties
<1>9. /\ RepOf(n, L + 1)' = report[h] /\ \A i \in 1..L : RepOf(n, i)' = RepOf(n, i)
      /\ \A m : (Lists(n, L + 1, m)' <=> m \in MacsIn(report[h]))
      /\ \A m : \A i \in 1..L : (Lists(n, i, m)' <=> Lists(n, i, m))
      /\ \A m : Listed(pushes[n][L + 1], m)' = Listed(h, m)
      /\ \A m : \A i \in 1..L : Listed(pushes[n][i], m)' = Listed(pushes[n][i], m)
  <2>1. RepOf(n, L + 1)' = report[h] /\ \A i \in 1..L : RepOf(n, i)' = RepOf(n, i)
    BY <1>1, <1>8 DEF RepOf
  <2>2. \A m : (Lists(n, L + 1, m)' <=> m \in MacsIn(report[h]))
    BY <2>1 DEF Lists, MacsIn
  <2>3. \A m : \A i \in 1..L : (Lists(n, i, m)' <=> Lists(n, i, m))
    BY <2>1 DEF Lists, MacsIn
  <2>4. \A m : Listed(pushes[n][L + 1], m)' = Listed(h, m)
    BY <1>1, <1>8 DEF Listed
  <2>5. \A m : \A i \in 1..L : Listed(pushes[n][i], m)' = Listed(pushes[n][i], m)
    BY <1>1, <1>8 DEF Listed
  <2> QED
    BY <2>1, <2>2, <2>3, <2>4, <2>5
<1> HIDE DEF all
<1>10. dev'[n] = mine[h].dev /\ \A m \in Macs : open'[n][m] # NoTime <=> m \notin Closing(h) /\ mine[h].open[m] # NoTime
  BY <1>1, <1>2
<1>11. \A k \in Nets \ {n} : (PushesOver(k) /\ Serial(k) /\ EventsOnce(k))'
  <2> SUFFICES ASSUME NEW k \in Nets \ {n} PROVE (PushesOver(k) /\ Serial(k) /\ EventsOnce(k))'
    OBVIOUS
  <2>1. /\ (k \in networks' <=> k \in networks) /\ dev'[k] = dev[k] /\ open'[k] = open[k] /\ pushes'[k] = pushes[k]
        /\ \A m \in Macs : Its(appended', k, m) = Its(appended, k, m)
    BY <1>1, <1>2, <1>3 DEF Its
  <2>2. PushesOver(k) /\ Serial(k) /\ EventsOnce(k)
    BY DEF Outcome
  <2> QED
    BY <1>2, <1>5, <2>1, <2>2, NetStays
<1>12. PushesOver(n)'
  <2>1. ASSUME NEW i \in 1..(L + 1) PROVE pushes'[n][i] \in Handlers /\ pc'[pushes'[n][i]] \in After
    <3>1. CASE i = L + 1
      BY <1>1, <1>2, <1>8, <3>1 DEF After
    <3>2. CASE i \in 1..L
      BY <1>4, <1>5, <1>8, <3>2 DEF PushesOver, Forward, After
    <3> QED
      BY <1>8, <3>1, <3>2
  <2> QED
    BY <1>8, <2>1 DEF PushesOver, After
<1>13. Serial(n)'
  <2>1. (n \in networks <=> n \in OldNets \/ Len(pushes[n]) # 0)'
    BY <1>1, <1>8
  <2>2. ASSUME NEW m \in Macs
        PROVE  (\/ \E i \in DOMAIN pushes[n] :
                     /\ Lists(n, i, m) /\ \A j \in DOMAIN pushes[n] : Lists(n, j, m) => j <= i
                     /\ StatusAfter(RepOf(n, i), Len(RepOf(n, i)), m, "absent", dev[n][m])
                \/ (\A i \in DOMAIN pushes[n] : ~Lists(n, i, m)) /\ dev[n][m] = "absent")'
    <3>1. StatusAfter(report[h], Len(report[h]), m, dev[n][m], dev'[n][m])
      BY <1>4, <1>7, <1>10 DEF Writes
    <3>2. CASE m \in MacsIn(report[h])
      <4>1. StatusAfter(report[h], Len(report[h]), m, "absent", dev'[n][m])
        BY <1>6, <3>1, <3>2 DEF StatusAfter, all
      <4>2. L + 1 \in 1..(L + 1) /\ \A j \in 1..(L + 1) : j <= L + 1
        BY <1>8
      <4>3. StatusAfter(RepOf(n, L + 1), Len(RepOf(n, L + 1)), m, "absent", dev[n][m])'
        BY <1>9, <4>1 DEF StatusAfter, Entries
      <4> QED
        BY <1>8, <1>9, <3>2, <4>2, <4>3
    <3>3. CASE m \notin MacsIn(report[h])
      <4>1. dev'[n][m] = dev[n][m]
        BY <1>6, <3>1, <3>3 DEF StatusAfter, all
      <4>2. CASE (\A i \in 1..L : ~Lists(n, i, m)) /\ dev[n][m] = "absent"
        <5>1. \A i \in 1..(L + 1) : ~Lists(n, i, m)'
          BY <1>8, <1>9, <3>3, <4>2
        <5> QED
          BY <1>8, <4>1, <4>2, <5>1
      <4>3. ASSUME NEW i \in 1..L, Lists(n, i, m), \A j \in 1..L : Lists(n, j, m) => j <= i,
                   StatusAfter(RepOf(n, i), Len(RepOf(n, i)), m, "absent", dev[n][m])
            PROVE  (\E k \in DOMAIN pushes[n] :
                      /\ Lists(n, k, m) /\ \A j \in DOMAIN pushes[n] : Lists(n, j, m) => j <= k
                      /\ StatusAfter(RepOf(n, k), Len(RepOf(n, k)), m, "absent", dev[n][m]))'
        <5>1. i \in 1..(L + 1) /\ Lists(n, i, m)' /\ \A j \in 1..(L + 1) : Lists(n, j, m)' => j <= i
          BY <1>8, <1>9, <3>3, <4>3
        <5>2. StatusAfter(RepOf(n, i), Len(RepOf(n, i)), m, "absent", dev[n][m])'
          BY <1>9, <4>1, <4>3 DEF StatusAfter, Entries
        <5> QED
          BY <1>8, <5>1, <5>2
      <4> QED
        BY <1>4, <1>8, <4>2, <4>3 DEF Serial
    <3> QED
      BY <3>2, <3>3
  <2>3. ASSUME NEW m \in Macs
        PROVE  (open[n][m] # NoTime <=> Len(pushes[n]) # 0 /\ m \in OnlineIn(RepOf(n, Len(pushes[n]))))'
    <3>1. mine[h].open[m] # NoTime <=> open[n][m] # NoTime \/ m \in OnlineIn(report[h])
      BY <1>4, <1>6, <1>7 DEF Writes, all
    <3>2. open'[n][m] # NoTime <=> m \in OnlineIn(report[h])
      BY <1>10, <3>1 DEF Closing
    <3>3. (m \in OnlineIn(RepOf(n, Len(pushes[n]))))' <=> m \in OnlineIn(report[h])
      BY <1>8, <1>9 DEF OnlineIn
    <3>4. (Len(pushes[n]) # 0)'
      BY <1>8
    <3> QED
      BY <3>2, <3>3, <3>4
  <2> QED
    BY <2>1, <2>2, <2>3 DEF Serial
<1>14. EventsOnce(n)'
  <2> SUFFICES ASSUME NEW m \in Macs
               PROVE  (/\ \A i \in DOMAIN pushes[n] : FirstToList(n, i, m) =>
                            /\ Its(appended, n, m) \subseteq mine[pushes[n][i]].events
                            /\ Cardinality(Its(appended, n, m)) =
                                 IF baseline[pushes[n][i]] THEN 0 ELSE Listed(pushes[n][i], m)
                       /\ (\A i \in DOMAIN pushes[n] : ~Lists(n, i, m)) => Its(appended, n, m) = {})'
    BY DEF EventsOnce
  <2>1. Its(appended', n, m) = Its(appended, n, m) \cup Its(Mine(h), n, m)
    BY <1>1 DEF Its
  <2>2. /\ IsFiniteSet(Its(Mine(h), n, m))
        /\ Cardinality(Its(Mine(h), n, m)) = IF baseline[h] \/ m \in known[h] THEN 0 ELSE Listed(h, m)
        /\ known[h] = IF baseline[h] THEN {} ELSE KnownMacs(n)
    BY <1>4, <1>6, <1>7 DEF Writes, all
  <2>3. Its(Mine(h), n, m) = {} <=> Cardinality(Its(Mine(h), n, m)) = 0
    BY <2>2, FS_EmptySet
  <2>4. m \notin MacsIn(report[h]) => Listed(h, m) = 0
    BY <1>6, FS_EmptySet
  \* What held of a push still does, and h's comes last.
  <2>5. /\ \A i \in 1..L : /\ (Lists(n, i, m)' <=> Lists(n, i, m))
                            /\ Listed(pushes[n][i], m)' = Listed(pushes[n][i], m)
                            /\ baseline[pushes[n][i]]' = baseline[pushes[n][i]]
                            /\ mine[pushes[n][i]]' = mine[pushes[n][i]]
        /\ (Lists(n, L + 1, m)' <=> m \in MacsIn(report[h]))
        /\ Listed(pushes[n][L + 1], m)' = Listed(h, m)
        /\ baseline[pushes[n][L + 1]]' = baseline[h]
        /\ mine[pushes[n][L + 1]]' = mine[h]
    BY <1>1, <1>8, <1>9
  <2>6. \A i \in 1..L : FirstToList(n, i, m) <=>
          Lists(n, i, m) /\ \A j \in 1..L : Lists(n, j, m) => i <= j
    BY <1>8 DEF FirstToList, Lists, RepOf
  <2>7. \A i \in 1..(L + 1) : FirstToList(n, i, m)' <=>
          Lists(n, i, m)' /\ \A j \in 1..(L + 1) : Lists(n, j, m)' => i <= j
    BY <1>8 DEF FirstToList, Lists, RepOf
  \* Either an earlier push lists the device, and h finds it known, or none does.
  <2>8. CASE \E i \in 1..L : Lists(n, i, m)
    <3>1. dev[n][m] # "absent"
      <4>1. \A j \in DOMAIN pushes[n] : RepOf(n, j) \in Seq(Device)
        BY <1>4 DEF Typed, LocalsOK, PushesOver, RepOf
      <4> QED
        BY <1>2, <1>4, <1>8, <2>8, <4>1, ListedIsThere
    <3>2. Its(appended', n, m) = Its(appended, n, m)
      BY <2>1, <2>2, <2>3, <3>1 DEF KnownMacs
    <3>3. \A i \in 1..L : i \in 1..(L + 1) /\ ~(L + 1 <= i)
      BY <1>8
    <3>4. PICK i0 \in 1..L : i0 \in 1..(L + 1) /\ Lists(n, i0, m)'
      BY <2>5, <2>8, <3>3
    <3>5. ASSUME NEW i \in 1..(L + 1), FirstToList(n, i, m)'
          PROVE  i \in 1..L /\ FirstToList(n, i, m)
      <4>1. i <= i0 /\ Lists(n, i, m)'
        BY <2>7, <3>4, <3>5
      <4>2. i \in 1..L
        BY <1>8, <3>4, <4>1
      <4>3. \A j \in 1..L : Lists(n, j, m) => i <= j
        BY <2>5, <2>7, <3>3, <3>5
      <4> QED
        BY <2>5, <2>6, <4>1, <4>2, <4>3
    <3>6. ASSUME NEW i \in 1..L, FirstToList(n, i, m)
          PROVE  (/\ Its(appended, n, m) \subseteq mine[pushes[n][i]].events
                  /\ Cardinality(Its(appended, n, m)) =
                       IF baseline[pushes[n][i]] THEN 0 ELSE Listed(pushes[n][i], m))'
      <4>1. /\ Its(appended, n, m) \subseteq mine[pushes[n][i]].events
            /\ Cardinality(Its(appended, n, m)) =
                 IF baseline[pushes[n][i]] THEN 0 ELSE Listed(pushes[n][i], m)
        BY <1>4, <1>8, <3>6 DEF EventsOnce
      <4>2. Its(appended, n, m)' = Its(appended, n, m)
        BY <3>2 DEF Its
      <4> QED
        BY <2>5, <4>1, <4>2
    <3>7. (\A i \in DOMAIN pushes[n] : FirstToList(n, i, m) =>
             /\ Its(appended, n, m) \subseteq mine[pushes[n][i]].events
             /\ Cardinality(Its(appended, n, m)) =
                  IF baseline[pushes[n][i]] THEN 0 ELSE Listed(pushes[n][i], m))'
      BY <1>8, <3>5, <3>6
    <3>8. ~(\A i \in DOMAIN pushes[n] : ~Lists(n, i, m))'
      BY <1>8, <3>4
    <3> QED
      BY <3>7, <3>8
  <2>9. CASE \A i \in 1..L : ~Lists(n, i, m)
    <3>1. dev[n][m] = "absent" /\ Its(appended, n, m) = {}
      BY <1>4, <1>8, <2>9 DEF Serial, EventsOnce
    <3>2. Its(appended', n, m) = Its(Mine(h), n, m) /\ Its(appended', n, m) \subseteq mine[h].events
      BY <2>1, <3>1 DEF Its, Mine
    <3>3. Cardinality(Its(appended', n, m)) = IF baseline[h] THEN 0 ELSE Listed(h, m)
      BY <2>2, <3>1, <3>2 DEF KnownMacs
    <3>4. \A i \in 1..(L + 1) : FirstToList(n, i, m)' => i = L + 1
      BY <1>8, <2>5, <2>7, <2>9
    <3>5. (\A i \in 1..(L + 1) : ~Lists(n, i, m)') => Its(appended', n, m) = {}
      <4>1. L + 1 \in 1..(L + 1)
        BY <1>8
      <4> QED
        BY <2>2, <2>3, <2>4, <2>5, <3>2, <4>1
    <3> QED
      BY <1>8, <2>5, <3>2, <3>3, <3>4, <3>5
  <2> QED
    BY <2>8, <2>9
<1>15. ASSUME NEW g \in Handlers, pc'[g] = "writing" PROVE Writes(g)'
  <2>1. g # h /\ pc[g] = "writing"
    BY <1>1, <1>2, <1>15
  <2>2. NetOf[g] # n /\ NetOf[g] \in Nets
    BY <1>1, <2>1, HeldAlone, InventoryConstants DEF InventoryConstants, Holds
  <2>3. dev'[NetOf[g]] = dev[NetOf[g]] /\ open'[NetOf[g]] = open[NetOf[g]] /\ Writes(g)
    BY <1>1, <1>2, <2>1, <2>2 DEF Outcome
  <2> QED
    BY <1>1, <2>3, WriterStays
<1> QED
  BY <1>11, <1>12, <1>13, <1>14, <1>15 DEF Outcome

\* At first nothing was pushed.
LEMMA OutcomeInit == Init => Outcome
<1> SUFFICES ASSUME Init PROVE Outcome
  OBVIOUS
<1>1. /\ \A n \in Nets : pushes[n] = <<>> /\ \A m \in Macs : dev[n][m] = "absent" /\ open[n][m] = NoTime
      /\ networks = OldNets /\ appended = {} /\ \A h \in Handlers : pc[h] = "idle"
  BY DEF Init
<1>2. \A n \in Nets : DOMAIN pushes[n] = {} /\ Len(pushes[n]) = 0
  BY <1>1
<1>3. ASSUME NEW n \in Nets PROVE PushesOver(n) /\ Serial(n) /\ EventsOnce(n)
  BY <1>1, <1>2 DEF PushesOver, Serial, EventsOnce, Its
<1> QED
  BY <1>1, <1>3 DEF Outcome

\* Every step leaves the tables as the committed pushes left them.
LEMMA OutcomeStep ==
  ASSUME Inv, Outcome, [Next]_vars
  PROVE  Outcome'
<1> USE DEF Inv
<1>1. DOMAIN pc = Handlers /\ DOMAIN report = Handlers /\ DOMAIN baseline = Handlers
  BY DEF Typed, TypeOK, LocalsOK
<1>2. ASSUME NEW h \in Handlers, SelectNetwork(h) PROVE Outcome'
  <2>1. /\ UNCHANGED <<networks, dev, open, appended, pushes, known, cursor, mine>>
        /\ pc[h] = "idle" /\ pc' = [pc EXCEPT ![h] = "selected"]
        /\ \A g \in Handlers \ {h} : report'[g] = report[g] /\ baseline'[g] = baseline[g]
    BY <1>1, <1>2 DEF SelectNetwork, Step, tables, history
  <2>2. Forward /\ \A g \in Handlers : pc'[g] = "writing" => pc[g] = "writing"
    BY <1>1, <2>1 DEF Forward, After
  <2> QED
    BY <2>1, <2>2, OutcomeQuiet
<1>3. ASSUME NEW h \in Handlers,
             UpsertNetwork(h) \/ SkipPrune(h) \/ PruneSessions(h) \/ PruneEvents(h) \/ Notify(h) \/ Fail(h)
      PROVE  Outcome'
  <2>1. UNCHANGED <<networks, dev, open, appended, pushes, report, baseline, known, cursor, mine>>
    BY <1>3 DEF UpsertNetwork, SkipPrune, PruneSessions, PruneEvents, Notify, Fail, tables, locals, history
  <2>2. \/ pc[h] = "selected" /\ pc' = [pc EXCEPT ![h] = "locked"]
        \/ \E to \in {"pruning", "notifying", "done", "failed"} : pc' = [pc EXCEPT ![h] = to]
    BY <1>3 DEF UpsertNetwork, SkipPrune, PruneSessions, PruneEvents, Notify, Fail, Step, AfterError
  <2>3. Forward /\ \A g \in Handlers : pc'[g] = "writing" => pc[g] = "writing"
    BY <1>1, <2>1, <2>2 DEF Forward, After
  <2> QED
    BY <2>1, <2>3, OutcomeQuiet
<1>4. CASE Tick \/ UNCHANGED vars
  <2>1. UNCHANGED <<networks, dev, open, appended, pushes, pc, report, baseline, known, cursor, mine>>
    BY <1>4 DEF Tick, vars, tables, locals, history
  <2>2. Forward /\ \A g \in Handlers : pc'[g] = "writing" => pc[g] = "writing"
    BY <2>1 DEF Forward
  <2> QED
    BY <2>1, <2>2, OutcomeQuiet
<1> QED
  BY <1>2, <1>3, <1>4, OutcomeSnapshot, OutcomeTurn, OutcomeCommit DEF Next, Handle

\* The tables are what the committed pushes make of them, one after the other
\* (post_inventory).
THEOREM OutcomeInvariant == Spec => []Outcome
<1>1. Inv /\ Outcome /\ [Next]_vars => Outcome'
  BY OutcomeStep
<1> QED
  BY <1>1, OutcomeInit, InventoryInvariant, PTL DEF Spec

\* However many calls report a device, its events are those of the push that
\* listed it first, and none if that push was a baseline.
THEOREM NewDevicesOnce == Spec => []NewDeviceOnce
<1>1. Inv /\ Outcome => NewDeviceOnce
  <2> SUFFICES ASSUME Inv, Outcome, NEW n \in Nets, NEW m \in Macs
               PROVE  /\ \A i \in DOMAIN pushes[n] : FirstToList(n, i, m) =>
                           /\ Its(appended, n, m) \subseteq mine[pushes[n][i]].events
                           /\ Cardinality(Its(appended, n, m)) =
                                IF baseline[pushes[n][i]] THEN 0 ELSE Listed(pushes[n][i], m)
                      /\ Its(appended, n, m) # {} => \E i \in DOMAIN pushes[n] : FirstToList(n, i, m)
    BY DEF NewDeviceOnce, Its
  <2>1. EventsOnce(n) /\ DOMAIN pushes[n] \in SUBSET Nat
    BY DEF Outcome, Inv, Typed, TypeOK
  <2>2. ASSUME Its(appended, n, m) # {} PROVE \E i \in DOMAIN pushes[n] : FirstToList(n, i, m)
    <3> DEFINE S == {i \in DOMAIN pushes[n] : Lists(n, i, m)}
    <3>1. S # {} /\ S \subseteq Nat
      BY <2>1, <2>2 DEF EventsOnce
    <3>2. PICK i \in S : \A j \in S : i <= j
      BY <3>1, LeastNatural
    <3> QED
      BY <3>2 DEF FirstToList, Lists, RepOf
  <2> QED
    BY <2>1, <2>2 DEF EventsOnce
<1> QED
  BY <1>1, OutcomeInvariant, InventoryInvariant, PTL

-----------------------------------------------------------------------------
(* What readers make of it *)

ListedMacs(n) == UNION {MacsIn(RepOf(n, i)) : i \in DOMAIN pushes[n]}

\* A committed push's report is a list of devices.
LEMMA ReportOf ==
  ASSUME Typed, NEW n \in Nets, NEW i \in DOMAIN pushes[n], PushesOver(n)
  PROVE  /\ pushes[n][i] \in Handlers /\ RepOf(n, i) \in Seq(Device)
         /\ DOMAIN RepOf(n, i) = 1..Len(RepOf(n, i)) /\ Len(RepOf(n, i)) \in Nat
         /\ MacsIn(RepOf(n, i)) \subseteq Macs /\ OnlineIn(RepOf(n, i)) \subseteq Macs
         /\ IsFiniteSet(MacsIn(RepOf(n, i)))
<1>1. pushes[n][i] \in Handlers /\ RepOf(n, i) \in Seq(Device)
  BY DEF PushesOver, RepOf, Typed, LocalsOK
<1> DEFINE rep == RepOf(n, i)
           f == [k \in DOMAIN rep |-> rep[k].mac]
<1>2. DOMAIN rep = 1..Len(rep) /\ Len(rep) \in Nat
  BY <1>1
<1>3. \A k \in DOMAIN rep : rep[k].mac \in Macs
  <2>1. \A k \in DOMAIN rep : rep[k] \in Device
    BY <1>1, <1>2, ElementOfSeq
  <2> QED
    BY <2>1 DEF Device
<1>4. IsFiniteSet(DOMAIN rep)
  BY <1>2, FS_Interval
<1>5. f \in Surjection(DOMAIN rep, MacsIn(rep))
  BY DEF Surjection, MacsIn
<1> HIDE DEF rep, f
<1>6. IsFiniteSet(MacsIn(rep))
  BY <1>4, <1>5, FS_Surjection
<1> QED
  BY <1>1, <1>2, <1>3, <1>6 DEF rep, MacsIn, OnlineIn

\* Only finitely many devices are ever listed.
LEMMA ListedFinite ==
  ASSUME Typed, NEW n \in Nets, PushesOver(n)
  PROVE  IsFiniteSet(ListedMacs(n)) /\ ListedMacs(n) \subseteq Macs
<1> DEFINE D == DOMAIN pushes[n]
           S == {MacsIn(RepOf(n, i)) : i \in D}
           f == [i \in D |-> MacsIn(RepOf(n, i))]
<1>1. \A T \in S : IsFiniteSet(T) /\ T \subseteq Macs
  BY ReportOf
<1>2. IsFiniteSet(D)
  <2>1. D = 1..Len(pushes[n]) /\ Len(pushes[n]) \in Nat
    BY DEF Typed, TypeOK
  <2> QED
    BY <2>1, FS_Interval
<1>3. f \in Surjection(D, S)
  BY DEF Surjection
<1>4. ListedMacs(n) = UNION S
  BY DEF ListedMacs
<1> HIDE DEF D, S, f
<1>5. IsFiniteSet(S)
  BY <1>2, <1>3, FS_Surjection
<1> QED
  BY <1>1, <1>4, <1>5, FS_UNION

\* A device is in the table iff some push listed it, and then as the last word
\* on it was.
LEMMA AsLastSaid ==
  ASSUME Typed, Outcome, NEW n \in Nets, NEW m \in Macs
  PROVE  /\ dev[n][m] # "absent" <=> m \in ListedMacs(n)
         /\ m \in ListedMacs(n) => (LastSaid(n, m) <=> dev[n][m] = "on")
<1>1. PushesOver(n) /\ Serial(n) /\ DOMAIN pushes[n] \subseteq Nat
  BY DEF Outcome, Typed, TypeOK
<1>2. m \in ListedMacs(n) <=> \E i \in DOMAIN pushes[n] : Lists(n, i, m)
  BY DEF ListedMacs, Lists
<1>3. CASE m \notin ListedMacs(n)
  BY <1>1, <1>2, <1>3 DEF Serial
<1>4. CASE m \in ListedMacs(n)
  <2>1. PICK i \in DOMAIN pushes[n] :
             /\ Lists(n, i, m) /\ \A j \in DOMAIN pushes[n] : Lists(n, j, m) => j <= i
             /\ StatusAfter(RepOf(n, i), Len(RepOf(n, i)), m, "absent", dev[n][m])
    BY <1>1, <1>2, <1>4 DEF Serial
  <2> DEFINE rep == RepOf(n, i)
             all == Entries(rep, Len(rep), m)
  <2>2. DOMAIN rep = 1..Len(rep) /\ Len(rep) \in Nat
    BY <1>1, ReportOf
  <2>3. all # {}
    BY <2>1, <2>2 DEF Lists, MacsIn, Entries
  <2>4. PICK k \in all : (\A j \in all : j <= k) /\ dev[n][m] = IF rep[k].online THEN "on" ELSE "off"
    BY <2>1, <2>3 DEF StatusAfter
  <2>5. i = CHOOSE x \in DOMAIN pushes[n] :
              Lists(n, x, m) /\ \A j \in DOMAIN pushes[n] : Lists(n, j, m) => j <= x
    <3>1. \A x \in DOMAIN pushes[n] :
            Lists(n, x, m) /\ (\A j \in DOMAIN pushes[n] : Lists(n, j, m) => j <= x) => x = i
      BY <1>1, <2>1
    <3> QED
      BY <2>1, <3>1
  <2>6. k = CHOOSE x \in DOMAIN rep : rep[x].mac = m /\ \A j \in DOMAIN rep : rep[j].mac = m => j <= x
    <3>1. k \in DOMAIN rep /\ rep[k].mac = m /\ \A j \in DOMAIN rep : rep[j].mac = m => j <= k
      BY <2>2, <2>4 DEF Entries
    <3>2. \A x \in DOMAIN rep :
            rep[x].mac = m /\ (\A j \in DOMAIN rep : rep[j].mac = m => j <= x) => x = k
      BY <2>2, <3>1
    <3> QED
      BY <3>1, <3>2
  <2>7. LastSaid(n, m) = rep[k].online
    BY <2>5, <2>6 DEF LastSaid, Lists, RepOf
  <2>8. rep[k].online \in BOOLEAN
    <3>1. rep \in Seq(Device) /\ k \in 1..Len(rep)
      BY <1>1, <2>2, <2>4, ReportOf DEF Entries
    <3>2. rep[k] \in Device
      BY <3>1, ElementOfSeq
    <3> QED
      BY <3>2 DEF Device
  <2> QED
    BY <1>4, <2>4, <2>7, <2>8
<1> QED
  BY <1>3, <1>4

\* Rows that are told apart by their device are as many as the devices.
LEMMA RowPerDevice ==
  ASSUME NEW S, IsFiniteSet(S), NEW rows, \A r \in rows : r.mac \in S,
         \A r, u \in rows : r.mac = u.mac => r = u, \A m \in S : \E r \in rows : r.mac = m
  PROVE  Cardinality(rows) = Cardinality(S)
<1> DEFINE f == [r \in rows |-> r.mac]
<1>1. f \in [rows -> S] /\ \A r \in rows : f[r] = r.mac
  OBVIOUS
<1> HIDE DEF f
<1>2. f \in Injection(rows, S) /\ f \in Surjection(rows, S)
  BY <1>1 DEF Injection, IsInjective, Surjection
<1> QED
  BY <1>2, FS_Injection

\* The three views of a network.
LEMMA SerialViews ==
  ASSUME Typed, Outcome PROVE SerialOutcome
<1> SUFFICES
      ASSUME NEW n \in Nets, NEW listed, listed = ListedMacs(n), NEW online, online = {m \in listed : LastSaid(n, m)},
             NEW last, last = Len(pushes[n])
      PROVE  /\ GetDevices(TenantOf[n], n) = {[mac |-> m, is_online |-> m \in online] : m \in listed}
             /\ {s \in GetNetworks(TenantOf[n]) : s.id = n} =
                  IF last = 0 /\ n \notin OldNets THEN {} ELSE
                  {[id |-> n, device_count |-> Cardinality(listed), online_count |-> Cardinality(online)]}
             /\ {s.mac : s \in {x \in GetAudit(n, 0, MaxTime).sessions : x.to = NoTime}} =
                  IF last = 0 THEN {} ELSE OnlineIn(report[pushes[n][last]])
  BY DEF SerialOutcome, ListedMacs, RepOf
<1>1. PushesOver(n) /\ Serial(n)
  BY DEF Outcome
<1>2. IsFiniteSet(listed) /\ listed \subseteq Macs
  BY <1>1, ListedFinite
<1>3. \A m \in Macs : (dev[n][m] # "absent" <=> m \in listed) /\ (m \in listed => (m \in online <=> dev[n][m] = "on"))
  BY AsLastSaid
<1>4. online \in SUBSET listed /\ IsFiniteSet(online)
  BY <1>2, FS_Subset
<1> DEFINE t == TenantOf[n]
           row(m) == [mac |-> m, is_online |-> m \in online]
<1>5. GetDevices(t, n) = {row(m) : m \in listed}
  <2>1. {x \in Macs : TenantOf[n] = t /\ dev[n][x] # "absent"} = listed
    BY <1>2, <1>3
  <2>2. GetDevices(t, n) = {[mac |-> m, is_online |-> dev[n][m] = "on"] : m \in listed}
    BY <2>1 DEF GetDevices
  <2>3. \A m \in listed : (dev[n][m] = "on") = (m \in online)
    BY <1>2, <1>3
  <2> QED
    BY <2>2, <2>3
<1>6. Cardinality(GetDevices(t, n)) = Cardinality(listed)
  <2>1. /\ \A r \in GetDevices(t, n) : r.mac \in listed /\ r = row(r.mac)
        /\ \A m \in listed : row(m) \in GetDevices(t, n) /\ row(m).mac = m
    BY <1>5
  <2> HIDE DEF row
  <2> QED
    BY <1>2, <2>1, RowPerDevice
<1>7. Cardinality({d \in GetDevices(t, n) : d.is_online}) = Cardinality(online)
  <2> DEFINE live == {d \in GetDevices(t, n) : d.is_online}
  <2>1. \A m : row(m).mac = m /\ (row(m).is_online <=> m \in online)
    OBVIOUS
  <2> HIDE DEF row
  <2>2. /\ \A r \in live : r.mac \in online /\ r = row(r.mac)
        /\ \A m \in online : row(m) \in live /\ row(m).mac = m
    BY <1>4, <1>5, <2>1
  <2> HIDE DEF live
  <2>3. Cardinality(live) = Cardinality(online)
    BY <1>4, <2>2, RowPerDevice
  <2> QED
    BY <2>3 DEF live
<1>8. {s \in GetNetworks(t) : s.id = n} =
        IF n \in networks
          THEN {[id |-> n, device_count |-> Cardinality(listed), online_count |-> Cardinality(online)]}
          ELSE {}
  <2> DEFINE net(k) == [id |-> k, device_count |-> Cardinality(GetDevices(t, k)),
                        online_count |-> Cardinality({d \in GetDevices(t, k) : d.is_online})]
             its == {x \in networks : TenantOf[x] = t}
  <2>1. GetNetworks(t) = {net(k) : k \in its}
    BY DEF GetNetworks
  <2>2. net(n) = [id |-> n, device_count |-> Cardinality(listed), online_count |-> Cardinality(online)]
    BY <1>6, <1>7
  <2>3. \A k : net(k).id = k
    OBVIOUS
  <2>4. n \in its <=> n \in networks
    OBVIOUS
  <2> HIDE DEF net, its
  <2>5. {s \in GetNetworks(t) : s.id = n} = IF n \in networks THEN {net(n)} ELSE {}
    BY <2>1, <2>3, <2>4
  <2> QED
    BY <2>2, <2>5
<1>9. {s.mac : s \in {x \in GetAudit(n, 0, MaxTime).sessions : x.to = NoTime}} = {m \in Macs : open[n][m] # NoTime}
  <2>1. \A m \in Macs : open[n][m] # NoTime <=> open[n][m] \in 0..MaxTime
    BY InventoryConstants DEF InventoryConstants, Typed, TypeOK, NoTime
  <2>2. \A s \in closed : s.to # NoTime
    BY InventoryConstants DEF InventoryConstants, Typed, TypeOK, NoTime
  <2>3. {x \in GetAudit(n, 0, MaxTime).sessions : x.to = NoTime} =
          {[mac |-> m, from |-> open[n][m], to |-> NoTime] : m \in {x \in Macs : open[n][x] # NoTime}}
    BY <2>1, <2>2 DEF GetAudit
  <2> DEFINE live(m) == [mac |-> m, from |-> open[n][m], to |-> NoTime]
             started == {x \in Macs : open[n][x] # NoTime}
  <2>4. \A m : live(m).mac = m
    OBVIOUS
  <2>5. {x \in GetAudit(n, 0, MaxTime).sessions : x.to = NoTime} = {live(m) : m \in started}
    BY <2>3
  <2> HIDE DEF live, started
  <2>6. {s.mac : s \in {live(m) : m \in started}} = started
    BY <2>4
  <2> QED
    BY <2>5, <2>6 DEF started
<1>10. {m \in Macs : open[n][m] # NoTime} = IF last = 0 THEN {} ELSE OnlineIn(report[pushes[n][last]])
  <2>1. last \in Nat /\ DOMAIN pushes[n] = 1..last
    BY DEF Typed, TypeOK
  <2>2. last # 0 => last \in DOMAIN pushes[n] /\ OnlineIn(RepOf(n, last)) \subseteq Macs
    BY <1>1, <2>1, ReportOf
  <2> QED
    BY <1>1, <2>2 DEF Serial, RepOf
<1>11. n \in networks <=> ~(last = 0 /\ n \notin OldNets)
  BY <1>1 DEF Serial
<1> QED
  BY <1>5, <1>8, <1>9, <1>10, <1>11

\* Overlapping and failed pushes show readers what the committed ones would
\* have, one after the other (get_devices, get_networks, get_audit).
THEOREM PushesSerial == Spec => []SerialOutcome
BY OutcomeInvariant, InventoryInvariant, SerialViews, PTL DEF Inv
=============================================================================
