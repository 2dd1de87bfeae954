-------------------------- MODULE Inventory_proofs --------------------------
(***************************************************************************)
(* Proofs about Inventory: whatever pushes overlap, fail and prune, the    *)
(* events stay a chain that an auditor can check, and the table of events  *)
(* is the log that AuditLog promises.                                      *)
(*                                                                         *)
(* First come facts about sets of events alone, then what the holder of a  *)
(* network's lock knows, then the theorems.                                *)
(***************************************************************************)
EXTENDS Inventory, Least

-----------------------------------------------------------------------------
(* Sets of events *)

\* Sequence numbers and times are numbers.
Numbered(rows) == \A e \in rows : e.seq \in Nat /\ e.ts \in Nat

\* A number is used once, and the order of numbers is that of times.
Ordered(rows) ==
  \A e, f \in rows : (e.seq = f.seq => e = f) /\ (e.seq < f.seq => e.ts <= f.ts)

\* Every row has the hash of the row before it.
Linked(rows) == \A e, f \in rows : Follows(f, e, rows) => f.prev = e.row

\* The first row has the empty hash before it.
Rooted(rows) == \A f \in rows : (\A e \in rows : f.seq <= e.seq) => f.prev = NoHash

\* Every row has the hash of its fields.
Hashed(rows) == \A f \in rows : f.row = Hash(f.prev, f.net, f.mac, f.ts)

\* The hash is the last row's, if there is one.
HeadIs(rows, hash) == \A e \in rows : (\A f \in rows : f.seq <= e.seq) => hash = e.row

\* Where a writer appends.
Tip(rows, hash) == Linked(rows) /\ HeadIs(rows, hash)

\* A row after all others that has the last one's hash makes a longer chain.
LEMMA RowAppended ==
  ASSUME NEW rows, NEW e, NEW hash, Numbered(rows), Numbered({e}),
         \A f \in rows : f.seq < e.seq, e.prev = hash
  PROVE  /\ Tip(rows, hash) => Tip(rows \cup {e}, e.row)
         /\ Rooted(rows) /\ (rows = {} => hash = NoHash) => Rooted(rows \cup {e})
         /\ Ordered(rows) /\ (\A f \in rows : f.ts <= e.ts) => Ordered(rows \cup {e})
<1> USE DEF Numbered
<1>1. ASSUME Tip(rows, hash) PROVE Tip(rows \cup {e}, e.row)
  <2>1. ASSUME NEW f \in rows \cup {e}, NEW g \in rows \cup {e}, Follows(g, f, rows \cup {e})
        PROVE  g.prev = f.row
    <3>1. CASE g = e
      <4>1. f \in rows /\ \A k \in rows : k.seq <= f.seq
        BY <2>1, <3>1 DEF Follows
      <4> QED
        BY <1>1, <3>1, <4>1 DEF Tip, HeadIs
    <3>2. CASE g # e
      <4>1. f \in rows /\ g \in rows /\ Follows(g, f, rows)
        BY <2>1, <3>2 DEF Follows
      <4> QED
        BY <1>1, <4>1 DEF Tip, Linked
    <3> QED
      BY <3>1, <3>2
  <2>2. HeadIs(rows \cup {e}, e.row)
    BY DEF HeadIs
  <2> QED
    BY <2>1, <2>2 DEF Tip, Linked
<1>2. ASSUME Rooted(rows), rows = {} => hash = NoHash PROVE Rooted(rows \cup {e})
  BY <1>2 DEF Rooted
<1>3. ASSUME Ordered(rows), \A f \in rows : f.ts <= e.ts PROVE Ordered(rows \cup {e})
  BY <1>3 DEF Ordered
<1> QED
  BY <1>1, <1>2, <1>3

\* What is left of a chain when rows go from its old end is still one.
LEMMA SuffixKept ==
  ASSUME NEW rows, NEW kept \in SUBSET rows, Numbered(rows),
         \A e \in kept, f \in rows : f.seq > e.seq => f \in kept
  PROVE  /\ Linked(rows) => Linked(kept)
         /\ \A hash : HeadIs(rows, hash) => HeadIs(kept, hash)
<1> USE DEF Numbered
<1>1. ASSUME NEW e \in kept, NEW f \in kept, Follows(f, e, kept) PROVE Follows(f, e, rows)
  BY <1>1 DEF Follows
<1>2. ASSUME NEW e \in kept, \A f \in kept : f.seq <= e.seq PROVE \A f \in rows : f.seq <= e.seq
  BY <1>2
<1>3. Linked(rows) => Linked(kept)
  BY <1>1 DEF Linked
<1>4. ASSUME NEW hash, HeadIs(rows, hash) PROVE HeadIs(kept, hash)
  BY <1>2, <1>4 DEF HeadIs
<1> QED
  BY <1>3, <1>4

\* So are the rows between two times.
LEMMA PageLinked ==
  ASSUME NEW rows, Numbered(rows), Ordered(rows), Linked(rows), NEW from \in Int, NEW to \in Int
  PROVE  Linked({e \in rows : e.ts \in from..to})
<1> DEFINE page == {e \in rows : e.ts \in from..to}
<1>1. ASSUME NEW e \in page, NEW f \in page, Follows(f, e, page) PROVE Follows(f, e, rows)
  <2>1. ASSUME NEW g \in rows, e.seq < g.seq, g.seq < f.seq PROVE g \in page
    BY <2>1 DEF Ordered, Numbered
  <2> QED
    BY <1>1, <2>1 DEF Follows
<1> QED
  BY <1>1 DEF Linked

\* There is a next row after every row but the last.
LEMMA NextRow ==
  ASSUME NEW rows, Numbered(rows), NEW e \in rows, ~ \A f \in rows : f.seq <= e.seq
  PROVE  \E f \in rows : Follows(f, e, rows)
<1> DEFINE S == {f.seq : f \in {g \in rows : e.seq < g.seq}}
<1>1. S \in SUBSET Nat /\ S # {}
  BY DEF Numbered
<1>2. PICK n \in S : \A k \in S : n <= k
  <2> HIDE DEF S
  <2> QED
    BY <1>1, LeastNatural
<1>3. PICK f \in rows : e.seq < f.seq /\ f.seq = n
  OBVIOUS
<1>4. \A g \in rows : e.seq < g.seq => f.seq <= g.seq
  BY <1>2, <1>3
<1> QED
  BY <1>3, <1>4 DEF Follows, Numbered

\* There is a row before every row but the first.
LEMMA PreviousRow ==
  ASSUME NEW rows, Numbered(rows), NEW f \in rows, ~ \A e \in rows : f.seq <= e.seq
  PROVE  \E e \in rows : Follows(f, e, rows)
<1> DEFINE S == {e.seq : e \in {g \in rows : g.seq < f.seq}}
<1>1. S \in SUBSET Nat /\ S # {} /\ f.seq \in Nat /\ \A k \in S : k <= f.seq
  BY DEF Numbered
<1>2. PICK n \in S : \A k \in S : k <= n
  <2> HIDE DEF S
  <2> QED
    BY <1>1, GreatestNatural
<1>3. PICK e \in rows : e.seq < f.seq /\ e.seq = n
  OBVIOUS
<1>4. \A g \in rows : g.seq < f.seq => g.seq <= e.seq
  BY <1>2, <1>3
<1> QED
  BY <1>3, <1>4 DEF Follows, Numbered

-----------------------------------------------------------------------------
(* Tampering *)

\* Events have the fields of a row of the table.
Shaped(rows) ==
  \A e \in rows :
    e = [net |-> e.net, mac |-> e.mac, ts |-> e.ts, seq |-> e.seq, prev |-> e.prev, row |-> e.row]

\* In an accepted chain no row has the hash of the row before it: a first pair
\* of such rows would follow another one, or the hash of a first row would be
\* the empty hash.
LEMMA NeighboursDiffer ==
  ASSUME NEW n, NEW table, Verifies(n, table), Numbered(EventsOf(n, table)),
         NEW e \in EventsOf(n, table), NEW f \in EventsOf(n, table),
         Follows(f, e, EventsOf(n, table))
  PROVE  f.row # e.row
<1> DEFINE rows == EventsOf(n, table)
           Bad(x) == \E y \in rows : Follows(y, x, rows) /\ y.row = x.row
           S == {x.seq : x \in {z \in rows : Bad(z)}}
<1>1. \A x \in rows : x.row = <<x.prev, n, x.mac, x.ts>>
  BY DEF Verifies, Hash
<1>2. \A x, y \in rows : Follows(y, x, rows) => y.prev = x.row
  BY DEF Verifies
<1>3. \A x \in rows : (\A y \in rows : x.seq <= y.seq) => x.prev = <<>>
  BY DEF Verifies, NoHash
<1>4. SUFFICES ASSUME Bad(e) PROVE FALSE
  OBVIOUS
<1>5. S \in SUBSET Nat /\ S # {}
  BY <1>4 DEF Numbered
<1>6. PICK k \in S : \A l \in S : k <= l
  <2> HIDE DEF S
  <2> QED
    BY <1>5, LeastNatural
<1>7. PICK x \in rows : Bad(x) /\ x.seq = k
  OBVIOUS
<1>8. x.prev = x.row
  <2>1. PICK y \in rows : Follows(y, x, rows) /\ y.row = x.row
    BY <1>7
  <2> HIDE DEF rows
  <2>2. y.prev = x.row /\ y.prev = x.prev
    BY <1>1, <1>2, <2>1
  <2> QED
    BY <2>2
<1>9. CASE \A y \in rows : x.seq <= y.seq
  <2> HIDE DEF rows
  <2> QED
    BY <1>1, <1>3, <1>8, <1>9
<1>10. CASE ~ \A y \in rows : x.seq <= y.seq
  <2>1. PICK w \in rows : Follows(x, w, rows)
    BY <1>10, PreviousRow
  <2>2. w.row = x.row
    BY <1>2, <1>8, <2>1
  <2>3. Bad(w) /\ w.seq < x.seq
    BY <2>1, <2>2 DEF Follows
  <2>4. w.seq \in S
    BY <2>3
  <2>5. k <= w.seq /\ w.seq \in Nat /\ k \in Nat
    BY <1>5, <1>6, <2>4
  <2> HIDE DEF S, Bad
  <2> QED
    BY <1>7, <2>3, <2>5
<1> QED
  BY <1>9, <1>10

\* A chain with a row missing before its end is not accepted.
LEMMA MissingRow ==
  ASSUME NEW n, NEW table, Verifies(n, table), Numbered(EventsOf(n, table)),
         Ordered(EventsOf(n, table)), NEW e \in EventsOf(n, table),
         ~ \A f \in EventsOf(n, table) : f.seq <= e.seq
  PROVE  ~ Verifies(n, table \ {e})
<1> DEFINE rows == EventsOf(n, table)
           others == EventsOf(n, table \ {e})
<1>1. SUFFICES ASSUME Verifies(n, table \ {e}) PROVE FALSE
  OBVIOUS
<1>2. others = rows \ {e}
  BY DEF EventsOf
<1>3. PICK f \in rows : Follows(f, e, rows)
  BY NextRow
<1>4. f \in others /\ f.prev = e.row /\ f.row # e.row
  <2>1. f # e
    BY <1>3 DEF Follows, Numbered
  <2>2. f.prev = e.row
    BY <1>3 DEF Verifies
  <2>3. f.row # e.row
    BY <1>3, NeighboursDiffer
  <2> QED
    BY <1>2, <2>1, <2>2, <2>3
<1>5. \A x \in rows : x.row = <<x.prev, n, x.mac, x.ts>>
  BY DEF Verifies, Hash
<1>6. CASE \A y \in rows : e.seq <= y.seq
  <2>1. \A y \in others : f.seq <= y.seq
    BY <1>2, <1>3, <1>6 DEF Follows, Numbered, Ordered
  <2>2. f.prev = <<>>
    BY <1>1, <1>4, <2>1 DEF Verifies, NoHash
  <2>3. e.row = <<e.prev, n, e.mac, e.ts>>
    BY <1>5
  <2>4. e.row # <<>>
    BY <2>3, SMT
  <2> QED
    BY <1>4, <2>2, <2>4
<1>7. CASE ~ \A y \in rows : e.seq <= y.seq
  <2>1. PICK d \in rows : Follows(e, d, rows)
    BY <1>7, PreviousRow
  <2>2. d \in others /\ Follows(f, d, others)
    <3>1. /\ e \in rows /\ d.seq < e.seq /\ e.seq < f.seq
          /\ \A g \in rows : ~ (d.seq < g.seq /\ g.seq < e.seq) /\ ~ (e.seq < g.seq /\ g.seq < f.seq)
      BY <1>3, <2>1 DEF Follows
    <3>2. \A g \in rows : g.seq = e.seq => g = e
      BY DEF Ordered
    <3>3. \A g \in rows : g.seq \in Nat
      BY DEF Numbered
    <3> HIDE DEF rows, others
    <3>4. \A g \in others : ~ (d.seq < g.seq /\ g.seq < f.seq)
      BY <1>2, <3>1, <3>2, <3>3
    <3>5. d \in others /\ d.seq < f.seq
      BY <1>2, <2>1, <3>1, <3>3
    <3> QED
      BY <3>4, <3>5 DEF Follows
  <2>3. f.prev = d.row
    BY <1>1, <1>4, <2>2 DEF Verifies
  <2> QED
    BY <1>4, <2>1, <2>3, NeighboursDiffer
<1> QED
  BY <1>6, <1>7

\* Nor is one with a row that does not have the hash of its fields.
LEMMA UnhashedRow ==
  ASSUME NEW n, NEW table, NEW c \in table, c.net = n, c.row # Hash(c.prev, n, c.mac, c.ts)
  PROVE  ~ Verifies(n, table)
BY DEF Verifies, EventsOf

\* Nor is one with a row of another hash in the place of a row before the last.
LEMMA ReplacedRow ==
  ASSUME NEW n, NEW table, Verifies(n, table), Numbered(EventsOf(n, table)),
         NEW e \in EventsOf(n, table), NEW c, c.net = n, c.seq = e.seq, c.row # e.row,
         ~ \A f \in EventsOf(n, table) : f.seq <= e.seq
  PROVE  ~ Verifies(n, (table \ {e}) \cup {c})
<1> DEFINE rows == EventsOf(n, table)
           changed == EventsOf(n, (table \ {e}) \cup {c})
<1>1. SUFFICES ASSUME Verifies(n, (table \ {e}) \cup {c}) PROVE FALSE
  OBVIOUS
<1>2. changed = (rows \ {e}) \cup {c}
  BY DEF EventsOf
<1>3. PICK f \in rows : Follows(f, e, rows)
  BY NextRow
<1>4. f \in changed /\ Follows(f, c, changed)
  BY <1>2, <1>3 DEF Follows, Numbered
<1>5. f.prev = c.row
  BY <1>1, <1>2, <1>4 DEF Verifies
<1>6. f.prev = e.row
  BY <1>3 DEF Verifies
<1> QED
  BY <1>5, <1>6

\* What TamperEvident says of a table whose events are numbered in order.
LEMMA TamperingShows ==
  ASSUME \A n \in Nets : Numbered(EventsOf(n, events)) /\ Ordered(EventsOf(n, events)),
         Shaped(events)
  PROVE  TamperEvident
<1> SUFFICES ASSUME NEW n \in Nets, Verifies(n, events), NEW e \in EventsOf(n, events)
             PROVE  LET others == events \ {e}
                        isLast == \A f \in EventsOf(n, events) : f.seq <= e.seq
                    IN
                    /\ ~isLast => ~Verifies(n, others)
                    /\ \A m \in Macs \ {e.mac} :
                         /\ ~Verifies(n, others \cup {[e EXCEPT !.mac = m]})
                         /\ ~isLast => ~Verifies(n, others \cup
                                          {[e EXCEPT !.mac = m, !.row = Hash(e.prev, n, m, e.ts)]})
  BY DEF TamperEvident
<1> DEFINE isLast == \A f \in EventsOf(n, events) : f.seq <= e.seq
<1>0. /\ e.net = n
      /\ e = [net |-> e.net, mac |-> e.mac, ts |-> e.ts, seq |-> e.seq, prev |-> e.prev, row |-> e.row]
  BY DEF Shaped, EventsOf
<1>1. ~isLast => ~Verifies(n, events \ {e})
  BY MissingRow
<1>2. ASSUME NEW m \in Macs \ {e.mac}
      PROVE  ~Verifies(n, (events \ {e}) \cup {[e EXCEPT !.mac = m]})
  <2> DEFINE c == [e EXCEPT !.mac = m]
  <2>1. /\ c.net = n /\ c.seq = e.seq /\ c.prev = e.prev /\ c.row = e.row /\ c.ts = e.ts
        /\ c.mac = m
    BY <1>0
  <2>2. e.row = <<e.prev, n, e.mac, e.ts>>
    BY DEF Verifies, Hash
  <2>3. c.row # Hash(c.prev, n, c.mac, c.ts)
    BY <2>1, <2>2 DEF Hash
  <2>4. ASSUME NEW x, x = c PROVE ~Verifies(n, (events \ {e}) \cup {x})
    <3>1. x.net = n /\ x.seq = e.seq /\ x.row # Hash(x.prev, n, x.mac, x.ts)
      BY <2>1, <2>3, <2>4
    <3> QED
      BY <3>1, UnhashedRow
  <2> QED
    BY <2>4
<1>3. ASSUME NEW m \in Macs \ {e.mac}, ~isLast
      PROVE  ~Verifies(n, (events \ {e}) \cup
                            {[e EXCEPT !.mac = m, !.row = Hash(e.prev, n, m, e.ts)]})
  <2> DEFINE c == [e EXCEPT !.mac = m, !.row = Hash(e.prev, n, m, e.ts)]
  <2>1. c.net = n /\ c.seq = e.seq /\ c.row = <<e.prev, n, m, e.ts>>
    BY <1>0 DEF Hash
  <2>2. e.row = <<e.prev, n, e.mac, e.ts>>
    BY DEF Verifies, Hash
  <2>3. c.row # e.row
    BY <2>1, <2>2
  <2>4. ASSUME NEW x, x = c PROVE ~Verifies(n, (events \ {e}) \cup {x})
    <3>1. x.net = n /\ x.seq = e.seq /\ x.row # e.row
      BY <2>1, <2>3, <2>4
    <3> QED
      BY <1>3, <3>1, ReplacedRow
  <2> QED
    BY <2>4
<1> QED
  BY <1>1, <1>2, <1>3

-----------------------------------------------------------------------------
(* Types *)

Device == [mac : Macs, online : BOOLEAN]

Status == {"absent", "off", "on"}
Times  == 0..MaxTime \cup {NoTime}

Mine(h) == mine[h].events

\* The shape of the locals that TypeOK does not mention.
LocalsOK ==
  /\ report \in [Handlers -> Seq(Device)]
  /\ prev = [h \in Handlers |-> prev[h]]
  /\ mine = [h \in Handlers |->
               [dev |-> mine[h].dev, open |-> mine[h].open, events |-> mine[h].events]]

\* What a handler has written so far.
WrittenOK ==
  \A h \in Handlers : pc[h] = "writing" =>
    /\ mine[h].dev \in [Macs -> Status] /\ mine[h].open \in [Macs -> Times]
    /\ \A e \in Mine(h) :
         e.net = NetOf[h] /\ e.mac \in Macs /\ e.ts = at[h] /\ e.seq \in 1..(nextSeq - 1)

Typed == TypeOK /\ LocalsOK /\ WrittenOK

\* At first there is no push, and the tables are empty.
LEMMA TypedInit == Init => Typed
<1> SUFFICES ASSUME Init PROVE Typed
  OBVIOUS
<1> USE InventoryConstants DEF InventoryConstants
<1>1. TypeOK
  BY DEF Init, TypeOK, NoTime, InTransaction, Ended
<1>2. LocalsOK
  BY DEF Init, LocalsOK, NoRows, Device
<1>3. WrittenOK
  BY DEF Init, WrittenOK
<1> QED
  BY <1>1, <1>2, <1>3 DEF Typed

\* What one turn of the loop does to a handler's view.
LEMMA TurnEffect ==
  ASSUME Typed, NEW h \in Handlers, WriteDevice(h)
  PROVE  LET d == report[h][cursor[h]]
             isNew == ~baseline[h] /\ d.mac \notin known[h]
         IN
         /\ pc[h] = "writing" /\ cursor[h] \in DOMAIN report[h] /\ d \in Device
         /\ mine' = [mine EXCEPT ![h] = mine'[h]]
         /\ mine'[h] = [dev |-> mine'[h].dev, open |-> mine'[h].open, events |-> mine'[h].events]
         /\ mine'[h].dev = [mine[h].dev EXCEPT ![d.mac] = IF d.online THEN "on" ELSE "off"]
         /\ mine'[h].open = [mine[h].open EXCEPT ![d.mac] =
                              IF d.online /\ @ = NoTime THEN at[h] ELSE @]
         /\ \/ /\ isNew
               /\ mine'[h].events = Mine(h) \cup {EventOf(h, d.mac)}
               /\ nextSeq' = nextSeq + 1
               /\ prev' = [prev EXCEPT ![h] = EventOf(h, d.mac).row]
            \/ ~isNew /\ mine'[h].events = Mine(h) /\ nextSeq' = nextSeq /\ prev' = prev
         /\ \A g \in Handlers \ {h} : mine'[g] = mine[g]
<1> DEFINE d == report[h][cursor[h]]
           isNew == ~baseline[h] /\ d.mac \notin known[h]
<1>1. pc[h] = "writing" /\ cursor[h] \in DOMAIN report[h]
  BY DEF WriteDevice
<1>2. d \in Device
  BY <1>1 DEF Typed, LocalsOK
<1>3. mine[h] = [dev |-> mine[h].dev, open |-> mine[h].open, events |-> mine[h].events]
      /\ DOMAIN mine = Handlers
  BY DEF Typed, LocalsOK
<1>4. mine[h].dev \in [Macs -> Status] /\ mine[h].open \in [Macs -> Times]
  BY <1>1 DEF Typed, WrittenOK
<1>5. mine' = [mine EXCEPT
       ![h].dev[d.mac] = IF d.online THEN "on" ELSE "off",
       ![h].open[d.mac] = IF d.online /\ @ = NoTime THEN at[h] ELSE @,
       ![h].events = IF isNew THEN @ \cup {EventOf(h, d.mac)} ELSE @]
  BY DEF WriteDevice
<1> HIDE DEF d, isNew
<1>6. /\ mine' = [mine EXCEPT ![h] = mine'[h]]
      /\ \A g \in Handlers \ {h} : mine'[g] = mine[g]
  BY <1>3, <1>5
<1>7. /\ mine'[h] = [dev |-> mine'[h].dev, open |-> mine'[h].open, events |-> mine'[h].events]
      /\ mine'[h].dev = [mine[h].dev EXCEPT ![d.mac] = IF d.online THEN "on" ELSE "off"]
      /\ mine'[h].open = [mine[h].open EXCEPT ![d.mac] =
                              IF d.online /\ @ = NoTime THEN at[h] ELSE @]
      /\ mine'[h].events = IF isNew THEN Mine(h) \cup {EventOf(h, d.mac)} ELSE Mine(h)
  BY <1>3, <1>4, <1>5 DEF Mine
<1>8. /\ nextSeq' = IF isNew THEN nextSeq + 1 ELSE nextSeq
      /\ prev' = IF isNew THEN [prev EXCEPT ![h] = EventOf(h, d.mac).row] ELSE prev
  BY DEF WriteDevice, HeadAfter, d, isNew
<1>9. \/ /\ isNew
         /\ mine'[h].events = Mine(h) \cup {EventOf(h, d.mac)}
         /\ nextSeq' = nextSeq + 1
         /\ prev' = [prev EXCEPT ![h] = EventOf(h, d.mac).row]
      \/ ~isNew /\ mine'[h].events = Mine(h) /\ nextSeq' = nextSeq /\ prev' = prev
  <2>1. CASE isNew
    BY <1>7, <1>8, <2>1
  <2>2. CASE ~isNew
    BY <1>7, <1>8, <2>2
  <2> QED
    BY <2>1, <2>2
<1> QED
  BY <1>1, <1>2, <1>6, <1>7, <1>9 DEF d, isNew

\* A turn of the loop keeps the types.
LEMMA TypedTurn ==
  ASSUME Typed, NEW h \in Handlers, WriteDevice(h)
  PROVE  Typed'
<1> DEFINE d == report[h][cursor[h]]
           e == EventOf(h, d.mac)
<1>1. /\ UNCHANGED <<clock, networks, dev, open, closed, events, lock, pc, report, baseline, known,
                    at, announced, appended, pushes>>
      /\ nextSeq' \in {nextSeq, nextSeq + 1}
      /\ cursor' = [cursor EXCEPT ![h] = @ + 1]
      /\ prev' \in {prev, [prev EXCEPT ![h] = e.row]}
  BY DEF WriteDevice, tables, history, HeadAfter
<1>2. TypeOK'
  BY <1>1 DEF Typed, TypeOK
<1>3. LocalsOK'
  <2>1. mine' = [mine EXCEPT ![h] = mine'[h]]
        /\ mine'[h] = [dev |-> mine'[h].dev, open |-> mine'[h].open, events |-> mine'[h].events]
    BY TurnEffect
  <2>2. mine' = [g \in Handlers |->
               [dev |-> mine'[g].dev, open |-> mine'[g].open, events |-> mine'[g].events]]
    <3>1. \A g \in Handlers :
            mine[g] = [dev |-> mine[g].dev, open |-> mine[g].open, events |-> mine[g].events]
      BY DEF Typed, LocalsOK
    <3>2. mine' = [g \in Handlers |-> mine'[g]] /\ \A g \in Handlers \ {h} : mine'[g] = mine[g]
      BY <2>1, TurnEffect DEF Typed, LocalsOK
    <3>3. \A g \in Handlers :
            mine'[g] = [dev |-> mine'[g].dev, open |-> mine'[g].open, events |-> mine'[g].events]
      BY <2>1, <3>1, <3>2
    <3> QED
      BY <3>2, <3>3
  <2>3. prev' = [g \in Handlers |-> prev'[g]]
    BY <1>1 DEF Typed, LocalsOK
  <2> QED
    BY <1>1, <2>2, <2>3 DEF Typed, LocalsOK
<1>4. WrittenOK'
  <2> SUFFICES ASSUME NEW g \in Handlers, pc[g] = "writing"
               PROVE  /\ mine'[g].dev \in [Macs -> Status] /\ mine'[g].open \in [Macs -> Times]
                      /\ \A x \in mine'[g].events : x.net = NetOf[g] /\ x.mac \in Macs /\ x.ts = at[g]
                                                   /\ x.seq \in 1..(nextSeq' - 1)
    BY <1>1 DEF WrittenOK, Mine
  <2>1. /\ mine[g].dev \in [Macs -> Status] /\ mine[g].open \in [Macs -> Times]
        /\ \A x \in Mine(g) : x.net = NetOf[g] /\ x.mac \in Macs /\ x.ts = at[g]
                                                   /\ x.seq \in 1..(nextSeq - 1)
    BY DEF Typed, WrittenOK
  <2>2. nextSeq \in Nat /\ at[h] \in 0..MaxTime /\ MaxTime \in Nat
    BY InventoryConstants DEF Typed, TypeOK, InventoryConstants
  <2>3. CASE g # h
    <3>1. mine'[g] = mine[g]
      BY <2>3, TurnEffect
    <3> QED
      BY <1>1, <2>1, <2>2, <3>1 DEF Mine
  <2>4. CASE g = h
    <3>1. d \in Device /\ mine'[h].dev = [mine[h].dev EXCEPT ![d.mac] = IF d.online THEN "on" ELSE "off"]
      BY TurnEffect
    <3>2. mine'[h].open = [mine[h].open EXCEPT ![d.mac] =
                              IF d.online /\ @ = NoTime THEN at[h] ELSE @]
      BY TurnEffect
    <3>3. mine'[h].dev \in [Macs -> Status]
      BY <2>1, <2>4, <3>1 DEF Status, Device
    <3>4. mine'[h].open \in [Macs -> Times]
      <4> HIDE DEF d
      <4> QED
        BY <2>1, <2>2, <2>4, <3>1, <3>2 DEF Times, Device
    <3>5. /\ e.net = NetOf[h] /\ e.mac = d.mac /\ e.mac \in Macs /\ e.ts = at[h] /\ e.seq = nextSeq
      BY <3>1 DEF EventOf, Device
    <3>6. \/ mine'[h].events = Mine(h)
          \/ mine'[h].events = Mine(h) \cup {e} /\ nextSeq' = nextSeq + 1
      BY TurnEffect
    <3> HIDE DEF e
    <3>7. \A x \in mine'[h].events : x.net = NetOf[h] /\ x.mac \in Macs /\ x.ts = at[h]
                                    /\ x.seq \in 1..(nextSeq' - 1)
      <4>1. \A x \in Mine(h) : x.net = NetOf[h] /\ x.mac \in Macs /\ x.ts = at[h]
                               /\ x.seq \in 1..(nextSeq - 1)
        BY <2>1, <2>4
      <4>2. nextSeq \in Nat /\ nextSeq' \in {nextSeq, nextSeq + 1} /\ nextSeq \in 1..nextSeq
        BY <1>1 DEF Typed, TypeOK
      <4> QED
        BY <3>5, <3>6, <4>1, <4>2
    <3> QED
      BY <2>4, <3>3, <3>4, <3>7
  <2> QED
    BY <2>3, <2>4
<1> QED
  BY <1>2, <1>3, <1>4 DEF Typed

\* Reading the snapshot keeps the types.
LEMMA TypedSnapshot ==
  ASSUME Typed, NEW h \in Handlers, ReadSnapshot(h)
  PROVE  Typed'
<1> USE InventoryConstants DEF InventoryConstants
<1>0. UNCHANGED <<clock, networks, dev, open, closed, events, nextSeq, lock, report, baseline,
                  announced, appended, pushes>>
  BY DEF ReadSnapshot, tables, history
<1>1. TypeOK'
  BY <1>0 DEF Typed, TypeOK, ReadSnapshot, Step, KnownMacs, InTransaction, Ended
<1>2. LocalsOK'
  BY <1>0 DEF Typed, LocalsOK, ReadSnapshot
<1>3. WrittenOK'
  <2>1. /\ \A g \in Handlers \ {h} : pc'[g] = pc[g] /\ mine'[g] = mine[g] /\ at'[g] = at[g]
        /\ mine'[h] = [dev |-> dev[NetOf[h]], open |-> open[NetOf[h]], events |-> {}]
    BY DEF Typed, TypeOK, LocalsOK, ReadSnapshot, Step
  <2>2. dev[NetOf[h]] \in [Macs -> Status] /\ open[NetOf[h]] \in [Macs -> Times]
    BY DEF Typed, TypeOK, Status, Times
  <2> QED
    BY <1>0, <2>1, <2>2 DEF Typed, WrittenOK, Mine
<1> QED
  BY <1>1, <1>2, <1>3 DEF Typed

\* A commit keeps the types.
LEMMA TypedCommit ==
  ASSUME Typed, NEW h \in Handlers, Commit(h)
  PROVE  Typed'
<1> USE InventoryConstants DEF InventoryConstants
<1> DEFINE n == NetOf[h]
<1>0. /\ pc[h] = "writing" /\ pc' = [pc EXCEPT ![h] = "committed"]
      /\ networks' = networks \cup {n}
      /\ dev' = [dev EXCEPT ![n] = mine[h].dev]
      /\ open' = [open EXCEPT ![n] =
                    [m \in Macs |-> IF m \in Closing(h) THEN NoTime ELSE mine[h].open[m]]]
      /\ closed' = closed \cup
           {[net |-> n, mac |-> m, from |-> mine[h].open[m], to |-> at[h]] : m \in Closing(h)}
      /\ events' = events \cup Mine(h) /\ appended' = appended \cup Mine(h)
      /\ lock' = Release(h)
      /\ pushes' = [pushes EXCEPT ![n] = Append(@, h)]
      /\ UNCHANGED <<clock, nextSeq, report, baseline, known, at, prev, cursor, mine>>
  BY DEF Commit, Step, Mine, locals
<1>1. /\ mine[h].dev \in [Macs -> Status] /\ mine[h].open \in [Macs -> Times]
      /\ \A e \in Mine(h) :
           e.net = n /\ e.mac \in Macs /\ e.ts = at[h] /\ e.seq \in 1..(nextSeq - 1)
  BY <1>0 DEF Typed, WrittenOK
<1>2. TypeOK'
  <2> USE DEF Typed, TypeOK
  <2>1. clock' \in 0..MaxTime /\ networks' \subseteq Nets /\ dev' \in [Nets -> [Macs -> Status]]
    BY <1>0, <1>1 DEF Status
  <2>2. open' \in [Nets -> [Macs -> Times]]
    <3>1. [m \in Macs |-> IF m \in Closing(h) THEN NoTime ELSE mine[h].open[m]] \in [Macs -> Times]
      BY <1>1 DEF Times
    <3> QED
      BY <1>0, <3>1 DEF Times
  <2>3. closed' \subseteq [net : Nets, mac : Macs, from : 0..MaxTime, to : 0..MaxTime]
    <3>1. \A m \in Closing(h) : m \in Macs /\ mine[h].open[m] \in 0..MaxTime
      BY <1>1 DEF Closing, Times
    <3>2. at[h] \in 0..MaxTime /\ n \in Nets
      OBVIOUS
    <3> QED
      BY <1>0, <3>1, <3>2
  <2>4. \A e \in events' \cup appended' :
          e.net \in Nets /\ e.mac \in Macs /\ e.ts \in 0..MaxTime /\ e.seq \in 1..(nextSeq' - 1)
    BY <1>0, <1>1
  <2>5. lock' \in [Nets -> Handlers \cup {NoHandler}]
    BY <1>0 DEF Release
  <2>6. pushes' \in [Nets -> Seq(Handlers)]
    BY <1>0
  <2>7. pc' \in [Handlers -> {"idle", "committed", "pruning", "notifying"} \cup InTransaction \cup Ended]
    BY <1>0
  <2> QED
    BY <1>0, <2>1, <2>2, <2>3, <2>4, <2>5, <2>6, <2>7 DEF Status, Times
<1>3. LocalsOK'
  BY <1>0 DEF Typed, LocalsOK
<1>4. WrittenOK'
  BY <1>0 DEF Typed, TypeOK, WrittenOK, Mine
<1> QED
  BY <1>2, <1>3, <1>4 DEF Typed

\* Every step keeps the types.
LEMMA TypedStep ==
  ASSUME Typed, [Next]_vars
  PROVE  Typed'
<1> USE InventoryConstants DEF InventoryConstants
<1>1. ASSUME NEW h \in Handlers, SelectNetwork(h) PROVE Typed'
  <2>0. /\ pc[h] = "idle" /\ pc' = [pc EXCEPT ![h] = "selected"]
        /\ \E rep \in Reports[h] : report' = [report EXCEPT ![h] = rep]
        /\ baseline' = [baseline EXCEPT ![h] = NetOf[h] \notin networks]
        /\ UNCHANGED <<clock, networks, dev, open, closed, events, nextSeq, lock, known, at, prev,
                       cursor, mine, announced, appended, pushes>>
    BY <1>1 DEF SelectNetwork, Step, tables, history
  <2>1. TypeOK'
    BY <2>0 DEF Typed, TypeOK, InTransaction
  <2>2. LocalsOK'
    BY <2>0 DEF Typed, LocalsOK, Device
  <2>3. WrittenOK'
    BY <2>0 DEF Typed, TypeOK, WrittenOK, Mine
  <2> QED
    BY <2>1, <2>2, <2>3 DEF Typed
<1>2. ASSUME NEW h \in Handlers,
             UpsertNetwork(h) \/ SkipPrune(h) \/ PruneSessions(h) \/ PruneEvents(h) \/ Notify(h) \/ Fail(h)
      PROVE  Typed'
  <2>0. /\ UNCHANGED <<clock, networks, dev, open, nextSeq, report, baseline, known, at, prev, cursor,
                       mine, appended, pushes>>
        /\ closed' \subseteq closed /\ events' \subseteq events
        /\ lock' \in {lock, [lock EXCEPT ![NetOf[h]] = h], [lock EXCEPT ![NetOf[h]] = NoHandler]}
        /\ \E to \in {"locked", "pruning", "notifying", "done", "failed"} : pc' = [pc EXCEPT ![h] = to]
    BY <1>2 DEF UpsertNetwork, SkipPrune, PruneSessions, PruneEvents, Notify, Fail, Step, tables, locals,
                history, Release, AfterError
  <2>a. PICK to \in {"locked", "pruning", "notifying", "done", "failed"} : pc' = [pc EXCEPT ![h] = to]
    BY <2>0
  <2>1. TypeOK'
    <3>1. lock' \in [Nets -> Handlers \cup {NoHandler}]
      BY <2>0 DEF Typed, TypeOK
    <3>2. pc' \in [Handlers -> {"idle", "committed", "pruning", "notifying"} \cup InTransaction \cup Ended]
      BY <2>a DEF Typed, TypeOK, InTransaction, Ended
    <3> QED
      BY <2>0, <3>1, <3>2 DEF Typed, TypeOK
  <2>2. LocalsOK'
    BY <2>0 DEF Typed, LocalsOK
  <2>3. WrittenOK'
    <3>1. \A g \in Handlers : pc'[g] = "writing" => pc[g] = "writing"
      BY <2>a DEF Typed, TypeOK
    <3> QED
      BY <2>0, <3>1 DEF Typed, WrittenOK, Mine
  <2> QED
    BY <2>1, <2>2, <2>3 DEF Typed
<1>3. CASE Tick
  <2>0. clock' = clock + 1 /\ clock < MaxTime
        /\ UNCHANGED <<networks, dev, open, closed, events, nextSeq, lock, pc, report, baseline, known,
                       at, prev, cursor, mine, announced, appended, pushes>>
    BY <1>3 DEF Tick, tables, locals, history
  <2> QED
    BY <2>0 DEF Typed, TypeOK, LocalsOK, WrittenOK, Mine
<1>4. CASE UNCHANGED vars
  BY <1>4 DEF vars, tables, locals, history, Typed, TypeOK, LocalsOK, WrittenOK, Mine
<1> QED
  BY <1>1, <1>2, <1>3, <1>4, TypedTurn, TypedSnapshot, TypedCommit DEF Next, Handle

-----------------------------------------------------------------------------
(* Locks *)

Holds(h) == pc[h] \in {"locked", "writing"}

\* A network's lock is with the one handler that is between its upsert and the
\* end of its transaction.
Locking ==
  /\ \A h \in Handlers : Holds(h) => lock[NetOf[h]] = h
  /\ \A n \in Nets : lock[n] # NoHandler => Holds(lock[n]) /\ NetOf[lock[n]] = n

\* At first no row is locked.
LEMMA LockingInit == Init => Locking
BY InventoryConstants DEF InventoryConstants, Init, Locking, Holds

\* Every step keeps locks with the transactions that hold them.
LEMMA LockingStep ==
  ASSUME Typed, Locking, [Next]_vars
  PROVE  Locking'
<1> USE InventoryConstants DEF InventoryConstants, Typed, TypeOK, Locking, Holds
<1>1. ASSUME NEW h \in Handlers, UpsertNetwork(h) PROVE Locking'
  BY <1>1 DEF UpsertNetwork, Step, Free
<1>2. ASSUME NEW h \in Handlers, Commit(h) PROVE Locking'
  BY <1>2 DEF Commit, Step, Release
<1>3. ASSUME NEW h \in Handlers, Fail(h) PROVE Locking'
  BY <1>3 DEF Fail, AfterError, Release, InTransaction
<1>4. ASSUME NEW h \in Handlers, ReadSnapshot(h) PROVE Locking'
  BY <1>4 DEF ReadSnapshot, Step
<1>5. ASSUME NEW h \in Handlers, WriteDevice(h) PROVE Locking'
  BY <1>5 DEF WriteDevice
<1>6. ASSUME NEW h \in Handlers,
             SelectNetwork(h) \/ SkipPrune(h) \/ PruneSessions(h) \/ PruneEvents(h) \/ Notify(h)
      PROVE  Locking'
  <2>1. lock' = lock /\ ~Holds(h)
    BY <1>6 DEF SelectNetwork, SkipPrune, PruneSessions, PruneEvents, Notify, Step
  <2>2. \E to \in {"selected", "pruning", "notifying", "done"} : pc' = [pc EXCEPT ![h] = to]
    BY <1>6 DEF SelectNetwork, SkipPrune, PruneSessions, PruneEvents, Notify, Step
  <2> QED
    BY <2>1, <2>2
<1>7. CASE Tick \/ UNCHANGED vars
  BY <1>7 DEF Tick, vars
<1> QED
  BY <1>1, <1>2, <1>3, <1>4, <1>5, <1>6, <1>7 DEF Next, Handle

\* Two handlers are not both in a network's critical section.
LEMMA HeldAlone ==
  ASSUME Locking, NEW h \in Handlers, NEW g \in Handlers, Holds(h), Holds(g), NetOf[h] = NetOf[g]
  PROVE  h = g
BY DEF Locking

-----------------------------------------------------------------------------
(* The chains *)

Old(h)  == EventsOf(NetOf[h], appended)
Left(h) == EventsOf(NetOf[h], events)

\* The events that are in the table or were in it.
Recorded ==
  /\ events \subseteq appended /\ RetainedIsSuffix
  /\ Shaped(appended) /\ Hashed(appended)
  /\ \A e \in appended : e.ts <= clock
  /\ \A n \in Nets :
       /\ Ordered(EventsOf(n, appended)) /\ Rooted(EventsOf(n, appended))
       /\ Linked(EventsOf(n, events))

\* What h knows while it holds the lock: its events come after all others of
\* the network, and prev[h] is the hash of the last one, if any is left.
Extends(h) ==
  /\ at[h] <= clock
  /\ Shaped(Mine(h)) /\ Hashed(Mine(h))
  /\ \A e \in Old(h) : e.ts <= at[h]
  /\ \A e \in Old(h), f \in Mine(h) : e.seq < f.seq
  /\ Ordered(Old(h) \cup Mine(h)) /\ Rooted(Old(h) \cup Mine(h))
  /\ Tip(Left(h) \cup Mine(h), prev[h])
  /\ Old(h) \cup Mine(h) = {} => prev[h] = NoHash

Chained == Recorded /\ \A h \in Handlers : pc[h] = "writing" => Extends(h)

\* At first there are no events.
LEMMA ChainedInit == Init => Chained
<1> SUFFICES ASSUME Init PROVE Chained
  OBVIOUS
<1>1. events = {} /\ appended = {} /\ \A n : EventsOf(n, {}) = {}
  BY DEF Init, EventsOf
<1>2. Recorded
  BY <1>1 DEF Recorded, RetainedIsSuffix, Shaped, Hashed, Ordered, Rooted, Linked
<1> QED
  BY <1>2 DEF Init, Chained

\* The numbers in question are numbers.
LEMMA AllNumbered ==
  ASSUME Typed
  PROVE  /\ \A n \in Nets : Numbered(EventsOf(n, appended)) /\ Numbered(EventsOf(n, events))
         /\ \A h \in Handlers : pc[h] = "writing" =>
              /\ Numbered(Old(h) \cup Mine(h)) /\ Numbered(Left(h) \cup Mine(h))
              /\ \A e \in Old(h) \cup Mine(h) : e.seq < nextSeq
<1> USE InventoryConstants DEF InventoryConstants
<1>1. \A e \in appended \cup events : e.seq \in Nat /\ e.ts \in Nat /\ e.seq < nextSeq
  BY DEF Typed, TypeOK
<1>2. \A h \in Handlers : pc[h] = "writing" =>
        \A e \in Mine(h) : e.seq \in Nat /\ e.ts \in Nat /\ e.seq < nextSeq
  BY DEF Typed, TypeOK, WrittenOK
<1> QED
  BY <1>1, <1>2 DEF Numbered, Old, Left, EventsOf

\* A handler that writes goes on doing so when nothing it looks at changes.
LEMMA ExtendsKept ==
  ASSUME NEW h \in Handlers, Extends(h), clock \in Int, clock' \in Int, at[h] \in Int, clock <= clock',
         at'[h] = at[h], prev'[h] = prev[h], Mine(h)' = Mine(h), Old(h)' = Old(h), Left(h)' = Left(h)
  PROVE  Extends(h)'
<1>1. at'[h] <= clock'
  BY DEF Extends
<1> QED
  BY <1>1 DEF Extends, Tip, HeadIs, Linked, Ordered, Rooted, Shaped, Hashed

\* Steps that write no event and delete none keep the chains.
LEMMA ChainedQuiet ==
  ASSUME Typed, Typed', Chained, UNCHANGED <<events, appended, at, prev, mine>>, clock <= clock',
         \A h \in Handlers : pc'[h] = "writing" => pc[h] = "writing"
  PROVE  Chained'
<1> USE InventoryConstants DEF InventoryConstants
<1>1. clock \in Int /\ clock' \in Int /\ \A h \in Handlers : at[h] \in Int
  BY DEF Typed, TypeOK
<1>2. Recorded'
  <2>1. \A e \in appended : e.ts <= clock'
    BY <1>1 DEF Chained, Recorded, Typed, TypeOK
  <2> QED
    BY <2>1 DEF Chained, Recorded, RetainedIsSuffix
<1>3. ASSUME NEW h \in Handlers, pc'[h] = "writing" PROVE Extends(h)'
  <2>1. Extends(h) /\ Mine(h)' = Mine(h) /\ Old(h)' = Old(h) /\ Left(h)' = Left(h)
    BY <1>3 DEF Chained, Mine, Old, Left
  <2> QED
    BY <1>1, <2>1, ExtendsKept
<1> QED
  BY <1>2, <1>3 DEF Chained

\* Retention deletes from the old end.
LEMMA ChainedPrune ==
  ASSUME Typed, Typed', Chained, NEW h \in Handlers, PruneEvents(h)
  PROVE  Chained'
<1> USE InventoryConstants DEF InventoryConstants
<1>1. /\ UNCHANGED <<clock, appended, at, prev, mine>>
      /\ \A g \in Handlers : pc'[g] = "writing" => pc[g] = "writing"
      /\ events' \in {events, {e \in events : e.ts >= Cutoff(h)}}
  BY DEF PruneEvents, Step, locals, history, Typed, TypeOK
<1>2. events' \subseteq events
  BY <1>1
<1>3. /\ \A e \in appended : e.net \in Nets /\ e.seq \in Nat /\ e.ts \in Nat
      /\ Cutoff(h) \in Int /\ clock \in Int /\ \A g \in Handlers : at[g] \in Int
  BY DEF Typed, TypeOK, Cutoff
<1>4. ASSUME NEW e \in events', NEW f \in appended, f.net = e.net, f.seq > e.seq
      PROVE  f \in events'
  <2>1. f \in events /\ e \in events
    BY <1>2, <1>4 DEF Chained, Recorded, RetainedIsSuffix
  <2>2. e \in EventsOf(e.net, appended) /\ f \in EventsOf(e.net, appended)
    BY <1>4, <2>1 DEF EventsOf, Chained, Recorded
  <2>3. e.ts <= f.ts
    BY <1>3, <1>4, <2>1, <2>2 DEF Chained, Recorded, Ordered
  <2>4. CASE events' = events
    BY <2>1, <2>4
  <2>5. CASE events' = {x \in events : x.ts >= Cutoff(h)}
    BY <1>3, <1>4, <2>1, <2>3, <2>5 DEF Chained, Recorded
  <2> QED
    BY <1>1, <2>4, <2>5
<1>5. Recorded'
  <2>1. RetainedIsSuffix'
    BY <1>1, <1>4 DEF RetainedIsSuffix
  <2>2. ASSUME NEW n \in Nets PROVE Linked(EventsOf(n, events'))
    <3> DEFINE rows == EventsOf(n, events)
               kept == EventsOf(n, events')
    <3>1. kept \in SUBSET rows /\ Numbered(rows) /\ Linked(rows)
      BY <1>2, AllNumbered DEF EventsOf, Chained, Recorded
    <3>2. \A e \in kept, f \in rows : f.seq > e.seq => f \in kept
      BY <1>2, <1>4 DEF EventsOf, Chained, Recorded
    <3> HIDE DEF rows, kept
    <3>3. Linked(kept)
      BY <3>1, <3>2, SuffixKept
    <3> QED
      BY <3>3 DEF kept
  <2> QED
    BY <1>1, <1>2, <2>1, <2>2 DEF Chained, Recorded
<1>6. ASSUME NEW g \in Handlers, pc'[g] = "writing" PROVE Extends(g)'
  <2> DEFINE rows == Left(g) \cup Mine(g)
             kept == EventsOf(NetOf[g], events') \cup Mine(g)
  <2>1. pc[g] = "writing" /\ Extends(g)
    BY <1>1, <1>6 DEF Chained
  <2>2. kept \in SUBSET rows /\ Numbered(rows)
    BY <1>2, <2>1, AllNumbered DEF Left, EventsOf
  <2>3. ASSUME NEW e \in kept, NEW f \in rows, f.seq > e.seq PROVE f \in kept
    <3>1. CASE f \in Mine(g)
      BY <3>1
    <3>2. CASE f \in Left(g) /\ e \in EventsOf(NetOf[g], events')
      BY <1>4, <2>3, <3>2 DEF Left, EventsOf, Chained, Recorded
    <3>3. CASE f \in Left(g) /\ e \in Mine(g)
      <4>1. f \in Old(g)
        BY <3>3 DEF Left, Old, EventsOf, Chained, Recorded
      <4>2. f.seq < e.seq /\ f.seq \in Nat /\ e.seq \in Nat
        BY <2>1, <2>2, <3>3, <4>1 DEF Extends, Numbered
      <4> QED
        BY <2>3, <4>2
    <3> QED
      BY <3>1, <3>2, <3>3
  <2>4. Linked(rows) /\ HeadIs(rows, prev[g])
    BY <2>1 DEF Extends, Tip
  <2>5. Linked(kept) /\ HeadIs(kept, prev[g])
    <3> HIDE DEF rows, kept
    <3> QED
      BY <2>2, <2>3, <2>4, SuffixKept
  <2>6. Tip(Left(g) \cup Mine(g), prev[g])'
    BY <1>1, <2>5 DEF Tip, Left, Mine
  <2>7. Mine(g)' = Mine(g) /\ Old(g)' = Old(g)
    BY <1>1 DEF Mine, Old
  <2> QED
    BY <1>1, <2>1, <2>6, <2>7 DEF Extends
<1> QED
  BY <1>5, <1>6 DEF Chained

\* The holder of the lock reads the head of its chain.
LEMMA ChainedSnapshot ==
  ASSUME Typed, Typed', Chained, NEW h \in Handlers, ReadSnapshot(h)
  PROVE  Chained'
<1> USE InventoryConstants DEF InventoryConstants
<1>1. /\ UNCHANGED <<clock, events, appended>>
      /\ \A g \in Handlers \ {h} : pc'[g] = pc[g] /\ at'[g] = at[g] /\ prev'[g] = prev[g] /\ mine'[g] = mine[g]
      /\ at'[h] = clock /\ prev'[h] = LastHash(NetOf[h]) /\ mine'[h].events = {}
  BY DEF ReadSnapshot, Step, tables, history, Typed, TypeOK, LocalsOK
<1>2. Recorded'
  BY <1>1 DEF Chained, Recorded, RetainedIsSuffix
<1>3. ASSUME NEW g \in Handlers \ {h}, pc'[g] = "writing" PROVE Extends(g)'
  <2>1. Extends(g) /\ Mine(g)' = Mine(g) /\ Old(g)' = Old(g) /\ Left(g)' = Left(g)
    BY <1>1, <1>3 DEF Chained, Mine, Old, Left
  <2>2. clock \in Int /\ at[g] \in Int /\ clock <= clock'
    BY <1>1 DEF Typed, TypeOK
  <2> QED
    BY <1>1, <2>1, <2>2, ExtendsKept
<1>4. Extends(h)'
  <2>1. Mine(h)' = {} /\ Old(h)' = Old(h) /\ Left(h)' = Left(h) /\ Left(h) \subseteq Old(h)
    BY <1>1 DEF Mine, Old, Left, EventsOf, Chained, Recorded
  <2>2. /\ Ordered(Old(h)) /\ Rooted(Old(h)) /\ Linked(Left(h)) /\ Numbered(Old(h)) /\ clock \in Int
        /\ \A e \in Old(h) : e.ts <= clock
    <3>1. NetOf[h] \in Nets /\ clock \in Int
      BY DEF Typed, TypeOK
    <3>2. Numbered(Old(h))
      BY <3>1, AllNumbered DEF Old
    <3>3. Ordered(Old(h)) /\ Rooted(Old(h)) /\ Linked(Left(h))
      BY <3>1 DEF Old, Left, Chained, Recorded
    <3>4. \A e \in Old(h) : e.ts <= clock
      BY DEF Old, EventsOf, Chained, Recorded
    <3> QED
      BY <3>1, <3>2, <3>3, <3>4
  <2>3. HeadIs(Left(h), LastHash(NetOf[h]))
    <3> SUFFICES ASSUME NEW e \in Left(h), \A f \in Left(h) : f.seq <= e.seq
                 PROVE  LastHash(NetOf[h]) = e.row
      BY DEF HeadIs
    <3> DEFINE last == CHOOSE x \in Left(h) : \A f \in Left(h) : f.seq <= x.seq
    <3>1. last \in Left(h) /\ \A f \in Left(h) : f.seq <= last.seq
      OBVIOUS
    <3>2. LastHash(NetOf[h]) = last.row
      BY DEF LastHash, Left
    <3> HIDE DEF last
    <3>3. last = e
      BY <2>1, <2>2, <3>1 DEF Ordered, Numbered
    <3> QED
      BY <3>2, <3>3
  <2>4. Old(h) = {} => LastHash(NetOf[h]) = NoHash
    BY <2>1 DEF LastHash, Left
  <2>5. Tip(Left(h), LastHash(NetOf[h]))
    BY <2>2, <2>3 DEF Tip
  <2>6. Tip(Left(h) \cup Mine(h), prev[h])'
    <3>1. (Left(h) \cup Mine(h))' = Left(h) /\ prev'[h] = LastHash(NetOf[h])
      BY <1>1, <2>1
    <3> QED
      BY <2>5, <3>1 DEF Tip, Linked, HeadIs
  <2>7. (Old(h) \cup Mine(h))' = Old(h)
    BY <2>1
  <2>8. (Ordered(Old(h) \cup Mine(h)) /\ Rooted(Old(h) \cup Mine(h)))'
    BY <2>2, <2>7
  <2>9. (Shaped(Mine(h)) /\ Hashed(Mine(h)))'
    BY <2>1 DEF Shaped, Hashed
  <2> QED
    BY <1>1, <2>1, <2>2, <2>4, <2>6, <2>7, <2>8, <2>9 DEF Extends
<1> QED
  BY <1>2, <1>3, <1>4 DEF Chained

\* A new device's event goes to the end of its writer's chain.
LEMMA ChainedTurn ==
  ASSUME Typed, Typed', Chained, NEW h \in Handlers, WriteDevice(h)
  PROVE  Chained'
<1> USE InventoryConstants DEF InventoryConstants
<1>1. /\ UNCHANGED <<clock, events, appended, pc, at>>
      /\ \A g \in Handlers \ {h} : prev'[g] = prev[g] /\ mine'[g] = mine[g]
      /\ pc[h] = "writing"
  BY TurnEffect DEF WriteDevice, tables, history, Typed, LocalsOK, TypeOK
<1>2. Recorded'
  BY <1>1 DEF Chained, Recorded, RetainedIsSuffix
<1>3. clock \in Int /\ clock' \in Int /\ clock <= clock' /\ \A g \in Handlers : at[g] \in Int
  BY <1>1 DEF Typed, TypeOK
<1>4. ASSUME NEW g \in Handlers \ {h}, pc'[g] = "writing" PROVE Extends(g)'
  <2>1. Extends(g) /\ Mine(g)' = Mine(g) /\ Old(g)' = Old(g) /\ Left(g)' = Left(g)
    BY <1>1, <1>4 DEF Chained, Mine, Old, Left
  <2> QED
    BY <1>1, <1>3, <2>1, ExtendsKept
<1>5. Extends(h)'
  <2>1. Extends(h) /\ Old(h)' = Old(h) /\ Left(h)' = Left(h)
    BY <1>1 DEF Chained, Old, Left
  <2>2. CASE mine'[h].events = Mine(h) /\ prev' = prev
    <3>1. Mine(h)' = Mine(h)
      BY <2>2 DEF Mine
    <3> QED
      BY <1>1, <1>3, <2>1, <2>2, <3>1, ExtendsKept
  <2>3. ASSUME NEW m, mine'[h].events = Mine(h) \cup {EventOf(h, m)},
               prev' = [prev EXCEPT ![h] = EventOf(h, m).row]
        PROVE  Extends(h)'
    <3> DEFINE e == EventOf(h, m)
               old  == Old(h) \cup Mine(h)
               left == Left(h) \cup Mine(h)
    <3>1. /\ e = [net |-> e.net, mac |-> e.mac, ts |-> e.ts, seq |-> e.seq, prev |-> e.prev, row |-> e.row]
          /\ e.seq = nextSeq /\ e.ts = at[h] /\ e.prev = prev[h]
          /\ e.row = Hash(e.prev, e.net, e.mac, e.ts)
      BY DEF EventOf
    <3>2. /\ Numbered(old) /\ Numbered(left) /\ \A f \in old : f.seq < nextSeq
          /\ left \subseteq old /\ nextSeq \in Nat /\ at[h] \in Nat
      <4>1. Numbered(old) /\ Numbered(left) /\ \A f \in old : f.seq < nextSeq
        BY <1>1, AllNumbered
      <4>2. left \subseteq old
        BY DEF Old, Left, EventsOf, Chained, Recorded
      <4>3. nextSeq \in Nat /\ at[h] \in Nat
        BY DEF Typed, TypeOK
      <4> QED
        BY <4>1, <4>2, <4>3
    <3>3. \A f \in old : f.ts <= at[h]
      BY <1>1, <2>1, <3>2 DEF Extends, Typed, WrittenOK, Numbered
    <3>4. Mine(h)' = Mine(h) \cup {e} /\ prev'[h] = e.row
      BY <2>3 DEF Mine, Typed, LocalsOK
    <3>5. (Old(h) \cup Mine(h))' = old \cup {e} /\ (Left(h) \cup Mine(h))' = left \cup {e}
      BY <2>1, <3>4
    <3> HIDE DEF e
    <3>6. Shaped(Mine(h) \cup {e}) /\ Hashed(Mine(h) \cup {e})
      BY <2>1, <3>1 DEF Extends, Shaped, Hashed
    <3>7. Numbered({e})
      BY <3>1, <3>2 DEF Numbered
    <3>8. Tip(left, prev[h]) /\ Rooted(old) /\ (old = {} => prev[h] = NoHash) /\ Ordered(old)
      BY <2>1 DEF Extends
    <3>9. \A f \in Old(h), g \in Mine(h) \cup {e} : f.seq < g.seq
      BY <2>1, <3>1, <3>2 DEF Extends
    <3> HIDE DEF old, left
    <3>10. Tip(left \cup {e}, e.row)
      BY <3>1, <3>2, <3>7, <3>8, RowAppended
    <3>11. Rooted(old \cup {e}) /\ Ordered(old \cup {e})
      BY <3>1, <3>2, <3>3, <3>7, <3>8, RowAppended
    <3>12. (Shaped(Mine(h)) /\ Hashed(Mine(h)))'
      BY <3>4, <3>6
    <3>13. (Tip(Left(h) \cup Mine(h), prev[h]))'
      BY <3>4, <3>5, <3>10
    <3>14. (Ordered(Old(h) \cup Mine(h)) /\ Rooted(Old(h) \cup Mine(h)))'
      BY <3>5, <3>11
    <3>15. (Old(h) \cup Mine(h))' # {}
      BY <3>5
    <3> QED
      BY <1>1, <2>1, <3>4, <3>9, <3>12, <3>13, <3>14, <3>15 DEF Extends
  <2>4. \/ mine'[h].events = Mine(h) /\ prev' = prev
        \/ /\ mine'[h].events = Mine(h) \cup {EventOf(h, report[h][cursor[h]].mac)}
           /\ prev' = [prev EXCEPT ![h] = EventOf(h, report[h][cursor[h]].mac).row]
    BY TurnEffect
  <2> QED
    BY <2>2, <2>3, <2>4
<1> QED
  BY <1>2, <1>4, <1>5 DEF Chained

\* The writer's events become part of the table, and of no other writer's chain.
LEMMA ChainedCommit ==
  ASSUME Typed, Typed', Locking, Chained, NEW h \in Handlers, Commit(h)
  PROVE  Chained'
<1> USE InventoryConstants DEF InventoryConstants
<1> DEFINE n == NetOf[h]
<1>1. /\ UNCHANGED <<clock, at, prev, mine>>
      /\ events' = events \cup Mine(h) /\ appended' = appended \cup Mine(h)
      /\ pc[h] = "writing" /\ pc' = [pc EXCEPT ![h] = "committed"]
  BY DEF Commit, Step, locals, Mine
<1>2. Extends(h) /\ n \in Nets /\ \A e \in Mine(h) : e.net = n /\ e.ts = at[h]
  BY <1>1 DEF Chained, Typed, WrittenOK
<1>3. \A k \in Nets \ {n} :
        EventsOf(k, events') = EventsOf(k, events) /\ EventsOf(k, appended') = EventsOf(k, appended)
  BY <1>1, <1>2 DEF EventsOf
<1>4. EventsOf(n, events') = Left(h) \cup Mine(h) /\ EventsOf(n, appended') = Old(h) \cup Mine(h)
  BY <1>1, <1>2 DEF EventsOf, Left, Old
<1>5. Recorded'
  <2>1. events' \subseteq appended' /\ Shaped(appended') /\ Hashed(appended')
    BY <1>1, <1>2 DEF Chained, Recorded, Extends, Shaped, Hashed
  <2>2. \A e \in appended' : e.ts <= clock
    BY <1>1, <1>2 DEF Chained, Recorded, Extends
  <2>3. RetainedIsSuffix'
    <3> SUFFICES ASSUME NEW e \in events', NEW f \in appended', f.net = e.net, f.seq > e.seq
                 PROVE  f \in events'
      BY DEF RetainedIsSuffix
    <3>1. CASE f \in Mine(h)
      BY <1>1, <3>1
    <3>2. CASE f \in appended /\ e \in events
      BY <1>1, <3>2 DEF Chained, Recorded, RetainedIsSuffix
    <3>3. CASE f \in appended /\ e \in Mine(h)
      <4>1. f \in Old(h)
        BY <1>2, <3>3 DEF Old, EventsOf
      <4>2. f.seq < e.seq /\ f.seq \in Nat /\ e.seq \in Nat
        BY <1>1, <1>2, <3>3, <4>1, AllNumbered DEF Extends, Numbered
      <4> QED
        BY <4>2
    <3> QED
      BY <1>1, <3>1, <3>2, <3>3
  <2>4. ASSUME NEW k \in Nets
        PROVE  /\ Ordered(EventsOf(k, appended')) /\ Rooted(EventsOf(k, appended'))
               /\ Linked(EventsOf(k, events'))
    <3>1. CASE k = n
      BY <1>2, <1>4, <3>1 DEF Extends, Tip
    <3>2. CASE k # n
      BY <1>3, <3>2 DEF Chained, Recorded
    <3> QED
      BY <3>1, <3>2
  <2> QED
    BY <1>1, <2>1, <2>2, <2>3, <2>4 DEF Recorded
<1>6. ASSUME NEW g \in Handlers, pc'[g] = "writing" PROVE Extends(g)'
  <2>1. g # h /\ pc[g] = "writing"
    BY <1>1, <1>6 DEF Typed, TypeOK
  <2>2. NetOf[g] # n
    BY <1>1, <2>1, HeldAlone DEF Holds
  <2>3. Extends(g) /\ Mine(g)' = Mine(g) /\ Old(g)' = Old(g) /\ Left(g)' = Left(g)
    BY <1>1, <1>3, <2>1, <2>2 DEF Chained, Mine, Old, Left
  <2>4. clock \in Int /\ at[g] \in Int /\ clock' \in Int /\ clock <= clock'
    BY <1>1 DEF Typed, TypeOK
  <2> QED
    BY <1>1, <2>3, <2>4, ExtendsKept
<1> QED
  BY <1>5, <1>6 DEF Chained

\* Every step keeps the chains.
LEMMA ChainedStep ==
  ASSUME Typed, Typed', Locking, Chained, [Next]_vars
  PROVE  Chained'
<1> USE InventoryConstants DEF InventoryConstants
<1>1. ASSUME NEW h \in Handlers,
             \/ SelectNetwork(h) \/ UpsertNetwork(h) \/ SkipPrune(h) \/ PruneSessions(h) \/ Notify(h)
             \/ Fail(h)
      PROVE  Chained'
  <2>1. UNCHANGED <<clock, events, appended, at, prev, mine>>
    BY <1>1 DEF SelectNetwork, UpsertNetwork, SkipPrune, PruneSessions, Notify, Fail, tables, locals, history
  <2>2. \E to \in {"selected", "locked", "pruning", "notifying", "done", "failed"} :
          pc' = [pc EXCEPT ![h] = to]
    BY <1>1 DEF SelectNetwork, UpsertNetwork, SkipPrune, PruneSessions, Notify, Fail, Step, AfterError
  <2>3. \A g \in Handlers : pc'[g] = "writing" => pc[g] = "writing"
    BY <2>2 DEF Typed, TypeOK
  <2>4. clock <= clock'
    BY <2>1 DEF Typed, TypeOK
  <2> QED
    BY <2>1, <2>3, <2>4, ChainedQuiet
<1>2. CASE Tick
  BY <1>2, ChainedQuiet DEF Tick, tables, locals, history, Typed, TypeOK
<1>3. CASE UNCHANGED vars
  <2>1. UNCHANGED <<clock, pc, events, appended, at, prev, mine>> /\ clock <= clock'
    BY <1>3 DEF vars, tables, locals, history, Typed, TypeOK
  <2> QED
    BY <2>1, ChainedQuiet
<1> QED
  BY <1>1, <1>2, <1>3, ChainedPrune, ChainedSnapshot, ChainedTurn, ChainedCommit DEF Next, Handle

-----------------------------------------------------------------------------
(* Announcements *)

\* After its commit a call's events are recorded, and only then are they told.
Published ==
  /\ \A h \in Handlers : pc[h] \in {"committed", "pruning", "notifying"} => Mine(h) \subseteq appended
  /\ announced \subseteq appended

\* Every step keeps announced events among the recorded ones.
LEMMA PublishedStep ==
  ASSUME Typed, Published, [Next]_vars
  PROVE  Published'
<1> USE DEF Typed, TypeOK, Published, Mine
<1>1. ASSUME NEW h \in Handlers, SelectNetwork(h) \/ UpsertNetwork(h) \/ Fail(h) PROVE Published'
  <2>1. UNCHANGED <<announced, appended, mine>>
    BY <1>1 DEF SelectNetwork, UpsertNetwork, Fail, locals, history
  <2>2. \E to \in {"selected", "locked", "failed"} : pc' = [pc EXCEPT ![h] = to]
    BY <1>1 DEF SelectNetwork, UpsertNetwork, Fail, Step, AfterError
  <2> QED
    BY <2>1, <2>2
<1>2. ASSUME NEW h \in Handlers, ReadSnapshot(h) PROVE Published'
  <2>1. UNCHANGED <<announced, appended>> /\ pc' = [pc EXCEPT ![h] = "writing"]
        /\ \A g \in Handlers \ {h} : mine'[g] = mine[g]
    BY <1>2 DEF ReadSnapshot, Step, history, LocalsOK
  <2> QED
    BY <2>1
<1>3. ASSUME NEW h \in Handlers, WriteDevice(h) PROVE Published'
  <2>1. UNCHANGED <<announced, appended, pc>> /\ pc[h] = "writing"
    BY <1>3 DEF WriteDevice, history
  <2>2. \A g \in Handlers \ {h} : mine'[g] = mine[g]
    BY <1>3, TurnEffect
  <2> QED
    BY <2>1, <2>2
<1>4. ASSUME NEW h \in Handlers, Commit(h) PROVE Published'
  <2>1. UNCHANGED <<announced, mine>> /\ pc' = [pc EXCEPT ![h] = "committed"]
        /\ appended' = appended \cup mine[h].events
    BY <1>4 DEF Commit, Step, locals
  <2> QED
    BY <2>1
<1>5. ASSUME NEW h \in Handlers, SkipPrune(h) \/ PruneSessions(h) \/ PruneEvents(h) PROVE Published'
  <2>1. UNCHANGED <<announced, appended, mine>> /\ pc[h] \in {"committed", "pruning"}
    BY <1>5 DEF SkipPrune, PruneSessions, PruneEvents, Step, locals, history
  <2>2. \E to \in {"pruning", "notifying"} : pc' = [pc EXCEPT ![h] = to]
    BY <1>5 DEF SkipPrune, PruneSessions, PruneEvents, Step
  <2> QED
    BY <2>1, <2>2
<1>6. ASSUME NEW h \in Handlers, Notify(h) PROVE Published'
  BY <1>6 DEF Notify, Step, locals, history
<1>7. CASE Tick \/ UNCHANGED vars
  BY <1>7 DEF Tick, vars, locals, history
<1> QED
  BY <1>1, <1>2, <1>3, <1>4, <1>5, <1>6, <1>7 DEF Next, Handle

-----------------------------------------------------------------------------
(* Theorems *)

Inv == Typed /\ Locking /\ Chained /\ Published

\* Every reachable state satisfies the inductive invariant.
THEOREM InventoryInvariant == Spec => []Inv
<1>1. Init => Inv
  BY TypedInit, LockingInit, ChainedInit DEF Init, Inv, Published
<1>2. Inv /\ [Next]_vars => Inv'
  BY TypedStep, LockingStep, ChainedStep, PublishedStep DEF Inv
<1> QED
  BY <1>1, <1>2, PTL DEF Spec

\* The rows and the handlers' locals keep their types.
THEOREM InventoryTypeCorrect == Spec => []TypeOK
BY InventoryInvariant, PTL DEF Inv, Typed

\* However many pushes race, roll back and prune by their own clocks, what is
\* deleted of a network's chain is its old end.
THEOREM RetainedSuffix == Spec => []RetainedIsSuffix
BY InventoryInvariant, PTL DEF Inv, Chained, Recorded

\* A chain that is whole verifies.
LEMMA ChainAccepted ==
  ASSUME Recorded PROVE WholeChainVerifies
<1> SUFFICES ASSUME NEW n \in Nets, EventsOf(n, appended) \subseteq events PROVE Verifies(n, events)
  BY DEF WholeChainVerifies
<1>1. EventsOf(n, events) = EventsOf(n, appended)
  BY DEF Recorded, EventsOf
<1>2. \A f \in EventsOf(n, events) : f.row = Hash(f.prev, n, f.mac, f.ts)
  BY <1>1 DEF Recorded, Hashed, EventsOf
<1> QED
  BY <1>1, <1>2 DEF Recorded, Verifies, Linked, Rooted

\* get_audit_verify accepts every chain of which nothing was deleted.
THEOREM WholeChainAccepted == Spec => []WholeChainVerifies
BY InventoryInvariant, ChainAccepted, PTL DEF Inv, Chained

\* The events between two times are consecutive links.
LEMMA PagesAreLinked ==
  ASSUME Typed, Recorded PROVE AuditPagesLinked
<1> SUFFICES ASSUME NEW n \in Nets, NEW from \in 0..MaxTime, NEW to \in 0..MaxTime
             PROVE  Linked(GetAudit(n, from, to).events)
  BY DEF AuditPagesLinked, Linked
<1>1. Ordered(EventsOf(n, events)) /\ Linked(EventsOf(n, events))
  BY DEF Recorded, Ordered, EventsOf
<1>2. Numbered(EventsOf(n, events))
  BY AllNumbered
<1>3. GetAudit(n, from, to).events = {e \in EventsOf(n, events) : e.ts \in from..to}
  BY DEF GetAudit
<1>4. Linked({e \in EventsOf(n, events) : e.ts \in from..to})
  BY <1>1, <1>2, PageLinked
<1> QED
  BY <1>3, <1>4

\* get_audit selects by time, and still returns consecutive links.
THEOREM PagesLinked == Spec => []AuditPagesLinked
BY InventoryInvariant, PagesAreLinked, PTL DEF Inv, Chained

\* The newest events by time are the last ones of a chain, but for equal times.
LEMMA LatestAreShown ==
  ASSUME Typed, Recorded PROVE LatestEventsShown
<1> USE InventoryConstants DEF InventoryConstants
<1> SUFFICES ASSUME NEW n \in Nets, NEW shown \in GetEvents(TenantOf[n]),
                    NEW e \in EventsOf(n, shown), NEW f \in EventsOf(n, events) \ shown, f.seq > e.seq
             PROVE  f.ts = e.ts
  BY DEF LatestEventsShown
<1>1. e \in EventsOf(n, events) /\ f \in EventsOf(n, events) /\ e.ts >= f.ts
  BY DEF GetEvents, EventsOf
<1>2. e.ts <= f.ts
  BY <1>1, AllNumbered DEF Recorded, Ordered, EventsOf, Numbered
<1> QED
  BY <1>1, <1>2, AllNumbered DEF Numbered

\* ORDER BY ts DESC LIMIT 100 leaves out no later event of a chain for an
\* earlier one, but at the same second.
THEOREM LatestShown == Spec => []LatestEventsShown
BY InventoryInvariant, LatestAreShown, PTL DEF Inv, Chained

\* A chain that verifies does so no longer after a change of one row.
LEMMA TamperingIsEvident ==
  ASSUME Typed, Recorded PROVE TamperEvident
<1>1. \A n \in Nets : Numbered(EventsOf(n, events)) /\ Ordered(EventsOf(n, events))
  BY AllNumbered DEF Recorded, Ordered, EventsOf
<1>2. Shaped(events)
  BY DEF Recorded, Shaped
<1> QED
  BY <1>1, <1>2, TamperingShows

\* get_audit_verify accepts no chain after a row before the last was taken out,
\* or after a row was given another device, with a fresh hash or without.
THEOREM TamperingDetected == Spec => []TamperEvident
BY InventoryInvariant, TamperingIsEvident, PTL DEF Inv, Chained

\* A call tells of no device whose event was rolled back.
THEOREM AnnouncedRecorded == Spec => []AnnouncedAreRecorded
BY InventoryInvariant, PTL DEF Inv, Published, AnnouncedAreRecorded

\* A commit adds a batch to the log, retention trims it, nothing else moves it.
LEMMA LogStep ==
  ASSUME Inv, [Next]_vars
  PROVE  [Log!Trim \/ \E n \in Nets : Log!Extend(n)]_<<events, appended>>
<1> USE InventoryConstants DEF InventoryConstants
<1>1. ASSUME NEW h \in Handlers, Commit(h) PROVE \E n \in Nets : Log!Extend(n)
  <2> DEFINE n == NetOf[h]
             batch == appended' \ appended
  <2>1. events' = events \cup Mine(h) /\ appended' = appended \cup Mine(h) /\ pc[h] = "writing"
    BY <1>1 DEF Commit, Step, Mine
  <2>2. n \in Nets /\ Extends(h) /\ \A f \in Mine(h) : f.net = n
    BY <2>1 DEF Inv, Chained, Typed, WrittenOK
  <2>3. /\ \A e \in Old(h) \cup Mine(h) : e.seq \in Nat
        /\ \A e \in Left(h) \cup Mine(h) : e.seq \in Nat
    BY <2>1, AllNumbered DEF Inv, Numbered
  <2>4. batch = Mine(h)
    <3>1. \A f \in Mine(h) : f \notin appended
      BY <2>2, <2>3 DEF Extends, Old, EventsOf
    <3> QED
      BY <2>1, <3>1
  <2>5. Log!Chain(n, appended) = Old(h) /\ Log!Chain(n, events') = Left(h) \cup Mine(h)
    BY <2>1, <2>2 DEF Log!Chain, Old, Left, EventsOf
  <2>6. ASSUME NEW f \in Mine(h), NEW e \in Left(h) \cup Mine(h), e.seq < f.seq,
               \A g \in Left(h) \cup Mine(h) : g.seq <= e.seq \/ f.seq <= g.seq
        PROVE  f.prev = e.row
    <3>1. Follows(f, e, Left(h) \cup Mine(h))
      BY <2>3, <2>6 DEF Follows
    <3> QED
      BY <2>2, <3>1 DEF Extends, Tip, Linked
  <2>7. Log!Extend(n)
    BY <2>1, <2>2, <2>4, <2>5, <2>6 DEF Log!Extend, Extends
  <2> QED
    BY <2>2, <2>7
<1>2. ASSUME NEW h \in Handlers, PruneEvents(h) PROVE Log!Trim
  <2>1. RetainedIsSuffix' /\ events \subseteq appended
    BY <1>2, ChainedPrune, TypedStep DEF Inv, Chained, Recorded
  <2>2. events' \subseteq events /\ appended' = appended
    BY <1>2 DEF PruneEvents, history
  <2> QED
    BY <2>1, <2>2 DEF Log!Trim, RetainedIsSuffix
<1>3. ASSUME NEW h \in Handlers,
             \/ SelectNetwork(h) \/ UpsertNetwork(h) \/ ReadSnapshot(h) \/ WriteDevice(h) \/ SkipPrune(h)
             \/ PruneSessions(h) \/ Notify(h) \/ Fail(h)
      PROVE  UNCHANGED <<events, appended>>
  BY <1>3 DEF SelectNetwork, UpsertNetwork, ReadSnapshot, WriteDevice, SkipPrune, PruneSessions, Notify,
              Fail, tables, history
<1>4. ASSUME Tick \/ UNCHANGED vars PROVE UNCHANGED <<events, appended>>
  BY <1>4 DEF Tick, vars, tables, history
<1> QED
  BY <1>1, <1>2, <1>3, <1>4 DEF Next, Handle

\* The events table is an append-only log that may lose its oldest rows, however
\* pushes overlap: a commit extends one network's chain, retention trims.
THEOREM ImplementsLog == Spec => ImplementsAuditLog
<1>1. Init => Log!LogInit
  BY DEF Init, Log!LogInit
<1>2. Inv /\ [Next]_vars => [Log!Trim \/ \E n \in Nets : Log!Extend(n)]_<<events, appended>>
  BY LogStep
<1> QED
  BY <1>1, <1>2, InventoryInvariant, PTL DEF Spec, ImplementsAuditLog, Log!LogSpec
=============================================================================
