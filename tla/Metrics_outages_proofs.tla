----------------------- MODULE Metrics_outages_proofs -----------------------
(***************************************************************************)
(* That the outages post_metrics records are the runs of lost samples, of  *)
(* pushes that come one after the other with their samples in order:       *)
(* recorded report by report and sample by sample, they are what the whole *)
(* series defines.                                                         *)
(***************************************************************************)
EXTENDS Metrics_proofs

-----------------------------------------------------------------------------
(* Runs of a set of samples *)

Starts(S, s) ==
  s.lost /\ \A u \in S : u.ts < s.ts /\ u.lost => \E v \in S : v.ts < s.ts /\ ~v.lost /\ u.ts < v.ts

Ends(S, s) == {u.ts : u \in {v \in S : ~v.lost /\ v.ts > s.ts}}

EndOf(S, s) == IF Ends(S, s) = {} THEN Open ELSE CHOOSE e \in Ends(S, s) : \A f \in Ends(S, s) : e <= f

Runs(S) == {<<s.ts, EndOf(S, s)>> : s \in {u \in S : Starts(S, u)}}

\* Samples of different times.
Series(S) ==
  /\ \A s \in S : s.ts \in Nat /\ s.lost \in BOOLEAN
  /\ \A s, u \in S : s.ts = u.ts => s = u

\* Outages that record the runs of the samples.
Recorded(rows, S) ==
  /\ \A o \in rows : \E s \in S : Starts(S, s) /\ o.from = s.ts /\ o.to = EndOf(S, s)
  /\ \A s \in S : Starts(S, s) => \E o \in rows : o.from = s.ts /\ o.to = EndOf(S, s)
  /\ \A o, p \in rows : o.from = p.from => o = p

-----------------------------------------------------------------------------
(* The samples that a call has gone through *)

Row(c, i) == [id |-> <<c, i>>, target |-> report[c][i].target, ts |-> report[c][i].ts,
              lost |-> report[c][i].lost]

InternetOf(c) == {i \in DOMAIN report[c] : report[c][i].target = Internet}

Seen(c) == Arrived \cup {Row(c, i) : i \in done[c]}

\* If the call commits, the samples will be in order.
InOrderWith(c) ==
  /\ \A s \in Arrived, i \in InternetOf(c) : s.ts < report[c][i].ts
  /\ \A i, j \in InternetOf(c) : i # j => report[c][i].ts # report[c][j].ts

\* A call goes through its samples in the order of their times.
Sorted ==
  \A c \in Calls :
    /\ pc[c] \in {"idle", "trimming", "deleting"} => own[c] = {} /\ done[c] = {}
    /\ done[c] \subseteq InternetOf(c)
    /\ \A i \in done[c], j \in Rest(c) : report[c][i].ts <= report[c][j].ts
    /\ Active(c) => \A v \in own[c] : v.id[1] = c => v.id[2] \in done[c]

\* What it sees are the runs of what has come so far.
RunsSeen ==
  /\ InOrder => Recorded(outages, Arrived)
  /\ \A c \in Calls :
       /\ pc[c] \in {"reading", "writing"} /\ InOrder /\ InOrderWith(c) => Recorded(OutagesSeen(c), Seen(c))
       /\ pc[c] = "writing" /\ found[c] # NoOutage => found[c] \in Unended(c)

RunsInv == Sorted /\ (~overlapped => RunsSeen)

-----------------------------------------------------------------------------
(* One more sample *)

\* A run ends with the first sample that got through.
LEMMA EndIsFirst ==
  ASSUME NEW S, Series(S), NEW s \in S
  PROVE  /\ Ends(S, s) \in SUBSET Nat
         /\ Ends(S, s) = {} => EndOf(S, s) = Open
         /\ Ends(S, s) # {} => EndOf(S, s) \in Ends(S, s) /\ \A f \in Ends(S, s) : EndOf(S, s) <= f
         /\ \A e \in Ends(S, s) : (\A f \in Ends(S, s) : e <= f) => EndOf(S, s) = e
<1>1. Ends(S, s) \in SUBSET Nat
  BY DEF Ends, Series
<1> DEFINE E == Ends(S, s)
<1>2. E # {} => \E e \in E : \A f \in E : e <= f
  <2> HIDE DEF E
  <2> QED
    BY <1>1, LeastNatural DEF E
<1>3. E # {} => EndOf(S, s) \in E /\ \A f \in E : EndOf(S, s) <= f
  BY <1>2 DEF EndOf
<1>4. ASSUME NEW e \in E, \A f \in E : e <= f PROVE EndOf(S, s) = e
  <2>1. EndOf(S, s) \in E /\ EndOf(S, s) <= e /\ e <= EndOf(S, s)
    BY <1>3, <1>4
  <2>2. EndOf(S, s) \in Nat /\ e \in Nat
    BY <1>1, <2>1
  <2> QED
    BY <2>1, <2>2
<1> QED
  BY <1>1, <1>3, <1>4 DEF EndOf

\* Of the lost samples that none got through after, the first starts a run, and
\* it is the only one that has not ended.
LEMMA OpenRun ==
  ASSUME NEW S, Series(S)
  PROVE  /\ (\E s \in S : s.lost /\ Ends(S, s) = {}) <=> \E s \in S : Starts(S, s) /\ EndOf(S, s) = Open
         /\ \A s, u \in S : Starts(S, s) /\ Starts(S, u) /\ EndOf(S, s) = Open /\ EndOf(S, u) = Open => s = u
<1>1. ASSUME NEW s \in S, s.lost, Ends(S, s) = {}
      PROVE  \E u \in S : Starts(S, u) /\ EndOf(S, u) = Open
  <2> DEFINE L == {u \in S : u.lost /\ Ends(S, u) = {}}
             T == {u.ts : u \in L}
  <2>1. PICK t \in T : \A x \in T : t <= x
    <3>1. T \in SUBSET Nat /\ T # {}
      BY <1>1 DEF Series
    <3> HIDE DEF T
    <3> QED
      BY <3>1, LeastNatural
  <2>2. PICK u \in L : u.ts = t
    BY <2>1
  <2>3. ASSUME NEW w \in S, w.ts < u.ts, w.lost
        PROVE  \E v \in S : v.ts < u.ts /\ ~v.lost /\ w.ts < v.ts
    <3>1. w \notin L
      BY <2>1, <2>2, <2>3 DEF Series
    <3>2. PICK v \in S : ~v.lost /\ v.ts > w.ts
      BY <2>3, <3>1 DEF Ends
    <3>3. ~(v.ts > u.ts)
      BY <2>2, <3>2 DEF Ends
    <3>4. v.ts # u.ts
      BY <2>2, <3>2 DEF Series
    <3> QED
      BY <3>2, <3>3, <3>4 DEF Series
  <2> QED
    BY <2>2, <2>3 DEF Starts, EndOf
<1>2. ASSUME NEW s \in S, EndOf(S, s) = Open PROVE Ends(S, s) = {}
  <2>1. Open \notin Nat
    BY DEF Open
  <2> QED
    BY <1>2, <2>1, EndIsFirst
<1>3. ASSUME NEW s \in S, NEW u \in S, Starts(S, s), Starts(S, u), EndOf(S, s) = Open, s.ts < u.ts PROVE FALSE
  <2>1. PICK v \in S : v.ts < u.ts /\ ~v.lost /\ s.ts < v.ts
    BY <1>3 DEF Starts
  <2>2. v.ts \in Ends(S, s)
    BY <2>1 DEF Ends, Series
  <2> QED
    BY <1>2, <1>3, <2>2
<1>4. ASSUME NEW s \in S, NEW u \in S, Starts(S, s), Starts(S, u), EndOf(S, s) = Open, EndOf(S, u) = Open
      PROVE  s = u
  <2>1. s.ts \in Nat /\ u.ts \in Nat /\ ~(s.ts < u.ts) /\ ~(u.ts < s.ts)
    BY <1>3, <1>4 DEF Series
  <2>2. s.ts = u.ts
    BY <2>1
  <2> QED
    BY <2>2 DEF Series
<1>5. ASSUME NEW s \in S, Starts(S, s), EndOf(S, s) = Open PROVE s.lost /\ Ends(S, s) = {}
  BY <1>2, <1>5 DEF Starts
<1> QED
  BY <1>1, <1>4, <1>5

\* A sample that comes after all others starts a run if it is lost and none is
\* open, ends the open run if it got through, and changes nothing else.
LEMMA OneSampleMore ==
  ASSUME NEW S, NEW x, Series(S), Series(S \cup {x}), \A s \in S : s.ts < x.ts
  PROVE  /\ \A s \in S : Starts(S \cup {x}, s) <=> Starts(S, s)
         /\ \A s \in S : EndOf(S \cup {x}, s) = IF EndOf(S, s) = Open /\ ~x.lost THEN x.ts ELSE EndOf(S, s)
         /\ Starts(S \cup {x}, x) <=> x.lost /\ \A s \in S : Starts(S, s) => EndOf(S, s) # Open
         /\ EndOf(S \cup {x}, x) = Open
<1> DEFINE T == S \cup {x}
<1>0. x.ts \in Nat /\ x.lost \in BOOLEAN /\ \A s \in S : s.ts \in Nat /\ s.ts < x.ts /\ s.lost \in BOOLEAN
  BY DEF Series
<1>1. ASSUME NEW s \in S PROVE Starts(T, s) <=> Starts(S, s)
  <2>1. \A u \in T : u.ts < s.ts => u \in S
    BY <1>0
  <2> QED
    BY <2>1 DEF Starts
<1>2. ASSUME NEW s \in S PROVE Ends(T, s) = IF x.lost THEN Ends(S, s) ELSE Ends(S, s) \cup {x.ts}
  BY <1>0 DEF Ends
<1>3. ASSUME NEW s \in S PROVE EndOf(T, s) = IF EndOf(S, s) = Open /\ ~x.lost THEN x.ts ELSE EndOf(S, s)
  <2>0. /\ Ends(S, s) \in SUBSET Nat
        /\ Ends(S, s) = {} => EndOf(S, s) = Open
        /\ Ends(S, s) # {} => EndOf(S, s) \in Ends(S, s) /\ \A f \in Ends(S, s) : EndOf(S, s) <= f
    BY EndIsFirst
  <2>a. \A e \in Ends(T, s) : (\A f \in Ends(T, s) : e <= f) => EndOf(T, s) = e
    BY EndIsFirst
  <2>1. CASE x.lost
    <3>1. Ends(T, s) = Ends(S, s)
      BY <1>2, <2>1
    <3>2. EndOf(T, s) = EndOf(S, s)
      <4> HIDE DEF T
      <4> QED
        BY <3>1 DEF EndOf
    <3> QED
      BY <2>1, <3>2
  <2>2. CASE ~x.lost /\ Ends(S, s) = {}
    <3>1. Ends(T, s) = {x.ts} /\ EndOf(S, s) = Open
      BY <1>2, <2>0, <2>2
    <3>2. x.ts <= x.ts
      BY <1>0
    <3> QED
      BY <2>2, <2>a, <3>1, <3>2
  <2>3. CASE ~x.lost /\ Ends(S, s) # {}
    <3>1. EndOf(S, s) \in Ends(S, s) /\ EndOf(S, s) # Open
      BY <2>0, <2>3 DEF Open
    <3>2. \A f \in Ends(S, s) : f < x.ts
      BY <1>0 DEF Ends
    <3>3. Ends(T, s) = Ends(S, s) \cup {x.ts}
      BY <1>2, <2>3
    <3>4. EndOf(S, s) <= x.ts
      BY <1>0, <2>0, <3>1, <3>2
    <3>5. EndOf(S, s) \in Ends(T, s) /\ \A f \in Ends(T, s) : EndOf(S, s) <= f
      BY <2>0, <2>3, <3>3, <3>4
    <3> QED
      BY <2>a, <2>3, <3>1, <3>5
  <2> QED
    BY <1>0, <2>1, <2>2, <2>3
<1>4. EndOf(T, x) = Open
  <2>1. Ends(T, x) = {}
    BY <1>0 DEF Ends
  <2> QED
    BY <2>1 DEF EndOf
<1>5. Starts(T, x) <=> x.lost /\ \A s \in S : Starts(S, s) => EndOf(S, s) # Open
  <2>1. Starts(T, x) <=> x.lost /\ ~ \E s \in S : s.lost /\ Ends(S, s) = {}
    <3>1. \A s \in S : Ends(S, s) = {} <=> ~ \E v \in T : v.ts < x.ts /\ ~v.lost /\ s.ts < v.ts
      BY <1>0 DEF Ends
    <3>2. \A s \in T : s.ts < x.ts <=> s \in S
      BY <1>0
    <3> QED
      BY <3>1, <3>2 DEF Starts
  <2>2. (\E s \in S : s.lost /\ Ends(S, s) = {}) <=> \E s \in S : Starts(S, s) /\ EndOf(S, s) = Open
    BY OpenRun
  <2> QED
    BY <2>1, <2>2
<1> QED
  BY <1>1, <1>3, <1>4, <1>5

-----------------------------------------------------------------------------
(* What is done to outages for one more sample *)

\* Nothing, when it is lost and an outage is open or got through and none is.
LEMMA KeepRecords ==
  ASSUME NEW S, NEW x, Series(S), Series(S \cup {x}), \A s \in S : s.ts < x.ts,
         NEW rows, Recorded(rows, S), x.lost <=> \E o \in rows : o.to = Open
  PROVE  Recorded(rows, S \cup {x})
<1> DEFINE T == S \cup {x}
<1>1. /\ \A s \in S : Starts(T, s) <=> Starts(S, s)
      /\ \A s \in S : EndOf(T, s) = IF EndOf(S, s) = Open /\ ~x.lost THEN x.ts ELSE EndOf(S, s)
      /\ Starts(T, x) <=> x.lost /\ \A s \in S : Starts(S, s) => EndOf(S, s) # Open
  BY OneSampleMore
<1>2. ~Starts(T, x)
  BY <1>1 DEF Recorded
<1>3. \A s \in S : Starts(S, s) => EndOf(T, s) = EndOf(S, s)
  BY <1>1 DEF Recorded
<1> HIDE DEF T
<1>4. \A s \in T : Starts(T, s) <=> s \in S /\ Starts(S, s)
  BY <1>1, <1>2 DEF T
<1>5. S \subseteq T
  BY DEF T
<1>6. Recorded(rows, T)
  BY <1>3, <1>4, <1>5 DEF Recorded
<1> QED
  BY <1>6 DEF T

\* A new one that is open, when it is lost and none is.
LEMMA StartRecords ==
  ASSUME NEW S, NEW x, Series(S), Series(S \cup {x}), \A s \in S : s.ts < x.ts,
         NEW rows, Recorded(rows, S), x.lost, \A o \in rows : o.to # Open,
         NEW v, v.from = x.ts, v.to = Open
  PROVE  Recorded(rows \cup {v}, S \cup {x})
<1> DEFINE T == S \cup {x}  Q == rows \cup {v}
<1>1. /\ \A s \in S : Starts(T, s) <=> Starts(S, s)
      /\ \A s \in S : EndOf(T, s) = IF EndOf(S, s) = Open /\ ~x.lost THEN x.ts ELSE EndOf(S, s)
      /\ Starts(T, x) <=> x.lost /\ \A s \in S : Starts(S, s) => EndOf(S, s) # Open
      /\ EndOf(T, x) = Open
  BY OneSampleMore
<1>2. \A s \in S : EndOf(T, s) = EndOf(S, s)
  BY <1>1
<1>3. Starts(T, x)
  BY <1>1 DEF Recorded
<1>4. \A o \in rows : o.from # v.from
  BY DEF Recorded, Series
<1>5. \A o \in Q : \E s \in T : Starts(T, s) /\ o.from = s.ts /\ o.to = EndOf(T, s)
  <2>1. ASSUME NEW o \in rows PROVE \E s \in S : Starts(T, s) /\ o.from = s.ts /\ o.to = EndOf(T, s)
    <3>1. PICK s \in S : Starts(S, s) /\ o.from = s.ts /\ o.to = EndOf(S, s)
      BY DEF Recorded
    <3> QED
      BY <1>1, <1>2, <3>1
  <2> QED
    BY <1>1, <1>3, <2>1
<1>6. \A s \in T : Starts(T, s) => \E o \in Q : o.from = s.ts /\ o.to = EndOf(T, s)
  <2>1. ASSUME NEW s \in S, Starts(T, s) PROVE \E o \in rows : o.from = s.ts /\ o.to = EndOf(T, s)
    BY <1>1, <1>2, <2>1 DEF Recorded
  <2> QED
    BY <1>1, <2>1
<1>7. \A o, p \in Q : o.from = p.from => o = p
  BY <1>4 DEF Recorded
<1> HIDE DEF T, Q
<1>8. Recorded(Q, T)
  BY <1>5, <1>6, <1>7 DEF Recorded
<1> QED
  BY <1>8 DEF T, Q

\* The end of the open one, when it got through.
LEMMA EndRecords ==
  ASSUME NEW S, NEW x, Series(S), Series(S \cup {x}), \A s \in S : s.ts < x.ts,
         NEW rows, Recorded(rows, S), ~x.lost, NEW o \in rows, o.to = Open,
         NEW v, v.from = o.from, v.to = x.ts
  PROVE  Recorded((rows \ {o}) \cup {v}, S \cup {x})
<1> DEFINE T == S \cup {x}  Q == (rows \ {o}) \cup {v}
<1>1. /\ \A s \in S : Starts(T, s) <=> Starts(S, s)
      /\ \A s \in S : EndOf(T, s) = IF EndOf(S, s) = Open /\ ~x.lost THEN x.ts ELSE EndOf(S, s)
      /\ Starts(T, x) <=> x.lost /\ \A s \in S : Starts(S, s) => EndOf(S, s) # Open
  BY OneSampleMore
<1>2. ~Starts(T, x)
  BY <1>1
<1>3. PICK so \in S : Starts(S, so) /\ o.from = so.ts /\ EndOf(S, so) = Open
  BY DEF Recorded
<1>4. EndOf(T, so) = x.ts
  BY <1>1, <1>3
<1>5. ASSUME NEW s \in S, Starts(S, s), s # so PROVE s.ts # o.from /\ EndOf(T, s) = EndOf(S, s)
  <2>1. EndOf(S, s) # Open
    BY <1>3, <1>5, OpenRun
  <2>2. s.ts # so.ts
    BY <1>5 DEF Series
  <2> QED
    BY <1>1, <1>3, <2>1, <2>2
<1>6. \A p \in Q : \E s \in T : Starts(T, s) /\ p.from = s.ts /\ p.to = EndOf(T, s)
  <2>1. ASSUME NEW p \in rows \ {o} PROVE \E s \in S : Starts(T, s) /\ p.from = s.ts /\ p.to = EndOf(T, s)
    <3>1. PICK s \in S : Starts(S, s) /\ p.from = s.ts /\ p.to = EndOf(S, s)
      BY DEF Recorded
    <3>2. p.from # o.from
      BY <2>1 DEF Recorded
    <3> QED
      BY <1>1, <1>3, <1>5, <3>1, <3>2
  <2> QED
    BY <1>1, <1>3, <1>4, <2>1
<1>7. \A s \in T : Starts(T, s) => \E p \in Q : p.from = s.ts /\ p.to = EndOf(T, s)
  <2>1. ASSUME NEW s \in S, Starts(S, s), s # so PROVE \E p \in rows \ {o} : p.from = s.ts /\ p.to = EndOf(T, s)
    <3>1. PICK p \in rows : p.from = s.ts /\ p.to = EndOf(S, s)
      BY <2>1 DEF Recorded
    <3> QED
      BY <1>5, <2>1, <3>1
  <2>2. v \in Q /\ v.from = so.ts /\ v.to = EndOf(T, so)
    BY <1>3, <1>4
  <2> QED
    BY <1>1, <1>2, <2>1, <2>2
<1>8. \A p, q \in Q : p.from = q.from => p = q
  BY DEF Recorded
<1> HIDE DEF T, Q
<1>9. Recorded(Q, T)
  BY <1>6, <1>7, <1>8 DEF Recorded
<1> QED
  BY <1>9 DEF T, Q

-----------------------------------------------------------------------------
(* The order of the samples *)

\* What has arrived are the Internet samples of the committed calls.
LEMMA ArrivedOf == Arrived = Of(All, Internet)
BY DEF Arrived, Of, All

\* Every step goes through samples in the order of their times.
LEMMA SortedStep ==
  ASSUME Typed, Versions, FoundThere, Sorted, [Next]_vars
  PROVE  Sorted'
<1> DEFINE OK(d) == /\ pc[d] \in {"idle", "trimming", "deleting"} => own[d] = {} /\ done[d] = {}
                    /\ done[d] \subseteq InternetOf(d)
                    /\ \A i \in done[d], j \in Rest(d) : report[d][i].ts <= report[d][j].ts
                    /\ Active(d) => \A v \in own[d] : v.id[1] = d => v.id[2] \in done[d]
<1>0. (\A d \in Calls : OK(d)) <=> Sorted
  BY DEF Sorted
<1>a. (\A d \in Calls : OK(d)') <=> Sorted'
  BY DEF Sorted
<1>1. ASSUME NEW c \in Calls, Moves(c) PROVE Sorted'
  <2>1. ASSUME NEW d \in Calls \ {c} PROVE OK(d)'
    <3>1. Same(d)
      BY <1>1, OneMoves
    <3> QED
      BY <1>0, <3>1 DEF Same, Active, InternetOf, Rest, Sorted
  <2>2. OK(c)
    BY <1>0 DEF Sorted
  <2>3. CASE Begin(c)
    <3>1. own'[c] = {} /\ done'[c] = {}
      BY <2>3 DEF Begin, Step, Typed
    <3> QED
      BY <1>a, <2>1, <3>1
  <2>4. CASE SelectVictims(c) \/ DeleteVictims(c) \/ ReadOpen(c) \/ Conflict(c) \/ Fail(c) \/ Commit(c)
    <3>1. UNCHANGED <<report, done, own>>
      BY <2>4 DEF SelectVictims, DeleteVictims, ReadOpen, Conflict, Fail, Commit, locals
    <3>2. pc'[c] \in {"idle", "trimming", "deleting"} => pc[c] = "trimming"
      BY <2>4 DEF SelectVictims, DeleteVictims, ReadOpen, Conflict, Fail, Commit, Step, Typed, TypeOK
    <3>3. Active(c)
      BY <2>4 DEF SelectVictims, DeleteVictims, ReadOpen, Conflict, Fail, Commit, Step, Active, InTransaction
    <3>4. OK(c)'
      BY <2>2, <3>1, <3>2, <3>3 DEF InternetOf, Rest
    <3> QED
      BY <1>a, <2>1, <3>4
  <2>5. CASE StartOutage(c) \/ EndOutage(c) \/ KeepOutages(c)
    <3>1. /\ pc[c] = "writing" /\ pc'[c] = "reading" /\ report' = report
          /\ done'[c] = done[c] \cup {Sample(c)}
      BY <2>5 DEF StartOutage, EndOutage, KeepOutages, Put, Through, Step, Typed, TypeOK
    <3>2. /\ Sample(c) \in Rest(c)
          /\ \A j \in Rest(c) : report[c][Sample(c)].ts <= report[c][j].ts
      BY <3>1, SampleIsNext DEF Typed
    <3>3. done'[c] \subseteq InternetOf(c)'
      BY <2>2, <3>1, <3>2 DEF InternetOf, Rest
    <3>4. Rest(c)' = Rest(c) \ {Sample(c)}
      BY <3>1 DEF Rest
    <3>5. \A i \in done'[c], j \in Rest(c)' : report'[c][i].ts <= report'[c][j].ts
      BY <2>2, <3>1, <3>2, <3>4
    <3>6. ASSUME NEW v \in own'[c], v.id[1] = c PROVE v.id[2] \in done'[c]
      <4>1. \A w \in own[c] : w.id[1] = c => w.id[2] \in done[c]
        BY <2>2, <3>1 DEF Active, InTransaction
      <4>2. CASE KeepOutages(c)
        BY <3>1, <3>6, <4>1, <4>2 DEF KeepOutages
      <4>3. CASE StartOutage(c) \/ EndOutage(c)
        <5>1. PICK w : PutBy(c, w)
          BY <4>3, Puts
        <5>2. CASE v # w
          BY <3>1, <3>6, <4>1, <5>1, <5>2 DEF PutBy
        <5>3. CASE v = w /\ w.id = <<c, Sample(c)>>
          BY <3>1, <5>3
        <5>4. ASSUME v = w, NEW u \in outages \cup own[c], u.id = w.id PROVE v.id[2] \in done'[c]
          <6>1. u \notin outages
            BY <3>1, <3>6, <5>4 DEF Versions
          <6> QED
            BY <3>1, <3>6, <4>1, <5>4, <6>1
        <5> QED
          BY <5>1, <5>2, <5>3, <5>4 DEF PutBy
      <4> QED
        BY <2>5, <4>2, <4>3
    <3>7. OK(c)'
      BY <3>1, <3>3, <3>5, <3>6
    <3> QED
      BY <1>a, <2>1, <3>7
  <2> QED
    BY <1>1, <2>3, <2>4, <2>5 DEF Moves, Handle
<1>2. CASE UNCHANGED vars
  BY <1>2 DEF vars, locals, Sorted, Active, InternetOf, Rest
<1> QED
  BY <1>1, <1>2 DEF Next, Moves

\* In a step that commits nothing what has arrived and its order stay.
LEMMA OrderStays ==
  ASSUME Typed, NEW c \in Calls, Moves(c), ~Commit(c), ~overlapped, ~overlapped'
  PROVE  Arrived' = Arrived /\ (InOrder' <=> InOrder)
<1>1. committed' = committed /\ committed \in Seq(Calls)
  BY DEF Moves, Begin, Fail, Handle, SelectVictims, DeleteVictims, ReadOpen, StartOutage, Conflict,
         EndOutage, KeepOutages, Put, Typed
<1>2. DOMAIN committed = 1..Len(committed)
  BY <1>1
<1>3. \A k \in DOMAIN committed : Inserted(committed[k])' = Inserted(committed[k])
  BY <1>1, <1>2, CommittedStay DEF Same, Inserted
<1>4. Arrived' = Arrived
  BY <1>1, <1>3 DEF Arrived
<1>5. InOrder' <=> InOrder
  BY <1>1, <1>3 DEF InOrder
<1> QED
  BY <1>4, <1>5

\* What has arrived is part of what a call sees, and in order when that is.
LEMMA SeriesSeen ==
  ASSUME Typed, NEW c \in Calls, done[c] \subseteq InternetOf(c), InOrder
  PROVE  Series(Arrived) /\ (InOrderWith(c) => Series(Seen(c)))
<1>1. ASSUME NEW s \in Arrived PROVE s.ts \in Nat /\ s.lost \in BOOLEAN
  BY ArrivedOf, AllOK DEF Of
<1>2. ASSUME NEW s \in Arrived, NEW u \in Arrived, s.ts = u.ts PROVE s = u
  <2>1. PICK k \in DOMAIN committed : s \in Inserted(committed[k])
    BY DEF Arrived
  <2>2. PICK l \in DOMAIN committed : u \in Inserted(committed[l])
    BY DEF Arrived
  <2>3. s.target = Internet /\ u.target = Internet
    BY DEF Arrived
  <2> QED
    BY <1>2, <2>1, <2>2, <2>3 DEF InOrder
<1>3. ASSUME NEW i \in done[c]
      PROVE  /\ i \in InternetOf(c) /\ Row(c, i).ts = report[c][i].ts
             /\ Row(c, i).ts \in Nat /\ Row(c, i).lost \in BOOLEAN
  BY ReportOK DEF Row, InternetOf
<1>4. ASSUME InOrderWith(c), NEW s \in Arrived, NEW i \in done[c] PROVE s.ts # Row(c, i).ts
  <2>1. s.ts < Row(c, i).ts
    BY <1>3, <1>4 DEF InOrderWith
  <2> QED
    BY <1>1, <1>3, <2>1
<1>5. ASSUME InOrderWith(c), NEW i \in done[c], NEW j \in done[c], Row(c, i).ts = Row(c, j).ts
      PROVE  Row(c, i) = Row(c, j)
  BY <1>3, <1>5 DEF InOrderWith
<1>6. Series(Arrived)
  BY <1>1, <1>2 DEF Series
<1>7. InOrderWith(c) => Series(Seen(c))
  BY <1>1, <1>2, <1>3, <1>4, <1>5 DEF Series, Seen
<1> QED
  BY <1>6, <1>7

\* The next sample of a call comes after all that it has seen.
LEMMA SampleComesLast ==
  ASSUME Typed, Sorted, NEW c \in Calls, pc[c] = "writing", InOrder, InOrderWith(c)
  PROVE  /\ Series(Seen(c)) /\ Series(Seen(c) \cup {Row(c, Sample(c))})
         /\ \A s \in Seen(c) : s.ts < Row(c, Sample(c)).ts
<1> DEFINE n == Sample(c)  x == Row(c, n)
<1>1. n \in InternetOf(c) \ done[c] /\ \A i \in done[c] : report[c][i].ts <= report[c][n].ts
  BY SampleIsNext DEF Typed, Rest, InternetOf, Sorted
<1>2. x.ts = report[c][n].ts /\ x.ts \in Nat /\ x.lost \in BOOLEAN
  BY <1>1, ReportOK DEF Row, InternetOf
<1>3. done[c] \subseteq InternetOf(c)
  BY DEF Sorted
<1>4. Series(Seen(c))
  BY <1>3, SeriesSeen
<1>5. ASSUME NEW s \in Seen(c) PROVE s.ts < x.ts
  <2>1. CASE s \in Arrived
    BY <1>1, <1>2, <2>1 DEF InOrderWith
  <2>2. ASSUME NEW i \in done[c], s = Row(c, i) PROVE s.ts < x.ts
    <3>1. s.ts = report[c][i].ts /\ s.ts \in Nat /\ i \in InternetOf(c) /\ i # n
      BY <1>1, <1>3, <2>2, ReportOK DEF Row, InternetOf
    <3>2. s.ts # x.ts
      BY <1>1, <1>2, <3>1 DEF InOrderWith
    <3> QED
      BY <1>1, <1>2, <3>1, <3>2
  <2> QED
    BY <2>1, <2>2 DEF Seen
<1> HIDE DEF n, x
<1>6. Series(Seen(c) \cup {x})
  BY <1>2, <1>4, <1>5 DEF Series
<1> QED
  BY <1>4, <1>5, <1>6 DEF n, x

-----------------------------------------------------------------------------
(* One step *)

\* A turn of the loop records one sample more.
LEMMA TurnRecords ==
  ASSUME Typed, Versions, FoundThere, Alone, Sorted, RunsSeen, NEW c \in Calls,
         StartOutage(c) \/ EndOutage(c) \/ KeepOutages(c), InOrder, InOrderWith(c)
  PROVE  Recorded(OutagesSeen(c)', Seen(c) \cup {Row(c, Sample(c))})
<1> DEFINE n == Sample(c)  x == Row(c, n)  S == Seen(c)  rows == OutagesSeen(c)
<1>1. pc[c] = "writing" /\ UNCHANGED <<outages, found>>
  BY DEF StartOutage, EndOutage, KeepOutages, Put, Step
<1>2. Recorded(rows, S) /\ (found[c] # NoOutage => found[c] \in Unended(c))
      /\ (found[c] = NoOutage => Unended(c) = {})
  BY <1>1 DEF RunsSeen, Alone
<1>3. Series(S) /\ Series(S \cup {x}) /\ \A s \in S : s.ts < x.ts
  BY <1>1, SampleComesLast
<1>4. x.lost = report[c][n].lost /\ x.ts = report[c][n].ts
  BY DEF Row
<1>5. CASE KeepOutages(c)
  <2>1. own' = own /\ (x.lost <=> found[c] # NoOutage)
    BY <1>4, <1>5 DEF KeepOutages, Row
  <2>2. OutagesSeen(c)' = rows
    BY <1>1, <2>1 DEF OutagesSeen
  <2>3. x.lost <=> \E o \in rows : o.to = Open
    BY <1>2, <2>1 DEF Unended
  <2> HIDE DEF rows, S, x
  <2> QED
    BY <1>2, <1>3, <2>2, <2>3, KeepRecords DEF x, n, S
<1>6. CASE StartOutage(c) \/ EndOutage(c)
  <2>1. PICK v : PutBy(c, v)
    BY <1>6, Puts
  <2>2. own'[c] = {w \in own[c] : w.id # v.id} \cup {v}
    BY <2>1 DEF PutBy
  <2>3. OutagesSeen(c)' = {o \in rows : o.id # v.id} \cup {v}
    BY <1>1, <2>2 DEF OutagesSeen
  <2>4. CASE found[c] = NoOutage
    <3>1. /\ x.lost /\ v.id = <<c, n>> /\ v.from = x.ts /\ v.to = Open /\ IsNew(v)
      BY <1>4, <2>1, <2>4 DEF PutBy
    <3>2. n \notin done[c] /\ \A w \in own[c] : w.id[1] = c => w.id[2] \in done[c]
      BY <1>1, SampleIsNext DEF Typed, Rest, Sorted, Active, InTransaction
    <3>3. \A o \in rows : o.id # v.id
      BY <3>1, <3>2 DEF OutagesSeen, IsNew
    <3>4. OutagesSeen(c)' = rows \cup {v}
      BY <2>3, <3>3
    <3>5. \A o \in rows : o.to # Open
      BY <1>2, <2>4 DEF Unended
    <3> HIDE DEF rows, S, x
    <3>6. Recorded(rows \cup {v}, S \cup {x})
      BY <1>2, <1>3, <3>1, <3>5, StartRecords
    <3> QED
      BY <3>4, <3>6 DEF x, n, S
  <2>5. CASE found[c] # NoOutage
    <3> DEFINE o == found[c]
    <3>1. o \in rows /\ o.to = Open
      BY <1>2, <2>5 DEF Unended
    <3>2. /\ ~x.lost /\ v.id = o.id /\ v.from = o.from
          /\ v.to = IF x.ts >= v.from THEN x.ts ELSE v.from
      BY <1>4, <2>1, <2>5 DEF PutBy
    <3>3. \A p \in rows : p.id = o.id => p = o
      BY <1>1, <3>1 DEF OutagesSeen, Versions, Active, InTransaction
    <3>4. OutagesSeen(c)' = (rows \ {o}) \cup {v}
      <4> HIDE DEF rows, o
      <4> QED
        BY <2>3, <3>1, <3>2, <3>3
    <3>5. v.to = x.ts
      <4>1. PICK s \in S : o.from = s.ts
        BY <1>2, <3>1 DEF Recorded
      <4>2. s.ts < x.ts /\ s.ts \in Nat /\ x.ts \in Nat
        BY <1>3, <4>1 DEF Series
      <4> QED
        BY <3>2, <4>1, <4>2
    <3> HIDE DEF rows, S, x, o
    <3>6. Recorded((rows \ {o}) \cup {v}, S \cup {x})
      BY <1>2, <1>3, <3>1, <3>2, <3>5, EndRecords
    <3> QED
      BY <3>4, <3>6 DEF x, n, S
  <2> QED
    BY <2>4, <2>5
<1> QED
  BY <1>5, <1>6

\* A call that commits has seen all that has arrived with it.
LEMMA CommitRecords ==
  ASSUME Typed, Versions, Alone, Sorted, RunsSeen, NEW c \in Calls, Commit(c), InOrder'
  PROVE  Recorded(outages', Arrived')
<1>1. /\ pc[c] = "reading" /\ Rest(c) = {} /\ outages' = OutagesSeen(c) /\ UNCHANGED <<report, overlapped>>
      /\ committed' = Append(committed, c)
  BY DEF Commit, Step, locals
<1> DEFINE n == Len(committed) + 1
<1>2. /\ DOMAIN committed = 1..Len(committed) /\ Len(committed) \in Nat /\ DOMAIN committed' = 1..n
      /\ committed'[n] = c /\ \A k \in DOMAIN committed : committed'[k] = committed[k] /\ k < n /\ k # n
      /\ \A k \in DOMAIN committed : committed[k] \in Calls /\ committed[k] # c
  <2>1. Len(committed) \in Nat /\ DOMAIN committed = 1..Len(committed) /\ committed \in Seq(Calls)
    BY DEF Typed
  <2>2. /\ DOMAIN committed' = 1..n /\ committed'[n] = c
        /\ \A k \in 1..Len(committed) : committed'[k] = committed[k]
    BY <1>1, <2>1, AppendProperties
  <2>3. \A k \in 1..Len(committed) : committed[k] \in Calls /\ committed[k] # c
    BY <1>1 DEF Typed
  <2> QED
    BY <2>1, <2>2, <2>3
<1>3. \A d : Inserted(d)' = Inserted(d)
  BY <1>1 DEF Inserted
<1>4. \A i \in InternetOf(c) : /\ Row(c, i) \in Inserted(c) /\ Row(c, i).target = Internet
                               /\ Row(c, i).id = <<c, i>> /\ Row(c, i).ts = report[c][i].ts
  BY DEF InternetOf, Row, Inserted
<1>5. ~overlapped /\ \A k, l \in DOMAIN committed' :
         \A s \in Inserted(committed'[k]), u \in Inserted(committed'[l]) :
           s.target = Internet /\ u.target = Internet /\ s # u => s.ts # u.ts /\ (k < l => s.ts < u.ts)
  BY <1>1, <1>3 DEF InOrder
<1>6. InOrder
  BY <1>2, <1>5 DEF InOrder
<1>7. InOrderWith(c)
  <2>1. ASSUME NEW s \in Arrived, NEW i \in InternetOf(c) PROVE s.ts < report[c][i].ts
    <3>1. PICK k \in DOMAIN committed : s \in Inserted(committed[k]) /\ s.target = Internet
      BY DEF Arrived
    <3>2. s.id[1] # c
      BY <1>2, <3>1, InsertedOK
    <3>3. s # Row(c, i)
      BY <1>4, <3>2
    <3>4. k \in DOMAIN committed' /\ n \in DOMAIN committed' /\ k < n
      BY <1>2, <3>1
    <3> QED
      BY <1>2, <1>4, <1>5, <3>1, <3>3, <3>4
  <2>2. ASSUME NEW i \in InternetOf(c), NEW j \in InternetOf(c), i # j PROVE report[c][i].ts # report[c][j].ts
    <3>1. Row(c, i) # Row(c, j)
      BY <1>4, <2>2
    <3>2. n \in DOMAIN committed'
      BY <1>2
    <3> QED
      BY <1>2, <1>4, <1>5, <3>1, <3>2
  <2> QED
    BY <2>1, <2>2 DEF InOrderWith
<1>8. Arrived' = Seen(c)
  <2>1. Arrived' = Arrived \cup Of(Inserted(c), Internet)
    <3>1. Moves(c)
      BY DEF Moves, Handle
    <3>2. All' = All \cup Inserted(c)
      BY <3>1, AllStays
    <3>3. Arrived' = {s \in All' : s.target = Internet}
      BY DEF Arrived, All
    <3> QED
      BY <3>2, <3>3, ArrivedOf DEF Of
  <2>2. done[c] = InternetOf(c)
    BY <1>1 DEF Rest, InternetOf, Sorted
  <2>3. Of(Inserted(c), Internet) = {Row(c, i) : i \in InternetOf(c)}
    BY DEF Of, Inserted, Row, InternetOf
  <2> QED
    BY <2>1, <2>2, <2>3 DEF Seen
<1> QED
  BY <1>1, <1>6, <1>7, <1>8 DEF RunsSeen

\* Every step keeps outages the runs of what has come so far.
LEMMA RunsStep ==
  ASSUME Inv, RunsInv, ~overlapped', [Next]_vars
  PROVE  RunsSeen'
<1> USE DEF Inv
<1>1. ASSUME NEW c \in Calls, Moves(c) PROVE RunsSeen'
  <2>1. ~overlapped /\ Alone /\ \A d \in Calls \ {c} : pc'[d] \notin {"reading", "writing"}
    BY <1>1, MovesAlone DEF Active, InTransaction
  <2>2. Sorted /\ RunsSeen
    BY <2>1 DEF RunsInv
  <2>3. ASSUME Commit(c) PROVE RunsSeen'
    <3>1. InOrder' => Recorded(outages', Arrived')
      BY <2>1, <2>2, <2>3, CommitRecords
    <3>2. \A d \in Calls : pc'[d] \notin {"reading", "writing"}
      BY <2>1, <2>3 DEF Commit, Step, Typed, TypeOK
    <3> QED
      BY <3>1, <3>2 DEF RunsSeen, Recorded, Starts, EndOf, Ends
  <2>4. ASSUME ~Commit(c) PROVE RunsSeen'
    <3>1. Arrived' = Arrived /\ (InOrder' <=> InOrder)
      BY <1>1, <2>1, <2>4, OrderStays
    <3>2. outages' = outages
      BY <1>1, <2>4, OtherMoves, Puts
    \* It is enough to look at the call that moves.
    <3>3. ASSUME /\ pc'[c] \in {"reading", "writing"} /\ InOrder /\ InOrderWith(c)' =>
                      Recorded(OutagesSeen(c)', Seen(c)')
                 /\ pc'[c] = "writing" /\ found'[c] # NoOutage => found'[c] \in Unended(c)'
          PROVE  RunsSeen'
      <4>1. InOrder' => Recorded(outages', Arrived')
        BY <2>2, <3>1, <3>2 DEF RunsSeen
      <4>2. ASSUME NEW d \in Calls
            PROVE  /\ pc'[d] \in {"reading", "writing"} /\ InOrder' /\ InOrderWith(d)' =>
                        Recorded(OutagesSeen(d)', Seen(d)')
                   /\ pc'[d] = "writing" /\ found'[d] # NoOutage => found'[d] \in Unended(d)'
        BY <2>1, <3>1, <3>3
      <4> QED
        BY <4>1, <4>2 DEF RunsSeen, Recorded, Starts, EndOf, Ends
    <3>4. CASE Begin(c) \/ SelectVictims(c) \/ Conflict(c) \/ Fail(c)
      <4>1. pc'[c] \notin {"reading", "writing"}
        BY <3>4 DEF Begin, SelectVictims, Conflict, Fail, Step, Typed, TypeOK
      <4> QED
        BY <3>3, <4>1
    <3>5. CASE DeleteVictims(c)
      <4>1. pc[c] = "deleting" /\ pc'[c] = "reading" /\ UNCHANGED <<report, done, own>>
        BY <3>5 DEF DeleteVictims, Step, Typed, TypeOK
      <4>2. own'[c] = {} /\ done'[c] = {}
        BY <2>2, <4>1 DEF Sorted
      <4>3. OutagesSeen(c)' = outages /\ Seen(c)' = Arrived
        BY <3>1, <3>2, <4>2 DEF OutagesSeen, Seen
      <4> QED
        BY <2>2, <3>3, <4>1, <4>3 DEF RunsSeen
    <3>6. CASE ReadOpen(c)
      <4>1. pc[c] = "reading" /\ UNCHANGED <<report, done, own>>
        BY <3>6 DEF ReadOpen, Step
      <4>2. /\ OutagesSeen(c)' = OutagesSeen(c) /\ Seen(c)' = Seen(c) /\ Unended(c)' = Unended(c)
            /\ InOrderWith(c)' <=> InOrderWith(c)
        BY <3>1, <3>2, <4>1 DEF OutagesSeen, Unended, Seen, Row, InOrderWith, InternetOf
      <4>3. found'[c] = NoOutage \/ found'[c] \in Unended(c)
        BY <3>6, FoundOpen DEF ReadOpen, Typed
      <4> QED
        BY <2>2, <3>3, <4>1, <4>2, <4>3 DEF RunsSeen
    <3>7. CASE StartOutage(c) \/ EndOutage(c) \/ KeepOutages(c)
      <4>1. /\ pc'[c] = "reading" /\ report' = report
            /\ done'[c] = done[c] \cup {Sample(c)}
        BY <3>7 DEF StartOutage, EndOutage, KeepOutages, Put, Through, Step, Typed, TypeOK
      <4>2. Seen(c)' = Seen(c) \cup {Row(c, Sample(c))} /\ (InOrderWith(c)' <=> InOrderWith(c))
        BY <3>1, <4>1 DEF Seen, Row, InOrderWith, InternetOf
      <4> QED
        BY <2>1, <2>2, <3>3, <3>7, <4>1, <4>2, TurnRecords
    <3> QED
      BY <1>1, <2>4, <3>4, <3>5, <3>6, <3>7 DEF Moves, Handle
  <2> QED
    BY <2>3, <2>4
<1>2. CASE UNCHANGED vars
  <2>1. RunsSeen
    BY <1>2 DEF RunsInv, vars
  <2>2. UNCHANGED <<outages, pc, report, done, found, own, committed, overlapped>>
    BY <1>2 DEF vars, locals
  <2>3. \A d : Inserted(d)' = Inserted(d)
    BY <2>2 DEF Inserted
  <2>4. Arrived' = Arrived /\ (InOrder' <=> InOrder)
    BY <2>2, <2>3 DEF Arrived, InOrder
  <2>5. \A d : /\ OutagesSeen(d)' = OutagesSeen(d) /\ Unended(d)' = Unended(d) /\ Seen(d)' = Seen(d)
               /\ InOrderWith(d)' <=> InOrderWith(d)
    BY <2>2, <2>4 DEF OutagesSeen, Unended, Seen, Row, InOrderWith, InternetOf
  <2>6. InOrder' => Recorded(outages', Arrived')
    BY <2>1, <2>2, <2>4 DEF RunsSeen
  <2>7. ASSUME NEW d \in Calls
        PROVE  /\ pc'[d] \in {"reading", "writing"} /\ InOrder' /\ InOrderWith(d)' =>
                    Recorded(OutagesSeen(d)', Seen(d)')
               /\ pc'[d] = "writing" /\ found'[d] # NoOutage => found'[d] \in Unended(d)'
    BY <2>1, <2>2, <2>4, <2>5 DEF RunsSeen
  <2> QED
    BY <2>6, <2>7 DEF RunsSeen, Recorded, Starts, EndOf, Ends
<1> QED
  BY <1>1, <1>2 DEF Next, Moves

\* Pushes that do not overlap, with their samples in order, record the runs of
\* the samples, sample by sample.
THEOREM RunsInvariant == Spec => []RunsInv
<1>1. Init => RunsInv
  <2> SUFFICES ASSUME Init PROVE RunsInv
    OBVIOUS
  <2>1. Arrived = {} /\ outages = {}
    BY DEF Init, Arrived
  <2>2. RunsSeen
    BY <2>1 DEF Init, RunsSeen, Recorded
  <2>3. Sorted
    BY DEF Init, Sorted, Active, InTransaction
  <2> QED
    BY <2>2, <2>3 DEF RunsInv
<1>2. RunsInv /\ Inv /\ [Next]_vars => RunsInv'
  <2> SUFFICES ASSUME RunsInv, Inv, [Next]_vars PROVE RunsInv'
    OBVIOUS
  <2>1. Sorted'
    BY SortedStep DEF RunsInv, Inv
  <2>2. ~overlapped' => RunsSeen'
    BY RunsStep
  <2> QED
    BY <2>1, <2>2 DEF RunsInv
<1> QED
  BY <1>1, <1>2, MetricsInvariant, PTL DEF Spec

-----------------------------------------------------------------------------
(* What is shown *)

\* Rows that have ids of their own are as many as the ids.
LEMMA AsManyIds ==
  ASSUME NEW rows, IsFiniteSet(rows), \A o, p \in rows : o.id = p.id => o = p
  PROVE  Cardinality({[id |-> o.id, ts |-> o.from] : o \in rows}) = Cardinality(rows)
<1> DEFINE T == {[id |-> o.id, ts |-> o.from] : o \in rows}
           f == [o \in rows |-> [id |-> o.id, ts |-> o.from]]
<1>1. f \in Surjection(rows, T)
  BY DEF Surjection
<1>2. \A o, p \in rows : f[o] = f[p] => o = p
  <2>1. \A o \in rows : f[o].id = o.id
    OBVIOUS
  <2> HIDE DEF f
  <2> QED
    BY <2>1
<1>3. f \in [rows -> T]
  OBVIOUS
<1> HIDE DEF f
<1>4. f \in Injection(rows, T)
  BY <1>2, <1>3 DEF Injection, IsInjective
<1> HIDE DEF T
<1>5. Cardinality(T) = Cardinality(rows)
  BY <1>1, <1>4, FS_Surjection
<1> QED
  BY <1>5 DEF T

\* Outages that record the runs are as many as the runs.
LEMMA AsManyRuns ==
  ASSUME NEW S, NEW rows, IsFiniteSet(S), Recorded(rows, S)
  PROVE  IsFiniteSet(rows) /\ Cardinality(rows) = Cardinality(Runs(S))
<1> DEFINE F == {u \in S : Starts(S, u)}
           g == [s \in F |-> <<s.ts, EndOf(S, s)>>]
           f == [o \in rows |-> <<o.from, o.to>>]
           R == Runs(S)
<1>1. IsFiniteSet(R)
  <2>1. g \in Surjection(F, R)
    BY DEF Surjection, Runs
  <2>2. F \in SUBSET S
    OBVIOUS
  <2>3. IsFiniteSet(F)
    BY <2>2, FS_Subset
  <2> HIDE DEF g, F, R
  <2> QED
    BY <2>1, <2>3, FS_Surjection
<1>2. \A o \in rows : f[o] = <<o.from, o.to>> /\ f[o] \in R
  BY DEF Recorded, Runs
<1>3. \A r \in R : \E o \in rows : f[o] = r
  <2> SUFFICES ASSUME NEW r \in R PROVE \E o \in rows : f[o] = r
    OBVIOUS
  <2>1. PICK s \in S : Starts(S, s) /\ r = <<s.ts, EndOf(S, s)>>
    BY DEF Runs
  <2>2. PICK o \in rows : o.from = s.ts /\ o.to = EndOf(S, s)
    BY <2>1 DEF Recorded
  <2> QED
    BY <2>1, <2>2
<1>4. \A o, p \in rows : f[o] = f[p] => o = p
  BY DEF Recorded
<1>5. f = [o \in rows |-> f[o]]
  OBVIOUS
<1> HIDE DEF f, R
<1>6. f \in [rows -> R]
  BY <1>2, <1>5
<1>7. f \in Injection(rows, R) /\ f \in Surjection(rows, R)
  BY <1>3, <1>4, <1>6 DEF Injection, IsInjective, Surjection
<1>8. IsFiniteSet(rows) /\ Cardinality(rows) = Cardinality(R)
  BY <1>1, <1>7, FS_Injection
<1> QED
  BY <1>8 DEF R

\* LossRuns are the runs of what has arrived.
LEMMA LossRunsOf == LossRuns = Runs(Arrived)
<1> DEFINE before(s) == {u \in Arrived : u.ts < s.ts}
           starts(s) == s.lost /\ \A u \in before(s) : u.lost => \E v \in before(s) : ~v.lost /\ u.ts < v.ts
<1>1. \A s : starts(s) <=> Starts(Arrived, s)
  BY DEF Starts
<1>2. LossRuns = {<<s.ts, EndOf(Arrived, s)>> : s \in {u \in Arrived : starts(u)}}
  BY DEF LossRuns, EndOf, Ends
<1> QED
  BY <1>1, <1>2 DEF Runs

\* record_outages in post_metrics and get_outages: pushes that do not overlap,
\* with their samples in order, show the latest outages of the whole series.
THEOREM OutagesAreRuns == Spec => []OutagesAreLossRuns
<1>1. ASSUME Inv, RunsInv PROVE OutagesAreLossRuns
  <2> SUFFICES ASSUME InOrder, NEW limit \in Limits, NEW shown \in GetOutages(limit)
               PROVE  /\ Cardinality(shown) = IF Cardinality(LossRuns) < Clamp(limit)
                                              THEN Cardinality(LossRuns) ELSE Clamp(limit)
                      /\ \A o \in shown : <<o.from, o.to>> \in LossRuns
                      /\ \A o \in shown, run \in LossRuns :
                           run[1] > o.from => \E p \in shown : <<p.from, p.to>> = run
    BY DEF OutagesAreLossRuns
  <2> DEFINE Key(o) == [id |-> o.id, ts |-> o.from]
             Keys(rows) == {Key(o) : o \in rows}
  <2>1. Recorded(outages, Arrived) /\ ~overlapped
    BY <1>1 DEF InOrder, RunsInv, RunsSeen
  <2>2. IsFiniteSet(Arrived)
    <3>1. Arrived \in SUBSET All
      BY ArrivedOf DEF Of
    <3> QED
      BY <1>1, <2>1, <3>1, FS_Subset DEF Inv, Kept
  <2>3. IsFiniteSet(outages) /\ Cardinality(outages) = Cardinality(LossRuns)
    BY <2>1, <2>2, AsManyRuns, LossRunsOf
  <2>4. \A o, p \in outages : o.id = p.id => o = p
    BY <1>1 DEF Inv, Versions
  <2>5. /\ shown \in SUBSET outages
        /\ Newest(Keys(shown), Keys(outages), Clamp(limit))
    BY DEF GetOutages
  <2>6. /\ Cardinality(Keys(shown)) = Cardinality(shown)
        /\ Cardinality(Keys(outages)) = Cardinality(outages)
    <3>1. IsFiniteSet(shown)
      BY <2>3, <2>5, FS_Subset
    <3> QED
      BY <2>3, <2>4, <2>5, <3>1, AsManyIds
  <2>7. Cardinality(shown) = IF Cardinality(LossRuns) < Clamp(limit)
                             THEN Cardinality(LossRuns) ELSE Clamp(limit)
    BY <2>3, <2>5, <2>6 DEF Newest
  <2>8. ASSUME NEW o \in shown PROVE <<o.from, o.to>> \in LossRuns
    <3>1. PICK s \in Arrived : Starts(Arrived, s) /\ o.from = s.ts /\ o.to = EndOf(Arrived, s)
      BY <2>1, <2>5 DEF Recorded
    <3> QED
      BY <3>1, LossRunsOf DEF Runs
  <2>9. ASSUME NEW o \in shown, NEW run \in LossRuns, run[1] > o.from
        PROVE  \E p \in shown : <<p.from, p.to>> = run
    <3>1. PICK s \in Arrived : Starts(Arrived, s) /\ run = <<s.ts, EndOf(Arrived, s)>>
      BY LossRunsOf DEF Runs
    <3>2. PICK p \in outages : p.from = s.ts /\ p.to = EndOf(Arrived, s)
      BY <2>1, <3>1 DEF Recorded
    <3>3. o.from \in Nat /\ p.from \in Nat
      BY <1>1, <2>5 DEF Inv, Typed, TypeOK
    <3>4. p \in shown
      <4>1. ASSUME p \notin shown PROVE Key(p) \in Keys(outages) \ Keys(shown)
        <5>1. ASSUME NEW q \in shown, Key(q) = Key(p) PROVE FALSE
          <6>1. q.id = p.id
            BY <5>1
          <6> QED
            BY <2>4, <2>5, <4>1, <6>1
        <5> QED
          BY <5>1
      <4>2. ASSUME p \notin shown PROVE Key(o).ts >= Key(p).ts
        BY <2>5, <4>1, <4>2 DEF Newest
      <4>3. Key(o).ts = o.from /\ Key(p).ts = p.from
        OBVIOUS
      <4> QED
        BY <2>9, <3>1, <3>2, <3>3, <4>2, <4>3
    <3> QED
      BY <3>1, <3>2, <3>4
  <2> QED
    BY <2>7, <2>8, <2>9
<1> QED
  BY <1>1, MetricsInvariant, RunsInvariant, PTL
=============================================================================
