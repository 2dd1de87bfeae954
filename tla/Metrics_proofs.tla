--------------------------- MODULE Metrics_proofs ---------------------------
(***************************************************************************)
(* Proofs about Metrics: however the statements of overlapping pushes      *)
(* interleave, there is at most one open outage and none ends before it    *)
(* started; and of pushes that do not overlap none fails over the index    *)
(* of open outages, and the newest samples are kept.                       *)
(*                                                                         *)
(* At most one outage is open because at most one transaction has an       *)
(* uncommitted entry in the index: one that opens an outage finds none,    *)
(* and one that ends the open outage holds its row, which whoever had      *)
(* opened another would have had to end.                                   *)
(***************************************************************************)
EXTENDS Metrics, Least, SequenceTheorems

-----------------------------------------------------------------------------
(* Types *)

Typed ==
  /\ TypeOK
  /\ victims = [c \in Calls |-> victims[c]] /\ trimmed = [c \in Calls |-> trimmed[c]]
  /\ done = [c \in Calls |-> done[c]] /\ found = [c \in Calls |-> found[c]]
  /\ own = [c \in Calls |-> own[c]]
  /\ committed \in Seq(Calls) /\ overlapped \in BOOLEAN
  /\ \A c \in Calls : pc[c] = "idle" => own[c] = {} /\ done[c] = {}
  /\ \A c \in Calls : pc[c] = "writing" => Rest(c) # {}
  /\ \A k \in 1..Len(committed) : committed[k] \in Calls /\ pc[committed[k]] = "done"

OutageOK(o) ==
  /\ o = [id |-> o.id, from |-> o.from, to |-> o.to] /\ o.id \in Calls \X Nat
  /\ o.from \in Nat /\ (o.to = Open \/ (o.to \in Nat /\ o.from <= o.to))

\* A version of a row that is not committed, and an entry in the index that is
\* not: a new row, or the open one that was ended.
IsNew(v)  == \A o \in outages : o.id # v.id
Entry(v)  == ~ \E o \in outages : o.id = v.id /\ o.to # Open
Busy(c)   == \E v \in own[c] : Entry(v)

\* Rows are made by calls and have an id of their own; a version is open only
\* of a row that its call has made.
Versions ==
  /\ \A o \in outages : OutageOK(o) /\ pc[o.id[1]] = "done"
  /\ \A o, p \in outages : o.id = p.id => o = p
  /\ \A c \in Calls : Active(c) =>
       /\ \A v \in own[c] : OutageOK(v) /\ (IsNew(v) => v.id[1] = c) /\ (v.to = Open => IsNew(v))
       /\ \A v, w \in own[c] : v.id = w.id => v = w

\* What was found is an open outage that was there.
FoundThere ==
  \A c \in Calls : pc[c] = "writing" /\ found[c] # NoOutage =>
    /\ OutageOK(found[c]) /\ found[c].to = Open
    /\ \E o \in outages \cup own[c] : o.id = found[c].id

\* The index.
Index ==
  /\ \A o, p \in outages : o.to = Open /\ p.to = Open => o = p
  /\ \A c \in Calls : Active(c) => \A v, w \in own[c] : v.to = Open /\ w.to = Open => v = w
  /\ \A c, d \in Calls : Active(c) /\ Active(d) /\ Busy(c) /\ Busy(d) => c = d
  /\ \A c \in Calls : Active(c) => \A v \in own[c] : IsNew(v) =>
       \A o \in outages : o.to = Open => \E w \in own[c] : w.id = o.id

\* Calls that do not overlap.
Alone ==
  /\ \A c, d \in Calls : Active(c) /\ Active(d) => c = d
  /\ \A c \in Calls : pc[c] # "conflict"
  /\ \A c \in Calls : pc[c] = "writing" /\ found[c] = NoOutage => Unended(c) = {}

Of(rows, t) == {s \in rows : s.target = t}
All         == UNION {Inserted(committed[k]) : k \in DOMAIN committed}
Visible(c)  == samples \cup Inserted(c)

\* They keep the newest samples there ever were.
Kept ==
  /\ samples \subseteq All /\ IsFiniteSet(All)
  /\ \A t \in Targets : Newest(Of(samples, t), Of(All, t), Cap)
  /\ \A c \in Calls, t \in Targets :
       /\ pc[c] = "deleting" =>
            victims[c] \subseteq Visible(c) /\ Newest(Of(Visible(c) \ victims[c], t), Of(Visible(c), t), Cap)
       /\ pc[c] \in {"reading", "writing"} =>
            Newest(Of(Visible(c) \ trimmed[c], t), Of(Visible(c), t), Cap)

Inv == Typed /\ Versions /\ FoundThere /\ Index /\ (~overlapped => Alone /\ Kept)

Moves(c) == Begin(c) \/ Handle(c) \/ Fail(c)

\* A step leaves call d alone.
Same(d) ==
  /\ pc'[d] = pc[d] /\ report'[d] = report[d] /\ victims'[d] = victims[d] /\ trimmed'[d] = trimmed[d]
  /\ done'[d] = done[d] /\ found'[d] = found[d] /\ own'[d] = own[d]

\* A step is one call's, and leaves the others alone.
LEMMA OneMoves ==
  ASSUME Typed, NEW c \in Calls, Moves(c)
  PROVE  pc[c] \notin Ended /\ \A d \in Calls \ {c} : Same(d)
<1> USE DEF Typed, TypeOK, Same, locals, Ended, InTransaction, Active, Step, Put
<1>1. CASE Begin(c)
  BY <1>1 DEF Begin
<1>2. CASE SelectVictims(c)
  BY <1>2 DEF SelectVictims
<1>3. CASE DeleteVictims(c)
  BY <1>3 DEF DeleteVictims
<1>4. CASE ReadOpen(c)
  BY <1>4 DEF ReadOpen
<1>5. CASE StartOutage(c)
  BY <1>5 DEF StartOutage
<1>6. CASE Conflict(c)
  BY <1>6 DEF Conflict
<1>7. CASE EndOutage(c)
  BY <1>7 DEF EndOutage
<1>8. CASE KeepOutages(c)
  BY <1>8 DEF KeepOutages
<1>9. CASE Commit(c)
  BY <1>9 DEF Commit
<1>10. CASE Fail(c)
  BY <1>10 DEF Fail
<1> QED
  BY <1>1, <1>2, <1>3, <1>4, <1>5, <1>6, <1>7, <1>8, <1>9, <1>10 DEF Moves, Handle

\* Reports are sequences of samples.
LEMMA ReportOK ==
  ASSUME Typed, NEW c \in Calls, NEW i \in DOMAIN report[c]
  PROVE  /\ i \in Nat /\ report[c][i].target \in Targets
         /\ report[c][i].ts \in Nat /\ report[c][i].lost \in BOOLEAN
<1>1. report[c] \in Seq([target : Targets, ts : Nat, lost : BOOLEAN])
  <2>1. report[c] \in Reports \/ report[c] = <<>>
    BY DEF Typed, TypeOK
  <2>2. \A S : <<>> \in Seq(S)
    OBVIOUS
  <2> QED
    BY <2>1, <2>2, MetricsConstants DEF MetricsConstants
<1>2. i \in 1..Len(report[c]) /\ Len(report[c]) \in Nat
  BY <1>1
<1>3. report[c][i] \in [target : Targets, ts : Nat, lost : BOOLEAN]
  BY <1>1, <1>2, ElementOfSeq
<1> QED
  BY <1>2, <1>3

\* The next sample is the first of those left.
LEMMA SampleIsNext ==
  ASSUME Typed, NEW c \in Calls, Rest(c) # {}
  PROVE  /\ Sample(c) \in Rest(c)
         /\ \A j \in Rest(c) : report[c][Sample(c)].ts <= report[c][j].ts
<1> DEFINE T == {report[c][i].ts : i \in Rest(c)}
<1>1. \A i \in Rest(c) : i \in Nat /\ report[c][i].ts \in Nat
  BY ReportOK DEF Rest
<1>2. PICK t \in T : \A u \in T : t <= u
  <2>1. T \in SUBSET Nat /\ T # {}
    BY <1>1
  <2> HIDE DEF T
  <2> QED
    BY <2>1, LeastNatural
<1> DEFINE I == {i \in Rest(c) : report[c][i].ts = t}
<1>3. PICK i \in I : \A j \in I : i <= j
  <2>1. I \in SUBSET Nat /\ I # {}
    BY <1>1, <1>2
  <2> HIDE DEF I
  <2> QED
    BY <2>1, LeastNatural
<1>4. ASSUME NEW j \in Rest(c)
      PROVE  \/ report[c][i].ts < report[c][j].ts
             \/ report[c][i].ts = report[c][j].ts /\ i <= j
  <2>1. t <= report[c][j].ts /\ t \in Nat /\ report[c][i].ts = t /\ report[c][j].ts \in Nat
    BY <1>1, <1>2, <1>3
  <2> QED
    BY <1>3, <2>1
<1>5. \E k \in Rest(c) : \A j \in Rest(c) :
        \/ report[c][k].ts < report[c][j].ts
        \/ report[c][k].ts = report[c][j].ts /\ k <= j
  BY <1>3, <1>4
<1>6. /\ Sample(c) \in Rest(c)
      /\ \A j \in Rest(c) : \/ report[c][Sample(c)].ts < report[c][j].ts
                            \/ report[c][Sample(c)].ts = report[c][j].ts /\ Sample(c) <= j
  BY <1>5 DEF Sample
<1> QED
  BY <1>1, <1>6

\* At first nothing was pushed.
LEMMA TypedInit == Init => Typed
<1> SUFFICES ASSUME Init PROVE Typed
  OBVIOUS
<1> USE DEF Init
<1>1. TypeOK
  BY DEF TypeOK
<1>2. committed \in Seq(Calls)
  OBVIOUS
<1>3. overlapped \in BOOLEAN
  BY Zenon
<1> QED
  BY <1>1, <1>2, <1>3 DEF Typed

\* Rows are those of the report.
LEMMA InsertedOK ==
  ASSUME Typed, NEW c \in Calls, NEW s \in Inserted(c)
  PROVE  s.id[1] = c /\ s.target \in Targets /\ s.ts \in Nat /\ s.lost \in BOOLEAN
<1>1. PICK i \in DOMAIN report[c] : s = [id |-> <<c, i>>, target |-> report[c][i].target,
                                        ts |-> report[c][i].ts, lost |-> report[c][i].lost]
  BY DEF Inserted
<1>2. s.id[1] = c /\ s.target = report[c][i].target /\ s.ts = report[c][i].ts /\ s.lost = report[c][i].lost
  BY <1>1
<1> QED
  BY <1>2, ReportOK

\* It is enough to look at the call that moves.
LEMMA TypedMove ==
  ASSUME Typed, NEW c \in Calls, Moves(c), TypeOK',
         (pc[c] = "idle" => own[c] = {} /\ done[c] = {})', (pc[c] = "writing" => Rest(c) # {})',
         \A k \in 1..Len(committed') : committed'[k] \in Calls /\ pc'[committed'[k]] = "done",
         (/\ victims = [d \in Calls |-> victims[d]] /\ trimmed = [d \in Calls |-> trimmed[d]]
          /\ done = [d \in Calls |-> done[d]] /\ found = [d \in Calls |-> found[d]]
          /\ own = [d \in Calls |-> own[d]]
          /\ committed \in Seq(Calls) /\ overlapped \in BOOLEAN)'
  PROVE  Typed'
<1>1. ASSUME NEW d \in Calls
      PROVE  /\ (pc[d] = "idle" => own[d] = {} /\ done[d] = {})'
             /\ (pc[d] = "writing" => Rest(d) # {})'
  <2>1. CASE d = c
    BY <2>1
  <2>2. CASE d # c
    BY <2>2, OneMoves DEF Typed, Same, Rest
  <2> QED
    BY <2>1, <2>2
<1> QED
  BY <1>1 DEF Typed

\* What is found is an open outage.
LEMMA FoundOpen ==
  ASSUME NEW c, NEW o, o = IF Unended(c) = {} THEN NoOutage ELSE CHOOSE x \in Unended(c) : TRUE
  PROVE  o = NoOutage \/ o \in Unended(c)
OBVIOUS

\* What is done stays done.
LEMMA CommittedStay ==
  ASSUME Typed, NEW c \in Calls, Moves(c)
  PROVE  \A k \in 1..Len(committed) : committed[k] \in Calls /\ pc'[committed[k]] = "done" /\ Same(committed[k])
BY OneMoves DEF Typed, Same, Ended

\* Every step keeps the types.
LEMMA TypedStep ==
  ASSUME Typed, Versions, FoundThere, [Next]_vars
  PROVE  Typed'
<1> DEFINE States == {"idle"} \cup InTransaction \cup Ended
<1>1. ASSUME NEW c \in Calls, Begin(c) PROVE Typed'
  <2>1. PICK rep \in Reports : report' = [report EXCEPT ![c] = rep]
    BY <1>1 DEF Begin
  <2>2. /\ pc[c] = "idle" /\ pc' = [pc EXCEPT ![c] = "trimming"] /\ done[c] = {}
        /\ UNCHANGED <<samples, outages, victims, trimmed, done, found, own, committed>>
    BY <1>1 DEF Begin, Step, Typed
  <2>3. TypeOK'
    BY <2>1, <2>2 DEF Typed, TypeOK, InTransaction
  <2>4. pc'[c] = "trimming"
    BY <2>2 DEF Typed, TypeOK
  <2>5. overlapped' \in BOOLEAN
    BY <1>1 DEF Begin, Typed
  <2> QED
    BY <1>1, <2>2, <2>3, <2>4, <2>5, TypedMove, CommittedStay DEF Typed, Moves
<1>2. ASSUME NEW c \in Calls, SelectVictims(c) \/ DeleteVictims(c) PROVE Typed'
  <2>1. /\ \E to \in {"deleting", "reading"} : pc' = [pc EXCEPT ![c] = to]
        /\ UNCHANGED <<samples, outages, report, done, found, own, committed, overlapped>>
        /\ victims' = [d \in Calls |-> victims'[d]] /\ trimmed' = [d \in Calls |-> trimmed'[d]]
    BY <1>2 DEF SelectVictims, DeleteVictims, Step, Typed
  <2>2. TypeOK'
    BY <2>1 DEF Typed, TypeOK, InTransaction
  <2>3. pc'[c] \in {"deleting", "reading"}
    BY <2>1 DEF Typed, TypeOK
  <2> QED
    BY <1>2, <2>1, <2>2, <2>3, TypedMove, CommittedStay DEF Typed, Moves, Handle
<1>3. ASSUME NEW c \in Calls, ReadOpen(c) PROVE Typed'
  <2>1. /\ pc' = [pc EXCEPT ![c] = "writing"] /\ Rest(c) # {}
        /\ UNCHANGED <<samples, outages, report, victims, trimmed, done, own, committed, overlapped>>
        /\ \E o \in Unended(c) \cup {NoOutage} : found' = [found EXCEPT ![c] = o]
    BY <1>3, FoundOpen DEF ReadOpen, Step
  <2>2. \A o \in Unended(c) : o.to = Open
    BY DEF Unended
  <2>3. TypeOK'
    BY <2>1, <2>2 DEF Typed, TypeOK, InTransaction
  <2>4. pc'[c] = "writing" /\ Rest(c)' # {}
    BY <2>1 DEF Typed, TypeOK, Rest
  <2> QED
    BY <1>3, <2>1, <2>3, <2>4, TypedMove, CommittedStay DEF Typed, Moves, Handle
<1>4. ASSUME NEW c \in Calls, StartOutage(c) \/ EndOutage(c) \/ KeepOutages(c) PROVE Typed'
  <2>1. /\ pc[c] = "writing" /\ pc' = [pc EXCEPT ![c] = "reading"]
        /\ UNCHANGED <<samples, outages, report, victims, trimmed, found, committed, overlapped>>
        /\ done' = [done EXCEPT ![c] = done[c] \cup {Sample(c)}]
        /\ own' = [d \in Calls |-> own'[d]]
    BY <1>4 DEF StartOutage, EndOutage, KeepOutages, Put, Through, Step, Typed
  <2>2. Sample(c) \in DOMAIN report[c]
    BY <2>1, SampleIsNext DEF Typed, Rest
  <2>3. TypeOK'
    BY <2>1, <2>2 DEF Typed, TypeOK, InTransaction
  <2>4. pc'[c] = "reading"
    BY <2>1 DEF Typed, TypeOK
  <2> QED
    BY <1>4, <2>1, <2>3, <2>4, TypedMove, CommittedStay DEF Typed, Moves, Handle
<1>5. ASSUME NEW c \in Calls, Conflict(c) \/ Fail(c) PROVE Typed'
  <2>1. /\ \E to \in {"conflict", "failed"} : pc' = [pc EXCEPT ![c] = to]
        /\ UNCHANGED <<samples, outages, locals, committed, overlapped>>
    BY <1>5 DEF Conflict, Fail, Step
  <2>2. TypeOK'
    BY <2>1 DEF Typed, TypeOK, Ended, locals
  <2>3. pc'[c] \in {"conflict", "failed"}
    BY <2>1 DEF Typed, TypeOK
  <2> QED
    BY <1>5, <2>1, <2>2, <2>3, TypedMove, CommittedStay DEF Typed, Moves, Handle, locals
<1>6. ASSUME NEW c \in Calls, Commit(c) PROVE Typed'
  <2>1. /\ pc' = [pc EXCEPT ![c] = "done"] /\ pc[c] = "reading" /\ UNCHANGED <<locals, overlapped>>
        /\ samples' = (samples \cup Inserted(c)) \ trimmed[c] /\ outages' = OutagesSeen(c)
        /\ committed' = Append(committed, c)
    BY <1>6 DEF Commit, Step
  <2>2. \A s \in samples' : s.id[1] \in Calls /\ s.target \in Targets /\ s.ts \in Nat
    BY <2>1, InsertedOK DEF Typed, TypeOK
  <2>3. \A o \in outages' : o.from \in Nat /\ o.to \in Nat \cup {Open}
    BY <2>1 DEF OutagesSeen, Versions, OutageOK, Active, InTransaction
  <2>4. TypeOK'
    BY <2>1, <2>2, <2>3 DEF Typed, TypeOK, Ended, locals
  <2>5. pc'[c] = "done" /\ committed' \in Seq(Calls)
    BY <2>1, AppendProperties DEF Typed, TypeOK
  <2>6. \A k \in 1..Len(committed') : committed'[k] \in Calls /\ pc'[committed'[k]] = "done"
    <3>1. Moves(c)
      BY <1>6 DEF Moves, Handle
    <3> QED
      BY <2>1, <2>5, <3>1, CommittedStay, AppendProperties DEF Typed
  <2> QED
    BY <1>6, <2>1, <2>4, <2>5, <2>6, TypedMove DEF Typed, Moves, Handle, locals
<1>7. CASE UNCHANGED vars
  BY <1>7 DEF vars, locals, Typed, TypeOK, Rest
<1> QED
  BY <1>1, <1>2, <1>3, <1>4, <1>5, <1>6, <1>7 DEF Next, Handle

-----------------------------------------------------------------------------
(* The open outage *)

\* The version that a turn of the loop puts: a new outage that the index takes,
\* or the end of one that nobody else holds.
PutBy(c, v) ==
  LET s == report[c][Sample(c)] IN
  /\ own'[c] = {w \in own[c] : w.id # v.id} \cup {v}
  /\ OutageOK(v) /\ (IsNew(v) => v.id[1] = c)
  /\ \/ /\ s.lost /\ found[c] = NoOutage
        /\ v.id = <<c, Sample(c)>> /\ v.from = s.ts /\ v.to = Open
        /\ IsNew(v) /\ IndexTakes(c)
     \/ /\ ~s.lost /\ found[c] # NoOutage
        /\ v.id = found[c].id /\ v.from = found[c].from
        /\ v.to = IF s.ts >= v.from THEN s.ts ELSE v.from
        /\ v.to # Open /\ ~LockedByOther(c, v.id)
        /\ \E w \in outages \cup own[c] : w.id = v.id

\* StartOutage and EndOutage put a version that is well formed.
LEMMA Puts ==
  ASSUME Typed, Versions, FoundThere, NEW c \in Calls, StartOutage(c) \/ EndOutage(c)
  PROVE  /\ \E v : PutBy(c, v)
         /\ pc[c] = "writing" /\ pc' = [pc EXCEPT ![c] = "reading"] /\ UNCHANGED <<outages, found>>
<1>1. pc[c] = "writing" /\ pc' = [pc EXCEPT ![c] = "reading"] /\ UNCHANGED <<outages, found>>
  BY DEF StartOutage, EndOutage, Put
<1>2. Sample(c) \in DOMAIN report[c]
  BY <1>1, SampleIsNext DEF Typed, Rest
<1> DEFINE s == report[c][Sample(c)]
<1>3. Sample(c) \in Nat /\ s.ts \in Nat
  BY <1>2, ReportOK
<1> HIDE DEF s
<1>4. CASE StartOutage(c)
  <2> DEFINE v == [id |-> <<c, Sample(c)>>, from |-> s.ts, to |-> Open]
  <2>1. own' = [own EXCEPT ![c] = {w \in own[c] : w.id # v.id} \cup {v}] /\ IndexTakes(c)
        /\ s.lost /\ found[c] = NoOutage
    BY <1>4 DEF StartOutage, Put, s
  <2>2. own'[c] = {w \in own[c] : w.id # v.id} \cup {v}
    BY <2>1 DEF Typed
  <2>3. OutageOK(v) /\ v.id[1] = c /\ v.to = Open
    BY <1>3 DEF OutageOK
  <2>4. IsNew(v)
    BY <1>1, <2>3 DEF IsNew, Versions
  <2> QED
    BY <1>1, <2>1, <2>2, <2>3, <2>4 DEF PutBy, s
<1>5. CASE EndOutage(c)
  <2> DEFINE o == found[c]
             to == IF s.ts >= o.from THEN s.ts ELSE o.from
             v == [o EXCEPT !.to = to]
  <2>1. /\ o # NoOutage /\ ~s.lost /\ ~LockedByOther(c, o.id)
        /\ own' = [own EXCEPT ![c] = {w \in own[c] : w.id # v.id} \cup {v}]
    BY <1>5 DEF EndOutage, Put, s
  <2>2. OutageOK(o) /\ \E w \in outages \cup own[c] : w.id = o.id
    BY <1>1, <2>1 DEF FoundThere
  <2>3. to \in Nat /\ o.from <= to
    BY <1>3, <2>2 DEF OutageOK
  <2>4. ASSUME NEW x, NEW t, x = [id |-> x.id, from |-> x.from, to |-> x.to]
        PROVE  [x EXCEPT !.to = t] = [id |-> x.id, from |-> x.from, to |-> t]
    BY <2>4
  <2>5. v = [id |-> o.id, from |-> o.from, to |-> to]
    BY <2>2, <2>4 DEF OutageOK
  <2> HIDE DEF o, to, v
  <2>6. OutageOK(v) /\ v.to # Open /\ v.id = o.id /\ v.from = o.from /\ v.to = to
    BY <2>2, <2>3, <2>5 DEF OutageOK, Open
  <2>7. own'[c] = {w \in own[c] : w.id # v.id} \cup {v}
    BY <2>1 DEF Typed
  <2>8. IsNew(v) => v.id[1] = c
    BY <1>1, <2>2, <2>6 DEF IsNew, Versions, Active, InTransaction
  <2> QED
    BY <1>1, <2>1, <2>2, <2>6, <2>7, <2>8 DEF PutBy, s, o, to
<1> QED
  BY <1>4, <1>5

\* Other steps than these leave the versions alone.
LEMMA OtherMoves ==
  ASSUME Typed, NEW c \in Calls, Moves(c), ~StartOutage(c), ~EndOutage(c), ~Commit(c)
  PROVE  /\ UNCHANGED <<outages, own>> /\ pc'[c] # "done"
         /\ Active(c)' => Active(c) \/ own[c] = {}
         /\ pc'[c] = "writing" => ReadOpen(c)
<1> USE DEF Typed, TypeOK, Step, Active, InTransaction, locals
<1>1. CASE Begin(c)
  BY <1>1 DEF Begin
<1>2. CASE SelectVictims(c)
  BY <1>2 DEF SelectVictims
<1>3. CASE DeleteVictims(c)
  BY <1>3 DEF DeleteVictims
<1>4. CASE ReadOpen(c)
  BY <1>4 DEF ReadOpen
<1>5. CASE Conflict(c)
  BY <1>5 DEF Conflict
<1>6. CASE KeepOutages(c)
  BY <1>6 DEF KeepOutages
<1>7. CASE Fail(c)
  BY <1>7 DEF Fail
<1> QED
  BY <1>1, <1>2, <1>3, <1>4, <1>5, <1>6, <1>7 DEF Moves, Handle

\* What a commit does.
LEMMA Commits ==
  ASSUME Typed, Versions, NEW c \in Calls, Commit(c)
  PROVE  /\ outages' = {o \in outages : \A v \in own[c] : v.id # o.id} \cup own[c] /\ own' = own
         /\ Active(c) /\ pc[c] = "reading" /\ pc'[c] = "done"
         /\ \A o \in outages : \E p \in outages' : p.id = o.id
         /\ \A d \in Calls \ {c} : Active(d) => \A v \in own[d] : IsNew(v) <=> IsNew(v)'
         /\ \A d \in Calls \ {c} : Active(d)' <=> Active(d)
<1>1. /\ outages' = {o \in outages : \A v \in own[c] : v.id # o.id} \cup own[c] /\ own' = own
      /\ Active(c) /\ pc[c] = "reading" /\ pc'[c] = "done" /\ pc' = [pc EXCEPT ![c] = "done"]
  BY DEF Commit, OutagesSeen, locals, Step, Active, InTransaction, Typed, TypeOK
<1>2. \A o \in outages : \E p \in outages' : p.id = o.id
  BY <1>1
<1>3. ASSUME NEW d \in Calls \ {c}, Active(d), NEW v \in own[d], IsNew(v), NEW o \in outages' PROVE o.id # v.id
  <2>1. v.id[1] = d
    BY <1>3 DEF Versions
  <2>2. CASE o \in outages
    BY <1>3, <2>2 DEF IsNew
  <2>3. CASE o \in own[c]
    BY <1>1, <1>3, <2>1, <2>3 DEF Versions, IsNew
  <2> QED
    BY <1>1, <2>2, <2>3
<1>4. \A d \in Calls \ {c} : Active(d)' <=> Active(d)
  BY <1>1 DEF Active, Typed, TypeOK
<1> QED
  BY <1>1, <1>2, <1>3, <1>4 DEF IsNew

\* Every step keeps rows and versions well formed, with ids of their own.
LEMMA VersionsStep ==
  ASSUME Typed, Versions, FoundThere, [Next]_vars
  PROVE  Versions'
<1>1. ASSUME NEW c \in Calls, Moves(c), ~StartOutage(c), ~EndOutage(c), ~Commit(c) PROVE Versions'
  <2>1. \A d \in Calls : (pc[d] = "done" => pc'[d] = "done") /\ (Active(d)' => Active(d) \/ own[d] = {})
    BY <1>1, OneMoves, OtherMoves DEF Same, Ended, Active
  <2>2. UNCHANGED <<outages, own>>
    BY <1>1, OtherMoves
  <2>3. \A o \in outages : OutageOK(o) /\ pc'[o.id[1]] = "done"
    BY <2>1 DEF Versions, OutageOK
  <2> QED
    BY <2>1, <2>2, <2>3 DEF Versions, IsNew
<1>2. ASSUME NEW c \in Calls, StartOutage(c) \/ EndOutage(c) PROVE Versions'
  <2>1. PICK v : PutBy(c, v)
    BY <1>2, Puts
  <2>2. /\ pc' = [pc EXCEPT ![c] = "reading"] /\ pc[c] = "writing" /\ outages' = outages
        /\ \A d \in Calls \ {c} : own'[d] = own[d]
    BY <1>2, Puts, OneMoves DEF Same, Moves, Handle
  <2>3. \A d \in Calls : (Active(d)' <=> Active(d)) /\ (pc[d] = "done" => pc'[d] = "done")
    BY <2>2 DEF Active, InTransaction, Typed, TypeOK
  <2>4. \A x : IsNew(x)' <=> IsNew(x)
    BY <2>2 DEF IsNew
  <2>5. \A o \in outages : OutageOK(o) /\ pc'[o.id[1]] = "done"
    BY <2>3 DEF Versions, OutageOK
  <2>6. Active(c)
    BY <2>2 DEF Active, InTransaction
  <2>7. /\ \A w \in own'[c] : OutageOK(w) /\ (IsNew(w) => w.id[1] = c) /\ (w.to = Open => IsNew(w))
        /\ \A w, x \in own'[c] : w.id = x.id => w = x
    BY <2>1, <2>6 DEF PutBy, Versions
  <2>8. ASSUME NEW d \in Calls, Active(d)
        PROVE  /\ \A w \in own'[d] : OutageOK(w) /\ (IsNew(w) => w.id[1] = d) /\ (w.to = Open => IsNew(w))
               /\ \A w, x \in own'[d] : w.id = x.id => w = x
    BY <2>2, <2>7, <2>8 DEF Versions
  <2> QED
    BY <2>2, <2>3, <2>4, <2>5, <2>8 DEF Versions
<1>3. ASSUME NEW c \in Calls, Commit(c) PROVE Versions'
  <2>1. /\ outages' = {o \in outages : \A v \in own[c] : v.id # o.id} \cup own[c] /\ own' = own
        /\ Active(c) /\ pc[c] = "reading" /\ pc'[c] = "done"
        /\ \A d \in Calls \ {c} : Active(d) => \A v \in own[d] : IsNew(v) <=> IsNew(v)'
        /\ \A d \in Calls \ {c} : Active(d)' <=> Active(d)
    BY <1>3, Commits
  <2>2. \A d \in Calls : pc[d] = "done" => pc'[d] = "done"
    BY <1>3, OneMoves DEF Same, Ended, Moves, Handle
  <2>3. ASSUME NEW o \in outages' PROVE OutageOK(o) /\ pc'[o.id[1]] = "done"
    <3>1. CASE o \in outages
      BY <2>2, <3>1 DEF Versions, OutageOK
    <3>2. CASE o \in own[c]
      <4>1. OutageOK(o) /\ (IsNew(o) => o.id[1] = c)
        BY <2>1, <3>2 DEF Versions
      <4>2. CASE IsNew(o)
        BY <2>1, <4>1, <4>2
      <4>3. ASSUME NEW p \in outages, p.id = o.id PROVE pc'[o.id[1]] = "done"
        BY <2>2, <4>3 DEF Versions, OutageOK
      <4> QED
        BY <4>1, <4>2, <4>3 DEF IsNew
    <3> QED
      BY <2>1, <3>1, <3>2
  <2>4. \A o, p \in outages' : o.id = p.id => o = p
    BY <2>1 DEF Versions
  <2>5. ~Active(c)'
    BY <2>1 DEF Active, InTransaction
  <2>6. ASSUME NEW d \in Calls, Active(d)'
        PROVE  /\ \A v \in own'[d] : OutageOK(v) /\ (IsNew(v)' => v.id[1] = d) /\ (v.to = Open => IsNew(v)')
               /\ \A v, w \in own'[d] : v.id = w.id => v = w
    BY <2>1, <2>5, <2>6 DEF Versions
  <2> QED
    BY <2>3, <2>4, <2>6 DEF Versions
<1>4. CASE UNCHANGED vars
  BY <1>4 DEF vars, locals, Versions, IsNew, Active
<1> QED
  BY <1>1, <1>2, <1>3, <1>4 DEF Next, Moves

\* What was found stays there, or a later version of it.
LEMMA FoundStep ==
  ASSUME Typed, Typed', Versions, FoundThere, [Next]_vars
  PROVE  FoundThere'
<1>1. ASSUME NEW c \in Calls, Moves(c) PROVE FoundThere'
  <2>1. \A o \in outages : \E p \in outages' : p.id = o.id
    BY <1>1, OtherMoves, Puts, Commits
  <2>2. ASSUME NEW d \in Calls \ {c}, pc'[d] = "writing", found'[d] # NoOutage
        PROVE  OutageOK(found'[d]) /\ found'[d].to = Open /\ \E o \in outages' \cup own'[d] : o.id = found'[d].id
    <3>1. Same(d)
      BY <1>1, OneMoves
    <3>2. OutageOK(found[d]) /\ found[d].to = Open /\ \E o \in outages \cup own[d] : o.id = found[d].id
      BY <2>2, <3>1 DEF Same, FoundThere
    <3> QED
      BY <2>1, <3>1, <3>2 DEF Same
  <2>3. ASSUME pc'[c] = "writing", found'[c] # NoOutage
        PROVE  OutageOK(found'[c]) /\ found'[c].to = Open /\ \E o \in outages' \cup own'[c] : o.id = found'[c].id
    <3>1. ~StartOutage(c) /\ ~EndOutage(c) /\ ~Commit(c)
      BY <2>3, Puts, Commits DEF Typed, TypeOK
    <3>2. ReadOpen(c) /\ UNCHANGED <<outages, own>>
      BY <1>1, <2>3, <3>1, OtherMoves
    <3>3. found'[c] \in Unended(c) /\ Active(c)
      BY <2>3, <3>2, FoundOpen DEF ReadOpen, Step, Active, InTransaction, Typed
    <3> QED
      BY <3>2, <3>3 DEF Unended, OutagesSeen, Versions
  <2> QED
    BY <2>2, <2>3 DEF FoundThere
<1>2. CASE UNCHANGED vars
  BY <1>2 DEF vars, locals, FoundThere
<1> QED
  BY <1>1, <1>2 DEF Next, Moves

\* A version that a transaction puts keeps the index.
LEMMA IndexPut ==
  ASSUME Typed, Versions, FoundThere, Index, NEW c \in Calls, StartOutage(c) \/ EndOutage(c)
  PROVE  Index'
<1>1. PICK v : PutBy(c, v)
  BY Puts
<1>2. /\ pc' = [pc EXCEPT ![c] = "reading"] /\ pc[c] = "writing" /\ outages' = outages
      /\ \A d \in Calls \ {c} : own'[d] = own[d]
  BY Puts, OneMoves DEF Same, Moves, Handle
<1>3. /\ \A d \in Calls : Active(d)' <=> Active(d)
      /\ Active(c) /\ \A d \in Calls \ {c} : Busy(d)' <=> Busy(d)
      /\ \A x : (IsNew(x)' <=> IsNew(x)) /\ (Entry(x)' <=> Entry(x))
  BY <1>2 DEF Active, InTransaction, Typed, TypeOK, Busy, Entry, IsNew
<1>4. /\ own'[c] = {w \in own[c] : w.id # v.id} \cup {v}
      /\ \A w \in own[c] : \E x \in own'[c] : x.id = w.id
  BY <1>1 DEF PutBy
<1>5. \A w, x \in own'[c] : w.to = Open /\ x.to = Open => w = x
  <2>1. CASE v.to = Open /\ IndexTakes(c)
    <3>1. \A w \in own[c] : w.to # Open
      BY <2>1 DEF IndexTakes, OutagesSeen
    <3> QED
      BY <1>4, <3>1
  <2>2. CASE v.to # Open
    BY <1>3, <1>4, <2>2 DEF Index
  <2> QED
    BY <1>1, <2>1, <2>2 DEF PutBy
<1>6. ASSUME NEW d \in Calls \ {c}, Active(d), Busy(d), Busy(c)' PROVE FALSE
  <2>1. ~Busy(c)
    BY <1>3, <1>6 DEF Index
  <2>2. PICK x \in own[d] : Entry(x)
    BY <1>6 DEF Busy
  <2>3. ~IndexTakes(c)
    BY <1>6, <2>2 DEF IndexTakes, IndexBusy, Entry
  <2>4. Entry(v)
    <3>1. PICK w \in own'[c] : Entry(w)
      BY <1>3, <1>6 DEF Busy
    <3> QED
      BY <1>4, <2>1, <3>1 DEF Busy
  <2>5. ~LockedByOther(c, v.id) /\ \E w \in outages \cup own[c] : w.id = v.id
    BY <1>1, <2>3 DEF PutBy
  <2>6. \A w \in own[c] : w.id # v.id
    BY <2>1, <2>4 DEF Busy, Entry
  <2>7. PICK w \in outages : w.id = v.id /\ w.to = Open
    BY <2>4, <2>5, <2>6 DEF Entry
  <2>8. \E y \in own[d] : y.id = w.id
    <3>1. CASE IsNew(x)
      BY <1>6, <2>7, <3>1 DEF Index
    <3>2. ASSUME NEW o \in outages, o.id = x.id PROVE x.id = w.id
      <4>1. o.to = Open
        BY <2>2, <3>2 DEF Entry
      <4> QED
        BY <2>7, <3>2, <4>1 DEF Index
    <3> QED
      BY <3>1, <3>2 DEF IsNew
  <2> QED
    BY <1>6, <2>5, <2>7, <2>8 DEF LockedByOther
<1>7. ASSUME NEW x \in own'[c], IsNew(x), NEW o \in outages, o.to = Open
      PROVE  \E w \in own'[c] : w.id = o.id
  <2>1. \E w \in own[c] : w.id = o.id
    <3>1. CASE \E y \in own[c] : IsNew(y)
      BY <1>3, <1>7, <3>1 DEF Index
    <3>2. CASE IndexTakes(c)
      BY <1>7, <3>2 DEF IndexTakes, OutagesSeen
    <3>3. ASSUME ~IndexTakes(c) PROVE \E y \in own[c] : IsNew(y)
      <4>1. CASE x = v
        <5>1. PICK y \in outages \cup own[c] : y.id = v.id
          BY <1>1, <3>3 DEF PutBy
        <5> QED
          BY <1>7, <4>1, <5>1 DEF IsNew
      <4>2. CASE x # v
        BY <1>4, <1>7, <4>2
      <4> QED
        BY <4>1, <4>2
    <3> QED
      BY <3>1, <3>2, <3>3
  <2> QED
    BY <1>4, <2>1
<1>8. \A d, e \in Calls : Active(d)' /\ Active(e)' /\ Busy(d)' /\ Busy(e)' => d = e
  BY <1>3, <1>6 DEF Index
<1>9. \A d \in Calls : Active(d)' => \A w, x \in own'[d] : w.to = Open /\ x.to = Open => w = x
  BY <1>2, <1>3, <1>5 DEF Index
<1>10. ASSUME NEW d \in Calls, Active(d)', NEW x \in own'[d], IsNew(x)', NEW o \in outages', o.to = Open
       PROVE  \E w \in own'[d] : w.id = o.id
  <2>1. CASE d = c
    BY <1>2, <1>3, <1>7, <1>10, <2>1
  <2>2. CASE d # c
    <3>1. own'[d] = own[d] /\ Active(d) /\ x \in own[d] /\ IsNew(x) /\ o \in outages
      BY <1>2, <1>3, <1>10, <2>2
    <3> QED
      BY <1>10, <3>1 DEF Index
  <2> QED
    BY <2>1, <2>2
<1>11. \A o, p \in outages' : o.to = Open /\ p.to = Open => o = p
  BY <1>2 DEF Index
<1> QED
  BY <1>8, <1>9, <1>10, <1>11 DEF Index

\* A commit keeps the index.
LEMMA IndexCommit ==
  ASSUME Typed, Versions, Index, NEW c \in Calls, Commit(c)
  PROVE  Index'
<1>1. /\ outages' = {o \in outages : \A v \in own[c] : v.id # o.id} \cup own[c] /\ own' = own
      /\ Active(c) /\ pc[c] = "reading" /\ pc'[c] = "done"
      /\ \A d \in Calls \ {c} : Active(d) => \A v \in own[d] : IsNew(v) <=> IsNew(v)'
      /\ \A d \in Calls \ {c} : Active(d)' <=> Active(d)
  BY Commits
<1>2. ~Active(c)'
  BY <1>1 DEF Active, InTransaction
<1>3. ASSUME NEW o \in own[c], o.to = Open PROVE IsNew(o) /\ Busy(c)
  BY <1>1, <1>3 DEF Versions, IsNew, Busy, Entry
<1>4. \A o, p \in outages' : o.to = Open /\ p.to = Open => o = p
  <2>1. ASSUME NEW o \in own[c], o.to = Open, NEW p \in outages' \ own[c], p.to = Open PROVE FALSE
    <3>1. p \in outages /\ \A v \in own[c] : v.id # p.id
      BY <1>1
    <3> QED
      BY <1>1, <1>3, <2>1, <3>1 DEF Index
  <2>2. \A o, p \in own[c] : o.to = Open /\ p.to = Open => o = p
    BY <1>1 DEF Index
  <2>3. \A o, p \in outages : o.to = Open /\ p.to = Open => o = p
    BY DEF Index
  <2> QED
    BY <1>1, <2>1, <2>2, <2>3
<1>5. \A d \in Calls : Active(d)' => \A v, w \in own'[d] : v.to = Open /\ w.to = Open => v = w
  BY <1>1, <1>2 DEF Index
<1>6. ASSUME NEW d \in Calls, Active(d)', Busy(d)' PROVE Busy(d) /\ Active(d) /\ d # c
  <2>1. d # c /\ Active(d)
    BY <1>1, <1>2, <1>6
  <2>2. PICK v \in own[d] : Entry(v)'
    BY <1>1, <1>6 DEF Busy
  <2>3. ASSUME NEW o \in outages, o.id = v.id, o.to # Open PROVE FALSE
    <3>1. CASE o \in outages'
      BY <2>2, <2>3, <3>1 DEF Entry
    <3>2. ASSUME NEW w \in own[c], w.id = o.id PROVE FALSE
      <4>1. w.to # Open
        BY <1>3, <3>2 DEF IsNew
      <4> QED
        BY <1>1, <2>2, <2>3, <3>2, <4>1 DEF Entry
    <3> QED
      BY <1>1, <3>1, <3>2
  <2>4. Entry(v)
    BY <2>3 DEF Entry
  <2> QED
    BY <2>1, <2>2, <2>4 DEF Busy
<1>7. ASSUME NEW d \in Calls, Active(d)', NEW v \in own'[d], IsNew(v)', NEW o \in outages', o.to = Open
      PROVE  \E w \in own'[d] : w.id = o.id
  <2>1. d # c /\ Active(d) /\ own'[d] = own[d] /\ IsNew(v)
    BY <1>1, <1>2, <1>7
  <2>2. CASE o \in outages
    BY <1>7, <2>1, <2>2 DEF Index
  <2>3. CASE o \in own[c]
    <3>1. Busy(c)
      BY <1>3, <1>7, <2>3
    <3>2. Busy(d)
      BY <1>7, <2>1 DEF Busy, Entry, IsNew
    <3> QED
      BY <1>1, <2>1, <3>1, <3>2 DEF Index
  <2> QED
    BY <1>1, <1>7, <2>2, <2>3
<1>8. \A d, e \in Calls : Active(d)' /\ Active(e)' /\ Busy(d)' /\ Busy(e)' => d = e
  BY <1>6 DEF Index
<1> QED
  BY <1>4, <1>5, <1>7, <1>8 DEF Index

\* Every step keeps the index.
LEMMA IndexStep ==
  ASSUME Typed, Versions, FoundThere, Index, [Next]_vars
  PROVE  Index'
<1>1. ASSUME NEW c \in Calls, Moves(c), ~StartOutage(c), ~EndOutage(c), ~Commit(c) PROVE Index'
  <2>1. \A d \in Calls : Active(d)' => Active(d) \/ own[d] = {}
    BY <1>1, OneMoves, OtherMoves DEF Same, Active
  <2>2. UNCHANGED <<outages, own>>
    BY <1>1, OtherMoves
  <2>3. \A d \in Calls : Active(d)' /\ Busy(d)' => Active(d) /\ Busy(d)
    BY <2>1, <2>2 DEF Busy, Entry
  <2> QED
    BY <2>1, <2>2, <2>3 DEF Index, IsNew
<1>2. CASE UNCHANGED vars
  BY <1>2 DEF vars, locals, Index, IsNew, Active, Busy, Entry
<1> QED
  BY <1>1, <1>2, IndexPut, IndexCommit DEF Next, Moves

-----------------------------------------------------------------------------
(* Pushes that do not overlap *)

\* A call that moves without an overlap moves alone.
LEMMA MovesAlone ==
  ASSUME Typed, ~overlapped => Alone, ~overlapped', NEW c \in Calls, Moves(c)
  PROVE  /\ ~overlapped /\ Alone
         /\ \A d \in Calls \ {c} : ~Active(d) /\ ~Active(d)' /\ pc'[d] = pc[d]
<1>1. CASE Begin(c)
  <2>1. ~overlapped /\ \A d \in Calls : ~Active(d)
    BY <1>1 DEF Begin
  <2> QED
    BY <2>1, OneMoves DEF Same, Active
<1>2. CASE Handle(c) \/ Fail(c)
  <2>1. overlapped' = overlapped
    BY <1>2 DEF Handle, Fail, SelectVictims, DeleteVictims, ReadOpen, StartOutage, Conflict, EndOutage,
                KeepOutages, Commit, Put
  <2>2. Active(c)
    BY <1>2 DEF Handle, Fail, SelectVictims, DeleteVictims, ReadOpen, StartOutage, Conflict, EndOutage,
                KeepOutages, Commit, Step, Active, InTransaction
  <2> QED
    BY <2>1, <2>2, OneMoves DEF Same, Active, Alone
<1> QED
  BY <1>1, <1>2 DEF Moves

\* Calls that do not overlap find the index as they read it.
LEMMA AloneStep ==
  ASSUME Typed, Versions, ~overlapped => Alone, ~overlapped', [Next]_vars
  PROVE  Alone'
<1>1. ASSUME NEW c \in Calls, Moves(c) PROVE Alone'
  <2>1. Alone /\ \A d \in Calls \ {c} : ~Active(d) /\ ~Active(d)' /\ pc'[d] = pc[d]
    BY <1>1, MovesAlone
  <2>2. \A d, e \in Calls : Active(d)' /\ Active(e)' => d = e
    BY <2>1
  <2>3. ASSUME pc'[c] = "writing", found'[c] = NoOutage PROVE Unended(c)' = {}
    <3>1. ~StartOutage(c) /\ ~EndOutage(c) /\ ~Commit(c)
      BY <2>3, Puts, Commits DEF StartOutage, EndOutage, Commit, Put, Step, Typed, TypeOK
    <3>2. ReadOpen(c) /\ UNCHANGED <<outages, own>>
      BY <1>1, <2>3, <3>1, OtherMoves
    <3>3. NoOutage = IF Unended(c) = {} THEN NoOutage ELSE CHOOSE x \in Unended(c) : TRUE
      BY <2>3, <3>2 DEF ReadOpen, Typed
    <3>4. ASSUME NEW o \in Unended(c) PROVE o # NoOutage
      <4>1. OutageOK(o)
        BY <3>2 DEF Unended, OutagesSeen, Versions, ReadOpen, Step, Active, InTransaction
      <4>2. o \in [id : Calls \X Nat, from : Nat, to : Int]
        BY <4>1 DEF OutageOK, Open
      <4> QED
        BY <4>2, MetricsConstants DEF MetricsConstants
    <3>5. Unended(c) = {}
      BY <3>3, <3>4
    <3> QED
      BY <3>2, <3>5 DEF Unended, OutagesSeen
  <2>4. pc'[c] # "conflict"
    <3>1. ~Conflict(c)
      BY <2>1 DEF Conflict, Step, Alone, Unended
    <3>2. pc'[c] = "conflict" => Conflict(c)
      BY <1>1 DEF Moves, Handle, Begin, Fail, SelectVictims, DeleteVictims, ReadOpen, StartOutage, EndOutage,
                  KeepOutages, Commit, Put, Step, Typed, TypeOK
    <3> QED
      BY <3>1, <3>2
  <2>5. \A d \in Calls \ {c} : pc'[d] # "conflict" /\ pc'[d] # "writing"
    BY <2>1 DEF Alone, Active, InTransaction
  <2> QED
    BY <2>2, <2>3, <2>4, <2>5 DEF Alone
<1>2. CASE UNCHANGED vars
  <2>1. Alone
    BY <1>2 DEF vars
  <2> QED
    BY <1>2, <2>1 DEF vars, locals, Alone, Active, Unended, OutagesSeen
<1> QED
  BY <1>1, <1>2 DEF Next, Moves

-----------------------------------------------------------------------------
(* Newest samples *)

\* Of the newest part the newest part is the newest part.
LEMMA NewestOfNewest ==
  ASSUME NEW A, IsFiniteSet(A), \A x \in A : x.ts \in Nat, NEW S \in SUBSET A, NEW K \in SUBSET S,
         NEW cap \in Nat, NEW limit \in 0..cap, Newest(S, A, cap), Newest(K, S, limit)
  PROVE  Newest(K, A, limit)
<1>1. Cardinality(A) \in Nat
  BY FS_CardinalityType
<1>2. Cardinality(K) = IF Cardinality(A) < limit THEN Cardinality(A) ELSE limit
  BY <1>1 DEF Newest
<1>3. ASSUME NEW k \in K, NEW s \in A \ K PROVE k.ts >= s.ts
  <2>1. CASE s \in S
    BY <2>1, <1>3 DEF Newest
  <2>2. CASE s \notin S
    BY <2>2, <1>3 DEF Newest
  <2> QED
    BY <2>1, <2>2
<1> QED
  BY <1>2, <1>3 DEF Newest

\* What was trimmed before is not missed when more comes.
LEMMA NewestOfMore ==
  ASSUME NEW A, NEW I, IsFiniteSet(A), IsFiniteSet(I), \A x \in A \cup I : x.ts \in Nat,
         NEW S \in SUBSET A, NEW K \in SUBSET (S \cup I),
         NEW cap \in Nat, Newest(S, A, cap), Newest(K, S \cup I, cap)
  PROVE  Newest(K, A \cup I, cap)
<1>1. /\ IsFiniteSet(S) /\ IsFiniteSet(S \cup I) /\ IsFiniteSet(A \cup I) /\ IsFiniteSet(K)
      /\ Cardinality(S) <= Cardinality(S \cup I) /\ Cardinality(A) <= Cardinality(A \cup I)
      /\ Cardinality(A) \in Nat /\ Cardinality(A \cup I) \in Nat /\ Cardinality(S \cup I) \in Nat
      /\ Cardinality(S) \in Nat
  <2>1. IsFiniteSet(S)
    BY FS_Subset
  <2>2. IsFiniteSet(S \cup I) /\ IsFiniteSet(A \cup I)
    BY <2>1, FS_Union
  <2>3. Cardinality(S) <= Cardinality(S \cup I) /\ Cardinality(A) <= Cardinality(A \cup I)
    BY <2>2, FS_Subset
  <2> QED
    BY <2>1, <2>2, <2>3, FS_CardinalityType, FS_Subset
<1>2. CASE Cardinality(A) <= cap
  <2>1. Cardinality(S) = Cardinality(A)
    BY <1>1, <1>2 DEF Newest
  <2>2. S = A
    BY <2>1, FS_Subset
  <2> QED
    BY <2>2
<1>3. CASE Cardinality(A) > cap
  <2>1. Cardinality(S) = cap /\ Cardinality(K) = cap
    BY <1>1, <1>3 DEF Newest
  <2>2. Cardinality(K) = IF Cardinality(A \cup I) < cap THEN Cardinality(A \cup I) ELSE cap
    BY <1>1, <1>3, <2>1
  <2>3. ASSUME NEW k \in K, NEW s \in (A \cup I) \ K PROVE k.ts >= s.ts
    <3>1. CASE s \in S \cup I
      BY <2>3, <3>1 DEF Newest
    <3>2. CASE s \notin S \cup I /\ k \in S
      BY <2>3, <3>2 DEF Newest
    <3>3. CASE s \notin S \cup I /\ k \notin S
      <4>1. PICK x \in S : x \notin K
        <5>1. S \subseteq K => S = K
          BY <1>1, <2>1, FS_Subset
        <5> QED
          BY <3>3, <5>1
      <4>2. k.ts >= x.ts
        BY <4>1 DEF Newest
      <4>3. x.ts >= s.ts
        BY <2>3, <3>3, <4>1 DEF Newest
      <4> QED
        BY <2>3, <4>1, <4>2, <4>3
    <3> QED
      BY <3>1, <3>2, <3>3
  <2> QED
    BY <2>2, <2>3 DEF Newest
<1> QED
  BY <1>1, <1>2, <1>3

\* A call inserts finitely many rows.
LEMMA InsertedFinite ==
  ASSUME Typed, NEW c \in Calls PROVE IsFiniteSet(Inserted(c))
<1> DEFINE D == DOMAIN report[c]
           f == [i \in D |-> [id |-> <<c, i>>, target |-> report[c][i].target, ts |-> report[c][i].ts,
                              lost |-> report[c][i].lost]]
<1>1. IsFiniteSet(D)
  <2>1. report[c] \in Reports \/ report[c] = <<>>
    BY DEF Typed, TypeOK
  <2>2. Len(report[c]) \in Nat /\ D = 1..Len(report[c])
    BY <2>1, MetricsConstants DEF MetricsConstants
  <2>3. \A n \in Nat : IsFiniteSet(1..n)
    BY FS_Interval
  <2> QED
    BY <2>2, <2>3
<1>2. f \in Surjection(D, Inserted(c))
  BY DEF Surjection, Inserted
<1> QED
  BY <1>1, <1>2, FS_Surjection

\* The samples of the committed calls are theirs for good.
LEMMA AllStays ==
  ASSUME Typed, NEW c \in Calls, Moves(c)
  PROVE  IF Commit(c) THEN All' = All \cup Inserted(c) ELSE All' = All
<1>2. \A k \in 1..Len(committed) : committed[k] \in Calls /\ report'[committed[k]] = report[committed[k]]
  BY CommittedStay DEF Same
<1>3. Len(committed) \in Nat /\ DOMAIN committed = 1..Len(committed)
  BY DEF Typed
<1>4. ASSUME NEW k \in 1..Len(committed), NEW d, d = committed[k] PROVE Inserted(d)' = Inserted(d)
  BY <1>2, <1>4 DEF Inserted
<1>5. CASE Commit(c)
  <2>1. committed' = Append(committed, c) /\ report' = report
    BY <1>5 DEF Commit, locals
  <2>2. /\ DOMAIN committed' = 1..(Len(committed) + 1) /\ committed'[Len(committed) + 1] = c
        /\ \A k \in 1..Len(committed) : committed'[k] = committed[k]
    BY <1>3, <2>1, AppendProperties DEF Typed
  <2>3. \A d : Inserted(d)' = Inserted(d)
    BY <2>1 DEF Inserted
  <2>4. All' = UNION {Inserted(committed'[k]) : k \in DOMAIN committed'}
    BY <2>3 DEF All
  <2> QED
    BY <1>3, <1>5, <2>2, <2>4 DEF All
<1>6. CASE ~Commit(c)
  <2>1. committed' = committed
    BY <1>6 DEF Moves, Begin, Fail, Handle, SelectVictims, DeleteVictims, ReadOpen, StartOutage, Conflict,
                EndOutage, KeepOutages, Put
  <2> QED
    BY <1>3, <1>4, <1>6, <2>1 DEF All
<1> QED
  BY <1>5, <1>6

\* Committed samples have their types.
LEMMA AllOK ==
  ASSUME Typed
  PROVE  \A s \in All : s.target \in Targets /\ s.ts \in Nat /\ s.lost \in BOOLEAN /\ s.id[1] \in Calls
<1> SUFFICES ASSUME NEW s \in All
             PROVE  s.target \in Targets /\ s.ts \in Nat /\ s.lost \in BOOLEAN /\ s.id[1] \in Calls
  OBVIOUS
<1>1. PICK k \in 1..Len(committed) : s \in Inserted(committed[k])
  BY DEF All, Typed
<1>2. committed[k] \in Calls
  BY DEF Typed
<1> QED
  BY <1>1, <1>2, InsertedOK

\* Calls that do not overlap keep the newest samples.
LEMMA KeptStep ==
  ASSUME Typed, ~overlapped => Alone /\ Kept, ~overlapped', [Next]_vars
  PROVE  Kept'
<1>1. ASSUME NEW c \in Calls, Moves(c) PROVE Kept'
  <2>1. /\ Alone /\ Kept
        /\ \A d \in Calls \ {c} : pc'[d] \notin {"deleting", "reading", "writing"}
    BY <1>1, MovesAlone DEF Active, InTransaction
  \* It is enough to look at what c has selected, unless it commits.
  <2>2. ASSUME UNCHANGED samples, ~Commit(c),
               \A t \in Targets :
                 /\ pc'[c] = "deleting" => /\ victims'[c] \subseteq Visible(c)'
                                           /\ Newest(Of(Visible(c)' \ victims'[c], t), Of(Visible(c)', t), Cap)
                 /\ pc'[c] \in {"reading", "writing"} =>
                      Newest(Of(Visible(c)' \ trimmed'[c], t), Of(Visible(c)', t), Cap)
        PROVE  Kept'
    <3>1. All' = All
      BY <1>1, <2>2, AllStays
    <3>2. \A d \in Calls, t \in Targets :
            /\ pc'[d] = "deleting" => /\ victims'[d] \subseteq Visible(d)'
                                      /\ Newest(Of(Visible(d)' \ victims'[d], t), Of(Visible(d)', t), Cap)
            /\ pc'[d] \in {"reading", "writing"} =>
                 Newest(Of(Visible(d)' \ trimmed'[d], t), Of(Visible(d)', t), Cap)
      BY <2>1, <2>2
    <3>3. \A t : Of(samples, t)' = Of(samples, t) /\ Of(All, t)' = Of(All, t)
      BY <2>2, <3>1 DEF Of
    <3> QED
      BY <2>1, <2>2, <3>1, <3>2, <3>3 DEF Kept, Newest, Of
  <2>3. CASE Begin(c) \/ Conflict(c) \/ Fail(c)
    <3>1. UNCHANGED samples /\ ~Commit(c) /\ pc'[c] \notin {"deleting", "reading", "writing"}
      BY <2>3 DEF Begin, Conflict, Fail, Commit, Step, Typed, TypeOK
    <3> QED
      BY <2>2, <3>1
  <2>4. CASE SelectVictims(c)
    <3>1. PICK kept \in SUBSET Visible(c) :
            /\ \A t \in Targets : Newest(kept \cap Of(Visible(c), t), Of(Visible(c), t), Cap)
            /\ victims' = [victims EXCEPT ![c] = Visible(c) \ kept]
      BY <2>4 DEF SelectVictims, Visible, Of, Partition
    <3>2. victims'[c] = Visible(c) \ kept /\ pc'[c] = "deleting" /\ UNCHANGED <<samples, report>> /\ ~Commit(c)
      BY <2>4, <3>1 DEF SelectVictims, Commit, Step, Typed, TypeOK
    <3>3. Visible(c)' = Visible(c)
      BY <3>2 DEF Visible, Inserted
    <3>4. \A t : Of(Visible(c) \ victims'[c], t) = kept \cap Of(Visible(c), t)
      BY <3>2 DEF Of
    <3> QED
      BY <2>2, <3>1, <3>2, <3>3, <3>4
  <2>5. CASE DeleteVictims(c)
    <3>1. /\ pc[c] = "deleting" /\ pc'[c] = "reading" /\ UNCHANGED <<samples, report>> /\ ~Commit(c)
          /\ trimmed'[c] = victims[c] \cap Visible(c)
      BY <2>5 DEF DeleteVictims, Commit, Step, Typed, TypeOK, Visible
    <3>2. Visible(c)' = Visible(c)
      BY <3>1 DEF Visible, Inserted
    <3>3. \A t \in Targets : Newest(Of(Visible(c) \ victims[c], t), Of(Visible(c), t), Cap)
      BY <2>1, <3>1 DEF Kept
    <3>4. Visible(c) \ trimmed'[c] = Visible(c) \ victims[c]
      BY <3>1
    <3> QED
      BY <2>2, <3>1, <3>2, <3>3, <3>4
  <2>6. CASE ReadOpen(c) \/ StartOutage(c) \/ EndOutage(c) \/ KeepOutages(c)
    <3>1. /\ pc[c] \in {"reading", "writing"} /\ pc'[c] \in {"reading", "writing"}
          /\ UNCHANGED <<samples, report, trimmed>>
      BY <2>6 DEF ReadOpen, StartOutage, EndOutage, KeepOutages, Put, Step, Typed, TypeOK
    <3>2. ~Commit(c)
      BY <3>1 DEF Commit, Step, Typed, TypeOK
    <3>3. Visible(c)' = Visible(c)
      BY <3>1 DEF Visible, Inserted
    <3> QED
      BY <2>1, <2>2, <3>1, <3>2, <3>3 DEF Kept
  <2>7. CASE Commit(c)
    <3>1. /\ samples' = Visible(c) \ trimmed[c] /\ pc[c] = "reading" /\ pc'[c] = "done"
          /\ All' = All \cup Inserted(c)
      BY <1>1, <2>7, AllStays DEF Commit, Visible, Step, Typed, TypeOK
    <3>2. IsFiniteSet(Inserted(c)) /\ IsFiniteSet(All)
      BY <2>1, InsertedFinite DEF Kept
    <3>3. samples \subseteq All
      BY <2>1 DEF Kept
    <3>4. ASSUME NEW t \in Targets PROVE Newest(Of(samples', t), Of(All', t), Cap)
      <4> DEFINE A == Of(All, t)  I == Of(Inserted(c), t)  S == Of(samples, t)  K == Of(samples', t)
      <4>1. IsFiniteSet(A) /\ IsFiniteSet(I)
        <5>1. A \in SUBSET All /\ I \in SUBSET Inserted(c)
          BY DEF Of
        <5> QED
          BY <3>2, <5>1, FS_Subset
      <4>2. \A x \in A \cup I : x.ts \in Nat
        BY AllOK, InsertedOK DEF Of
      <4>3. S \in SUBSET A /\ K \in SUBSET (S \cup I)
        BY <3>1, <3>3 DEF Of, Visible
      <4>4. Newest(S, A, Cap)
        BY <2>1 DEF Kept
      <4>5. Newest(K, S \cup I, Cap)
        <5>1. S \cup I = Of(Visible(c), t)
          BY DEF Of, Visible
        <5>2. Newest(Of(Visible(c) \ trimmed[c], t), Of(Visible(c), t), Cap)
          BY <2>1, <3>1 DEF Kept
        <5> QED
          BY <3>1, <5>1, <5>2
      <4>6. Of(All', t) = A \cup I
        BY <3>1 DEF Of
      <4>7. Cap \in Nat
        BY MetricsConstants DEF MetricsConstants
      <4> HIDE DEF A, I, S, K
      <4>8. Newest(K, A \cup I, Cap)
        BY <4>1, <4>2, <4>3, <4>4, <4>5, <4>7, NewestOfMore
      <4> QED
        BY <4>6, <4>8 DEF K
    <3>5. samples' \subseteq All' /\ IsFiniteSet(All')
      BY <3>1, <3>2, <3>3, FS_Union DEF Visible
    <3>6. \A d \in Calls : pc'[d] \notin {"deleting", "reading", "writing"}
      BY <2>1, <3>1
    <3> QED
      BY <3>4, <3>5, <3>6 DEF Kept, Of, Newest
  <2> QED
    BY <1>1, <2>3, <2>4, <2>5, <2>6, <2>7 DEF Moves, Handle
<1>2. CASE UNCHANGED vars
  <2>1. Kept
    BY <1>2 DEF vars
  <2>2. UNCHANGED <<samples, report, pc, victims, trimmed, committed>>
    BY <1>2 DEF vars, locals
  <2>3. \A c : Inserted(c)' = Inserted(c) /\ Visible(c)' = Visible(c)
    BY <2>2 DEF Visible, Inserted
  <2>4. All' = All
    BY <2>2, <2>3 DEF All
  <2> QED
    BY <2>1, <2>2, <2>3, <2>4 DEF Kept
<1> QED
  BY <1>1, <1>2 DEF Next, Moves

-----------------------------------------------------------------------------
(* Theorems *)

\* The invariant holds at first.
LEMMA InvInit == Init => Inv
<1> SUFFICES ASSUME Init PROVE Inv
  OBVIOUS
<1>1. Typed
  BY TypedInit
<1>2. Versions /\ FoundThere /\ Index /\ Alone
  BY DEF Init, Versions, FoundThere, Index, Alone, Active, InTransaction
<1>3. Kept
  <2>1. samples = {} /\ All = {}
    BY DEF Init, All
  <2>2. \A t : Of(samples, t) = {} /\ Of(All, t) = {}
    BY <2>1 DEF Of
  <2>3. Newest({}, {}, Cap)
    BY FS_EmptySet, MetricsConstants DEF Newest, MetricsConstants
  <2>4. \A c \in Calls : pc[c] = "idle"
    BY DEF Init
  <2> QED
    BY <2>1, <2>2, <2>3, <2>4, FS_EmptySet DEF Kept
<1> QED
  BY <1>1, <1>2, <1>3 DEF Inv

\* Every step keeps the invariant.
LEMMA InvStep == Inv /\ [Next]_vars => Inv'
<1> SUFFICES ASSUME Inv, [Next]_vars PROVE Inv'
  OBVIOUS
<1>1. Typed'
  BY TypedStep DEF Inv
<1>2. Versions' /\ FoundThere' /\ Index'
  BY <1>1, VersionsStep, FoundStep, IndexStep DEF Inv
<1>3. ~overlapped' => Alone' /\ Kept'
  BY AloneStep, KeptStep DEF Inv
<1> QED
  BY <1>1, <1>2, <1>3 DEF Inv

\* However the statements of the pushes interleave, outages and their
\* uncommitted versions are well formed and at most one transaction has an
\* entry in the index that others do not see; and pushes that do not overlap
\* keep the newest samples.
THEOREM MetricsInvariant == Spec => []Inv
BY InvInit, InvStep, PTL DEF Spec

\* Every variable has its type.
THEOREM MetricsTypeCorrect == Spec => []TypeOK
<1>1. Inv => TypeOK
  BY DEF Inv, Typed
<1> QED
  BY <1>1, MetricsInvariant, PTL

\* idx_outage_one_open, with the read-then-write of post_metrics: at most one
\* outage is open and none ends before it started, whatever overlaps.
THEOREM OneOpenOutage == Spec => []OutagesWellFormed
<1>1. ASSUME Inv PROVE OutagesWellFormed
  <2> DEFINE S == {o \in outages : o.to = Open}
  <2>1. \A o, p \in S : o = p
    BY <1>1 DEF Inv, Index
  <2>2. Cardinality(S) <= 1
    <3>1. CASE S = {}
      BY <3>1, FS_EmptySet
    <3>2. ASSUME NEW o \in S PROVE Cardinality(S) <= 1
      <4>1. S = {o}
        BY <2>1
      <4>2. Cardinality({o}) = 1
        BY FS_Singleton
      <4> QED
        BY <4>1, <4>2
    <3> QED
      BY <3>1, <3>2
  <2>3. \A o \in outages : o.to = Open \/ o.from <= o.to
    BY <1>1 DEF Inv, Versions, OutageOK
  <2> QED
    BY <2>2, <2>3 DEF OutagesWellFormed
<1> QED
  BY <1>1, MetricsInvariant, PTL

\* post_metrics: a loss reported while an outage is open fails the push only
\* when another was under way.
THEOREM LossesIdempotent == Spec => []ConflictsNeedOverlap
<1>1. Inv => ConflictsNeedOverlap
  BY DEF Inv, Alone, ConflictsNeedOverlap
<1> QED
  BY <1>1, MetricsInvariant, PTL

\* get_metrics after the DELETE of post_metrics: of pushes that do not overlap
\* the newest samples are shown, as if none had been deleted.
THEOREM TrimmingHidesNothing == Spec => []NewestSamplesShown
<1>1. ASSUME Inv PROVE NewestSamplesShown
  <2> SUFFICES ASSUME ~overlapped, NEW t \in Targets, NEW limit \in Limits, NEW shown \in GetMetrics(t, limit)
               PROVE  Newest(shown, Of(All, t), Clamp(limit))
    BY DEF NewestSamplesShown, Of, All
  <2> DEFINE A == Of(All, t)  S == Of(samples, t)
  <2>1. IsFiniteSet(A) /\ S \in SUBSET A /\ Newest(S, A, Cap)
    <3>1. IsFiniteSet(All) /\ samples \subseteq All /\ Newest(Of(samples, t), Of(All, t), Cap)
      BY <1>1 DEF Inv, Kept
    <3>2. A \in SUBSET All
      BY DEF Of
    <3> QED
      BY <3>1, <3>2, FS_Subset DEF Of
  <2>2. \A x \in A : x.ts \in Nat
    BY <1>1, AllOK DEF Inv, Of
  <2>3. shown \in SUBSET S /\ Newest(shown, S, Clamp(limit))
    BY DEF GetMetrics, Of
  <2>4. Cap \in Nat /\ Clamp(limit) \in 0..Cap
    BY MetricsConstants DEF MetricsConstants, Clamp, Limits
  <2> HIDE DEF A, S
  <2>5. Newest(shown, A, Clamp(limit))
    BY <2>1, <2>2, <2>3, <2>4, NewestOfNewest
  <2> QED
    BY <2>5 DEF A
<1> QED
  BY <1>1, MetricsInvariant, PTL
=============================================================================
