------------------------------ MODULE Metrics ------------------------------
(***************************************************************************)
(* Metric pushes: post_metrics, get_metrics and get_outages (routes.rs)    *)
(* over agent_metrics and outage_events (migrations 0004 and 0005), for    *)
(* one network.                                                            *)
(*                                                                         *)
(* Unlike an inventory push a metrics push locks no row of networks, so    *)
(* the transactions of overlapping calls interleave statement by           *)
(* statement.  PostgreSQL is external: READ COMMITTED, row locks held to   *)
(* the end of the transaction, and the partial unique index on open        *)
(* outages, which makes an insert wait for other uncommitted changes of    *)
(* the open row and then fail if one is left.                              *)
(***************************************************************************)
EXTENDS Integers, Sequences, FiniteSets

CONSTANTS
  Calls,    \* calls of post_metrics for a known network
  Reports,  \* sample lists an agent may report: [target, ts, lost]
  Targets, Internet,
  Cap,      \* samples kept and rows shown of a target, 1000 in the code
  NoOutage

ASSUME MetricsConstants ==
  /\ Reports \subseteq Seq([target : Targets, ts : Nat, lost : BOOLEAN])
  /\ Internet \in Targets
  /\ Cap \in Nat \ {0}
  /\ NoOutage \notin [id : Calls \X Nat, from : Nat, to : Int]

VARIABLES
  samples,   \* rows of agent_metrics
  outages,   \* rows of outage_events for Internet: [id, from, to]
  pc, report,
  victims,   \* call -> what its DELETE selected
  trimmed,   \* call -> the rows it deleted, not yet committed
  done,      \* call -> the Internet samples of its report it has been through
  found,     \* call -> the open outage its last SELECT saw
  own,       \* call -> its uncommitted versions of outages
  committed, \* history: the calls that committed, in order
  overlapped \* history: two transactions were open at one time

locals == <<report, victims, trimmed, done, found, own>>
vars   == <<samples, outages, pc, locals, committed, overlapped>>

Open == -1   \* ended_ts NULL

InTransaction == {"trimming", "deleting", "reading", "writing"}
Ended         == {"done", "conflict", "failed"}

Init ==
  /\ samples = {}
  /\ outages = {}
  /\ pc = [c \in Calls |-> "idle"]
  /\ report = [c \in Calls |-> <<>>]
  /\ victims = [c \in Calls |-> {}]
  /\ trimmed = [c \in Calls |-> {}]
  /\ done = [c \in Calls |-> {}]
  /\ found = [c \in Calls |-> NoOutage]
  /\ own = [c \in Calls |-> {}]
  /\ committed = <<>>
  /\ overlapped = FALSE

-----------------------------------------------------------------------------
(* Operators named <Operator>_<bug> are variants of the definition that     *)
(* follows them; no behaviour of Spec takes them.                          *)

(* What a transaction sees *)

Active(c) == pc[c] \in InTransaction

\* The rows a call inserts into agent_metrics: one for every sample.
Inserted(c) ==
  {[id |-> <<c, i>>, target |-> report[c][i].target, ts |-> report[c][i].ts,
    lost |-> report[c][i].lost] : i \in DOMAIN report[c]}

\* Committed outages, overlaid with the transaction's own versions.
OutagesSeen(c) ==
  {o \in outages : \A v \in own[c] : v.id # o.id} \cup own[c]

\* Another transaction has an uncommitted version of the row.
LockedByOther(c, id) == \E d \in Calls \ {c} : Active(d) /\ \E v \in own[d] : v.id = id

\* Another transaction has an uncommitted entry in the index of open outages:
\* a row it opened, or the open row it has ended.
IndexBusy(c) ==
  \E d \in Calls \ {c} : Active(d) /\ \E v \in own[d] :
    ~ \E o \in outages : o.id = v.id /\ o.to # Open

\* The Internet samples of the report still to go through, and the next of
\* them: sort_by_key on ts is stable.
Rest(c) == {i \in DOMAIN report[c] : report[c][i].target = Internet} \ done[c]

\* Variant: in descending order.
Sample_LastFirst(c) == CHOOSE i \in Rest(c) : \A j \in Rest(c) : report[c][j].ts <= report[c][i].ts

Sample(c) ==
  CHOOSE i \in Rest(c) : \A j \in Rest(c) :
    \/ report[c][i].ts < report[c][j].ts
    \/ report[c][i].ts = report[c][j].ts /\ i <= j

\* Variant: the sample is not counted as gone through.
Through_Nothing(c) == done[c]

Through(c) == done[c] \cup {Sample(c)}

Step(c, from, to) == pc[c] = from /\ pc' = [pc EXCEPT ![c] = to]

-----------------------------------------------------------------------------
(* post_metrics *)

\* The network is found, the transaction begins and the samples are inserted.
Begin(c) ==
  /\ Step(c, "idle", "trimming")
  /\ \E rep \in Reports : report' = [report EXCEPT ![c] = rep]
  /\ overlapped' = (overlapped \/ \E d \in Calls : Active(d))
  /\ UNCHANGED <<samples, outages, victims, trimmed, done, found, own, committed>>

\* Variant: the rank is not taken per target.
Partition_None(s) == Internet

\* PARTITION BY network_id, target.
Partition(s) == s.target

\* A newest part of the rows, as large as the limit allows: ORDER BY ts DESC,
\* equal times in any order.
Newest(part, rows, limit) ==
  /\ Cardinality(part) = IF Cardinality(rows) < limit THEN Cardinality(rows) ELSE limit
  /\ \A k \in part, s \in rows \ part : k.ts >= s.ts

\* The subquery of the DELETE, on what is committed now and the own samples:
\* of every target all but Cap newest rows.
SelectVictims(c) ==
  LET visible == samples \cup Inserted(c)
      of(t)   == {s \in visible : Partition(s) = t}
  IN
  /\ Step(c, "trimming", "deleting")
  /\ \E kept \in SUBSET visible :
       /\ \A t \in Targets : Newest(kept \cap of(t), of(t), Cap)
       /\ victims' = [victims EXCEPT ![c] = visible \ kept]
  /\ UNCHANGED <<samples, outages, report, trimmed, done, found, own, committed, overlapped>>

\* The DELETE proper waits for rows that another transaction is deleting and
\* skips those that are gone.  It takes its rows in one step.
DeleteVictims(c) ==
  /\ Step(c, "deleting", "reading")
  /\ \A d \in Calls \ {c} : Active(d) => victims[c] \cap trimmed[d] = {}
  /\ trimmed' = [trimmed EXCEPT ![c] = victims[c] \cap (samples \cup Inserted(c))]
  /\ UNCHANGED <<samples, outages, report, victims, done, found, own, committed, overlapped>>

\* Variants: ended outages count too; the pool is asked, not the transaction.
Unended_Any(c) == OutagesSeen(c)
Unended_Committed(c) == {o \in outages : o.to = Open}

Unended(c) == {o \in OutagesSeen(c) : o.to = Open}

\* One turn of the loop over the Internet samples: look for the open outage.
ReadOpen(c) ==
  /\ Step(c, "reading", "writing")
  /\ Rest(c) # {}
  /\ found' = [found EXCEPT ![c] =
                 IF Unended(c) = {} THEN NoOutage ELSE CHOOSE o \in Unended(c) : TRUE]
  /\ UNCHANGED <<samples, outages, report, victims, trimmed, done, own, committed, overlapped>>

\* The transaction puts its version of an outage row, and the turn is over.
Put(c, version) ==
  /\ own' = [own EXCEPT ![c] = {v \in @ : v.id # version.id} \cup {version}]
  /\ done' = [done EXCEPT ![c] = Through(c)]
  /\ pc' = [pc EXCEPT ![c] = "reading"]
  /\ UNCHANGED <<samples, outages, report, victims, trimmed, found, committed, overlapped>>

\* Variant: without the unique index.
IndexTakes_Anything(c) == TRUE

\* No other transaction has an uncommitted entry in the index, and no outage is open.
IndexTakes(c) == ~IndexBusy(c) /\ \A o \in OutagesSeen(c) : o.to # Open

\* A lost sample with no outage found open: insert one.
StartOutage(c) ==
  LET s == report[c][Sample(c)] IN
  /\ pc[c] = "writing" /\ s.lost /\ found[c] = NoOutage
  /\ IndexTakes(c)
  /\ Put(c, [id |-> <<c, Sample(c)>>, from |-> s.ts, to |-> Open])

\* The index finds another open outage, committed meanwhile: the statement and
\* with it the whole push fail with an internal error.
Conflict(c) ==
  LET s == report[c][Sample(c)] IN
  /\ Step(c, "writing", "conflict") /\ s.lost /\ found[c] = NoOutage
  /\ ~IndexBusy(c)
  /\ \E o \in OutagesSeen(c) : o.to = Open
  /\ UNCHANGED <<samples, outages, locals, committed, overlapped>>

\* A sample got through while an outage was seen open: end that row, whatever
\* has become of it since, but not before it started.
EndOutage(c) ==
  LET s == report[c][Sample(c)]
      o == found[c]
  IN
  /\ pc[c] = "writing" /\ ~s.lost /\ o # NoOutage
  /\ ~LockedByOther(c, o.id)
  /\ Put(c, [o EXCEPT !.to = IF s.ts >= o.from THEN s.ts ELSE o.from])

\* Nothing to do for this sample.
KeepOutages(c) ==
  /\ Step(c, "writing", "reading")
  /\ report[c][Sample(c)].lost <=> found[c] # NoOutage
  /\ done' = [done EXCEPT ![c] = Through(c)]
  /\ UNCHANGED <<samples, outages, report, victims, trimmed, found, own, committed, overlapped>>

Commit(c) ==
  /\ Step(c, "reading", "done")
  /\ Rest(c) = {}
  /\ samples' = (samples \cup Inserted(c)) \ trimmed[c]
  /\ outages' = OutagesSeen(c)
  /\ committed' = Append(committed, c)
  /\ UNCHANGED <<locals, overlapped>>

\* A database error, the client hanging up or the relay stopping: a rollback.
Fail(c) ==
  /\ Active(c)
  /\ pc' = [pc EXCEPT ![c] = "failed"]
  /\ UNCHANGED <<samples, outages, locals, committed, overlapped>>

Handle(c) ==
  \/ SelectVictims(c) \/ DeleteVictims(c) \/ ReadOpen(c) \/ StartOutage(c) \/ Conflict(c)
  \/ EndOutage(c) \/ KeepOutages(c) \/ Commit(c)

Next == \E c \in Calls : Begin(c) \/ Handle(c) \/ Fail(c)

Spec == Init /\ [][Next]_vars

\* The database answers, and tokio runs the handlers.
FairSpec == Spec /\ \A c \in Calls : WF_vars(Handle(c))

-----------------------------------------------------------------------------
(* What a reader is shown *)

\* limit.clamp(1, 1000)
Clamp(limit) == IF limit < 1 THEN 1 ELSE IF limit > Cap THEN Cap ELSE limit

\* ORDER BY ts DESC LIMIT, turned round: as a set.
GetMetrics(t, limit) ==
  LET rows == {s \in samples : s.target = t} IN
  {shown \in SUBSET rows : Newest(shown, rows, Clamp(limit))}

\* ORDER BY started_ts DESC LIMIT.
GetOutages(limit) ==
  {shown \in SUBSET outages :
     Newest({[id |-> o.id, ts |-> o.from] : o \in shown},
            {[id |-> o.id, ts |-> o.from] : o \in outages}, Clamp(limit))}

Limits == 0..(Cap + 1)

-----------------------------------------------------------------------------
(* Properties *)

\* The Internet samples of the committed calls.
Arrived == {s \in UNION {Inserted(committed[k]) : k \in DOMAIN committed} : s.target = Internet}

\* The committed calls came one after the other, and their Internet samples in
\* the order of their times.
InOrder ==
  /\ ~overlapped
  /\ \A k, l \in DOMAIN committed :
       \A s \in Inserted(committed[k]), u \in Inserted(committed[l]) :
         s.target = Internet /\ u.target = Internet /\ s # u =>
           s.ts # u.ts /\ (k < l => s.ts < u.ts)

TypeOK ==
  /\ \A s \in samples : s.id[1] \in Calls /\ s.target \in Targets /\ s.ts \in Nat
  /\ \A o \in outages : o.from \in Nat /\ o.to \in Nat \cup {Open}
  /\ pc \in [Calls -> {"idle"} \cup InTransaction \cup Ended]
  /\ report \in [Calls -> Reports \cup {<<>>}]
  /\ \A c \in Calls : done[c] \subseteq DOMAIN report[c]
  /\ \A c \in Calls : found[c] # NoOutage => found[c].to = Open

\* However calls overlap there is at most one open outage, and none ends before
\* it started.
OutagesWellFormed ==
  /\ Cardinality({o \in outages : o.to = Open}) <= 1
  /\ \A o \in outages : o.to = Open \/ o.from <= o.to

\* The definition of an outage, from the samples alone: it starts with a lost
\* sample that follows none or one that got through, and ends with the next
\* that got through.
LossRuns ==
  LET before(s) == {u \in Arrived : u.ts < s.ts}
      starts(s) == s.lost /\ \A u \in before(s) :
                     u.lost => \E v \in before(s) : ~v.lost /\ u.ts < v.ts
      ends(s)   == {u.ts : u \in {v \in Arrived : ~v.lost /\ v.ts > s.ts}}
  IN {<<s.ts, IF ends(s) = {} THEN Open ELSE CHOOSE e \in ends(s) : \A f \in ends(s) : e <= f>> :
        s \in {u \in Arrived : starts(u)}}

\* When samples arrive in order the outages shown, recorded report by report,
\* are the latest ones of the whole series of samples.
OutagesAreLossRuns ==
  InOrder => \A limit \in Limits : \A shown \in GetOutages(limit) :
    /\ Cardinality(shown) = IF Cardinality(LossRuns) < Clamp(limit)
                            THEN Cardinality(LossRuns) ELSE Clamp(limit)
    /\ \A o \in shown : <<o.from, o.to>> \in LossRuns
    /\ \A o \in shown, run \in LossRuns :
         run[1] > o.from => \E p \in shown : <<p.from, p.to>> = run

\* Of calls that do not overlap a reader sees the newest samples there ever
\* were of a target, as many as it may ask for; what was trimmed is not missed.
NewestSamplesShown ==
  ~overlapped => \A t \in Targets : \A limit \in Limits :
    LET all == {s \in UNION {Inserted(committed[k]) : k \in DOMAIN committed} : s.target = t} IN
    \A shown \in GetMetrics(t, limit) : Newest(shown, all, Clamp(limit))

\* "idempotent: acik varken tekrar 100 gelse yeni kayit acilmaz" (routes.rs:498):
\* a loss reported while an outage is open is no error, unless another push was
\* under way at the same time.
ConflictsNeedOverlap == (\E c \in Calls : pc[c] = "conflict") => overlapped

\* Every push ends: the order of its statements lets no calls wait for each
\* other's rows in a circle (the rows of a single DELETE are taken together).
CallsEnd == \A c \in Calls : (pc[c] # "idle") ~> (pc[c] \in Ended)
=============================================================================
