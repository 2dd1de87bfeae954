--------------------------- MODULE Notify_proofs ---------------------------
(***************************************************************************)
(* Proofs about Notify: its type invariant, who is told of a push, and the *)
(* quiet hours, from one inductive invariant Inv with a lemma for every    *)
(* action.  That the window of hours is the right part of the day is a     *)
(* fact about div and mod (WindowExact), proved first.                     *)
(***************************************************************************)
EXTENDS Notify, TLAPS

-----------------------------------------------------------------------------
(* The clock *)

\* The hour of a second of the day.
LEMMA HourOfDay ==
  ASSUME NEW d \in Int, 0 <= d, d < 86400
  PROVE  /\ (d \div 3600) % 24 \in Int
         /\ 0 <= (d \div 3600) % 24 /\ (d \div 3600) % 24 < 24
         /\ ((d \div 3600) % 24) * 3600 <= d /\ d < ((d \div 3600) % 24) * 3600 + 3600
<1>1. d \div 3600 \in Int /\ 0 <= d \div 3600 /\ d \div 3600 < 24
  BY SMT
<1>2. (d \div 3600) * 3600 <= d /\ d < (d \div 3600) * 3600 + 3600
  BY SMT
<1>3. ASSUME NEW h \in Int, 0 <= h, h < 24 PROVE h % 24 = h
  BY <1>3, SMT
<1>4. (d \div 3600) % 24 = d \div 3600
  BY <1>1, <1>3, SMT
<1> QED
  BY <1>1, <1>2, <1>4, SMT

\* At second d of the day, in hour h, the window of hours is that of seconds.
LEMMA WindowAt ==
  ASSUME NEW from \in Hours, NEW to \in Hours, NEW d \in Int, NEW h \in Int,
         0 <= h, h < 24, h * 3600 <= d, d < h * 3600 + 3600
  PROVE  QuietWindowContains(from, to, h)
         <=> (d - from * 3600) % 86400 < ((to - from) * 3600) % 86400
<1>1. from \in Int /\ 0 <= from /\ from < 24 /\ to \in Int /\ 0 <= to /\ to < 24
  BY SMT DEF Hours
<1>2. (d - from * 3600) % 86400 =
        IF h >= from THEN d - from * 3600 ELSE d - from * 3600 + 86400
  BY <1>1, SMT
<1>3. ((to - from) * 3600) % 86400 =
        IF to >= from THEN (to - from) * 3600 ELSE (to - from) * 3600 + 86400
  BY <1>1, SMT
<1> QED
  BY <1>1, <1>2, <1>3, SMT DEF QuietWindowContains

\* The same at any time: only the time of day matters.
LEMMA WindowExact ==
  ASSUME NEW from \in Hours, NEW to \in Hours, NEW secs \in Nat
  PROVE  QuietWindowContains(from, to, CurrentHour(secs))
         <=> (secs - from * 3600) % 86400 < ((to - from) * 3600) % 86400
<1>1. PICK d \in Int : d = secs % 86400 /\ 0 <= d /\ d < 86400
  BY SMT
<1>2. PICK h \in Int : h = (d \div 3600) % 24 /\ 0 <= h /\ h < 24
                       /\ h * 3600 <= d /\ d < h * 3600 + 3600
  BY <1>1, HourOfDay, SMT
<1>3. CurrentHour(secs) = h
  BY <1>1, <1>2, SMT DEF CurrentHour
<1>4. from * 3600 \in Int
  BY SMT DEF Hours
<1>5. ASSUME NEW f \in Int PROVE (secs - f) % 86400 = ((secs % 86400) - f) % 86400
  BY SMT
<1>6. (secs - from * 3600) % 86400 = (d - from * 3600) % 86400
  BY <1>1, <1>4, <1>5, SMT
<1>7. QuietWindowContains(from, to, h)
      <=> (d - from * 3600) % 86400 < ((to - from) * 3600) % 86400
  BY <1>2, WindowAt, SMT
<1> QED
  BY <1>3, <1>6, <1>7, SMT
-----------------------------------------------------------------------------
(* The inductive invariant *)

\* A channel its tenant deleted has no row.
DroppedAreGone ==
  /\ \A c \in channels : c.id \notin dropped
  /\ \A p \in Pushes : gone[p] \subseteq dropped

\* Until a committed push reads the channels, those it must tell are there.
StillThere ==
  \A p \in Pushes : pc[p] = "committed" =>
    \A id \in stood[p] \ dropped : \E c \in ChannelsOf(TenantOf[p]) : c.id = id

\* Only a push that has been answered has tasks.
TasksFollow == \A t \in tasks : pc[t.push] = "answered"

Inv ==
  /\ TypeOK /\ DroppedAreGone /\ StillThere /\ TasksFollow
  /\ EveryChannelTold /\ NobodyElseTold /\ QuietHours

\* A task for message m of push p and the channel called id.
Told(p, m, id) == \E t \in tasks : t.push = p /\ t.news = m /\ t.channel.id = id

\* Hearers, as a relation.
LEMMA HearersTold ==
  ASSUME NEW p, NEW m, NEW id
  PROVE  id \in Hearers(p, m) <=> Told(p, m, id)
BY DEF Hearers, Told

Task ==
  [push : Pushes, news : UNION {News[p] : p \in Pushes}, channel : Channel,
   state : {"spawned", "silenced", "sending", "delivered", "failed", "lost"},
   at : Instants \cup {0}]

\* Nothing has happened: the invariant holds.
LEMMA InitInv == Init => Inv
<1> SUFFICES ASSUME Init PROVE Inv
  OBVIOUS
<1> USE DEF Init
<1>1. TypeOK
  BY DEF TypeOK
<1>2. DroppedAreGone /\ StillThere /\ TasksFollow
  BY DEF DroppedAreGone, StillThere, TasksFollow
<1>3. EveryChannelTold /\ NobodyElseTold /\ QuietHours
  BY DEF EveryChannelTold, NobodyElseTold, QuietHours
<1> QED
  BY <1>1, <1>2, <1>3 DEF Inv

\* What only changes rows keeps what is said of tasks and pushes.
LEMMA AddKeeps ==
  ASSUME Inv, NEW id \in Ids, NEW t \in Tenants, NEW i \in Inputs, Add(id, t, i)
  PROVE  Inv'
<1> DEFINE c == [id |-> id, tenant |-> t, kind |-> i.kind, config |-> i.config,
                 from |-> i.from, to |-> i.to]
<1> USE DEF Inv
<1>1. c \in Channel
  BY DEF Add, Valid, QuietHour, Channel, Hours
<1>2. /\ channels' = channels \cup {c}
      /\ UNCHANGED <<pc, tasks, dropped, stood, gone, misread>>
      /\ id \notin dropped /\ \A d \in channels : d.id # id
      /\ c.id = id
  BY DEF Add
<1> HIDE DEF c
<1>3. TypeOK'
  BY <1>1, <1>2 DEF TypeOK
<1>4. DroppedAreGone'
  BY <1>2 DEF DroppedAreGone
<1>5. StillThere'
  BY <1>2 DEF StillThere, ChannelsOf
<1>6. (TasksFollow /\ EveryChannelTold /\ NobodyElseTold /\ QuietHours)'
  BY <1>2 DEF TasksFollow, EveryChannelTold, Hearers, NobodyElseTold, QuietHours
<1> QED
  BY <1>3, <1>4, <1>5, <1>6

\* No two rows have one id, so the row that goes is the one asked for.
LEMMA DeleteKeeps ==
  ASSUME Inv, NEW id \in Ids, NEW t \in Tenants, DeleteChannel(id, t)
  PROVE  Inv'
<1> USE DEF Inv
<1> DEFINE own == {x \in channels : x.id = id /\ x.tenant = t}
<1>1. /\ channels' = channels \ own
      /\ dropped' = dropped \cup {c.id : c \in own}
      /\ UNCHANGED <<pc, tasks, stood, gone, misread>>
  BY DEF DeleteChannel, Deleted
<1>2. TypeOK'
  <2>1. \A c \in channels : c.id \in Ids
    BY DEF TypeOK, Channel
  <2> QED
    BY <1>1, <2>1 DEF TypeOK
<1>3. DroppedAreGone'
  <2>1. \A c \in channels \ own : \A d \in own : c.id # d.id
    BY DEF TypeOK
  <2> QED
    BY <1>1, <2>1 DEF DroppedAreGone
<1>4. StillThere'
  <2> SUFFICES ASSUME NEW p \in Pushes, pc[p] = "committed", NEW j \in stood[p] \ dropped'
               PROVE  \E c \in channels' : c.tenant = TenantOf[p] /\ c.id = j
    BY <1>1 DEF StillThere, ChannelsOf
  <2>1. PICK c \in channels : c.tenant = TenantOf[p] /\ c.id = j
    BY <1>1 DEF StillThere, ChannelsOf
  <2>2. c \notin own
    BY <1>1, <2>1
  <2> QED
    BY <1>1, <2>1, <2>2
<1>5. (TasksFollow /\ EveryChannelTold /\ NobodyElseTold /\ QuietHours)'
  BY <1>1 DEF TasksFollow, EveryChannelTold, Hearers, NobodyElseTold, QuietHours
<1> QED
  BY <1>2, <1>3, <1>4, <1>5

\* A push that commits has no tasks yet.
LEMMA CommitKeeps ==
  ASSUME Inv, NEW p \in Pushes, Commit(p)
  PROVE  Inv'
<1> USE DEF Inv, Commit
<1>1. TypeOK'
  BY DEF TypeOK, Channel
<1>2. DroppedAreGone'
  BY DEF DroppedAreGone, TypeOK
<1>3. StillThere'
  BY DEF StillThere, ChannelsOf, TypeOK
<1>4. EveryChannelTold'
  BY DEF EveryChannelTold, Hearers, TypeOK
<1>5. NobodyElseTold'
  BY DEF NobodyElseTold, TasksFollow, TypeOK
<1>6. (TasksFollow /\ QuietHours)'
  BY DEF TasksFollow, QuietHours, TypeOK
<1> QED
  BY <1>1, <1>2, <1>3, <1>4, <1>5, <1>6

\* The tasks of a push are for its tenant's channels and no others.
LEMMA TellKeeps ==
  ASSUME Inv, NEW p \in Pushes, Tell(p)
  PROVE  Inv'
<1> USE DEF Inv, Tell
<1> DEFINE new == {[push |-> p, news |-> m, channel |-> c, state |-> "spawned", at |-> 0] :
                     m \in News[p], c \in ChannelsOf(TenantOf[p])}
<1>1. \A t \in new : t \in Task /\ t.push = p /\ t.channel \in ChannelsOf(TenantOf[p])
                     /\ t.state = "spawned"
  BY DEF TypeOK, Task, ChannelsOf
<1>2. \A m \in News[p], c \in ChannelsOf(TenantOf[p]) :
        \E t \in new : t.push = p /\ t.news = m /\ t.channel = c
  <2> TAKE m \in News[p], c \in ChannelsOf(TenantOf[p])
  <2> DEFINE t == [push |-> p, news |-> m, channel |-> c, state |-> "spawned", at |-> 0]
  <2>1. t \in new
    OBVIOUS
  <2>2. t.push = p /\ t.news = m /\ t.channel = c
    OBVIOUS
  <2> QED
    BY <2>1, <2>2
<1>3. /\ tasks' = tasks \cup new /\ pc[p] = "committed" /\ pc' = [pc EXCEPT ![p] = "answered"]
      /\ UNCHANGED <<channels, dropped, stood, gone, misread>>
  OBVIOUS
<1> HIDE DEF new
<1>4. TypeOK'
  BY <1>1, <1>3 DEF TypeOK, Task
<1>5. DroppedAreGone' /\ StillThere' /\ TasksFollow'
  BY <1>1, <1>3 DEF DroppedAreGone, StillThere, ChannelsOf, TasksFollow, TypeOK
<1>6. EveryChannelTold'
  <2> SUFFICES ASSUME NEW q \in Pushes, pc'[q] = "answered", q \notin misread,
                      NEW m \in News[q], NEW id \in stood[q] \ dropped
               PROVE  Told(q, m, id)'
    BY <1>3 DEF EveryChannelTold, Hearers, Told
  <2>1. CASE q # p
    <3>1. Told(q, m, id)
      BY <1>3, <2>1, HearersTold DEF EveryChannelTold, TypeOK
    <3> QED
      BY <1>3, <3>1 DEF Told
  <2>2. CASE q = p
    BY <1>2, <1>3, <2>2 DEF StillThere, Told
  <2> QED
    BY <2>1, <2>2
<1>7. NobodyElseTold'
  BY <1>1, <1>3 DEF NobodyElseTold, DroppedAreGone, ChannelsOf
<1>8. QuietHours'
  BY <1>1, <1>3 DEF QuietHours
<1> QED
  BY <1>4, <1>5, <1>6, <1>7, <1>8

\* A push that reads no channels is left out of EveryChannelTold.
LEMMA MisreadKeeps ==
  ASSUME Inv, NEW p \in Pushes, Misread(p)
  PROVE  Inv'
<1> USE DEF Inv, Misread
<1>1. TypeOK'
  BY DEF TypeOK
<1>2. (DroppedAreGone /\ StillThere /\ TasksFollow /\ NobodyElseTold /\ QuietHours)'
  BY DEF DroppedAreGone, StillThere, ChannelsOf, TasksFollow, NobodyElseTold, QuietHours, TypeOK
<1>3. EveryChannelTold'
  BY DEF EveryChannelTold, Hearers, TypeOK
<1> QED
  BY <1>1, <1>2, <1>3

\* A push that is cancelled owes nothing.
LEMMA CancelKeeps ==
  ASSUME Inv, NEW p \in Pushes, Cancel(p)
  PROVE  Inv'
<1> USE DEF Inv, Cancel
<1>1. TypeOK'
  BY DEF TypeOK
<1>2. (DroppedAreGone /\ StillThere /\ TasksFollow /\ NobodyElseTold /\ QuietHours)'
  BY DEF DroppedAreGone, StillThere, ChannelsOf, TasksFollow, NobodyElseTold, QuietHours, TypeOK
<1>3. EveryChannelTold'
  BY DEF EveryChannelTold, Hearers, TypeOK
<1> QED
  BY <1>1, <1>2, <1>3

\* A task that only moves on is still the same news for the same channel.
LEMMA BecomeKeeps ==
  ASSUME Inv, NEW t \in tasks, NEW state \in {"silenced", "sending", "delivered", "failed"},
         NEW secs \in Instants \cup {0}, Become(t, state, secs),
         state = "silenced" => InWindow(t.channel, secs),
         state \in {"sending", "delivered"} => ~InWindow(t.channel, secs)
  PROVE  Inv'
<1> USE DEF Inv
<1> DEFINE u == [t EXCEPT !.state = state, !.at = IF state = "failed" THEN 0 ELSE secs]
<1>1. t \in Task
  BY DEF TypeOK, Task
<1>2. u \in Task /\ u.push = t.push /\ u.news = t.news /\ u.channel = t.channel
      /\ u.state = state /\ (state # "failed" => u.at = secs)
  BY <1>1 DEF Task
<1>3. /\ tasks' = (tasks \ {t}) \cup {u}
      /\ UNCHANGED <<channels, pc, dropped, stood, gone, misread>>
  BY DEF Become
<1> HIDE DEF u
<1>4. TypeOK'
  BY <1>2, <1>3 DEF TypeOK, Task
<1>5. (DroppedAreGone /\ StillThere /\ TasksFollow /\ NobodyElseTold)'
  BY <1>2, <1>3 DEF DroppedAreGone, StillThere, ChannelsOf, TasksFollow, NobodyElseTold
<1>6. EveryChannelTold'
  <2>1. \A p, m, id : Told(p, m, id) => Told(p, m, id)'
    BY <1>2, <1>3 DEF Told
  <2>2. \A p, m, id : Told(p, m, id)' => id \in Hearers(p, m)'
    BY DEF Told, Hearers
  <2> QED
    BY <1>3, <2>1, <2>2, HearersTold DEF EveryChannelTold
<1>7. QuietHours'
  <2> SUFFICES ASSUME NEW v \in tasks'
               PROVE  /\ v.state = "silenced" => InWindow(v.channel, v.at)
                      /\ v.state \in {"sending", "delivered"} => ~InWindow(v.channel, v.at)
    BY DEF QuietHours, InWindow
  <2>1. CASE v = u
    BY <1>2, <2>1
  <2>2. CASE v \in tasks
    BY <2>2 DEF QuietHours
  <2> QED
    BY <1>3, <2>1, <2>2
<1> QED
  BY <1>4, <1>5, <1>6, <1>7

\* A task that starts is held back in its channel's window and only there.
LEMMA StartKeeps ==
  ASSUME Inv, NEW t \in tasks, Start(t)
  PROVE  Inv'
<1>1. PICK secs \in Instants :
        Become(t, IF IsQuietAt(t.channel, CurrentHour(secs)) THEN "silenced"
                  ELSE IF Configured(t.channel) THEN "sending" ELSE "failed", secs)
  BY DEF Start
<1>2. secs \in Nat
  BY NotifyConstants DEF NotifyConstants
<1>3. t.channel \in Channel
  BY DEF Inv, TypeOK
<1>4. IsQuietAt(t.channel, CurrentHour(secs)) <=> InWindow(t.channel, secs)
  <2>1. CASE t.channel.from = None
    BY <2>1 DEF IsQuietAt, InWindow
  <2>2. CASE t.channel.from # None
    <3>1. t.channel.from \in Hours /\ t.channel.to \in Hours
      BY <1>3, <2>2 DEF Channel
    <3>2. t.channel.to # None
      BY <3>1, NotifyConstants DEF NotifyConstants, Hours
    <3> QED
      BY <1>2, <2>2, <3>1, <3>2, WindowExact, SMT DEF IsQuietAt, InWindow
  <2> QED
    BY <2>1, <2>2
<1> QED
  BY <1>1, <1>4, BecomeKeeps

\* The answer does not change when the request was made.
LEMMA AnswerKeeps ==
  ASSUME Inv, NEW t \in tasks, Answer(t)
  PROVE  Inv'
<1>1. PICK s \in {"delivered", "failed"} : Become(t, s, t.at)
  BY DEF Answer
<1>2. t.at \in Instants \cup {0} /\ ~InWindow(t.channel, t.at)
  BY DEF Answer, Inv, TypeOK, QuietHours
<1> QED
  BY <1>1, <1>2, BecomeKeeps

\* A restart loses tasks but not what they were for.
LEMMA RestartKeeps ==
  ASSUME Inv, Restart
  PROVE  Inv'
<1> USE DEF Inv
<1> DEFINE Lost(t) == IF t.state \in {"spawned", "sending"}
                      THEN [t EXCEPT !.state = "lost", !.at = 0] ELSE t
<1>1. /\ tasks' = {Lost(t) : t \in tasks}
      /\ pc' = [p \in Pushes |-> IF pc[p] = "committed" THEN "failed" ELSE pc[p]]
      /\ UNCHANGED <<channels, dropped, stood, gone, misread>>
  BY DEF Restart
<1>2. \A t \in tasks :
        /\ Lost(t) \in Task /\ Lost(t).push = t.push /\ Lost(t).news = t.news
        /\ Lost(t).channel = t.channel
        /\ Lost(t).state # "lost" => Lost(t).state = t.state /\ Lost(t).at = t.at
  BY DEF TypeOK, Task
<1> HIDE DEF Lost
<1>3. TypeOK'
  BY <1>1, <1>2 DEF TypeOK, Task
<1>4. (DroppedAreGone /\ StillThere /\ TasksFollow /\ NobodyElseTold)'
  BY <1>1, <1>2 DEF DroppedAreGone, StillThere, TasksFollow, NobodyElseTold, TypeOK, Task
<1>5. EveryChannelTold'
  <2>1. \A p, m, id : Told(p, m, id) => Told(p, m, id)'
    BY <1>1, <1>2 DEF Told
  <2>2. \A p, m, id : Told(p, m, id)' => id \in Hearers(p, m)'
    BY DEF Told, Hearers
  <2>3. \A p \in Pushes : pc'[p] = "answered" => pc[p] = "answered"
    BY <1>1
  <2> QED
    BY <1>1, <2>1, <2>2, <2>3, HearersTold DEF EveryChannelTold
<1>6. QuietHours'
  <2> SUFFICES ASSUME NEW t \in tasks
               PROVE  /\ Lost(t).state = "silenced" => InWindow(t.channel, t.at)
                      /\ Lost(t).state \in {"sending", "delivered"} => ~InWindow(t.channel, t.at)
    BY <1>1, <1>2 DEF QuietHours, InWindow
  <2> QED
    BY <1>2 DEF QuietHours
<1> QED
  BY <1>3, <1>4, <1>5, <1>6

\* Every reachable state satisfies the inductive invariant.
THEOREM NotifyInvariant == Spec => []Inv
<1>1. Inv /\ [Next]_vars => Inv'
  <2> SUFFICES ASSUME Inv, [Next]_vars PROVE Inv'
    OBVIOUS
  <2>1. CASE UNCHANGED vars
    BY <2>1 DEF vars, Inv, TypeOK, DroppedAreGone, StillThere, ChannelsOf, TasksFollow,
                EveryChannelTold, Hearers, NobodyElseTold, QuietHours
  <2>2. CASE \E id \in Ids, t \in Tenants :
               AddByApi(id, t) \/ AddByCommand(id, t) \/ DeleteChannel(id, t)
    BY <2>2, AddKeeps, DeleteKeeps DEF AddByApi, AddByCommand
  <2>3. CASE \E p \in Pushes : Commit(p) \/ Tell(p) \/ Misread(p) \/ Cancel(p)
    BY <2>3, CommitKeeps, TellKeeps, MisreadKeeps, CancelKeeps
  <2>4. CASE \E t \in tasks : Dispatch(t) \/ Answer(t)
    BY <2>4, StartKeeps, AnswerKeeps DEF Dispatch
  <2>5. CASE Restart
    BY <2>5, RestartKeeps
  <2> QED
    BY <2>1, <2>2, <2>3, <2>4, <2>5 DEF Next
<1> QED
  BY <1>1, InitInv, PTL DEF Spec

\* Rows and tasks keep their types.
THEOREM NotifyTypeCorrect == Spec => []TypeOK
BY NotifyInvariant, PTL DEF Inv

\* An answered push has told every channel it had to, at any interleaving of
\* additions, deletions and restarts.
THEOREM EveryoneTold == Spec => []EveryChannelTold
BY NotifyInvariant, PTL DEF Inv

\* No message goes to another tenant's channel or to one deleted before it.
THEOREM NoOneElseTold == Spec => []NobodyElseTold
BY NotifyInvariant, PTL DEF Inv

\* A message is held back exactly in the quiet hours, for every window of hours
\* and every second.
THEOREM QuietHoursKept == Spec => []QuietHours
BY NotifyInvariant, PTL DEF Inv
=============================================================================
