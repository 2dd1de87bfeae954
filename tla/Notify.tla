------------------------------ MODULE Notify ------------------------------
(***************************************************************************)
(* Notification channels: how the API and the command line add them        *)
(* (post_channel in routes.rs, add-channel in main.rs), how they are       *)
(* deleted, and how the end of post_inventory and dispatch in notify.rs    *)
(* send a committed push's messages to them.                               *)
(*                                                                         *)
(* A push reads its tenant's channels once, after its commit, and spawns a *)
(* task for each message and channel; a task has a copy of the channel and *)
(* reads the clock when it runs.  Tasks live in memory.  The HTTP client   *)
(* has no timeout: an endpoint may never answer.                           *)
(***************************************************************************)
EXTENDS Integers, FiniteSets

CONSTANTS
  Ids,       \* uuids of channels
  Tenants,
  Pushes,    \* pushes that have new messages
  TenantOf,  \* push -> the tenant it is made for
  News,      \* push -> its messages
  Required,  \* known kind -> the keys it needs in its config
  Inputs,    \* what a channel may be asked for with: [kind, config, from, to]
  Instants,  \* clock readings, in seconds
  NotJson,   \* a config that does not parse; the others are sets of keys
  None       \* no quiet hour

ASSUME NotifyConstants ==
  /\ TenantOf \in [Pushes -> Tenants]
  /\ Instants \subseteq Nat
  /\ \A i \in Inputs : i.from \in Int \cup {None} /\ i.to \in Int \cup {None}
  /\ None \notin Int

VARIABLES
  channels,  \* rows of notification_channels
  pc,        \* push -> "idle", "committed", "answered" or "failed"
  tasks,     \* [push, news, channel, state, at]; at: the clock reading, while it matters
  dropped,   \* history: the channels their own tenant deleted
  stood,     \* history: push -> its tenant's channels when it committed
  gone,      \* history: push -> dropped when it committed
  misread    \* history: the pushes whose read of the channels failed

vars == <<channels, pc, tasks, dropped, stood, gone, misread>>

Init ==
  /\ channels = {} /\ tasks = {} /\ dropped = {} /\ misread = {}
  /\ pc = [p \in Pushes |-> "idle"]
  /\ stood = [p \in Pushes |-> {}] /\ gone = [p \in Pushes |-> {}]

(* Operators named <Operator>_<bug> are variants of the definition that     *)
(* follows them; no behaviour of Spec takes them.                          *)

-----------------------------------------------------------------------------
(* Channels *)

\* Variant: any number is an hour.
QuietHour_Unchecked(h) == h = None \/ h \in Int

\* parse_quiet_hour and parse_quiet_arg.
QuietHour(h) == h = None \/ h \in 0..23

\* What both ways of adding a channel check; only the API parses the config.
Valid(i) ==
  /\ i.kind \in DOMAIN Required
  /\ QuietHour(i.from) /\ QuietHour(i.to)
  /\ i.from = None <=> i.to = None

Add(id, t, i) ==
  /\ Valid(i)
  /\ id \notin dropped /\ \A c \in channels : c.id # id
  /\ channels' = channels \cup
       {[id |-> id, tenant |-> t, kind |-> i.kind, config |-> i.config, from |-> i.from, to |-> i.to]}
  /\ UNCHANGED <<pc, tasks, dropped, stood, gone, misread>>

AddByApi(id, t) == \E i \in Inputs : i.config # NotJson /\ Add(id, t, i)

AddByCommand(id, t) == \E i \in Inputs : Add(id, t, i)

\* Variant: DELETE by id alone.
Deleted_AnyTenant(id, t) == {c \in channels : c.id = id}

\* DELETE ... WHERE id = $1 AND tenant_id = $2
Deleted(id, t) == {c \in channels : c.id = id /\ c.tenant = t}

DeleteChannel(id, t) ==
  /\ channels' = channels \ Deleted(id, t)
  /\ dropped' = dropped \cup {c.id : c \in {x \in channels : x.id = id /\ x.tenant = t}}
  /\ UNCHANGED <<pc, tasks, stood, gone, misread>>

-----------------------------------------------------------------------------
(* Pushes *)

\* Variant: SELECT without the tenant.
ChannelsOf_AllTenants(t) == channels

ChannelsOf(t) == {c \in channels : c.tenant = t}

Commit(p) ==
  /\ pc[p] = "idle" /\ pc' = [pc EXCEPT ![p] = "committed"]
  /\ stood' = [stood EXCEPT ![p] = {c.id : c \in {x \in channels : x.tenant = TenantOf[p]}}]
  /\ gone' = [gone EXCEPT ![p] = dropped]
  /\ UNCHANGED <<channels, tasks, dropped, misread>>

\* fetch_all and the loop that spawns; the push is answered without waiting.
Tell(p) ==
  /\ pc[p] = "committed" /\ pc' = [pc EXCEPT ![p] = "answered"]
  /\ tasks' = tasks \cup
       {[push |-> p, news |-> m, channel |-> c, state |-> "spawned", at |-> 0] :
          m \in News[p], c \in ChannelsOf(TenantOf[p])}
  /\ UNCHANGED <<channels, dropped, stood, gone, misread>>

\* unwrap_or_default: an error reads as no channels.
Misread(p) ==
  /\ pc[p] = "committed" /\ pc' = [pc EXCEPT ![p] = "answered"]
  /\ misread' = misread \cup {p}
  /\ UNCHANGED <<channels, tasks, dropped, stood, gone>>

\* The agent hangs up.
Cancel(p) ==
  /\ pc[p] = "committed" /\ pc' = [pc EXCEPT ![p] = "failed"]
  /\ UNCHANGED <<channels, tasks, dropped, stood, gone, misread>>

-----------------------------------------------------------------------------
(* Tasks *)

CurrentHour(secs) == ((secs % 86400) \div 3600) % 24

\* Variant: no window wraps around midnight.
QuietWindowContains_NoWrap(from, to, hour) == hour >= from /\ hour < to

QuietWindowContains(from, to, hour) ==
  \/ from < to /\ hour >= from /\ hour < to
  \/ from > to /\ (hour >= from \/ hour < to)

IsQuietAt(c, hour) ==
  c.from # None /\ c.to # None /\ QuietWindowContains(c.from, c.to, hour)

Configured(c) == c.config # NotJson /\ Required[c.kind] \subseteq c.config

Become(t, state, secs) ==
  /\ tasks' = (tasks \ {t}) \cup
       {[t EXCEPT !.state = state, !.at = IF state = "failed" THEN 0 ELSE secs]}
  /\ UNCHANGED <<channels, pc, dropped, stood, gone, misread>>

\* dispatch: nothing in the quiet hours; an error without the config it needs;
\* otherwise a request goes out.
Start(t) ==
  /\ t.state = "spawned"
  /\ \E secs \in Instants :
       Become(t, IF IsQuietAt(t.channel, CurrentHour(secs)) THEN "silenced"
                 ELSE IF Configured(t.channel) THEN "sending" ELSE "failed", secs)

\* Variant: one request at a time.
Dispatch_InTurn(t) == Start(t) /\ \A u \in tasks : u.state # "sending"

Dispatch(t) == Start(t)

Answer(t) == t.state = "sending" /\ \E s \in {"delivered", "failed"} : Become(t, s, t.at)

-----------------------------------------------------------------------------
\* The relay restarts: requests and tasks are gone, rows stay.
Restart ==
  /\ pc' = [p \in Pushes |-> IF pc[p] = "committed" THEN "failed" ELSE pc[p]]
  /\ tasks' = {IF t.state \in {"spawned", "sending"} THEN [t EXCEPT !.state = "lost", !.at = 0] ELSE t :
                 t \in tasks}
  /\ UNCHANGED <<channels, dropped, stood, gone, misread>>

Next ==
  \/ \E id \in Ids, t \in Tenants : AddByApi(id, t) \/ AddByCommand(id, t) \/ DeleteChannel(id, t)
  \/ \E p \in Pushes : Commit(p) \/ Tell(p) \/ Misread(p) \/ Cancel(p)
  \/ \E t \in tasks : Dispatch(t) \/ Answer(t)
  \/ Restart

Spec == Init /\ [][Next]_vars

DispatchOf(p) == \E t \in tasks : t.push = p /\ Dispatch(t)

\* The handler goes on and the runtime runs tasks; endpoints owe no answer.
FairSpec == Spec /\ \A p \in Pushes : WF_vars(Tell(p)) /\ WF_vars(DispatchOf(p))

-----------------------------------------------------------------------------
(* Properties *)

Hours == 0..23

Channel ==
  [id : Ids, tenant : Tenants, kind : DOMAIN Required, config : {i.config : i \in Inputs},
   from : Hours, to : Hours] \cup
  [id : Ids, tenant : Tenants, kind : DOMAIN Required, config : {i.config : i \in Inputs},
   from : {None}, to : {None}]

\* Types; the quiet hours of a stored channel are both hours or both absent.
TypeOK ==
  /\ channels \subseteq Channel
  /\ \A c, d \in channels : c.id = d.id => c = d
  /\ pc \in [Pushes -> {"idle", "committed", "answered", "failed"}]
  /\ tasks \subseteq [push : Pushes, news : UNION {News[p] : p \in Pushes}, channel : Channel,
                      state : {"spawned", "silenced", "sending", "delivered", "failed", "lost"},
                      at : Instants \cup {0}]
  /\ dropped \subseteq Ids /\ misread \subseteq Pushes
  /\ stood \in [Pushes -> SUBSET Ids] /\ gone \in [Pushes -> SUBSET Ids]

Hearers(p, m) == {t.channel.id : t \in {x \in tasks : x.push = p /\ x.news = m}}

\* A push that is answered has sent every message to every channel its tenant
\* had when it committed and has not deleted since, whatever other tenants ask
\* to be deleted; unless it could not read the channels.
EveryChannelTold ==
  \A p \in Pushes : pc[p] = "answered" /\ p \notin misread =>
    \A m \in News[p] : stood[p] \ dropped \subseteq Hearers(p, m)

\* Nothing goes to another tenant's channel, or to one deleted before the commit.
NobodyElseTold ==
  \A t \in tasks : t.channel.tenant = TenantOf[t.push] /\ t.channel.id \notin gone[t.push]

\* The clock, from hour from to hour to, on this or the next day.
InWindow(c, secs) ==
  c.from # None /\ (secs - c.from * 3600) % 86400 < ((c.to - c.from) * 3600) % 86400

\* A task's message is held back exactly when its clock reading lies from the
\* start to the end of the channel's window, around midnight too.
QuietHours ==
  \A t \in tasks :
    /\ t.state = "silenced" => InWindow(t.channel, t.at)
    /\ t.state \in {"sending", "delivered"} => ~InWindow(t.channel, t.at)

\* A committed push comes to its end and all its tasks are tried or lost, though
\* an endpoint never answers and another channel's config is useless.
NewsGoesOut ==
  \A p \in Pushes : pc[p] = "committed" ~>
    pc[p] # "committed" /\ \A t \in tasks : t.push = p => t.state # "spawned"
=============================================================================
