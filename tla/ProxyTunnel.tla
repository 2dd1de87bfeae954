---------------------------- MODULE ProxyTunnel ----------------------------
(***************************************************************************)
(* The reverse tunnel: tunnel.rs (Registry), and in routes.rs agent_socket *)
(* (the task that serves an agent's WebSocket, with its outgoing pump) and *)
(* do_proxy (the handler of one proxied HTTP request).                     *)
(*                                                                         *)
(* A socket is one life of one agent connection; a request is one call of  *)
(* do_proxy.  A reconnecting agent uses another socket.  Registry::conns   *)
(* and Registry::pending are tokio mutexes that are never held together,   *)
(* so every critical section is one action and anything may happen between *)
(* two of them.                                                            *)
(***************************************************************************)
EXTENDS Naturals, Sequences

CONSTANTS
  Tenants,       \* tenant ids
  Sockets,       \* agent WebSocket connections
  Requests,      \* proxied HTTP requests, also their uuid in the tunnel
  Nets,          \* network ids
  SocketTenant,  \* the tenant agent_tunnel authenticated the socket for
  Principal,     \* the tenant reader_from_req resolved the request to
  Target,        \* the network named in the request's path
  NetOwner,      \* networks.tenant_id
  NoSocket

ASSUME TunnelConstants ==
  /\ SocketTenant \in [Sockets -> Tenants]
  /\ Principal \in [Requests -> Tenants]
  /\ Target \in [Requests -> Nets]
  /\ NetOwner \in [Nets -> Tenants]
  /\ NoSocket \notin Sockets

VARIABLES
  conns,    \* Registry::conns: tenant -> the socket whose sender it holds
  pending,  \* the keys of Registry::pending
  phase,    \* socket -> where its agent_socket task is
  link,     \* socket -> the agent's end of the connection is alive
  rx,       \* socket -> the pump still owns the receiver of the channel
  queue,    \* socket -> requests in the mpsc channel
  inbox,    \* socket -> requests that reached the agent
  replies,  \* socket -> <<request, kind>> frames on their way to the relay
  req,      \* request -> where its do_proxy is, or how it ended
  sender,   \* request -> the socket whose sender it has cloned
  slot,     \* request -> what its oneshot holds
  served,   \* history: the replies agents sent, as <<request, kind>>
  crossed   \* history: tenants with two registered sockets at one time

tasks  == <<phase, link, rx, queue, inbox, replies>>
calls  == <<req, sender, slot>>
vars   == <<conns, pending, tasks, calls, served, crossed>>

Kinds     == {"ok", "error"}              \* ProxyResponse.error is None / Some
InFlight  == {"asked", "cloned", "inserted", "waiting"}
Outcomes  == {"not_found", "no_agent", "answered", "agent_error",
              "timed_out", "cancelled"}
Phases    == {"new", "connected", "serving", "closing", "aborting", "closed"}

TypeOK ==
  /\ conns \in [Tenants -> Sockets \cup {NoSocket}]
  /\ pending \in SUBSET Requests
  /\ phase \in [Sockets -> Phases]
  /\ link \in [Sockets -> BOOLEAN]
  /\ rx \in [Sockets -> BOOLEAN]
  /\ queue \in [Sockets -> Seq(Requests)]
  /\ inbox \in [Sockets -> SUBSET Requests]
  /\ replies \in [Sockets -> SUBSET (Requests \X Kinds)]
  /\ req \in [Requests -> {"idle"} \cup InFlight \cup Outcomes]
  /\ sender \in [Requests -> Sockets \cup {NoSocket}]
  /\ slot \in [Requests -> {"empty"} \cup Kinds]
  /\ served \in SUBSET (Requests \X Kinds)
  /\ crossed \in SUBSET Tenants

Init ==
  /\ conns = [t \in Tenants |-> NoSocket]
  /\ pending = {}
  /\ phase = [s \in Sockets |-> "new"]
  /\ link = [s \in Sockets |-> FALSE]
  /\ rx = [s \in Sockets |-> FALSE]
  /\ queue = [s \in Sockets |-> <<>>]
  /\ inbox = [s \in Sockets |-> {}]
  /\ replies = [s \in Sockets |-> {}]
  /\ req = [r \in Requests |-> "idle"]
  /\ sender = [r \in Requests |-> NoSocket]
  /\ slot = [r \in Requests |-> "empty"]
  /\ served = {}
  /\ crossed = {}

-----------------------------------------------------------------------------
(* agent_socket *)

(* Operators named <Action>_<bug> are variants of the action that follows   *)
(* them; no behaviour of Spec takes them.                                  *)

\* The sockets whose task is between register and unregister.
Registered(s) == phase[s] \in {"serving", "closing"}

\* The upgrade succeeded: the socket is split and the channel made.
Connect(s) ==
  /\ phase[s] = "new"
  /\ phase' = [phase EXCEPT ![s] = "connected"]
  /\ link' = [link EXCEPT ![s] = TRUE]
  /\ rx' = [rx EXCEPT ![s] = TRUE]
  /\ UNCHANGED <<conns, pending, queue, inbox, replies, calls, served, crossed>>

\* Registry::register: the map's previous sender for the tenant is dropped.
Register(s) ==
  LET t == SocketTenant[s] IN
  /\ phase[s] = "connected"
  /\ phase' = [phase EXCEPT ![s] = "serving"]
  /\ conns' = [conns EXCEPT ![t] = s]
  /\ crossed' = IF \E o \in Sockets \ {s} : SocketTenant[o] = t /\ Registered(o)
                THEN crossed \cup {t} ELSE crossed
  /\ UNCHANGED <<pending, link, rx, queue, inbox, replies, calls, served>>

\* The receiver goes away, and with it what the channel still holds.
DropReceiver(s) ==
  /\ rx' = [rx EXCEPT ![s] = FALSE]
  /\ queue' = [queue EXCEPT ![s] = <<>>]

\* The pump takes the next request and writes it to the sink.  On a dead link
\* the write may still be accepted by the kernel, or fail and end the pump.
PumpSend(s) ==
  /\ phase[s] \in {"serving", "closing", "aborting"}
  /\ rx[s] /\ queue[s] # <<>>
  /\ \/ /\ queue' = [queue EXCEPT ![s] = Tail(@)]
        /\ inbox' = IF link[s] THEN [inbox EXCEPT ![s] = @ \cup {Head(queue[s])}]
                               ELSE inbox
        /\ UNCHANGED rx
     \/ ~link[s] /\ DropReceiver(s) /\ UNCHANGED inbox
  /\ UNCHANGED <<conns, pending, phase, link, replies, calls, served, crossed>>

\* recv() yields None once the channel is empty and its last sender is gone:
\* the registry's, after another register or an unregister, and the clones.
PumpEnd(s) ==
  /\ phase[s] \in {"serving", "closing", "aborting"}
  /\ rx[s] /\ queue[s] = <<>>
  /\ conns[SocketTenant[s]] # s
  /\ \A r \in Requests : sender[r] # s
  /\ DropReceiver(s)
  /\ UNCHANGED <<conns, pending, phase, link, inbox, replies, calls, served, crossed>>

\* Registry::complete: the entry is removed, and the reply put in the oneshot
\* if its receiver still exists.  Unknown ids (late or repeated replies) fall through.
Complete(r, kind) ==
  /\ pending' = pending \ {r}
  /\ slot' = IF r \in pending /\ req[r] \in {"inserted", "waiting"}
             THEN [slot EXCEPT ![r] = kind] ELSE slot

ReadFrame(s) ==
  /\ phase[s] = "serving"
  /\ \E f \in replies[s] :
       /\ replies' = [replies EXCEPT ![s] = @ \ {f}]
       /\ Complete(f[1], f[2])
  /\ UNCHANGED <<conns, phase, link, rx, queue, inbox, req, sender, served, crossed>>

\* stream.next() reports the end of a dead connection, after what was received.
\* A half-open connection may go unnoticed for ever: no step forces this one.
ReadEnd(s) ==
  /\ phase[s] = "serving"
  /\ ~link[s] /\ replies[s] = {}
  /\ phase' = [phase EXCEPT ![s] = "closing"]
  /\ UNCHANGED <<conns, pending, link, rx, queue, inbox, replies, calls, served, crossed>>

\* Variants: nothing is removed; the whole map is cleared.
Without_Nothing(t) == conns
Without_Everything(t) == [u \in Tenants |-> NoSocket]

\* The registry after the tenant's entry is removed, whosever it is.
Without(t) == [conns EXCEPT ![t] = NoSocket]

\* Registry::unregister.
Unregister(s) ==
  /\ phase[s] = "closing"
  /\ phase' = [phase EXCEPT ![s] = "aborting"]
  /\ conns' = Without(SocketTenant[s])
  /\ UNCHANGED <<pending, link, rx, queue, inbox, replies, calls, served, crossed>>

\* pump.abort() takes effect and the task ends.
AbortPump(s) ==
  /\ phase[s] = "aborting"
  /\ phase' = [phase EXCEPT ![s] = "closed"]
  /\ DropReceiver(s)
  /\ UNCHANGED <<conns, pending, link, inbox, replies, calls, served, crossed>>

-----------------------------------------------------------------------------
(* The agent and the network (not in this repository). *)

\* An agent replies, at any time and perhaps again, to a request it was sent.
AgentReply(s) ==
  /\ link[s]
  /\ \E r \in inbox[s], kind \in Kinds :
       /\ replies' = [replies EXCEPT ![s] = @ \cup {<<r, kind>>}]
       /\ served' = served \cup {<<r, kind>>}
  /\ UNCHANGED <<conns, pending, phase, link, rx, queue, inbox, calls, crossed>>

\* The connection dies; any of the frames in flight are lost with it.
LinkDown(s) ==
  /\ link[s]
  /\ link' = [link EXCEPT ![s] = FALSE]
  /\ \E kept \in SUBSET replies[s] : replies' = [replies EXCEPT ![s] = kept]
  /\ UNCHANGED <<conns, pending, phase, rx, queue, inbox, calls, served, crossed>>

-----------------------------------------------------------------------------
(* do_proxy *)

\* The request leaves the state `from` for `to`, keeping no clone of a sender.
Move(r, from, to) ==
  /\ req[r] = from
  /\ req' = [req EXCEPT ![r] = to]
  /\ sender' = [sender EXCEPT ![r] = NoSocket]

\* Variant: any known network will do.
Owns_Any(r) == TRUE

Owns(r) == NetOwner[Target[r]] = Principal[r]

\* The caller is authenticated and must own the network, or gets a 404.
Ask(r) ==
  /\ Move(r, "idle", IF Owns(r) THEN "asked" ELSE "not_found")
  /\ UNCHANGED <<conns, pending, tasks, slot, served, crossed>>

\* Registry::request, first section: clone the tenant's sender or give up.
Lookup(r) ==
  LET s == conns[Principal[r]] IN
  /\ req[r] = "asked"
  /\ req' = [req EXCEPT ![r] = IF s = NoSocket THEN "no_agent" ELSE "cloned"]
  /\ sender' = [sender EXCEPT ![r] = s]
  /\ UNCHANGED <<conns, pending, tasks, slot, served, crossed>>

\* The request is in the socket's channel or was written to its agent.
Reaches(s, r) == r \in inbox[s] \/ \E i \in 1..Len(queue[s]) : queue[s][i] = r

\* Variant: the request is sent first and its oneshot filed afterwards.
InsertPending_AfterSend(r) ==
  /\ req[r] = "cloned"
  /\ IF \E s \in Sockets : Reaches(s, r)
     THEN Move(r, "cloned", "waiting") /\ pending' = pending \cup {r} /\ UNCHANGED queue
     ELSE queue' = [queue EXCEPT ![sender[r]] = Append(@, r)] /\ UNCHANGED <<req, sender, pending>>
  /\ UNCHANGED <<conns, phase, link, rx, inbox, replies, slot, served, crossed>>

\* Registry::request, second section: file the oneshot under a fresh id.
InsertPending(r) ==
  /\ req[r] = "cloned"
  /\ req' = [req EXCEPT ![r] = "inserted"]
  /\ pending' = pending \cup {r}
  /\ UNCHANGED <<conns, tasks, sender, slot, served, crossed>>

\* Variant: a closed channel still takes requests.
Accepts_Always(s) == TRUE

\* The channel has its receiver.
Accepts(s) == rx[s]

\* tx.send fails once the pump is gone; the entry in pending stays behind.
Send(r) ==
  LET s == sender[r] IN
  /\ Move(r, "inserted", IF Accepts(s) THEN "waiting" ELSE "no_agent")
  /\ queue' = IF Accepts(s) THEN [queue EXCEPT ![s] = Append(@, r)] ELSE queue
  /\ UNCHANGED <<conns, pending, phase, link, rx, inbox, replies, slot, served, crossed>>

\* Variants: the agent's error is not looked at; the reply's own tag is returned.
Outcome_IgnoresError(kind) == "answered"
Outcome_Raw(kind) == kind

\* A ProxyResponse without an error is a page, one with an error a 503.
Outcome(kind) == IF kind = "ok" THEN "answered" ELSE "agent_error"

\* timeout() polls the oneshot first: a reply that is there wins over the clock.
TakeAnswer(r) ==
  /\ slot[r] # "empty"
  /\ Move(r, "waiting", Outcome(slot[r]))
  /\ UNCHANGED <<conns, pending, tasks, slot, served, crossed>>

\* Variant: the timer runs only while the agent is registered.
Timeout_NeedsAgent(r) ==
  /\ slot[r] = "empty"
  /\ conns[Principal[r]] # NoSocket
  /\ Move(r, "waiting", "timed_out")
  /\ UNCHANGED <<conns, pending, tasks, slot, served, crossed>>

\* Twenty seconds passed without a reply; nothing removes the entry in pending.
Timeout(r) ==
  /\ slot[r] = "empty"
  /\ Move(r, "waiting", "timed_out")
  /\ UNCHANGED <<conns, pending, tasks, slot, served, crossed>>

\* The HTTP client hangs up and the handler's future is dropped at an await.
Cancel(r) ==
  /\ \E p \in {"asked", "cloned", "waiting"} : Move(r, p, "cancelled")
  /\ UNCHANGED <<conns, pending, tasks, slot, served, crossed>>

-----------------------------------------------------------------------------
\* The relay process restarts: the registry is in memory and starts empty.
Restart ==
  /\ conns' = [t \in Tenants |-> NoSocket]
  /\ pending' = {}
  /\ phase' = [s \in Sockets |-> IF phase[s] = "new" THEN "new" ELSE "closed"]
  /\ link' = [s \in Sockets |-> FALSE]
  /\ rx' = [s \in Sockets |-> FALSE]
  /\ queue' = [s \in Sockets |-> <<>>]
  /\ replies' = [s \in Sockets |-> {}]
  /\ req' = [r \in Requests |-> IF req[r] \in InFlight THEN "cancelled" ELSE req[r]]
  /\ sender' = [r \in Requests |-> NoSocket]
  /\ UNCHANGED <<inbox, slot, served, crossed>>

Handler(r) ==
  Lookup(r) \/ InsertPending(r) \/ Send(r) \/ TakeAnswer(r) \/ Timeout(r)

Pump(s) == PumpSend(s) \/ PumpEnd(s)

Cleanup(s) == Unregister(s) \/ AbortPump(s)

SocketStep(s) ==
  Connect(s) \/ Register(s) \/ ReadFrame(s) \/ ReadEnd(s) \/ Cleanup(s)

Next ==
  \/ \E s \in Sockets : SocketStep(s) \/ Pump(s) \/ AgentReply(s) \/ LinkDown(s)
  \/ \E r \in Requests : Ask(r) \/ Handler(r) \/ Cancel(r)
  \/ Restart

Spec == Init /\ [][Next]_vars

\* tokio runs every ready task, and the 20 s timer fires.  Nothing is assumed of
\* the agent (which may stop reading and block the pump), of the network or of
\* the HTTP clients.
FairSpec ==
  /\ Spec
  /\ \A r \in Requests : WF_vars(Handler(r))
  /\ \A s \in Sockets : WF_vars(Cleanup(s))

-----------------------------------------------------------------------------
(* Properties *)

\* A handler that waits, or whose request an agent has and may be answering, can
\* be woken: its oneshot is filed in pending or already filled.  So no reply comes
\* too early, and the `Ok(Err(_))` of do_proxy's timeout never happens.
WaiterReachable ==
  \A r \in Requests :
    \/ req[r] \in {"inserted", "waiting"}
    \/ req[r] \in InFlight /\ \E s \in Sockets : Reaches(s, r)
    => r \in pending \/ slot[r] # "empty"

\* The registry never keeps the sender of a socket whose task has left its
\* read loop and cleaned up: a registered socket is being served or is about
\* to unregister.
NoDanglingSender ==
  \A t \in Tenants :
    conns[t] # NoSocket => Registered(conns[t]) /\ SocketTenant[conns[t]] = t

\* Whatever reaches an agent's channel or the agent itself was asked by a
\* caller of that agent's tenant for a network of that tenant.
TenantIsolation ==
  \A s \in Sockets, r \in Requests :
    Reaches(s, r) => /\ Principal[r] = SocketTenant[s]
                     /\ NetOwner[Target[r]] = SocketTenant[s]

\* The client gets a page, or an agent's error, only when an agent replied so.
AnswersComeFromAgents ==
  \A r \in Requests :
    /\ req[r] = "answered" => <<r, "ok">> \in served
    /\ req[r] = "agent_error" => <<r, "error">> \in served

\* The agent of a tenant whose sockets never overlapped is reachable while its
\* socket is served: request() finds that very socket.
SoloAgentReachable ==
  \A s \in Sockets :
    phase[s] = "serving" /\ SocketTenant[s] \notin crossed
      => conns[SocketTenant[s]] = s

\* "Bağlanınca tenant'a kaydolur" (routes.rs:984): an agent that is connected
\* and served is registered for its tenant, by this socket or a newer one.
ConnectedAgentRegistered ==
  \A s \in Sockets :
    phase[s] = "serving" /\ link[s] => conns[SocketTenant[s]] # NoSocket

\* "istek id -> yanıtı bekleyen oneshot" (tunnel.rs:14): every entry of pending
\* belongs to a handler that is still there to wait for the reply.
PendingAreAwaited == \A r \in pending : req[r] \in InFlight

\* The tunnel as its clients and agents see it.
progress == [r \in Requests |-> IF req[r] \in InFlight THEN "open" ELSE req[r]]

Service == INSTANCE ProxyService WITH status <- progress, served <- served

\* The tunnel does only what ProxyService promises.
ImplementsService == Service!ServiceSpec

\* Every request that enters the tunnel ends: answered, refused, timed out.
RequestsEnd ==
  \A r \in Requests : (req[r] \in InFlight) ~> (req[r] \in Outcomes)

\* Once a socket's task has left its read loop nothing stays in its channel,
\* although handlers that cloned its sender before may still send to it.
ClosedChannelsEmpty ==
  \A s \in Sockets : (phase[s] = "closing") ~> [](queue[s] = <<>>)
=============================================================================
