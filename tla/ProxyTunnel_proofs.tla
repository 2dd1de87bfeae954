------------------------- MODULE ProxyTunnel_proofs -------------------------
(***************************************************************************)
(* Invariance proofs for ProxyTunnel, and the proof that it implements     *)
(* ProxyService, for every set of tenants, sockets and requests.           *)
(***************************************************************************)
EXTENDS ProxyTunnel, SequenceTheorems, TLAPS

\* Taking the first element of a channel leaves a channel of the rest.
LEMMA TailOfChannel ==
  ASSUME NEW S, NEW q \in Seq(S), q # <<>>
  PROVE  /\ Head(q) \in S /\ Tail(q) \in Seq(S)
         /\ Head(q) = q[1] /\ 1 \in 1..Len(q)
         /\ \A i \in 1..Len(Tail(q)) : i + 1 \in 1..Len(q) /\ Tail(q)[i] = q[i + 1]
BY HeadTailProperties, LenProperties, EmptySeq

\* Sending appends one element and keeps the others in place.
LEMMA AppendToChannel ==
  ASSUME NEW S, NEW q \in Seq(S), NEW e \in S
  PROVE  /\ Append(q, e) \in Seq(S)
         /\ \A i \in 1..Len(Append(q, e)) :
              Append(q, e)[i] = e \/ (i \in 1..Len(q) /\ Append(q, e)[i] = q[i])
BY AppendProperties, LenProperties

-----------------------------------------------------------------------------
LEMMA TypeInit == Init => TypeOK
BY TunnelConstants, EmptySeq DEF Init, TypeOK, Phases, InFlight, Outcomes, Kinds

\* A handler's clone of a sender: held exactly between lookup and send, and the
\* sender of a socket of the caller's tenant.
SenderKnown ==
  \A r \in Requests :
    /\ sender[r] # NoSocket <=> req[r] \in {"cloned", "inserted"}
    /\ sender[r] # NoSocket => SocketTenant[sender[r]] = Principal[r]

\* Every step of the tunnel keeps the types, given what sender can be.
LEMMA TypeStep ==
  ASSUME TypeOK, SenderKnown, [Next]_vars
  PROVE  TypeOK'
<1> USE TunnelConstants DEF TypeOK, Phases, InFlight, Outcomes, Kinds, tasks, calls
<1>1. ASSUME NEW s \in Sockets, Connect(s) PROVE TypeOK'
  BY <1>1 DEF Connect
<1>2. ASSUME NEW s \in Sockets, Register(s) PROVE TypeOK'
  BY <1>2 DEF Register
<1>3. ASSUME NEW s \in Sockets, PumpSend(s) PROVE TypeOK'
  <2>1. Head(queue[s]) \in Requests /\ Tail(queue[s]) \in Seq(Requests)
    BY <1>3, TailOfChannel DEF PumpSend
  <2>2. <<>> \in Seq(Requests)
    BY EmptySeq
  <2>3. queue' \in [Sockets -> Seq(Requests)]
    BY <1>3, <2>1, <2>2 DEF PumpSend, DropReceiver
  <2>4. inbox' \in [Sockets -> SUBSET Requests]
    <3>1. inbox' = inbox \/ inbox' = [inbox EXCEPT ![s] = @ \cup {Head(queue[s])}]
      BY <1>3, Zenon DEF PumpSend
    <3>. QED BY <2>1, <3>1
  <2>5. rx' = rx \/ rx' = [rx EXCEPT ![s] = FALSE]
    BY <1>3, Zenon DEF PumpSend, DropReceiver
  <2>6. UNCHANGED <<conns, pending, phase, link, replies, req, sender, slot, served, crossed>>
    BY <1>3 DEF PumpSend
  <2>. QED BY <2>3, <2>4, <2>6, <2>5
<1>4. ASSUME NEW s \in Sockets, PumpEnd(s) PROVE TypeOK'
  BY <1>4, EmptySeq DEF PumpEnd, DropReceiver
<1>5. ASSUME NEW s \in Sockets, ReadFrame(s) PROVE TypeOK'
  BY <1>5 DEF ReadFrame, Complete
<1>6. ASSUME NEW s \in Sockets, ReadEnd(s) PROVE TypeOK'
  BY <1>6 DEF ReadEnd
<1>7. ASSUME NEW s \in Sockets, Unregister(s) PROVE TypeOK'
  BY <1>7 DEF Unregister, Without
<1>8. ASSUME NEW s \in Sockets, AbortPump(s) PROVE TypeOK'
  BY <1>8, EmptySeq DEF AbortPump, DropReceiver
<1>9. ASSUME NEW s \in Sockets, AgentReply(s) PROVE TypeOK'
  BY <1>9 DEF AgentReply
<1>10. ASSUME NEW s \in Sockets, LinkDown(s) PROVE TypeOK'
  BY <1>10 DEF LinkDown
<1>11. ASSUME NEW r \in Requests, Ask(r) PROVE TypeOK'
  BY <1>11 DEF Ask, Move
<1>12. ASSUME NEW r \in Requests, Lookup(r) PROVE TypeOK'
  BY <1>12 DEF Lookup
<1>13. ASSUME NEW r \in Requests, InsertPending(r) PROVE TypeOK'
  BY <1>13 DEF InsertPending
<1>14. ASSUME NEW r \in Requests, Send(r) PROVE TypeOK'
  <2>1. sender[r] \in Sockets
    BY <1>14 DEF Send, Move, SenderKnown
  <2>2. queue' \in [Sockets -> Seq(Requests)]
    BY <1>14, <2>1, AppendToChannel DEF Send
  <2>. QED BY <1>14, <2>2 DEF Send, Move
<1>15. ASSUME NEW r \in Requests, TakeAnswer(r) PROVE TypeOK'
  BY <1>15 DEF TakeAnswer, Outcome, Kinds, Move
<1>16. ASSUME NEW r \in Requests, Timeout(r) PROVE TypeOK'
  BY <1>16 DEF Timeout, Move
<1>17. ASSUME NEW r \in Requests, Cancel(r) PROVE TypeOK'
  BY <1>17 DEF Cancel, Move
<1>18. CASE Restart
  BY <1>18, EmptySeq DEF Restart
<1>19. CASE UNCHANGED vars
  BY <1>19 DEF vars
<1>. QED
  BY <1>1, <1>2, <1>3, <1>4, <1>5, <1>6, <1>7, <1>8, <1>9, <1>10, <1>11, <1>12,
     <1>13, <1>14, <1>15, <1>16, <1>17, <1>18, <1>19
  DEF Next, SocketStep, Pump, Cleanup, Handler

-----------------------------------------------------------------------------
(* Frames: what the sockets' side and the handlers' side leave alone. *)

SocketSide(s)  == SocketStep(s) \/ Pump(s) \/ AgentReply(s) \/ LinkDown(s)
HandlerSide(r) == Ask(r) \/ Handler(r) \/ Cancel(r)

LEMMA StepSides ==
  ASSUME [Next]_vars
  PROVE  \/ \E s \in Sockets : SocketSide(s)
         \/ \E r \in Requests : HandlerSide(r)
         \/ Restart
         \/ UNCHANGED vars
BY Zenon DEF Next, SocketSide, HandlerSide

LEMMA SocketFrame ==
  ASSUME NEW s \in Sockets, SocketSide(s)
  PROVE  UNCHANGED <<req, sender>>
BY DEF SocketSide, SocketStep, Pump, Cleanup, calls, Connect, Register, ReadFrame, Complete,
       ReadEnd, Unregister, AbortPump, PumpSend, PumpEnd, DropReceiver, AgentReply, LinkDown

LEMMA HandlerFrame ==
  ASSUME NEW r \in Requests, HandlerSide(r)
  PROVE  UNCHANGED <<conns, phase, link, rx, inbox, replies, slot, served, crossed>>
BY DEF HandlerSide, Handler, tasks, Ask, Lookup, InsertPending, Send, TakeAnswer, Timeout,
       Cancel, Move

-----------------------------------------------------------------------------
(* Registrations *)

\* Two sockets of one tenant are only ever registered together after the
\* tenant was recorded in crossed.
CrossedKnown ==
  \A s, o \in Sockets :
    Registered(s) /\ Registered(o) /\ s # o /\ SocketTenant[s] = SocketTenant[o]
      => SocketTenant[s] \in crossed

Registrations == NoDanglingSender /\ SoloAgentReachable /\ CrossedKnown

LEMMA RegistrationsInit == Init => Registrations
BY TunnelConstants
DEF Init, Registrations, NoDanglingSender, SoloAgentReachable, CrossedKnown, Registered

LEMMA RegistrationsStep ==
  ASSUME TypeOK, Registrations, [Next]_vars
  PROVE  Registrations'
<1> USE TunnelConstants
    DEF TypeOK, Phases, Registrations, NoDanglingSender, SoloAgentReachable, CrossedKnown,
        Registered
<1>1. ASSUME NEW s \in Sockets, Register(s) PROVE Registrations'
  <2>1. NoDanglingSender'
    BY <1>1 DEF Register
  <2>2. SoloAgentReachable'
    BY <1>1 DEF Register
  <2>3. CrossedKnown'
    BY <1>1 DEF Register
  <2>. QED BY <2>1, <2>2, <2>3
<1>2. ASSUME NEW s \in Sockets, Unregister(s) PROVE Registrations'
  <2>1. NoDanglingSender'
    BY <1>2 DEF Unregister, Without
  <2>2. SoloAgentReachable'
    BY <1>2 DEF Unregister, Without
  <2>3. CrossedKnown'
    BY <1>2 DEF Unregister
  <2>. QED BY <2>1, <2>2, <2>3
<1>3. ASSUME NEW s \in Sockets, Connect(s) \/ ReadEnd(s) \/ AbortPump(s)
      PROVE  Registrations'
  <2>1. UNCHANGED <<conns, crossed>>
    BY <1>3 DEF Connect, ReadEnd, AbortPump
  <2>2. \A o \in Sockets : Registered(o)' <=> Registered(o)
    BY <1>3 DEF Connect, ReadEnd, AbortPump
  <2>3. \A o \in Sockets : phase'[o] = "serving" => phase[o] = "serving"
    BY <1>3 DEF Connect, ReadEnd, AbortPump
  <2>4. NoDanglingSender' /\ CrossedKnown'
    BY <2>1, <2>2
  <2>5. SoloAgentReachable'
    BY <2>1, <2>3
  <2>. QED BY <2>4, <2>5
<1>4. ASSUME UNCHANGED <<conns, phase, crossed>> PROVE Registrations'
  BY <1>4
<1>5. ASSUME NEW s \in Sockets, SocketSide(s) PROVE Registrations'
  BY <1>1, <1>2, <1>3, <1>4, <1>5
  DEF SocketSide, SocketStep, Cleanup, Pump, PumpSend, PumpEnd, ReadFrame, AgentReply, LinkDown
<1>6. ASSUME NEW r \in Requests, HandlerSide(r) PROVE Registrations'
  BY <1>4, <1>6, HandlerFrame
<1>7. CASE Restart
  BY <1>7 DEF Restart
<1>8. CASE UNCHANGED vars
  BY <1>4, <1>8 DEF vars, tasks
<1>. QED BY <1>5, <1>6, <1>7, <1>8, StepSides

-----------------------------------------------------------------------------
(* Senders and waiters *)

LEMMA SendersInit == Init => SenderKnown
BY DEF Init, SenderKnown

LEMMA SendersStep ==
  ASSUME TypeOK, NoDanglingSender, SenderKnown, [Next]_vars
  PROVE  SenderKnown'
<1> USE TunnelConstants DEF TypeOK, SenderKnown
<1>1. ASSUME NEW r \in Requests, Lookup(r) PROVE SenderKnown'
  BY <1>1 DEF Lookup, NoDanglingSender
<1>2. ASSUME NEW r \in Requests, InsertPending(r) PROVE SenderKnown'
  BY <1>2 DEF InsertPending
<1>3. ASSUME NEW r \in Requests, Ask(r) PROVE SenderKnown'
  BY <1>3 DEF Ask, Move
<1>4. ASSUME NEW r \in Requests, Send(r) PROVE SenderKnown'
  BY <1>4 DEF Send, Move
<1>5. ASSUME NEW r \in Requests, TakeAnswer(r) \/ Timeout(r) PROVE SenderKnown'
  BY <1>5 DEF TakeAnswer, Outcome, Timeout, Move
<1>6. ASSUME NEW r \in Requests, Cancel(r) PROVE SenderKnown'
  BY <1>6 DEF Cancel, Move
<1>7. CASE Restart
  BY <1>7 DEF Restart, InFlight
<1>8. ASSUME UNCHANGED <<req, sender>> PROVE SenderKnown'
  BY <1>8
<1>9. ASSUME NEW r \in Requests, HandlerSide(r) PROVE SenderKnown'
  BY <1>1, <1>2, <1>3, <1>4, <1>5, <1>6, <1>9 DEF HandlerSide, Handler
<1>. QED BY <1>7, <1>8, <1>9, SocketFrame, StepSides DEF vars, calls

\* The oneshot of a handler that waits is in pending or filled.
WaitersFiled ==
  \A r \in Requests :
    req[r] \in {"inserted", "waiting"} => r \in pending \/ slot[r] # "empty"

LEMMA WaitersStep ==
  ASSUME TypeOK, WaitersFiled, [Next]_vars
  PROVE  WaitersFiled'
<1> USE DEF TypeOK, WaitersFiled
<1>1. ASSUME NEW s \in Sockets, ReadFrame(s) PROVE WaitersFiled'
  <2>1. PICK f \in replies[s] : Complete(f[1], f[2])
    BY <1>1 DEF ReadFrame
  <2>2. f[1] \in Requests /\ f[2] \in Kinds /\ UNCHANGED req
    BY <1>1, <2>1 DEF ReadFrame
  <2>3. pending' = pending \ {f[1]}
    BY <2>1 DEF Complete
  <2>4. CASE f[1] \in pending /\ req[f[1]] \in {"inserted", "waiting"}
    <3>1. slot' = [slot EXCEPT ![f[1]] = f[2]]
      BY <2>1, <2>4, Zenon DEF Complete
    <3>. QED BY <2>2, <2>3, <3>1 DEF Kinds
  <2>5. CASE ~(f[1] \in pending /\ req[f[1]] \in {"inserted", "waiting"})
    <3>1. slot' = slot
      BY <2>1, <2>5, Zenon DEF Complete
    <3>. QED BY <2>2, <2>3, <2>5, <3>1
  <2>. QED BY <2>4, <2>5
<1>2. ASSUME NEW s \in Sockets, SocketSide(s), ~ReadFrame(s) PROVE UNCHANGED <<pending, slot>>
  BY <1>2 DEF SocketSide, SocketStep, Pump, Cleanup, calls, Connect, Register, ReadEnd,
              Unregister, AbortPump, PumpSend, PumpEnd, AgentReply, LinkDown
<1>3. ASSUME NEW r \in Requests, HandlerSide(r) PROVE WaitersFiled'
  <2>1. pending \subseteq pending'
    BY <1>3 DEF HandlerSide, Handler, Ask, Lookup, InsertPending, Send, TakeAnswer, Timeout, Cancel
  <2>2. r \in pending' \/ req[r] = "inserted" \/ req'[r] \notin {"inserted", "waiting"}
    BY <1>3 DEF HandlerSide, Owns, Outcome, Handler, Ask, Lookup, InsertPending, Send, TakeAnswer, Timeout,
                Cancel, Move
  <2>3. \A o \in Requests : o # r => req'[o] = req[o]
    BY <1>3 DEF HandlerSide, Handler, Ask, Lookup, InsertPending, Send, TakeAnswer, Timeout,
                Cancel, Move
  <2>. QED BY <1>3, <2>1, <2>2, <2>3, HandlerFrame
<1>4. CASE Restart
  BY <1>4 DEF Restart, InFlight
<1>5. ASSUME UNCHANGED <<req, pending, slot>> PROVE WaitersFiled'
  BY <1>5
<1>. QED BY <1>1, <1>2, <1>3, <1>4, <1>5, SocketFrame, StepSides DEF vars, calls

-----------------------------------------------------------------------------
(* Where requests come from, and where answers come from *)

\* Where a request is before it is sent, or when it never will be.
Unsent == {"idle", "not_found", "asked", "cloned"}

\* Only an admitted request, of the socket's tenant, reaches a socket, and only
\* by being sent, which comes after the oneshot was filed.
Provenance ==
  /\ \A r \in Requests :
       req[r] \notin {"idle", "not_found"} => NetOwner[Target[r]] = Principal[r]
  /\ \A s \in Sockets, r \in Requests :
       Reaches(s, r) => /\ req[r] \notin Unsent
                        /\ SocketTenant[s] = Principal[r]

\* Replies under way, and replies delivered, were sent by agents.
RepliesServed ==
  /\ \A s \in Sockets : replies[s] \subseteq served
  /\ \A r \in Requests : slot[r] # "empty" => <<r, slot[r]>> \in served

\* A request reaches one more socket only by being sent to it.
LEMMA ReachGrows ==
  ASSUME TypeOK, SenderKnown, [Next]_vars,
         NEW s \in Sockets, NEW r \in Requests, Reaches(s, r)'
  PROVE  Reaches(s, r) \/ (Send(r) /\ sender[r] = s)
<1> USE TunnelConstants DEF TypeOK, Reaches
<1>1. ASSUME NEW o \in Sockets, PumpSend(o) PROVE Reaches(s, r)
  <2>1. /\ Head(queue[o]) = queue[o][1] /\ 1 \in 1..Len(queue[o])
        /\ \A i \in 1..Len(Tail(queue[o])) :
             i + 1 \in 1..Len(queue[o]) /\ Tail(queue[o])[i] = queue[o][i + 1]
    BY <1>1, TailOfChannel DEF PumpSend
  <2>2. CASE r \in inbox'[s]
    <3>1. inbox' = inbox \/ inbox' = [inbox EXCEPT ![o] = @ \cup {Head(queue[o])}]
      BY <1>1, Zenon DEF PumpSend
    <3>2. r \in inbox[s] \/ (s = o /\ r = queue[s][1])
      BY <2>1, <2>2, <3>1
    <3>. QED BY <2>1, <3>2
  <2>3. CASE \E i \in 1..Len(queue'[s]) : queue'[s][i] = r
    <3>1. queue' = [queue EXCEPT ![o] = Tail(@)] \/ queue' = [queue EXCEPT ![o] = <<>>]
      BY <1>1, Zenon DEF PumpSend, DropReceiver
    <3>2. queue'[s] = queue[s] \/ (s = o /\ queue'[s] = Tail(queue[s])) \/ queue'[s] = <<>>
      BY <3>1
    <3>3. CASE queue'[s] = <<>>
      BY <2>3, <3>3, EmptySeq
    <3>4. CASE queue'[s] = queue[s]
      BY <2>3, <3>4
    <3>5. CASE s = o /\ queue'[s] = Tail(queue[s])
      BY <2>1, <2>3, <3>5
    <3>. QED BY <3>2, <3>3, <3>4, <3>5
  <2>. QED BY <2>2, <2>3
<1>2. ASSUME NEW o \in Sockets, PumpEnd(o) \/ AbortPump(o) PROVE Reaches(s, r)
  BY <1>2, EmptySeq DEF PumpEnd, AbortPump, DropReceiver
<1>3. CASE Restart
  BY <1>3, EmptySeq DEF Restart
<1>4. ASSUME NEW o \in Requests, Send(o) PROVE Reaches(s, r) \/ (Send(r) /\ sender[r] = s)
  <2>1. sender[o] \in Sockets
    BY <1>4 DEF Send, Move, SenderKnown
  <2>2. /\ UNCHANGED inbox
        /\ queue' = queue \/ queue' = [queue EXCEPT ![sender[o]] = Append(@, o)]
    BY <1>4, Zenon DEF Send
  <2>3. \A i \in 1..Len(Append(queue[s], o)) :
          Append(queue[s], o)[i] = o \/ (i \in 1..Len(queue[s]) /\ Append(queue[s], o)[i] = queue[s][i])
    BY AppendToChannel
  <2>4. queue'[s] = queue[s] \/ (sender[o] = s /\ queue'[s] = Append(queue[s], o))
    BY <2>1, <2>2
  <2>5. CASE queue'[s] = queue[s]
    BY <2>2, <2>5
  <2>6. CASE sender[o] = s /\ queue'[s] = Append(queue[s], o)
    BY <1>4, <2>2, <2>3, <2>6
  <2>. QED BY <2>4, <2>5, <2>6
<1>5. ASSUME UNCHANGED <<inbox, queue>> PROVE Reaches(s, r)
  BY <1>5
<1>6. ASSUME NEW o \in Sockets, SocketSide(o) PROVE Reaches(s, r)
  BY <1>1, <1>2, <1>5, <1>6
  DEF SocketSide, SocketStep, Pump, Cleanup, Connect, Register, ReadFrame, ReadEnd,
      Unregister, AgentReply, LinkDown
<1>7. ASSUME NEW o \in Requests, HandlerSide(o)
      PROVE  Reaches(s, r) \/ (Send(r) /\ sender[r] = s)
  BY <1>4, <1>5, <1>7
  DEF HandlerSide, Handler, tasks, Ask, Lookup, InsertPending, TakeAnswer, Timeout, Cancel
<1>. QED BY <1>3, <1>5, <1>6, <1>7, StepSides DEF vars, tasks

\* A request that was admitted or refused stays so.
LEMMA AdmissionStable ==
  ASSUME TypeOK, SenderKnown, [Next]_vars, NEW r \in Requests
  PROVE  /\ req[r] \notin {"idle", "not_found"} => req'[r] \notin {"idle", "not_found"}
         /\ req'[r] \notin {"idle", "not_found"} /\ req[r] \in {"idle", "not_found"}
              => NetOwner[Target[r]] = Principal[r]
<1> USE DEF TypeOK
<1>1. CASE \E o \in Requests : HandlerSide(o)
  <2>1. PICK o \in Requests : HandlerSide(o)
    BY <1>1
  <2>2. CASE Ask(o)
    BY <2>2 DEF Ask, Owns, Move
  <2>3. CASE Lookup(o) \/ InsertPending(o) \/ Send(o) \/ TakeAnswer(o) \/ Timeout(o) \/ Cancel(o)
    BY <2>3 DEF Lookup, InsertPending, Send, TakeAnswer, Outcome, Timeout, Cancel, Move
  <2>. QED BY <2>1, <2>2, <2>3 DEF HandlerSide, Handler
<1>2. CASE Restart
  BY <1>2 DEF Restart, InFlight
<1>3. CASE UNCHANGED req
  BY <1>3
<1>. QED BY <1>1, <1>2, <1>3, SocketFrame, StepSides DEF vars, calls

\* A request that is past sending stays so.
LEMMA SentStable ==
  ASSUME TypeOK, SenderKnown, [Next]_vars, NEW r \in Requests, req[r] \notin Unsent
  PROVE  req'[r] \notin Unsent
<1> USE DEF TypeOK, Unsent
<1>1. CASE \E o \in Requests : HandlerSide(o)
  <2>1. PICK o \in Requests : HandlerSide(o)
    BY <1>1
  <2>2. CASE Ask(o) \/ Lookup(o) \/ InsertPending(o)
    BY <2>2 DEF Ask, Owns, Lookup, InsertPending, Move
  <2>3. CASE Send(o) \/ TakeAnswer(o) \/ Timeout(o) \/ Cancel(o)
    BY <2>3 DEF Send, TakeAnswer, Outcome, Timeout, Cancel, Move
  <2>. QED BY <2>1, <2>2, <2>3 DEF HandlerSide, Handler
<1>2. CASE Restart
  BY <1>2 DEF Restart, InFlight
<1>3. CASE UNCHANGED req
  BY <1>3
<1>. QED BY <1>1, <1>2, <1>3, SocketFrame, StepSides DEF vars, calls

LEMMA ProvenanceStep ==
  ASSUME TypeOK, SenderKnown, Provenance, [Next]_vars
  PROVE  Provenance'
<1>1. ASSUME NEW r \in Requests, req'[r] \notin {"idle", "not_found"}
      PROVE  NetOwner[Target[r]] = Principal[r]
  BY <1>1, AdmissionStable DEF Provenance
<1>2. ASSUME NEW s \in Sockets, NEW r \in Requests, Reaches(s, r)'
      PROVE  req'[r] \notin Unsent /\ SocketTenant[s] = Principal[r]
  <2>1. CASE Reaches(s, r)
    BY <2>1, SentStable DEF Provenance
  <2>2. CASE Send(r) /\ sender[r] = s
    <3>1. req[r] = "inserted" /\ SocketTenant[s] = Principal[r]
      BY <2>2, TunnelConstants DEF Send, Move, SenderKnown
    <3>. QED BY <3>1, SentStable DEF Unsent
  <2>. QED BY <1>2, <2>1, <2>2, ReachGrows
<1>. QED BY <1>1, <1>2 DEF Provenance

LEMMA AnswersInit == Init => RepliesServed /\ AnswersComeFromAgents
BY DEF Init, RepliesServed, AnswersComeFromAgents

LEMMA AnswersStep ==
  ASSUME TypeOK, RepliesServed, AnswersComeFromAgents, [Next]_vars
  PROVE  RepliesServed' /\ AnswersComeFromAgents'
<1> USE DEF TypeOK, RepliesServed, AnswersComeFromAgents
<1>1. ASSUME NEW s \in Sockets, ReadFrame(s) PROVE RepliesServed'
  <2>1. PICK f \in replies[s] : /\ replies' = [replies EXCEPT ![s] = @ \ {f}]
                                /\ Complete(f[1], f[2])
    BY <1>1 DEF ReadFrame
  <2>2. f = <<f[1], f[2]>> /\ f[1] \in Requests /\ f[2] \in Kinds /\ f \in served
    BY <2>1
  <2>3. slot' = slot \/ slot' = [slot EXCEPT ![f[1]] = f[2]]
    BY <2>1, Zenon DEF Complete
  <2>4. UNCHANGED served
    BY <1>1 DEF ReadFrame
  <2>. QED BY <2>1, <2>2, <2>3, <2>4
<1>2. ASSUME NEW s \in Sockets, AgentReply(s) PROVE RepliesServed'
  BY <1>2 DEF AgentReply, calls
<1>3. ASSUME NEW s \in Sockets, LinkDown(s) PROVE RepliesServed'
  BY <1>3 DEF LinkDown, calls
<1>4. ASSUME UNCHANGED <<replies, slot, served>> PROVE RepliesServed'
  BY <1>4
<1>5. ASSUME NEW s \in Sockets, SocketSide(s)
      PROVE  RepliesServed' /\ served \subseteq served' /\ UNCHANGED req
  BY <1>1, <1>2, <1>3, <1>4, <1>5, SocketFrame
  DEF SocketSide, SocketStep, Pump, Cleanup, calls, Connect, Register, ReadFrame, ReadEnd,
      Unregister, AbortPump, PumpSend, PumpEnd, AgentReply, LinkDown
<1>6. ASSUME NEW r \in Requests, HandlerSide(r) PROVE AnswersComeFromAgents'
  <2>1. UNCHANGED served
    BY <1>6, HandlerFrame
  <2>2. CASE TakeAnswer(r)
    BY <2>1, <2>2 DEF TakeAnswer, Outcome, Move, Kinds
  <2>3. CASE Ask(r) \/ Lookup(r) \/ InsertPending(r) \/ Send(r) \/ Timeout(r) \/ Cancel(r)
    BY <2>1, <2>3 DEF Ask, Lookup, InsertPending, Send, Timeout, Cancel, Move
  <2>. QED BY <1>6, <2>2, <2>3 DEF HandlerSide, Handler
<1>7. CASE Restart
  BY <1>7 DEF Restart
<1>. QED BY <1>4, <1>5, <1>6, <1>7, HandlerFrame, StepSides DEF vars, tasks, calls

-----------------------------------------------------------------------------
(* The inductive invariant and the theorems *)

TunnelInv ==
  /\ TypeOK
  /\ Registrations
  /\ SenderKnown
  /\ WaitersFiled
  /\ Provenance
  /\ RepliesServed
  /\ AnswersComeFromAgents

LEMMA TunnelInvInit == Init => TunnelInv
<1>1. Init => WaitersFiled /\ Provenance
  BY EmptySeq DEF Init, WaitersFiled, Provenance, Reaches
<1>. QED BY <1>1, TypeInit, RegistrationsInit, SendersInit, AnswersInit DEF TunnelInv

LEMMA TunnelInvStep == TunnelInv /\ [Next]_vars => TunnelInv'
BY TypeStep, RegistrationsStep, SendersStep, WaitersStep, ProvenanceStep, AnswersStep
DEF TunnelInv, Registrations

\* Every reachable state of the tunnel satisfies the inductive invariant.
THEOREM TunnelInvariant == Spec => []TunnelInv
BY TunnelInvInit, TunnelInvStep, PTL DEF Spec

\* Type correctness: the registry, the tasks and the handlers keep to their types.
THEOREM TypeCorrect == Spec => []TypeOK
BY TunnelInvariant, PTL DEF TunnelInv

\* The handler of do_proxy that waits, or whose request an agent has, always has
\* its oneshot filed or filled.
THEOREM WaitersAreReachable == Spec => []WaiterReachable
<1>1. TunnelInv => WaiterReachable
  BY DEF TunnelInv, WaitersFiled, Provenance, Unsent, InFlight, WaiterReachable
<1>. QED BY <1>1, TunnelInvariant, PTL

\* A registered sender belongs to a live task of that tenant (register, unregister).
THEOREM RegistrySound == Spec => []NoDanglingSender
BY TunnelInvariant, PTL DEF TunnelInv, Registrations

\* An agent that never overlapped with another of its tenant is found by request().
THEOREM SoloAgentsReachable == Spec => []SoloAgentReachable
BY TunnelInvariant, PTL DEF TunnelInv, Registrations

\* What an agent receives comes from its own tenant and names its own network.
THEOREM TenantsIsolated == Spec => []TenantIsolation
<1>1. TunnelInv => TenantIsolation
  BY DEF TunnelInv, Provenance, Unsent, TenantIsolation
<1>. QED BY <1>1, TunnelInvariant, PTL

\* do_proxy returns a page or an agent's error only if an agent replied so.
THEOREM AnswersAuthentic == Spec => []AnswersComeFromAgents
BY TunnelInvariant, PTL DEF TunnelInv

-----------------------------------------------------------------------------
(* Refinement of ProxyService *)

LEMMA ServiceInitially == Init => Service!ServiceInit
BY DEF Init, progress, InFlight, Service!ServiceInit

\* What a socket does is invisible, but for an agent's reply.
LEMMA ServiceSocketStep ==
  ASSUME TunnelInv, NEW s \in Sockets, SocketSide(s)
  PROVE  [Service!ServiceNext]_<<progress, served>>
<1>1. UNCHANGED progress
  BY SocketFrame DEF progress
<1>2. CASE AgentReply(s)
  <2>1. PICK r \in inbox[s], kind \in Kinds : served' = served \cup {<<r, kind>>}
    BY <1>2 DEF AgentReply
  <2>2. r \in Requests /\ req[r] \notin {"idle", "not_found"}
    BY <2>1 DEF TunnelInv, TypeOK, Provenance, Unsent, Reaches
  <2>3. Service!Serve(r, kind)
    BY <1>1, <2>1, <2>2 DEF Service!Serve, Service!Admitted, progress, InFlight
  <2>. QED BY <2>2, <2>3 DEF Service!ServiceNext, Kinds, Service!Kinds
<1>3. CASE ~AgentReply(s)
  <2>1. UNCHANGED served
    BY <1>3 DEF SocketSide, SocketStep, Pump, Cleanup, Connect, Register, ReadFrame, ReadEnd,
                Unregister, AbortPump, PumpSend, PumpEnd, LinkDown
  <2>. QED BY <1>1, <2>1
<1>. QED BY <1>2, <1>3

\* A handler's step submits its request, ends it, or is invisible.
LEMMA ServiceHandlerStep ==
  ASSUME TunnelInv, NEW r \in Requests, HandlerSide(r)
  PROVE  [Service!ServiceNext]_<<progress, served>>
<1> DEFINE o == req'[r]
<1> DEFINE changed == req[r] \in InFlight /\ req' = [req EXCEPT ![r] = o]
<1> USE DEF TunnelInv, TypeOK
<1>1. UNCHANGED served
  BY HandlerFrame
<1>2. ASSUME changed, o \in {"answered", "agent_error"} \cup Service!Refusals,
             o = "answered" => <<r, "ok">> \in served,
             o = "agent_error" => <<r, "error">> \in served
      PROVE  Service!ServiceNext
  <2>1. progress[r] = "open" /\ progress' = [progress EXCEPT ![r] = o]
    BY <1>2 DEF progress, InFlight, Service!Refusals
  <2>2. Service!Finish(r)
    BY <1>1, <1>2, <2>1 DEF Service!Finish
  <2>. QED BY <2>2 DEF Service!ServiceNext
<1>3. ASSUME changed, o \in InFlight PROVE UNCHANGED progress
  BY <1>3 DEF progress
<1>4. CASE Ask(r)
  <2>1. Service!Submit(r)
    BY <1>1, <1>4 DEF Ask, Owns, Move, progress, InFlight, Service!Submit
  <2>. QED BY <2>1 DEF Service!ServiceNext
<1>5. CASE Lookup(r)
  <2>1. changed /\ o \in {"no_agent", "cloned"}
    BY <1>5 DEF Lookup, InFlight
  <2>. QED BY <1>1, <1>2, <1>3, <2>1 DEF InFlight, Service!Refusals
<1>6. CASE InsertPending(r)
  <2>1. changed /\ o = "inserted"
    BY <1>6 DEF InsertPending, InFlight
  <2>. QED BY <1>1, <1>3, <2>1 DEF InFlight
<1>7. CASE Send(r)
  <2>1. changed /\ o \in {"no_agent", "waiting"}
    BY <1>7 DEF Send, Move, InFlight
  <2>. QED BY <1>1, <1>2, <1>3, <2>1 DEF InFlight, Service!Refusals
<1>8. CASE TakeAnswer(r)
  <2>1. <<r, slot[r]>> \in served /\ slot[r] \in Kinds
    BY <1>8 DEF TakeAnswer, RepliesServed
  <2>2. changed /\ o = IF slot[r] = "ok" THEN "answered" ELSE "agent_error"
    BY <1>8 DEF TakeAnswer, Outcome, Move, InFlight
  <2>3. \/ o = "answered" /\ <<r, "ok">> \in served
        \/ o = "agent_error" /\ <<r, "error">> \in served
    BY <2>1, <2>2 DEF Kinds
  <2>. QED BY <1>2, <2>2, <2>3
<1>9. CASE Timeout(r) \/ Cancel(r)
  <2>1. changed /\ o \in {"timed_out", "cancelled"}
    BY <1>9 DEF Timeout, Cancel, Move, InFlight
  <2>. QED BY <1>2, <2>1 DEF Service!Refusals
<1>. QED BY <1>4, <1>5, <1>6, <1>7, <1>8, <1>9 DEF HandlerSide, Handler

LEMMA ServiceStep == TunnelInv /\ [Next]_vars => [Service!ServiceNext]_<<progress, served>>
<1> SUFFICES ASSUME TunnelInv, [Next]_vars PROVE [Service!ServiceNext]_<<progress, served>>
  OBVIOUS
<1>1. CASE Restart
  <2>1. progress' = [r \in Requests |-> IF progress[r] = "open" THEN "cancelled" ELSE progress[r]]
    <3>1. req' = [r \in Requests |-> IF req[r] \in InFlight THEN "cancelled" ELSE req[r]]
      BY <1>1 DEF Restart
    <3>2. "cancelled" \notin InFlight /\ "open" # "cancelled"
      BY DEF InFlight
    <3>3. \A r \in Requests : req[r] # "open"
      BY DEF TunnelInv, TypeOK, InFlight, Outcomes
    <3>. QED BY <3>1, <3>2, <3>3 DEF progress
  <2>2. UNCHANGED served
    BY <1>1 DEF Restart
  <2>. QED BY <2>1, <2>2 DEF Service!ServiceNext, Service!Crash
<1>2. CASE UNCHANGED vars
  BY <1>2 DEF vars, calls, progress
<1>. QED BY <1>1, <1>2, ServiceSocketStep, ServiceHandlerStep, StepSides

\* The tunnel implements the service: each of its steps is one of ProxyService or none.
THEOREM TunnelImplementsService == Spec => ImplementsService
BY TunnelInvariant, ServiceInitially, ServiceStep, PTL
DEF Spec, ImplementsService, Service!ServiceSpec
=============================================================================
