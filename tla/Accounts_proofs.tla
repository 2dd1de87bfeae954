--------------------------- MODULE Accounts_proofs ---------------------------
(***************************************************************************)
(* Proofs about Accounts: whatever commands and calls overlap, fail and    *)
(* are tried again, an address has one account, a password opens only its  *)
(* own, a token stands for one tenant, and tenants stay apart; and what    *)
(* holds of the single household while commands do not overlap.            *)
(*                                                                         *)
(* A step is one process's: the others' locals stay, tables only grow, and *)
(* a process that has ended stays as it is.  Most of the proof is to say   *)
(* what each process knows of the tables, and that it goes on knowing it.  *)
(***************************************************************************)
EXTENDS Accounts, FiniteSetTheorems, SequenceTheorems, TLAPS

-----------------------------------------------------------------------------
(* Types *)

Reading == {"network", "channel", "proxy"}

LocalsOK ==
  /\ order = [p \in Processes |-> order[p]]
  /\ tokens \in [Processes -> Seq(Processes \cup {Junk})]
  /\ now \in [Processes -> Seq(0..MaxTime)]
  /\ saw = [p \in Processes |-> saw[p]]
  /\ before = [p \in Processes |-> [rows |-> before[p].rows, done |-> before[p].done]]

CommandOK(c) ==
  /\ pc[c] \in Ended \cup {"idle", "seeking", "making", "inserting"}
  /\ Running(c) => Len(now[c]) > 0
  /\ Running(c) \/ pc[c] = "done" => order[c] \in Orders[c]
  /\ pc[c] = "inserting" => tenant[c] \in Commands

CallOK(p) ==
  /\ pc[p] \in Ended \cup {"idle", "looking", "granting", "keys", "sessions", "resolved"}
  /\ pc[p] \in {"idle", "failed"} => order[p] = [op |-> "none"] /\ Len(now[p]) = 0
  /\ pc[p] \notin {"idle", "failed"} => order[p] \in Orders[p]
  /\ pc[p] \in {"looking", "granting"} => order[p].op = "login"
  /\ order[p].op = "login" => pc[p] \in {"looking", "granting", "done", "unauthorized"} /\ Len(now[p]) > 0
  /\ order[p].op = "push" => Len(tokens[p]) = 1 /\ pc[p] # "sessions"
  /\ order[p].op \in Reading => Len(now[p]) \in 1..Len(tokens[p])
  /\ pc[p] = "resolved" => tenant[p] \in Commands

Typed ==
  /\ TypeOK /\ LocalsOK
  /\ \A c \in Commands : CommandOK(c)
  /\ \A p \in Calls : CallOK(p)

\* A step leaves process q alone.
Same(q) ==
  /\ pc'[q] = pc[q] /\ order'[q] = order[q] /\ tokens'[q] = tokens[q] /\ now'[q] = now[q]
  /\ tenant'[q] = tenant[q] /\ saw'[q] = saw[q] /\ before'[q] = before[q]
  /\ q \in tripped' <=> q \in tripped

\* A step of process p.
Moves(p) == (p \in Commands /\ Command(p)) \/ (p \in Calls /\ (Call(p) \/ Trip(p))) \/ Fail(p)

\* A step is a command's, a call's, or the clock's.
LEMMA NextIsMove ==
  ASSUME [Next]_vars PROVE (\E p \in Processes : Moves(p)) \/ Tick \/ UNCHANGED vars
BY DEF Next, Moves, Processes

\* Who moves has not ended, and moves alone.
LEMMA OneMoves ==
  ASSUME Typed, NEW p \in Processes, Moves(p)
  PROVE  /\ pc[p] \notin Ended /\ clock' = clock
         /\ \A q \in Processes \ {p} : Same(q)
<1> USE DEF Typed, TypeOK, LocalsOK, Same, tables, locals, history, Ended, Step, ReadClock
<1>1. CASE Run(p)
  BY <1>1 DEF Run
<1>2. CASE FindTenant(p)
  BY <1>2 DEF FindTenant
<1>3. CASE MakeTenant(p)
  BY <1>3 DEF MakeTenant
<1>4. CASE InsertAgent(p) \/ InsertAccount(p) \/ InsertChannel(p)
  BY <1>4 DEF InsertAgent, InsertAccount, InsertChannel
<1>5. CASE AskLogin(p)
  BY <1>5 DEF AskLogin
<1>6. CASE FindAccount(p) \/ Grant(p)
  BY <1>6 DEF FindAccount, Grant
<1>7. CASE Ask(p)
  BY <1>7 DEF Ask
<1>8. CASE TryKey(p)
  BY <1>8 DEF TryKey
<1>9. CASE TrySession(p)
  BY <1>9 DEF TrySession
<1>10. CASE Push(p)
  BY <1>10 DEF Push
<1>11. CASE List(p) \/ Reach(p)
  BY <1>11 DEF List, Reach
<1>12. CASE Fail(p)
  BY <1>12 DEF Fail
<1>13. CASE Trip(p)
  BY <1>13 DEF Trip
<1> QED
  BY <1>1, <1>2, <1>3, <1>4, <1>5, <1>6, <1>7, <1>8, <1>9, <1>10, <1>11, <1>12, <1>13
  DEF Moves, Command, Call

\* Rows are never deleted or changed.
Grow ==
  /\ tenants \subseteq tenants' /\ agents \subseteq agents' /\ accounts \subseteq accounts'
  /\ sessions \subseteq sessions' /\ rows \subseteq rows'

\* Tables grow: no step takes a row away.
LEMMA TablesGrow ==
  ASSUME [Next]_vars PROVE Grow
<1> USE DEF Grow, tables
<1>1. ASSUME NEW p, Command(p) PROVE Grow
  BY <1>1 DEF Command, Run, FindTenant, MakeTenant, InsertAgent, InsertAccount, InsertChannel
<1>2. ASSUME NEW p, AskLogin(p) \/ FindAccount(p) \/ Grant(p) PROVE Grow
  BY <1>2 DEF AskLogin, FindAccount, Grant
<1>3. ASSUME NEW p, Ask(p) \/ TryKey(p) \/ TrySession(p) \/ Push(p) \/ List(p) \/ Reach(p) PROVE Grow
  BY <1>3 DEF Ask, TryKey, TrySession, Push, List, Reach
<1>4. ASSUME NEW p, Fail(p) \/ Trip(p) PROVE Grow
  BY <1>4 DEF Fail, Trip
<1>5. CASE Tick \/ UNCHANGED vars
  BY <1>5 DEF Tick, vars
<1> QED
  BY <1>1, <1>2, <1>3, <1>4, <1>5 DEF Next, Call

\* At first nobody has done anything.
LEMMA TypedInit == Init => Typed
<1> SUFFICES ASSUME Init PROVE Typed
  OBVIOUS
<1> USE AccountsConstants DEF AccountsConstants, Init
<1>1. TypeOK
  <2>1. clock \in 0..MaxTime /\ tripped \subseteq Calls
    OBVIOUS
  <2>4. overlapped \in BOOLEAN
    BY Zenon
  <2>2. pc \in [Processes -> {"idle"}] /\ tenant \in [Processes -> {NoTenant}]
    OBVIOUS
  <2>3. \A p \in Processes : saw[p] \subseteq rows
    OBVIOUS
  <2> QED
    BY <2>1, <2>2, <2>3, <2>4 DEF TypeOK
<1>2. LocalsOK
  BY DEF LocalsOK, Nothing
<1>3. \A c \in Commands : CommandOK(c)
  BY DEF CommandOK, Running, Processes
<1>4. \A p \in Calls : CallOK(p)
  BY DEF CallOK, Processes, Reading
<1> QED
  BY <1>1, <1>2, <1>3, <1>4 DEF Typed

\* It is enough to look at the process that moves.
LEMMA TypedMove ==
  ASSUME Typed, NEW p \in Processes, Moves(p), TypeOK', LocalsOK',
         p \in Commands => CommandOK(p)', p \in Calls => CallOK(p)'
  PROVE  Typed'
<1>1. ASSUME NEW c \in Commands PROVE CommandOK(c)'
  <2>1. CASE c = p
    BY <2>1
  <2>2. CASE c # p
    BY <2>2, OneMoves DEF Same, Typed, CommandOK, Running, Processes
  <2> QED
    BY <2>1, <2>2
<1>2. ASSUME NEW q \in Calls PROVE CallOK(q)'
  <2>1. CASE q = p
    BY <2>1
  <2>2. CASE q # p
    BY <2>2, OneMoves DEF Same, Typed, CallOK, Processes
  <2> QED
    BY <2>1, <2>2
<1> QED
  BY <1>1, <1>2 DEF Typed

\* The tokens handed out, and a junk one, are those a call can present.
LEMMA Tokens ==
  ASSUME Typed, NEW o, NEW ts \in Presentable(o)
  PROVE  /\ ts \in Seq(HandedOut \cup {Junk}) /\ HandedOut \subseteq Processes
         /\ IF o.op = "proxy" THEN Len(ts) = 2 ELSE Len(ts) = 1
<1>1. HandedOut \subseteq Processes
  BY DEF HandedOut, Typed, TypeOK, Processes
<1>2. CASE o.op = "proxy"
  <2>1. PICK x \in HandedOut \cup {Junk}, y \in HandedOut \cup {Junk} : ts = <<x, y>>
    BY <1>2 DEF Presentable
  <2> QED
    BY <1>1, <1>2, <2>1
<1>3. CASE o.op # "proxy"
  <2>1. PICK x \in HandedOut \cup {Junk} : ts = <<x>>
    BY <1>3 DEF Presentable
  <2> QED
    BY <1>1, <1>3, <2>1
<1> QED
  BY <1>2, <1>3

\* A reading of the clock comes after those there were.
OneMore(p) ==
  /\ now' \in [Processes -> Seq(0..MaxTime)]
  /\ Len(now[p]) \in Nat /\ Len(now'[p]) = Len(now[p]) + 1 /\ now'[p][Len(now'[p])] = clock
  /\ \A i \in 1..Len(now[p]) : now'[p][i] = now[p][i]

\* A process that reads the clock has one reading more.
LEMMA ClockRead ==
  ASSUME Typed, NEW p \in Processes, ReadClock(p)
  PROVE  OneMore(p)
<1>1. now[p] \in Seq(0..MaxTime) /\ now'[p] = Append(now[p], clock) /\ clock \in 0..MaxTime
  BY DEF ReadClock, Typed, TypeOK, LocalsOK
<1>2. Append(now[p], clock) \in Seq(0..MaxTime)
  BY <1>1, AppendProperties
<1>3. now' \in [Processes -> Seq(0..MaxTime)]
  BY <1>1, <1>2 DEF ReadClock, Typed, LocalsOK
<1> QED
  BY <1>1, <1>3, AppendProperties DEF OneMore

\* A change to what a process remembers keeps its shape.
LEMMA BeforeChanged ==
  ASSUME Typed, NEW p \in Processes, NEW S,
         \/ before' = [before EXCEPT ![p].done = S]
         \/ before' = [before EXCEPT ![p].rows = S]
  PROVE  before' = [q \in Processes |-> [rows |-> before'[q].rows, done |-> before'[q].done]]
<1>1. /\ DOMAIN before = Processes
      /\ \A q \in Processes : before[q] = [rows |-> before[q].rows, done |-> before[q].done]
  BY DEF Typed, LocalsOK
<1>2. ASSUME NEW b, b = [rows |-> b.rows, done |-> b.done]
      PROVE  /\ [b EXCEPT !.done = S] = [rows |-> b.rows, done |-> S]
             /\ [b EXCEPT !.rows = S] = [rows |-> S, done |-> b.done]
  BY <1>2
<1>3. /\ [before[p] EXCEPT !.done = S] = [rows |-> before[p].rows, done |-> S]
      /\ [before[p] EXCEPT !.rows = S] = [rows |-> S, done |-> before[p].done]
  BY <1>1, <1>2
<1>4. /\ DOMAIN before' = Processes
      /\ \A q \in Processes \ {p} : before'[q] = before[q]
      /\ \/ before'[p] = [before[p] EXCEPT !.done = S]
         \/ before'[p] = [before[p] EXCEPT !.rows = S]
  BY <1>1
<1> QED
  BY <1>1, <1>3, <1>4

\* A command's steps keep the types.
LEMMA TypedCommand ==
  ASSUME Typed, NEW c \in Commands, Command(c)
  PROVE  Typed'
<1> USE AccountsConstants DEF AccountsConstants
<1>0. /\ Moves(c) /\ c \in Processes /\ c \notin Calls
      /\ order[c] \in Orders[c] \/ pc[c] = "idle"
  BY DEF Moves, Processes, Command, Step, Typed, CommandOK, Running,
         Run, FindTenant, MakeTenant, InsertAgent, InsertAccount, InsertChannel
<1>1. ASSUME Run(c) PROVE TypeOK' /\ LocalsOK' /\ CommandOK(c)'
  <2>1. TypeOK'
    BY <1>0, <1>1 DEF Run, Step, tables, Typed, TypeOK
  <2>a. OneMore(c)
    BY <1>0, <1>1, ClockRead DEF Run
  <2>2. LocalsOK'
    BY <1>0, <1>1, <2>a DEF OneMore, Run, Typed, LocalsOK
  <2>3. CommandOK(c)'
    BY <1>0, <1>1, <2>a DEF OneMore, Run, Step, Typed, TypeOK, LocalsOK, CommandOK, Running, Ended
  <2> QED
    BY <2>1, <2>2, <2>3
<1>2. ASSUME FindTenant(c) PROVE TypeOK' /\ LocalsOK' /\ CommandOK(c)'
  <2>1. TypeOK'
    BY <1>0, <1>2 DEF FindTenant, Oldest, Step, tables, history, Typed, TypeOK
  <2>2. LocalsOK'
    BY <1>2 DEF FindTenant, history, Typed, LocalsOK
  <2>3. CommandOK(c)'
    BY <1>0, <1>2 DEF FindTenant, Oldest, Step, Typed, TypeOK, CommandOK, Running, Ended
  <2> QED
    BY <2>1, <2>2, <2>3
<1>3. ASSUME MakeTenant(c) PROVE TypeOK' /\ LocalsOK' /\ CommandOK(c)'
  <2>1. now[c][1] \in 0..MaxTime
    <3>1. now[c] \in Seq(0..MaxTime) /\ Len(now[c]) > 0
      BY <1>0, <1>3 DEF MakeTenant, Step, Typed, LocalsOK, CommandOK, Running
    <3> QED
      BY <3>1
  <2>2. TypeOK'
    BY <1>0, <1>3, <2>1 DEF MakeTenant, Step, history, Typed, TypeOK
  <2>3. LocalsOK'
    BY <1>3 DEF MakeTenant, history, Typed, LocalsOK
  <2>4. CommandOK(c)'
    BY <1>0, <1>3 DEF MakeTenant, Step, Typed, TypeOK, CommandOK, Running, Ended
  <2> QED
    BY <2>2, <2>3, <2>4
<1>4. ASSUME InsertAgent(c) \/ InsertAccount(c) \/ InsertChannel(c)
      PROVE  TypeOK' /\ LocalsOK' /\ CommandOK(c)'
  <2>1. tenant[c] \in Commands
    BY <1>4 DEF InsertAgent, InsertAccount, InsertChannel, Step, Typed, CommandOK
  <2>2. UNCHANGED <<locals, history, clock>> /\ \E to \in {"done", "failed"} : pc' = [pc EXCEPT ![c] = to]
    BY <1>4 DEF InsertAgent, InsertAccount, InsertChannel, Step
  <2>3. TypeOK'
    <3>1. pc' \in [Processes -> Ended \cup {"idle", "seeking", "making", "inserting", "looking",
                                           "granting", "keys", "sessions", "resolved"}]
      BY <2>2 DEF Typed, TypeOK, Ended
    <3>2. UNCHANGED tenants /\ UNCHANGED sessions
      BY <1>4 DEF InsertAgent, InsertAccount, InsertChannel
    <3>3. \A a \in agents' : a.key \in Commands /\ a.tenant \in Commands
      BY <1>4, <2>1 DEF InsertAgent, InsertAccount, InsertChannel, Typed, TypeOK
    <3>4. \A a \in accounts' : a.id \in Commands /\ a.tenant \in Commands
      BY <1>4, <2>1 DEF InsertAgent, InsertAccount, InsertChannel, Typed, TypeOK
    <3>5. rows \subseteq rows' /\ \A r \in rows' : r.kind \in {"network", "channel"} /\ r.tenant \in Commands
      BY <1>4, <2>1 DEF InsertAgent, InsertAccount, InsertChannel, Typed, TypeOK
    <3> QED
      BY <2>2, <3>1, <3>2, <3>3, <3>4, <3>5 DEF locals, history, Typed, TypeOK
  <2>4. LocalsOK'
    BY <2>2 DEF locals, history, Typed, LocalsOK
  <2>5. CommandOK(c)'
    BY <1>0, <1>4, <2>2 DEF locals, Typed, TypeOK, CommandOK, Running, Ended,
       InsertAgent, InsertAccount, InsertChannel, Step
  <2> QED
    BY <2>3, <2>4, <2>5
<1> QED
  BY <1>0, <1>1, <1>2, <1>3, <1>4, TypedMove DEF Command

\* A call's steps keep the types.
LEMMA TypedCall ==
  ASSUME Typed, NEW p \in Calls, Call(p)
  PROVE  Typed'
<1> USE AccountsConstants DEF AccountsConstants
<1>0. Moves(p) /\ p \in Processes /\ p \notin Commands /\ CallOK(p)
  BY DEF Moves, Processes, Typed
<1>1. ASSUME AskLogin(p) PROVE TypeOK' /\ LocalsOK' /\ CallOK(p)'
  <2>1. TypeOK'
    BY <1>0, <1>1 DEF AskLogin, Step, tables, Typed, TypeOK
  <2>a. OneMore(p)
    BY <1>0, <1>1, ClockRead DEF AskLogin
  <2>b. before' = [q \in Processes |-> [rows |-> before'[q].rows, done |-> before'[q].done]]
    BY <1>0, <1>1, BeforeChanged DEF AskLogin
  <2>2. LocalsOK'
    BY <1>0, <1>1, <2>a, <2>b DEF OneMore, AskLogin, Typed, LocalsOK
  <2>3. CallOK(p)'
    BY <1>0, <1>1, <2>a DEF OneMore, AskLogin, Step, Typed, TypeOK, LocalsOK, CallOK, Ended, Reading
  <2> QED
    BY <2>1, <2>2, <2>3
<1>2. ASSUME FindAccount(p) PROVE TypeOK' /\ LocalsOK' /\ CallOK(p)'
  <2>0. /\ UNCHANGED <<clock, tables, locals, history>> /\ pc[p] = "looking"
        /\ pc' = [pc EXCEPT ![p] = "granting"] \/ pc' = [pc EXCEPT ![p] = "unauthorized"]
    BY <1>2 DEF FindAccount, Step
  <2>1. TypeOK'
    BY <2>0 DEF tables, locals, history, Typed, TypeOK, Ended
  <2>2. LocalsOK'
    BY <2>0 DEF locals, history, Typed, LocalsOK
  <2>3. CallOK(p)'
    BY <1>0, <2>0 DEF locals, Typed, TypeOK, CallOK, Ended, Reading
  <2> QED
    BY <2>1, <2>2, <2>3
<1>3. ASSUME Grant(p) PROVE TypeOK' /\ LocalsOK' /\ CallOK(p)'
  <2>1. now[p][1] + TTL \in Nat
    BY <1>0, <1>3 DEF Grant, Step, Typed, LocalsOK, CallOK
  <2>2. TypeOK'
    BY <1>0, <1>3, <2>1 DEF Grant, AccountsOf, Step, locals, history, Typed, TypeOK, Ended
  <2>3. LocalsOK'
    BY <1>3 DEF Grant, locals, history, Typed, LocalsOK
  <2>4. CallOK(p)'
    BY <1>0, <1>3 DEF Grant, Step, locals, Typed, TypeOK, CallOK, Ended, Reading
  <2> QED
    BY <2>2, <2>3, <2>4
<1>4. ASSUME Ask(p) PROVE TypeOK' /\ LocalsOK' /\ CallOK(p)'
  <2>0. PICK o \in Orders[p] : /\ o.op # "login" /\ order' = [order EXCEPT ![p] = o]
                               /\ \E ts \in Presentable(o) : tokens' = [tokens EXCEPT ![p] = ts]
                               /\ IF o.op = "push" THEN UNCHANGED now ELSE ReadClock(p)
                               /\ before' = [before EXCEPT ![p].rows = {r \in rows : r.kind = o.op}]
    BY <1>4 DEF Ask
  <2>a. PICK ts \in Presentable(o) : tokens' = [tokens EXCEPT ![p] = ts]
    BY <2>0
  <2>b. ts \in Seq(Processes \cup {Junk}) /\ Len(ts) \in {1, 2} /\ (o.op = "push" => Len(ts) = 1)
    <3>1. HandedOut \subseteq Processes /\ ts \in Seq(HandedOut \cup {Junk})
      BY Tokens
    <3>2. IF o.op = "proxy" THEN Len(ts) = 2 ELSE Len(ts) = 1
      BY Tokens
    <3> QED
      BY <3>1, <3>2
  <2>c. IF o.op = "push" THEN UNCHANGED now ELSE OneMore(p)
    BY <1>0, <2>0, ClockRead
  <2>1. TypeOK'
    BY <1>0, <1>4 DEF Ask, Step, tables, Typed, TypeOK
  <2>2. LocalsOK'
    <3>1. now' \in [Processes -> Seq(0..MaxTime)]
      BY <2>c DEF OneMore, Typed, LocalsOK
    <3>4. before' = [q \in Processes |-> [rows |-> before'[q].rows, done |-> before'[q].done]]
      BY <1>0, <2>0, BeforeChanged
    <3>5. tokens' \in [Processes -> Seq(Processes \cup {Junk})]
      BY <2>a, <2>b DEF Typed, LocalsOK
    <3>6. order' = [q \in Processes |-> order'[q]] /\ saw' = saw
      BY <1>4, <2>0 DEF Ask, Typed, LocalsOK
    <3> QED
      BY <3>1, <3>4, <3>5, <3>6 DEF Typed, LocalsOK
  <2>3. CallOK(p)'
    <3>1. pc[p] = "idle" /\ pc'[p] = "keys" /\ order'[p] = o /\ tokens'[p] = ts /\ Len(now[p]) = 0
      BY <1>0, <1>4, <2>0, <2>a DEF Ask, Step, Typed, TypeOK, LocalsOK, CallOK
    <3>2. IF o.op = "push" THEN Len(now'[p]) = 0 ELSE Len(now'[p]) = 1
      BY <2>c, <3>1 DEF OneMore
    <3>3. o \in Orders[p] /\ o.op \in {"push", "network", "channel", "proxy"}
      BY <2>0
    <3>4. order'[p].op \in Reading => Len(now'[p]) \in 1..Len(tokens'[p])
      <4>1. 1 \in 1..Len(ts)
        BY <2>b
      <4>2. o.op \in Reading => Len(now'[p]) = 1
        BY <3>2 DEF Reading
      <4> QED
        BY <3>1, <4>1, <4>2
    <3>5. order'[p].op = "push" => Len(tokens'[p]) = 1
      BY <2>b, <3>1
    <3> QED
      BY <3>1, <3>3, <3>4, <3>5 DEF CallOK, Ended
  <2> QED
    BY <2>1, <2>2, <2>3
<1>5. ASSUME TryKey(p) PROVE TypeOK' /\ LocalsOK' /\ CallOK(p)'
  <2>0. /\ UNCHANGED <<clock, tables, order, tokens, now, saw, history>> /\ pc[p] = "keys"
        /\ \/ pc' = [pc EXCEPT ![p] = "resolved"] /\ \E a \in agents : tenant' = [tenant EXCEPT ![p] = a.tenant]
           \/ /\ tenant' = tenant
              /\ \/ pc' = [pc EXCEPT ![p] = "unauthorized"]
                 \/ pc' = [pc EXCEPT ![p] = "sessions"] /\ order[p].op # "push"
    BY <1>5 DEF TryKey, Step
  <2>1. TypeOK'
    BY <1>0, <2>0 DEF tables, history, Typed, TypeOK, Ended
  <2>2. LocalsOK'
    BY <2>0 DEF history, Typed, LocalsOK
  <2>3. CallOK(p)'
    BY <1>0, <2>0 DEF Typed, TypeOK, CallOK, Ended, Reading
  <2> QED
    BY <2>1, <2>2, <2>3
<1>6. ASSUME TrySession(p) PROVE TypeOK' /\ LocalsOK' /\ CallOK(p)'
  <2>0. /\ UNCHANGED <<clock, tables, order, tokens, saw, history>> /\ pc[p] = "sessions"
        /\ \/ /\ \E a \in accounts : tenant' = [tenant EXCEPT ![p] = a.tenant]
              /\ pc' = [pc EXCEPT ![p] = "resolved"] /\ now' = now
           \/ /\ tenant' = tenant /\ pc' = [pc EXCEPT ![p] = "keys"] /\ Len(now[p]) < Len(tokens[p])
              /\ ReadClock(p)
           \/ tenant' = tenant /\ pc' = [pc EXCEPT ![p] = "unauthorized"] /\ now' = now
    BY <1>6 DEF TrySession, SessionAccounts, Step
  <2>a. now' = now \/ OneMore(p)
    BY <1>0, <2>0, ClockRead
  <2>b. Len(tokens[p]) \in Nat
    BY <1>0 DEF Typed, LocalsOK
  <2>1. TypeOK'
    BY <1>0, <2>0 DEF tables, history, Typed, TypeOK, Ended
  <2>2. now' \in [Processes -> Seq(0..MaxTime)]
    BY <2>a DEF OneMore, Typed, LocalsOK
  <2>3. LocalsOK'
    BY <2>0, <2>2 DEF history, Typed, LocalsOK
  <2>4. CallOK(p)'
    BY <1>0, <2>0, <2>a, <2>b DEF OneMore, Typed, TypeOK, CallOK, Ended, Reading
  <2> QED
    BY <2>1, <2>3, <2>4
<1>7. ASSUME Push(p) PROVE TypeOK' /\ LocalsOK' /\ CallOK(p)'
  <2>1. TypeOK'
    BY <1>0, <1>7 DEF Push, Step, locals, history, Typed, TypeOK, Ended, CallOK
  <2>2. LocalsOK'
    BY <1>7 DEF Push, locals, history, Typed, LocalsOK
  <2>3. CallOK(p)'
    BY <1>0, <1>7 DEF Push, Step, locals, Typed, TypeOK, CallOK, Ended, Reading
  <2> QED
    BY <2>1, <2>2, <2>3
<1>8. ASSUME List(p) \/ Reach(p) PROVE TypeOK' /\ LocalsOK' /\ CallOK(p)'
  <2>0. /\ UNCHANGED <<clock, tables, order, tokens, now, tenant, history>> /\ pc[p] = "resolved"
        /\ \E to \in {"done", "not_found"} : pc' = [pc EXCEPT ![p] = to]
        /\ \E seen \in SUBSET rows : saw' = [saw EXCEPT ![p] = seen]
        /\ order[p].op # "login" /\ order[p].op # "push"
    BY <1>8 DEF List, Reach, Own, Step
  <2>1. TypeOK'
    BY <1>0, <2>0 DEF tables, history, Typed, TypeOK, LocalsOK, Ended
  <2>2. LocalsOK'
    BY <2>0 DEF history, Typed, LocalsOK
  <2>3. CallOK(p)'
    BY <1>0, <2>0 DEF Typed, TypeOK, CallOK, Ended, Reading
  <2> QED
    BY <2>1, <2>2, <2>3
<1> QED
  BY <1>0, <1>1, <1>2, <1>3, <1>4, <1>5, <1>6, <1>7, <1>8, TypedMove DEF Call

\* Every step keeps the types.
LEMMA TypedStep ==
  ASSUME Typed, [Next]_vars
  PROVE  Typed'
<1> USE AccountsConstants DEF AccountsConstants
<1>1. ASSUME NEW p \in Processes, Fail(p) PROVE Typed'
  <2>0. Moves(p)
    BY <1>1 DEF Moves
  <2>1. TypeOK'
    BY <1>1 DEF Fail, tables, Typed, TypeOK, Ended
  <2>2. LocalsOK'
    <3>1. now' \in [Processes -> Seq(0..MaxTime)] /\ tokens' \in [Processes -> Seq(Processes \cup {Junk})]
      BY <1>1 DEF Fail, Typed, LocalsOK
    <3> QED
      BY <1>1, <3>1 DEF Fail, Nothing, Typed, LocalsOK
  <2>3. p \in Commands => CommandOK(p)'
    BY <1>1 DEF Fail, Typed, TypeOK, CommandOK, Running, Ended
  <2>4. p \in Calls => CallOK(p)'
    BY <1>1 DEF Fail, Typed, TypeOK, LocalsOK, CallOK, Reading, Ended
  <2> QED
    BY <2>0, <2>1, <2>2, <2>3, <2>4, TypedMove
<1>2. ASSUME NEW p \in Calls, Trip(p) PROVE Typed'
  <2>0. Moves(p) /\ p \in Processes /\ p \notin Commands
    BY <1>2 DEF Moves, Processes
  <2>a. OneMore(p)
    BY <1>2, <2>0, ClockRead DEF Trip
  <2>b. Len(tokens[p]) \in Nat
    BY <2>0 DEF Typed, LocalsOK
  <2>1. TypeOK'
    BY <1>2, <2>0 DEF Trip, tables, Typed, TypeOK
  <2>2. LocalsOK'
    BY <1>2, <2>0, <2>a DEF OneMore, Trip, Typed, LocalsOK
  <2>3. CallOK(p)'
    BY <1>2, <2>0, <2>a, <2>b DEF OneMore, Trip, Typed, TypeOK, CallOK, Reading, Ended
  <2> QED
    BY <2>0, <2>1, <2>2, <2>3, TypedMove
<1>3. CASE Tick \/ UNCHANGED vars
  <2>1. UNCHANGED <<tenants, agents, accounts, sessions, rows, pc, order, tokens, now, tenant, saw, before,
                    overlapped, tripped>>
    BY <1>3 DEF Tick, vars, tables, locals, history
  <2>2. clock' \in 0..MaxTime
    BY <1>3 DEF Tick, vars, Typed, TypeOK
  <2>3. TypeOK'
    BY <2>1, <2>2 DEF Typed, TypeOK
  <2>4. LocalsOK'
    BY <2>1 DEF Typed, LocalsOK
  <2>5. (\A c \in Commands : CommandOK(c)') /\ (\A p \in Calls : CallOK(p)')
    BY <2>1 DEF Typed, CommandOK, Running, CallOK
  <2> QED
    BY <2>3, <2>4, <2>5 DEF Typed
<1> QED
  BY <1>1, <1>2, <1>3, TypedCommand, TypedCall DEF Next

-----------------------------------------------------------------------------
(* Where rows come from *)

\* A process that has ended stays as it is.
LEMMA EndedStay ==
  ASSUME Typed, [Next]_vars, NEW p \in Processes, pc[p] \in Ended
  PROVE  Same(p)
<1>1. CASE \E q \in Processes : Moves(q)
  BY <1>1, OneMoves
<1>2. CASE Tick \/ UNCHANGED vars
  <2>1. UNCHANGED <<pc, order, tokens, now, tenant, saw, before, tripped>>
    BY <1>2 DEF Tick, vars, tables, locals, history
  <2> QED
    BY <2>1 DEF Same
<1> QED
  BY <1>1, <1>2, NextIsMove

\* Which action adds to which table.
LEMMA WhoInserts ==
  ASSUME [Next]_vars
  PROVE  /\ UNCHANGED tenants \/ \E c \in Commands : MakeTenant(c)
         /\ UNCHANGED agents \/ \E c \in Commands : InsertAgent(c)
         /\ UNCHANGED accounts \/ \E c \in Commands : InsertAccount(c)
         /\ UNCHANGED sessions \/ \E p \in Calls : Grant(p)
         /\ UNCHANGED rows \/ (\E c \in Commands : InsertChannel(c)) \/ (\E p \in Calls : Push(p))
<1> USE DEF tables
<1>1. ASSUME NEW c \in Commands, Run(c) \/ FindTenant(c) PROVE UNCHANGED tables
  BY <1>1 DEF Run, FindTenant
<1>2. ASSUME NEW p \in Calls, AskLogin(p) \/ FindAccount(p) \/ Ask(p) \/ TryKey(p) \/ TrySession(p)
      PROVE  UNCHANGED tables
  BY <1>2 DEF AskLogin, FindAccount, Ask, TryKey, TrySession
<1>3. ASSUME NEW p \in Processes, List(p) \/ Reach(p) \/ Fail(p) \/ Trip(p) PROVE UNCHANGED tables
  BY <1>3 DEF List, Reach, Fail, Trip
<1>4. CASE Tick \/ UNCHANGED vars
  BY <1>4 DEF Tick, vars
<1>5. ASSUME NEW c \in Commands, MakeTenant(c)
      PROVE  UNCHANGED <<agents, accounts, sessions, rows>>
  BY <1>5 DEF MakeTenant
<1>6. ASSUME NEW c \in Commands, InsertAgent(c)
      PROVE  UNCHANGED <<tenants, accounts, sessions, rows>>
  BY <1>6 DEF InsertAgent
<1>7. ASSUME NEW c \in Commands, InsertAccount(c)
      PROVE  UNCHANGED <<tenants, agents, sessions, rows>>
  BY <1>7 DEF InsertAccount
<1>8. ASSUME NEW c \in Commands, InsertChannel(c)
      PROVE  UNCHANGED <<tenants, agents, accounts, sessions>>
  BY <1>8 DEF InsertChannel
<1>9. ASSUME NEW p \in Calls, Grant(p)
      PROVE  UNCHANGED <<tenants, agents, accounts, rows>>
  BY <1>9 DEF Grant
<1>10. ASSUME NEW p \in Calls, Push(p)
      PROVE  UNCHANGED <<tenants, agents, accounts, sessions>>
  BY <1>10 DEF Push
<1> QED
  BY <1>1, <1>2, <1>3, <1>4, <1>5, <1>6, <1>7, <1>8, <1>9, <1>10 DEF Next, Command, Call, Processes

\* Rows are those of processes that are done, one of each.
AgentRows ==
  /\ \A a \in agents : a = [key |-> a.key, tenant |-> a.tenant] /\ pc[a.key] = "done"
  /\ \A a, b \in agents : a.key = b.key => a = b

AccountRows ==
  /\ \A a \in accounts :
       /\ pc[a.id] = "done" /\ order[a.id].op = "create-user"
       /\ a.email = Lower(order[a.id].email) /\ a.password = order[a.id].password
  /\ \A a, b \in accounts : a.id = b.id \/ a.email = b.email => a = b
  /\ \A c \in Commands : pc[c] = "done" /\ order[c].op = "create-user" => \E a \in accounts : a.id = c

SessionRows ==
  /\ \A s \in sessions :
       /\ pc[s.token] = "done" /\ s.expires = now[s.token][1] + TTL
       /\ \E a \in accounts : a.id = s.account
  /\ \A s, u \in sessions : s.token = u.token => s = u

Origins == AgentRows /\ AccountRows /\ SessionRows

\* Every step keeps rows with the processes they are named for.
LEMMA OriginsStep ==
  ASSUME Typed, Typed', Origins, [Next]_vars
  PROVE  Origins'
<1> USE AccountsConstants DEF AccountsConstants
<1>0. /\ \A c \in Commands : pc[c] = "done" => pc'[c] = "done" /\ order'[c] = order[c]
      /\ \A p \in Calls : pc[p] = "done" => pc'[p] = "done" /\ now'[p] = now[p]
  BY EndedStay DEF Same, Processes, Ended
<1>1. AgentRows'
  <2>1. CASE UNCHANGED agents
    BY <1>0, <2>1 DEF Origins, AgentRows, Typed, TypeOK
  <2>2. ASSUME NEW c \in Commands, InsertAgent(c) PROVE AgentRows'
    <3>1. pc[c] = "inserting" /\ pc'[c] = "done"
      BY <2>2 DEF InsertAgent, Step, Typed, TypeOK, Processes
    <3>2. agents' = agents \cup {[key |-> c, tenant |-> tenant[c]]}
      BY <2>2 DEF InsertAgent
    <3>3. \A a \in agents : a.key # c /\ a.key \in Commands
      BY <3>1 DEF Origins, AgentRows, Typed, TypeOK
    <3> QED
      BY <1>0, <3>1, <3>2, <3>3 DEF Origins, AgentRows
  <2> QED
    BY <2>1, <2>2, WhoInserts
<1>2. AccountRows'
  <2>1. ASSUME NEW c \in Commands, pc'[c] = "done", order'[c].op = "create-user"
        PROVE  \E a \in accounts' : a.id = c
    <3>1. CASE pc[c] = "done"
      BY <1>0, <2>1, <3>1, TablesGrow DEF Origins, AccountRows, Grow
    <3>2. CASE InsertAccount(c)
      <4>1. AccountsOf(order[c].email) = {}
        BY <2>1, <3>2 DEF InsertAccount, Step, Typed, TypeOK, Processes
      <4>2. [id |-> c, tenant |-> tenant[c], email |-> Lower(order[c].email),
             password |-> order[c].password] \in accounts'
        BY <3>2, <4>1 DEF InsertAccount
      <4> QED
        BY <4>2
    <3>3. ASSUME pc[c] # "done" PROVE InsertAccount(c)
      <4>1. ~ Same(c)
        BY <2>1, <3>3 DEF Same
      <4>2. c \in Processes /\ c \notin Calls
        BY DEF Processes
      <4>3. Moves(c)
        <5>1. CASE \E q \in Processes : Moves(q)
          BY <4>1, <4>2, <5>1, OneMoves
        <5>2. CASE Tick \/ UNCHANGED vars
          BY <4>1, <5>2 DEF Tick, vars, tables, locals, history, Same
        <5> QED
          BY <5>1, <5>2, NextIsMove
      <4>4. ~ Run(c) /\ ~ FindTenant(c) /\ ~ MakeTenant(c) /\ ~ Fail(c)
        BY <2>1, <4>2 DEF Run, FindTenant, MakeTenant, Fail, Step, Typed, TypeOK
      <4>5. ~ InsertAgent(c) /\ ~ InsertChannel(c)
        BY <2>1 DEF InsertAgent, InsertChannel, locals
      <4> QED
        BY <4>2, <4>3, <4>4, <4>5 DEF Moves, Command
    <3> QED
      BY <3>1, <3>2, <3>3
  <2>2. CASE UNCHANGED accounts
    BY <1>0, <2>1, <2>2 DEF Origins, AccountRows, Typed, TypeOK
  <2>3. ASSUME NEW c \in Commands, InsertAccount(c), accounts' # accounts PROVE AccountRows'
    <3> DEFINE new == [id |-> c, tenant |-> tenant[c], email |-> Lower(order[c].email),
                       password |-> order[c].password]
    <3>1. /\ pc[c] = "inserting" /\ pc'[c] = "done" /\ order' = order /\ order[c].op = "create-user"
          /\ \A a \in accounts : a.email # Lower(order[c].email)
          /\ accounts' = accounts \cup {new}
      BY <2>3 DEF InsertAccount, AccountsOf, Step, locals, Typed, TypeOK, Processes
    <3>2. \A a \in accounts : a.id # c /\ a.id \in Commands
      BY <3>1 DEF Origins, AccountRows, Typed, TypeOK
    <3>3. \A a, b \in accounts' : a.id = b.id \/ a.email = b.email => a = b
      BY <3>1, <3>2 DEF Origins, AccountRows
    <3>4. \A a \in accounts' : /\ pc'[a.id] = "done" /\ order[a.id].op = "create-user"
                               /\ a.email = Lower(order[a.id].email) /\ a.password = order[a.id].password
      BY <1>0, <3>1, <3>2 DEF Origins, AccountRows
    <3> QED
      BY <2>1, <3>1, <3>3, <3>4 DEF AccountRows, Lower
  <2> QED
    BY <2>2, <2>3, WhoInserts
<1>3. SessionRows'
  <2>1. accounts \subseteq accounts'
    BY TablesGrow DEF Grow
  <2>2. CASE UNCHANGED sessions
    BY <1>0, <2>1, <2>2 DEF Origins, SessionRows, Typed, TypeOK
  <2>3. ASSUME NEW p \in Calls, Grant(p) PROVE SessionRows'
    <3>1. pc[p] = "granting" /\ pc'[p] = "done" /\ now' = now
      BY <2>3 DEF Grant, Step, locals, Typed, TypeOK, Processes
    <3>2. PICK a \in accounts :
            sessions' = sessions \cup {[token |-> p, account |-> a.id, expires |-> now[p][1] + TTL]}
      BY <2>3 DEF Grant, AccountsOf
    <3>3. \A s \in sessions : s.token # p /\ s.token \in Calls
      BY <3>1 DEF Origins, SessionRows, Typed, TypeOK
    <3> QED
      BY <1>0, <2>1, <3>1, <3>2, <3>3 DEF Origins, SessionRows
  <2> QED
    BY <2>2, <2>3, WhoInserts
<1> QED
  BY <1>1, <1>2, <1>3 DEF Origins

-----------------------------------------------------------------------------
(* Tokens *)

Issued(token) == token \in HandedOut \cup {Junk}

\* An agent's key is for its tenant.
KeysExact == \A a \in agents : TenantOf(a.key) = a.tenant

\* A key leads to the tenant of its agent.
LEMMA TenantOfKey == Typed /\ Origins => KeysExact
<1> USE AccountsConstants DEF AccountsConstants
<1> SUFFICES ASSUME Typed, Origins, NEW a \in agents PROVE TenantOf(a.key) = a.tenant
  BY DEF KeysExact
<1>1. a.key \in Commands /\ a.tenant \in Commands /\ [key |-> a.key, tenant |-> a.tenant] \in agents
  BY DEF Typed, TypeOK, Origins, AgentRows
<1>2. \A u : [key |-> a.key, tenant |-> u] \in agents => u = a.tenant
  BY <1>1 DEF Origins, AgentRows
<1>3. \A s \in sessions : s.token # a.key
  BY <1>1 DEF Typed, TypeOK
<1> QED
  BY <1>1, <1>2, <1>3 DEF TenantOf

\* A session's token is for its account's tenant, and good for TTL.
SessionsExact ==
  /\ \A s \in sessions, a \in accounts : s.account = a.id => TenantOf(s.token) = a.tenant
  /\ \A s \in sessions : \A t : Good(s.token, t) <=> t < now[s.token][1] + TTL

\* A session leads to the tenant of its account.
LEMMA TenantOfSession == Typed /\ Origins => SessionsExact
<1> USE AccountsConstants DEF AccountsConstants
<1> SUFFICES ASSUME Typed, Origins, NEW s \in sessions
             PROVE  /\ \A a \in accounts : s.account = a.id => TenantOf(s.token) = a.tenant
                    /\ \A t : Good(s.token, t) <=> t < now[s.token][1] + TTL
  BY DEF SessionsExact
<1>1. ASSUME NEW a \in accounts, s.account = a.id PROVE TenantOf(s.token) = a.tenant
  <2>1. s.token \in Calls /\ a.tenant \in Commands /\ a.id \in Commands
    BY DEF Typed, TypeOK
  <2>2. \A u : [key |-> s.token, tenant |-> u] \notin agents
    BY <2>1 DEF Typed, TypeOK
  <2>3. \A x \in sessions, b \in accounts : x.token = s.token /\ x.account = b.id => b = a
    BY <1>1 DEF Origins, SessionRows, AccountRows
  <2> QED
    BY <1>1, <2>1, <2>2, <2>3 DEF TenantOf
<1>2. \A a \in agents : a.key # s.token
  BY DEF Typed, TypeOK
<1> QED
  BY <1>1, <1>2 DEF Good

\* What is known of an issued token does not change.
LEMMA TokensStay ==
  ASSUME Typed, Typed', Origins, Origins', [Next]_vars, NEW token, Issued(token)
  PROVE  /\ Issued(token)'
         /\ (\E a \in agents' : a.key = token) => \E a \in agents : a.key = token
         /\ \A t : Good(token, t)' <=> Good(token, t)
         /\ \A t : Good(token, t) => TenantOf(token)' = TenantOf(token)
<1> USE AccountsConstants DEF AccountsConstants
<1>0. /\ \A p \in Processes : pc[p] = "done" => pc'[p] = "done" /\ now'[p] = now[p]
      /\ agents \subseteq agents' /\ sessions \subseteq sessions' /\ accounts \subseteq accounts'
  BY EndedStay, TablesGrow DEF Same, Ended, Grow
<1>a. KeysExact /\ SessionsExact
  BY TenantOfKey, TenantOfSession
<1>b. KeysExact' /\ SessionsExact'
  BY TenantOfKey, TenantOfSession, PTL
<1>1. CASE token = Junk
  <2>1. /\ \A a \in agents \cup agents' : a.key # Junk
        /\ \A s \in sessions \cup sessions' : s.token # Junk
    BY DEF Typed, TypeOK, Processes
  <2>2. Issued(token)'
    BY <1>1 DEF Issued
  <2> QED
    BY <1>1, <2>1, <2>2 DEF Good
<1>2. ASSUME NEW a \in agents, a.key = token, pc[token] = "done"
      PROVE  Issued(token)' /\ TenantOf(token)' = TenantOf(token) /\ \A t : Good(token, t) /\ Good(token, t)'
  <2>1. token \in Commands /\ a \in agents' /\ a = [key |-> token, tenant |-> a.tenant]
    BY <1>0, <1>2 DEF Typed, TypeOK, Origins, AgentRows
  <2>2. Issued(token)'
    BY <1>0, <1>2, <2>1 DEF Issued, HandedOut, Processes
  <2>3. TenantOf(token) = a.tenant
    BY <1>2, <1>a DEF KeysExact
  <2>4. TenantOf(token)' = a.tenant
    BY <1>2, <1>b, <2>1 DEF KeysExact
  <2>5. \A t : Good(token, t) /\ Good(token, t)'
    BY <2>1 DEF Good
  <2> QED
    BY <2>2, <2>3, <2>4, <2>5
<1>3. ASSUME NEW s \in sessions, s.token = token, pc[token] = "done"
      PROVE  /\ Issued(token)' /\ TenantOf(token)' = TenantOf(token)
             /\ \A t : Good(token, t)' <=> Good(token, t)
             /\ \A a \in agents' : a.key # token
  <2>1. token \in Calls /\ s \in sessions' /\ now'[token] = now[token]
    BY <1>0, <1>3 DEF Typed, TypeOK, Processes
  <2>2. Issued(token)'
    BY <1>0, <1>3, <2>1 DEF Issued, HandedOut, Processes
  <2>3. PICK a \in accounts : a.id = s.account
    BY DEF Origins, SessionRows
  <2>4. TenantOf(token) = a.tenant
    BY <1>3, <1>a, <2>3 DEF SessionsExact
  <2>5. TenantOf(token)' = a.tenant
    BY <1>0, <1>3, <1>b, <2>1, <2>3 DEF SessionsExact
  <2>6. \A t : Good(token, t) <=> t < now[token][1] + TTL
    BY <1>3, <1>a DEF SessionsExact
  <2>7. \A t : Good(token, t)' <=> t < now'[token][1] + TTL
    BY <1>3, <1>b, <2>1 DEF SessionsExact
  <2>8. \A b \in agents' : b.key # token
    BY <2>1 DEF Typed, TypeOK
  <2> QED
    BY <2>1, <2>2, <2>4, <2>5, <2>6, <2>7, <2>8
<1>4. \/ token = Junk
      \/ \E a \in agents : a.key = token /\ pc[token] = "done"
      \/ \E s \in sessions : s.token = token /\ pc[token] = "done"
  BY DEF Issued, HandedOut
<1> QED
  BY <1>1, <1>2, <1>3, <1>4

-----------------------------------------------------------------------------
(* Addresses *)

Email(e) == e = [address |-> e.address, upper |-> e.upper]

\* Lowercased addresses are equal exactly when the addresses are, however spelt.
LEMMA SameAddress ==
  ASSUME NEW e, NEW f, Email(e), Email(f)
  PROVE  Lower(e).address = e.address /\ (e.address = f.address <=> Lower(e) = Lower(f))
<1>1. ASSUME NEW x, NEW address, NEW upper, NEW new, x = [address |-> address, upper |-> upper]
      PROVE  [x EXCEPT !.upper = new] = [address |-> address, upper |-> new]
  <2> DEFINE y == [x EXCEPT !.upper = new]
  <2>1. DOMAIN x = {"address", "upper"} /\ x.address = address
    BY <1>1
  <2>2. y = [k \in {"address", "upper"} |-> IF k = "upper" THEN new ELSE x[k]]
    BY <2>1
  <2> QED
    BY <2>1, <2>2
<1>2. ASSUME NEW x, Email(x) PROVE Lower(x) = [address |-> x.address, upper |-> FALSE]
  <2>1. ASSUME NEW new PROVE [x EXCEPT !.upper = new] = [address |-> x.address, upper |-> new]
    BY <1>1, <1>2 DEF Email
  <2> QED
    BY <2>1, Zenon DEF Lower
<1>3. /\ Lower(e) = [address |-> e.address, upper |-> FALSE]
      /\ Lower(f) = [address |-> f.address, upper |-> FALSE]
  BY <1>2
<1>4. Lower(e).address = e.address /\ Lower(f).address = f.address
  BY <1>3
<1> QED
  BY <1>3, <1>4

\* Accounts and orders have e-mails.
LEMMA Emails ==
  ASSUME Typed
  PROVE  /\ \A c \in Commands : pc[c] = "done" /\ order[c].op = "create-user" => Email(order[c].email)
         /\ \A l \in Calls : order[l].op = "login" => Email(order[l].email)
<1> USE AccountsConstants DEF AccountsConstants
<1>1. ASSUME NEW c \in Commands, pc[c] = "done", order[c].op = "create-user" PROVE Email(order[c].email)
  <2>1. order[c] \in Orders[c] /\ c \in Processes
    BY <1>1 DEF Typed, CommandOK, Processes
  <2> QED
    BY <1>1, <2>1 DEF Email
<1>2. ASSUME NEW l \in Calls, order[l].op = "login" PROVE Email(order[l].email)
  <2>1. order[l] \in Orders[l] /\ l \in Processes
    BY <1>2 DEF Typed, CallOK, Processes
  <2> QED
    BY <1>2, <2>1 DEF Email
<1> QED
  BY <1>1, <1>2

\* Accounts have addresses of their own.
LEMMA AccountAddresses ==
  ASSUME Typed, Origins PROVE OneAccountPerAddress
<1> SUFFICES ASSUME NEW a \in accounts, NEW b \in accounts, a.email.address = b.email.address PROVE a = b
  BY DEF OneAccountPerAddress
<1> DEFINE e == order[a.id].email
           f == order[b.id].email
<1>1. Email(e) /\ Email(f) /\ a.email = Lower(e) /\ b.email = Lower(f)
  BY Emails DEF Origins, AccountRows, Typed, TypeOK
<1> HIDE DEF e, f
<1>2. Lower(e) = Lower(f)
  BY <1>1, SameAddress
<1> QED
  BY <1>1, <1>2 DEF Origins, AccountRows

\* A command that gave an address a password has made the account.
LEMMA GivenAccount ==
  ASSUME Typed, Origins, NEW l \in Calls, order[l].op = "login", NEW c \in Gave(order[l]), pc[c] = "done"
  PROVE  \E a \in AccountsOf(order[l].email) : Matches(a, order[l].password)
<1>1. c \in Commands /\ order[c].op = "create-user" /\ order[c].password = order[l].password
      /\ order[c].email.address = order[l].email.address
  BY DEF Gave
<1>2. PICK a \in accounts : a.id = c
  BY <1>1 DEF Origins, AccountRows
<1>3. a.email = Lower(order[c].email) /\ a.password = order[c].password
  BY <1>2 DEF Origins, AccountRows
<1>4. Lower(order[c].email) = Lower(order[l].email)
  <2>1. Email(order[c].email) /\ Email(order[l].email)
    BY <1>1, Emails
  <2> QED
    BY <1>1, <2>1, SameAddress
<1> QED
  BY <1>1, <1>3, <1>4 DEF AccountsOf, Matches

\* An account with the password was made by a command that gave it.
LEMMA AccountGiven ==
  ASSUME Typed, Origins, NEW l \in Calls, order[l].op = "login",
         NEW a \in AccountsOf(order[l].email), Matches(a, order[l].password)
  PROVE  \E c \in Gave(order[l]) : pc[c] = "done"
<1> DEFINE c == a.id
<1>1. /\ c \in Commands /\ pc[c] = "done" /\ order[c].op = "create-user"
      /\ Lower(order[c].email) = Lower(order[l].email) /\ order[c].password = order[l].password
  BY DEF AccountsOf, Matches, Origins, AccountRows, Typed, TypeOK
<1>2. order[c].email.address = order[l].email.address
  <2>1. Email(order[c].email) /\ Email(order[l].email)
    BY <1>1, Emails
  <2> QED
    BY <1>1, <2>1, SameAddress
<1>3. c \in Gave(order[l])
  BY <1>1, <1>2 DEF Gave
<1> QED
  BY <1>1, <1>3

-----------------------------------------------------------------------------
(* What calls know *)

\* A login that is granted has seen the account; one that is refused has not,
\* though all the commands that were done when it came had made theirs.
LoginKnows(l) == order[l].op = "login" =>
  /\ pc[l] \in {"granting", "done"} => \E a \in AccountsOf(order[l].email) : Matches(a, order[l].password)
  /\ \A c \in before[l].done : c \in Commands /\ pc[c] = "done"
  /\ pc[l] = "unauthorized" => Gave(order[l]) \cap before[l].done = {}

\* A push is its agent's.
PushKnows(p) == order[p].op = "push" /\ pc[p] \in {"resolved", "done"} =>
  [key |-> tokens[p][1], tenant |-> tenant[p]] \in agents

\* A read has tried its tokens in order.
ReadKnows(p) == order[p].op \in Reading =>
  LET i == Len(now[p]) IN
  /\ \A j \in 1..Len(tokens[p]) : Issued(tokens[p][j])
  /\ pc[p] = "sessions" => \A a \in agents : a.key # tokens[p][i]
  /\ pc[p] \in {"resolved", "done", "not_found"} =>
       Good(tokens[p][i], now[p][i]) /\ tenant[p] = TenantOf(tokens[p][i])
  /\ pc[p] = "unauthorized" => i = Len(tokens[p]) /\ ~Good(tokens[p][i], now[p][i])
  /\ p \notin tripped => \A j \in 1..(i - 1) : ~Good(tokens[p][j], now[p][j])

\* It has seen rows of its tenant, and then it is done.
SawOwn(p) ==
  /\ \A r \in saw[p] : r.tenant = tenant[p]
  /\ saw[p] # {} => order[p].op \in Reading /\ pc[p] = "done"

Knows(p) == LoginKnows(p) /\ PushKnows(p) /\ ReadKnows(p) /\ SawOwn(p)

\* Nor does what is known of a token it presents.
LEMMA ItsTokensStay ==
  ASSUME Typed, Typed', Origins, Origins', [Next]_vars, NEW p \in Calls, ReadKnows(p),
         order[p].op \in Reading, tokens'[p] = tokens[p], NEW j \in 1..Len(tokens[p])
  PROVE  /\ Issued(tokens[p][j])'
         /\ (\E a \in agents' : a.key = tokens[p][j]) => \E a \in agents : a.key = tokens[p][j]
         /\ \A t : Good(tokens[p][j], t)' <=> Good(tokens[p][j], t)
         /\ \A t : Good(tokens[p][j], t) => TenantOf(tokens[p][j])' = TenantOf(tokens[p][j])
<1> SUFFICES ASSUME NEW token, token = tokens[p][j]
             PROVE  /\ Issued(token)'
                    /\ (\E a \in agents' : a.key = token) => \E a \in agents : a.key = token
                    /\ \A t : Good(token, t)' <=> Good(token, t)
                    /\ \A t : Good(token, t) => TenantOf(token)' = TenantOf(token)
  OBVIOUS
<1> QED
  BY TokensStay DEF ReadKnows

\* What a call knows it goes on knowing while others move.
LEMMA KnowsStays ==
  ASSUME Typed, Typed', Origins, Origins', [Next]_vars, NEW p \in Calls, Knows(p), Same(p)
  PROVE  Knows(p)'
<1> USE DEF Same, Knows
<1>0. accounts \subseteq accounts' /\ agents \subseteq agents'
  BY TablesGrow DEF Grow
<1>1. LoginKnows(p)'
  <2>1. \A c \in Commands : pc[c] = "done" => pc'[c] = "done" /\ order'[c] = order[c]
    BY EndedStay DEF Processes, Ended
  <2> QED
    BY <1>0, <2>1 DEF LoginKnows, AccountsOf, Matches, Gave
<1>2. PushKnows(p)'
  BY <1>0 DEF PushKnows
<1>3. ReadKnows(p)'
  <2> SUFFICES ASSUME order[p].op \in Reading PROVE ReadKnows(p)'
    BY DEF ReadKnows
  <2> DEFINE i == Len(now[p])
  <2>1. i \in 1..Len(tokens[p]) /\ Len(tokens[p]) \in Nat
    BY DEF Typed, CallOK, LocalsOK, Processes
  <2>2. \A j \in 1..Len(tokens[p]) :
          /\ Issued(tokens[p][j])'
          /\ (\E a \in agents' : a.key = tokens[p][j]) => \E a \in agents : a.key = tokens[p][j]
          /\ \A t : Good(tokens[p][j], t)' <=> Good(tokens[p][j], t)
          /\ \A t : Good(tokens[p][j], t) => TenantOf(tokens[p][j])' = TenantOf(tokens[p][j])
    BY ItsTokensStay
  <2>3. pc[p] = "sessions" => \A a \in agents' : a.key # tokens[p][i]
    BY <2>1, <2>2 DEF ReadKnows
  <2>4. pc[p] \in {"resolved", "done", "not_found"} =>
          Good(tokens[p][i], now[p][i])' /\ tenant[p] = TenantOf(tokens[p][i])'
    BY <2>1, <2>2 DEF ReadKnows
  <2>5. pc[p] = "unauthorized" => i = Len(tokens[p]) /\ ~Good(tokens[p][i], now[p][i])'
    BY <2>1, <2>2 DEF ReadKnows
  <2>6. p \notin tripped => \A j \in 1..(i - 1) : ~Good(tokens[p][j], now[p][j])'
    <3> SUFFICES ASSUME p \notin tripped, NEW j \in 1..(i - 1) PROVE ~Good(tokens[p][j], now[p][j])'
      OBVIOUS
    <3>1. j \in 1..Len(tokens[p])
      BY <2>1
    <3> QED
      BY <2>2, <3>1 DEF ReadKnows
  <2> QED
    BY <2>2, <2>3, <2>4, <2>5, <2>6 DEF ReadKnows
<1>4. SawOwn(p)'
  BY DEF SawOwn
<1> QED
  BY <1>1, <1>2, <1>3, <1>4

\* A login comes to know what it should.
LEMMA LoginMoves ==
  ASSUME Typed, Typed', Origins, NEW p \in Calls, Knows(p), AskLogin(p) \/ FindAccount(p) \/ Grant(p)
  PROVE  Knows(p)'
<1> USE AccountsConstants DEF AccountsConstants
<1>0. /\ p \in Processes /\ order'[p].op = "login" /\ saw'[p] = {}
      /\ \A c \in Commands : c \in Processes /\ pc'[c] = pc[c] /\ order'[c] = order[c]
  <2>1. p \in Processes /\ p \notin Commands /\ Moves(p)
    BY DEF Processes, Moves, Call
  <2>2. \A c \in Commands : c \in Processes /\ pc'[c] = pc[c] /\ order'[c] = order[c]
    BY <2>1, OneMoves DEF Same, Processes
  <2>3. pc[p] \in {"idle", "looking", "granting"} /\ saw' = saw
    BY DEF AskLogin, FindAccount, Grant, Step, locals
  <2>4. saw[p] = {}
    BY <2>3 DEF Knows, SawOwn
  <2>5. order'[p].op = "login"
    <3>1. CASE AskLogin(p)
      BY <2>1, <3>1 DEF AskLogin, Typed, LocalsOK
    <3>2. CASE FindAccount(p) \/ Grant(p)
      BY <3>2 DEF FindAccount, Grant, Step, locals, Typed, CallOK
    <3> QED
      BY <3>1, <3>2
  <2> QED
    BY <2>1, <2>2, <2>3, <2>4, <2>5
<1>1. LoginKnows(p)'
  <2>1. CASE AskLogin(p)
    <3>1. pc'[p] = "looking" /\ before'[p].done = {c \in Commands : pc[c] = "done"}
      BY <1>0, <2>1 DEF AskLogin, Step, Typed, TypeOK, LocalsOK
    <3> QED
      BY <1>0, <3>1 DEF LoginKnows
  <2>2. CASE FindAccount(p)
    <3>1. /\ order' = order /\ accounts' = accounts /\ before' = before
          /\ pc'[p] = IF \E a \in AccountsOf(order[p].email) : Matches(a, order[p].password)
                      THEN "granting" ELSE "unauthorized"
      BY <1>0, <2>2 DEF FindAccount, Step, tables, locals, history, Typed, TypeOK
    <3>2. \A c \in before[p].done : c \in Commands /\ pc[c] = "done"
      BY <1>0, <3>1 DEF Knows, LoginKnows
    <3>3. ASSUME NEW c \in Gave(order[p]) \cap before[p].done
          PROVE  \E a \in AccountsOf(order[p].email) : Matches(a, order[p].password)
      BY <1>0, <3>1, <3>2, GivenAccount
    <3> QED
      BY <1>0, <3>1, <3>2, <3>3 DEF LoginKnows, AccountsOf, Matches, Gave
  <2>3. CASE Grant(p)
    <3>1. order' = order /\ accounts' = accounts /\ before' = before /\ pc[p] = "granting" /\ pc'[p] = "done"
      BY <1>0, <2>3 DEF Grant, Step, locals, history, Typed, TypeOK
    <3> QED
      BY <1>0, <3>1 DEF Knows, LoginKnows, AccountsOf, Matches
  <2> QED
    BY <2>1, <2>2, <2>3
<1> QED
  BY <1>0, <1>1 DEF Knows, PushKnows, ReadKnows, SawOwn, Reading

\* A call that asks knows nothing yet.
LEMMA AskMoves ==
  ASSUME Typed, Typed', Origins, Origins', [Next]_vars, NEW p \in Calls, Knows(p), Ask(p)
  PROVE  Knows(p)'
<1>0. PICK o \in Orders[p] :
        /\ o.op # "login" /\ order'[p] = o /\ pc'[p] = "keys" /\ saw'[p] = {} /\ pc[p] = "idle"
        /\ \E ts \in Presentable(o) : tokens'[p] = ts
        /\ IF o.op = "push" THEN UNCHANGED now ELSE ReadClock(p)
  BY DEF Ask, Step, Typed, TypeOK, LocalsOK, Processes, Knows, SawOwn
<1>1. PICK ts \in Presentable(o) : tokens'[p] = ts
  BY <1>0
<1>2. ReadKnows(p)'
  <2> SUFFICES ASSUME order'[p].op \in Reading PROVE ReadKnows(p)'
    BY DEF ReadKnows
  <2>1. OneMore(p) /\ Len(now[p]) = 0
    BY <1>0, ClockRead DEF Reading, Processes, Typed, CallOK
  <2>2. ASSUME NEW j \in 1..Len(ts) PROVE Issued(ts[j])'
    <3>1. ts[j] \in HandedOut \cup {Junk}
      BY Tokens
    <3>2. ASSUME NEW token, token = ts[j] PROVE Issued(token)'
      BY <3>1, <3>2, TokensStay DEF Issued
    <3> QED
      BY <3>2
  <2>3. Len(now'[p]) = 1
    BY <2>1 DEF OneMore
  <2> QED
    BY <1>0, <1>1, <2>2, <2>3 DEF ReadKnows
<1> QED
  BY <1>0, <1>2 DEF Knows, LoginKnows, PushKnows, SawOwn

\* A token is good for the tenant it resolves to, and one that is passed over
\* is not.
LEMMA TokenTried ==
  ASSUME Typed, Origins, NEW p \in Calls, Knows(p), order[p].op \in Reading, NEW i, i = Len(now[p])
  PROVE  /\ Token(p) = tokens[p][i]
         /\ \A a \in agents : a.key = Token(p) =>
              Good(tokens[p][i], now[p][i]) /\ a.tenant = TenantOf(tokens[p][i])
         /\ \A a \in SessionAccounts(p) :
              Good(tokens[p][i], now[p][i]) /\ a.tenant = TenantOf(tokens[p][i])
         /\ pc[p] = "sessions" /\ SessionAccounts(p) = {} => ~Good(tokens[p][i], now[p][i])
<1>0. KeysExact /\ SessionsExact
  BY TenantOfKey, TenantOfSession
<1>1. Token(p) = tokens[p][i]
  BY DEF Token, Reading
<1>2. ASSUME NEW a \in agents, a.key = Token(p)
      PROVE  Good(tokens[p][i], now[p][i]) /\ a.tenant = TenantOf(tokens[p][i])
  BY <1>0, <1>1, <1>2 DEF KeysExact, Good
<1>3. ASSUME NEW a \in SessionAccounts(p)
      PROVE  Good(tokens[p][i], now[p][i]) /\ a.tenant = TenantOf(tokens[p][i])
  <2>1. PICK s \in sessions : s.token = tokens[p][i] /\ s.account = a.id /\ s.expires > now[p][i]
    BY <1>1 DEF SessionAccounts, Live
  <2>2. a \in accounts /\ s.expires = now[tokens[p][i]][1] + TTL
    BY <2>1 DEF SessionAccounts, Origins, SessionRows
  <2>3. s.expires \in Nat /\ now[p][i] \in 0..MaxTime
    <3>1. now[p] \in Seq(0..MaxTime) /\ Len(now[p]) > 0
      BY DEF Typed, LocalsOK, CallOK, Processes
    <3>2. ASSUME NEW x \in Seq(0..MaxTime), Len(x) > 0 PROVE x[Len(x)] \in 0..MaxTime
      <4>1. Len(x) \in 1..Len(x)
        BY <3>2, LenProperties
      <4> QED
        BY <4>1, ElementOfSeq
    <3>3. now[p][i] \in 0..MaxTime
      BY <3>1, <3>2
    <3> QED
      BY <3>3 DEF Typed, TypeOK
  <2>4. now[p][i] < s.expires
    BY <2>1, <2>3
  <2> QED
    BY <1>0, <2>1, <2>2, <2>4 DEF SessionsExact, Good
<1>4. ASSUME pc[p] = "sessions", SessionAccounts(p) = {} PROVE ~Good(tokens[p][i], now[p][i])
  <2>1. \A a \in agents : a.key # tokens[p][i]
    BY <1>4 DEF Knows, ReadKnows
  <2>2. ASSUME NEW s \in sessions, s.token = tokens[p][i] PROVE ~(now[p][i] < now[tokens[p][i]][1] + TTL)
    <3>1. PICK a \in accounts : a.id = s.account
      BY DEF Origins, SessionRows
    <3>2. ~(s.expires > now[p][i])
      BY <1>1, <1>4, <2>2, <3>1 DEF SessionAccounts, Live
    <3>3. s.expires = now[tokens[p][i]][1] + TTL
      BY <2>2 DEF Origins, SessionRows
    <3> QED
      BY <3>2, <3>3
  <2> QED
    BY <2>1, <2>2 DEF Good
<1> QED
  BY <1>1, <1>2, <1>3, <1>4

\* What a read knows when it tries the next token.
LEMMA NextToken ==
  ASSUME Typed, Typed', Origins, Origins', [Next]_vars, NEW p \in Calls, Knows(p), order[p].op \in Reading,
         UNCHANGED <<order, tokens>>, OneMore(p), pc'[p] = "keys", saw'[p] = {},
         \/ p \in tripped'
         \/ (p \in tripped' <=> p \in tripped) /\ ~Good(tokens[p][Len(now[p])], now[p][Len(now[p])])
  PROVE  Knows(p)'
<1> DEFINE i == Len(now[p])
<1>0. i \in 1..Len(tokens[p]) /\ Len(tokens[p]) \in Nat /\ Len(now'[p]) = i + 1
      /\ \A j \in 1..i : now'[p][j] = now[p][j]
  BY DEF OneMore, Typed, CallOK, LocalsOK, Processes
<1>1. \A j \in 1..Len(tokens[p]) :
        /\ Issued(tokens[p][j])'
        /\ \A t : Good(tokens[p][j], t)' <=> Good(tokens[p][j], t)
  BY ItsTokensStay DEF Knows
<1>2. ASSUME p \notin tripped', NEW j \in 1..i PROVE ~Good(tokens[p][j], now[p][j])'
  <2>1. ~Good(tokens[p][j], now[p][j])
    BY <1>0, <1>2 DEF Knows, ReadKnows
  <2>2. j \in 1..Len(tokens[p]) /\ now'[p][j] = now[p][j]
    BY <1>0
  <2> QED
    BY <1>1, <2>1, <2>2
<1>3. p \notin tripped' => \A j \in 1..(Len(now'[p]) - 1) : ~Good(tokens[p][j], now[p][j])'
  BY <1>0, <1>2
<1> QED
  BY <1>1, <1>3 DEF Knows, LoginKnows, PushKnows, ReadKnows, SawOwn, Reading

\* Nothing it stands on changes when it reads the tables or ends.
LEMMA TokensSame ==
  ASSUME UNCHANGED <<tables, tokens, now>>, NEW p, NEW i
  PROVE  /\ Good(tokens[p][i], now[p][i])' <=> Good(tokens[p][i], now[p][i])
         /\ TenantOf(tokens[p][i])' = TenantOf(tokens[p][i])
BY DEF Good, TenantOf, tables

\* A call that resolves its token, or is refused, and a read that goes on from
\* the keys to the sessions.
LEMMA TryMoves ==
  ASSUME Typed, Typed', Origins, Origins', [Next]_vars, NEW p \in Calls, Knows(p), TryKey(p) \/ TrySession(p)
  PROVE  Knows(p)'
<1>0. /\ p \in Processes /\ UNCHANGED <<tables, order, tokens, saw, history>>
      /\ pc[p] \in {"keys", "sessions"} /\ saw'[p] = {} /\ saw[p] = {}
      /\ order[p].op = "push" \/ order[p].op \in Reading
  <2>1. p \in Processes /\ UNCHANGED <<tables, order, tokens, saw, history>> /\ pc[p] \in {"keys", "sessions"}
    BY DEF TryKey, TrySession, Processes
  <2>2. order[p] \in Orders[p] /\ order[p].op # "login"
    BY <2>1 DEF Typed, CallOK
  <2> QED
    BY <2>1, <2>2, AccountsConstants DEF AccountsConstants, Reading, Knows, SawOwn
<1> DEFINE i == Len(now[p])
<1>1. CASE order[p].op = "push"
  <2>1. pc[p] = "keys" /\ TryKey(p)
    BY <1>0, <1>1 DEF TrySession, Typed, CallOK
  <2>2. CASE pc'[p] = "resolved"
    <3>1. PICK a \in agents : a.key = tokens[p][1] /\ tenant'[p] = a.tenant
      BY <1>0, <1>1, <2>1, <2>2 DEF TryKey, Token, Step, Typed, TypeOK
    <3>2. a = [key |-> tokens[p][1], tenant |-> tenant'[p]]
      BY <3>1 DEF Origins, AgentRows
    <3>3. PushKnows(p)'
      BY <1>0, <3>1, <3>2 DEF PushKnows, tables
    <3> QED
      BY <1>0, <1>1, <3>3 DEF Knows, LoginKnows, ReadKnows, SawOwn, Reading
  <2>3. CASE pc'[p] = "unauthorized"
    BY <1>0, <1>1, <2>3 DEF Knows, LoginKnows, PushKnows, ReadKnows, SawOwn, Reading
  <2>4. pc'[p] \in {"resolved", "unauthorized"}
    BY <1>0, <1>1, <2>1 DEF TryKey, Step, Typed, TypeOK
  <2> QED
    BY <2>2, <2>3, <2>4
<1>2. CASE order[p].op \in Reading
  <2>1. /\ Token(p) = tokens[p][i]
        /\ \A a \in agents : a.key = Token(p) =>
             Good(tokens[p][i], now[p][i]) /\ a.tenant = TenantOf(tokens[p][i])
        /\ \A a \in SessionAccounts(p) :
             Good(tokens[p][i], now[p][i]) /\ a.tenant = TenantOf(tokens[p][i])
        /\ pc[p] = "sessions" /\ SessionAccounts(p) = {} => ~Good(tokens[p][i], now[p][i])
    BY <1>2, TokenTried
  <2>2. ASSUME now' = now,
               \/ pc'[p] = "resolved" /\ Good(tokens[p][i], now[p][i]) /\ tenant'[p] = TenantOf(tokens[p][i])
               \/ pc'[p] = "sessions" /\ \A a \in agents : a.key # tokens[p][i]
               \/ pc'[p] = "unauthorized" /\ i = Len(tokens[p]) /\ ~Good(tokens[p][i], now[p][i])
        PROVE  Knows(p)'
    <3>1. /\ \A j : Good(tokens[p][j], now[p][j])' <=> Good(tokens[p][j], now[p][j])
          /\ \A j : TenantOf(tokens[p][j])' = TenantOf(tokens[p][j])
      BY <1>0, <2>2, TokensSame
    <3>2. \A j \in 1..Len(tokens[p]) : Issued(tokens[p][j])'
      BY <1>0, <1>2, ItsTokensStay DEF Knows
    <3>3. agents' = agents /\ tripped' = tripped
      BY <1>0 DEF tables, history
    <3>4. p \notin tripped => \A j \in 1..(i - 1) : ~Good(tokens[p][j], now[p][j])
      BY <1>2 DEF Knows, ReadKnows
    <3>5. ReadKnows(p)'
      BY <1>0, <2>2, <3>1, <3>2, <3>3, <3>4 DEF ReadKnows
    <3> QED
      BY <1>0, <1>2, <3>5 DEF Knows, LoginKnows, PushKnows, SawOwn, Reading
  <2>3. CASE TryKey(p)
    <3>1. CASE \E a \in agents : a.key = Token(p) /\ pc'[p] = "resolved" /\ tenant'[p] = a.tenant
      BY <2>1, <2>2, <2>3, <3>1 DEF TryKey
    <3>2. CASE pc'[p] = "sessions" /\ \A a \in agents : a.key # Token(p)
      BY <2>1, <2>2, <2>3, <3>2 DEF TryKey
    <3> QED
      BY <1>0, <1>2, <2>3, <3>1, <3>2 DEF TryKey, Step, Reading, Typed, TypeOK
  <2>4. CASE TrySession(p)
    <3>1. CASE \E a \in SessionAccounts(p) : pc'[p] = "resolved" /\ tenant'[p] = a.tenant /\ now' = now
      BY <2>1, <2>2, <3>1
    <3>2. CASE SessionAccounts(p) = {} /\ pc'[p] = "keys" /\ ReadClock(p)
      <4>1. ~Good(tokens[p][i], now[p][i]) /\ OneMore(p) /\ tripped' = tripped
        BY <1>0, <2>1, <2>4, <3>2, ClockRead DEF TrySession, history
      <4> QED
        BY <1>0, <1>2, <3>2, <4>1, NextToken
    <3>3. CASE SessionAccounts(p) = {} /\ pc'[p] = "unauthorized" /\ i = Len(tokens[p]) /\ now' = now
      BY <2>1, <2>2, <2>4, <3>3 DEF TrySession
    <3> QED
      BY <1>0, <2>4, <3>1, <3>2, <3>3 DEF TrySession, Step, Typed, TypeOK, LocalsOK
  <2> QED
    BY <2>3, <2>4
<1> QED
  BY <1>0, <1>1, <1>2

\* A call that is answered, once its token is resolved.
LEMMA AnswerMoves ==
  ASSUME Typed, Typed', Origins, Origins', [Next]_vars, NEW p \in Calls, Knows(p),
         Push(p) \/ List(p) \/ Reach(p)
  PROVE  Knows(p)'
<1>0. /\ p \in Processes /\ UNCHANGED <<agents, accounts, sessions, order, tokens, now, tenant, history>>
      /\ pc[p] = "resolved" /\ pc'[p] \in {"done", "not_found"} /\ saw[p] = {}
      /\ order[p].op # "login"
  <2>1. /\ p \in Processes /\ UNCHANGED <<agents, accounts, sessions, order, tokens, now, tenant, history>>
        /\ pc[p] = "resolved" /\ order[p].op # "login"
    BY DEF Push, List, Reach, Step, locals, tables, Processes
  <2>2. pc'[p] \in {"done", "not_found"}
    BY <2>1 DEF Push, List, Reach, Step, Typed, TypeOK
  <2> QED
    BY <2>1, <2>2 DEF Knows, SawOwn
<1>1. LoginKnows(p)' /\ PushKnows(p)'
  BY <1>0 DEF Knows, LoginKnows, PushKnows
<1>2. ReadKnows(p)'
  <2> SUFFICES ASSUME order[p].op \in Reading PROVE ReadKnows(p)'
    BY <1>0 DEF ReadKnows
  <2>1. \A j : Good(tokens[p][j], now[p][j])' <=> Good(tokens[p][j], now[p][j])
    BY <1>0 DEF Good
  <2>2. \A j : TenantOf(tokens[p][j])' = TenantOf(tokens[p][j])
    BY <1>0 DEF TenantOf
  <2>3. \A j \in 1..Len(tokens[p]) : Issued(tokens[p][j])'
    BY <1>0, ItsTokensStay DEF Knows
  <2> QED
    BY <1>0, <2>1, <2>2, <2>3 DEF Knows, ReadKnows, history
<1>3. SawOwn(p)'
  <2>1. CASE Push(p)
    <3>1. saw'[p] = {}
      BY <1>0, <2>1 DEF Push, locals
    <3> QED
      BY <3>1 DEF SawOwn
  <2>2. CASE List(p)
    <3>1. pc'[p] = "done" /\ order[p].op \in Reading /\ \A r \in saw'[p] : r.tenant = tenant[p]
      BY <1>0, <2>2 DEF List, Step, Own, Reading, Typed, TypeOK, LocalsOK
    <3> QED
      BY <1>0, <3>1 DEF SawOwn
  <2>3. CASE Reach(p)
    <3>1. order[p].op \in Reading /\ \A r \in saw'[p] : r.tenant = tenant[p] /\ pc'[p] = "done"
      BY <1>0, <2>3 DEF Reach, Step, Own, Reading, Typed, TypeOK, LocalsOK
    <3> QED
      BY <1>0, <3>1 DEF SawOwn
  <2> QED
    BY <2>1, <2>2, <2>3
<1> QED
  BY <1>1, <1>2, <1>3 DEF Knows

\* A call that fails, or trips over an error.
LEMMA FaultMoves ==
  ASSUME Typed, Typed', Origins, Origins', [Next]_vars, NEW p \in Calls, Knows(p), Fail(p) \/ Trip(p)
  PROVE  Knows(p)'
<1>0. p \in Processes /\ pc[p] \notin Ended /\ saw'[p] = {}
  BY DEF Fail, Trip, Processes, Ended, Knows, SawOwn
<1>1. CASE Fail(p)
  <2>1. order'[p].op = "none"
    BY <1>0, <1>1 DEF Fail, Typed, LocalsOK
  <2> QED
    BY <1>0, <2>1 DEF Knows, LoginKnows, PushKnows, ReadKnows, SawOwn, Reading
<1>2. CASE Trip(p)
  <2>1. /\ UNCHANGED <<order, tokens>> /\ pc'[p] = "keys" /\ p \in tripped' /\ OneMore(p)
        /\ order[p].op \in Reading
    BY <1>0, <1>2, ClockRead DEF Trip, Reading, Typed, TypeOK
  <2> QED
    BY <1>0, <2>1, NextToken
<1> QED
  BY <1>1, <1>2

\* Every step keeps what a call knows true.
LEMMA KnowsStep ==
  ASSUME Typed, Typed', Origins, Origins', [Next]_vars, \A p \in Calls : Knows(p)
  PROVE  \A p \in Calls : Knows(p)'
<1> SUFFICES ASSUME NEW p \in Calls PROVE Knows(p)'
  OBVIOUS
<1>1. CASE Same(p)
  BY <1>1, KnowsStays
<1>2. CASE Moves(p)
  <2>1. p \notin Commands
    BY AccountsConstants DEF AccountsConstants
  <2> QED
    BY <1>2, <2>1, LoginMoves, AskMoves, TryMoves, AnswerMoves, FaultMoves DEF Moves, Call
<1>3. CASE Tick \/ UNCHANGED vars
  <2>1. UNCHANGED <<pc, order, tokens, now, tenant, saw, before, tripped>>
    BY <1>3 DEF Tick, vars, tables, locals, history
  <2> QED
    BY <1>1, <2>1 DEF Same
<1>4. ASSUME NEW q \in Processes \ {p}, Moves(q) PROVE Same(p)
  BY <1>4, OneMoves DEF Processes
<1> QED
  BY <1>1, <1>2, <1>3, <1>4, NextIsMove

-----------------------------------------------------------------------------
(* Rows and their tenants *)

\* A network was pushed with the key of an agent of its tenant.
NetworkRows ==
  \A r \in rows : r.kind = "network" =>
    \E p \in Calls : /\ order[p].op = "push" /\ pc[p] = "done"
                     /\ [key |-> tokens[p][1], tenant |-> r.tenant] \in agents

\* Every step keeps networks with the tenants of their agents.
LEMMA NetworkRowsStep ==
  ASSUME Typed, NetworkRows, \A p \in Calls : Knows(p), [Next]_vars
  PROVE  NetworkRows'
<1>1. ASSUME NEW r \in rows, r.kind = "network"
      PROVE  \E p \in Calls : /\ order'[p].op = "push" /\ pc'[p] = "done"
                              /\ [key |-> tokens'[p][1], tenant |-> r.tenant] \in agents'
  <2>1. PICK p \in Calls : /\ order[p].op = "push" /\ pc[p] = "done"
                           /\ [key |-> tokens[p][1], tenant |-> r.tenant] \in agents
    BY <1>1 DEF NetworkRows
  <2> QED
    BY <2>1, EndedStay, TablesGrow DEF Same, Ended, Grow, Processes
<1>2. CASE UNCHANGED rows
  BY <1>1, <1>2 DEF NetworkRows
<1>3. ASSUME NEW c \in Commands, InsertChannel(c) PROVE NetworkRows'
  BY <1>1, <1>3 DEF InsertChannel, NetworkRows
<1>4. ASSUME NEW p \in Calls, Push(p) PROVE NetworkRows'
  <2>1. /\ order'[p].op = "push" /\ pc'[p] = "done" /\ pc[p] = "resolved"
        /\ UNCHANGED <<agents, tokens, order>>
    BY <1>4 DEF Push, Step, locals, Typed, TypeOK, Processes
  <2>2. [key |-> tokens'[p][1], tenant |-> tenant[p]] \in agents'
    BY <2>1 DEF Knows, PushKnows
  <2>3. \A r \in rows' : r \in rows \/ r.tenant = tenant[p]
    BY <1>4 DEF Push
  <2> QED
    BY <1>1, <2>1, <2>2, <2>3 DEF NetworkRows
<1> QED
  BY <1>2, <1>3, <1>4, WhoInserts

-----------------------------------------------------------------------------
(* The household *)

Homed(id) == \E t \in tenants : t.id = id

\* Commands that do not overlap make at most one tenant,
OneTenant ==
  /\ \A c, d \in Commands : Running(c) /\ Running(d) => c = d
  /\ \A t, u \in tenants : t = u
  /\ \A c \in Commands : pc[c] = "making" => tenants = {}

\* everything is in it,
AllHomed ==
  /\ \A c \in Commands : pc[c] = "inserting" => Homed(tenant[c])
  /\ \A a \in agents : Homed(a.tenant)
  /\ \A a \in accounts : Homed(a.tenant)
  /\ \A r \in rows : Homed(r.tenant)
  /\ \A p \in Calls : pc[p] = "resolved" => Homed(tenant[p])

\* and a list shows all of it.
AllShown ==
  \A p \in Calls : order[p].op \in {"network", "channel"} =>
    /\ \A r \in before[p].rows : r \in rows /\ r.kind = order[p].op
    /\ pc[p] = "done" => before[p].rows \subseteq saw[p]

Household == ~overlapped => OneTenant /\ AllHomed /\ AllShown

\* Only Run starts a command.
LEMMA KeepsRunning ==
  ASSUME Typed, [Next]_vars, NEW c \in Commands, Running(c)', ~Run(c)
  PROVE  Running(c)
<1>1. c \in Processes /\ c \notin Calls
  BY AccountsConstants DEF AccountsConstants, Processes
<1>2. CASE Same(c)
  BY <1>2 DEF Same, Running
<1>3. CASE Moves(c)
  <2>1. ~Fail(c) /\ Command(c)
    BY <1>1, <1>3 DEF Moves, Fail, Running, Typed, TypeOK
  <2>2. ~InsertAgent(c) /\ ~InsertAccount(c) /\ ~InsertChannel(c)
    BY <1>1 DEF InsertAgent, InsertAccount, InsertChannel, Step, Running, Typed, TypeOK
  <2>3. CASE FindTenant(c) \/ MakeTenant(c)
    BY <2>3 DEF FindTenant, MakeTenant, Step, Running
  <2> QED
    BY <2>1, <2>2, <2>3 DEF Command
<1>4. CASE Tick \/ UNCHANGED vars
  BY <1>4 DEF Tick, vars, Running
<1> QED
  BY <1>1, <1>2, <1>3, <1>4, NextIsMove, OneMoves

\* The process that moves, for a process that does not stay.
LEMMA WhoChanged ==
  ASSUME Typed, [Next]_vars, NEW p \in Processes, ~Same(p)
  PROVE  Moves(p)
<1>1. CASE Tick \/ UNCHANGED vars
  <2>1. UNCHANGED <<pc, order, tokens, now, tenant, saw, before, tripped>>
    BY <1>1 DEF Tick, vars, tables, locals, history
  <2> QED
    BY <2>1 DEF Same
<1> QED
  BY <1>1, NextIsMove, OneMoves

\* Commands that do not overlap make one tenant.
LEMMA OneTenantStep ==
  ASSUME Typed, OneTenant, [Next]_vars, ~overlapped'
  PROVE  OneTenant'
<1>0. \A c \in Commands : c \in Processes /\ c \notin Calls
  BY AccountsConstants DEF AccountsConstants, Processes
<1>1. ASSUME NEW c \in Commands, NEW d \in Commands, Running(c)', Running(d)' PROVE c = d
  <2>1. ASSUME NEW a \in Commands, NEW b \in Commands, Run(a), Running(b)' PROVE b = a
    <3>1. ~Running(b)
      BY <2>1 DEF Run
    <3> QED
      BY <1>0, <2>1, <3>1, OneMoves DEF Same, Running, Moves, Command
  <2> QED
    BY <1>1, <2>1, KeepsRunning DEF OneTenant
<1>2. \A t, u \in tenants' : t = u
  <2>1. ASSUME NEW c \in Commands, MakeTenant(c) PROVE tenants = {}
    BY <2>1 DEF MakeTenant, Step, OneTenant
  <2> QED
    BY <2>1, WhoInserts DEF MakeTenant, OneTenant
<1>3. ASSUME NEW c \in Commands, pc'[c] = "making" PROVE tenants' = {}
  <2>1. CASE Same(c)
    <3>1. pc[c] = "making" /\ tenants = {}
      BY <1>3, <2>1 DEF Same, OneTenant
    <3>2. ASSUME NEW d \in Commands, MakeTenant(d) PROVE FALSE
      <4>1. d = c
        BY <3>1, <3>2 DEF MakeTenant, Step, OneTenant, Running
      <4> QED
        BY <1>0, <1>3, <3>2, <4>1 DEF MakeTenant, Step, Typed, TypeOK
    <3> QED
      BY <3>1, <3>2, WhoInserts
  <2>2. CASE FindTenant(c)
    <3>1. Oldest = {} /\ tenants' = tenants
      BY <1>0, <1>3, <2>2 DEF FindTenant, Step, tables, Typed, TypeOK
    <3>2. ASSUME NEW t \in tenants PROVE t \in Oldest
      BY DEF OneTenant, Oldest, Typed, TypeOK
    <3> QED
      BY <3>1, <3>2
  <2>3. ASSUME ~Same(c) PROVE FindTenant(c)
    <3>1. Moves(c)
      BY <1>0, <2>3, WhoChanged
    <3>2. ~Fail(c) /\ Command(c)
      BY <1>0, <1>3, <3>1 DEF Moves, Fail, Typed, TypeOK
    <3>3. ~InsertAgent(c) /\ ~InsertAccount(c) /\ ~InsertChannel(c) /\ ~Run(c) /\ ~MakeTenant(c)
      BY <1>0, <1>3 DEF InsertAgent, InsertAccount, InsertChannel, Run, MakeTenant, Step, Typed, TypeOK
    <3> QED
      BY <3>2, <3>3 DEF Command
  <2> QED
    BY <2>1, <2>2, <2>3
<1> QED
  BY <1>1, <1>2, <1>3 DEF OneTenant

\* Commands that do not overlap put their rows under that tenant.
LEMMA AllHomedStep ==
  ASSUME Typed, AllHomed, [Next]_vars
  PROVE  AllHomed'
<1>0. /\ \A c \in Commands : c \in Processes /\ c \notin Calls
      /\ \A p \in Calls : p \in Processes /\ p \notin Commands
  BY AccountsConstants DEF AccountsConstants, Processes
<1>1. \A id : Homed(id) => Homed(id)'
  BY TablesGrow DEF Homed, Grow
<1>2. ASSUME NEW c \in Commands, pc'[c] = "inserting" PROVE Homed(tenant[c])'
  <2>1. CASE Same(c)
    BY <1>1, <1>2, <2>1 DEF Same, AllHomed, Homed
  <2>2. CASE FindTenant(c)
    <3>1. \E t \in tenants : tenant'[c] = t.id
      BY <1>0, <1>2, <2>2 DEF FindTenant, Oldest, Step, Typed, TypeOK
    <3> QED
      BY <3>1, TablesGrow DEF Homed, Grow
  <2>3. CASE MakeTenant(c)
    <3>1. tenant'[c] = c /\ [id |-> c, created |-> now[c][1]] \in tenants'
      BY <1>0, <2>3 DEF MakeTenant, Typed, TypeOK
    <3> QED
      BY <3>1 DEF Homed
  <2>4. ASSUME ~Same(c) PROVE FindTenant(c) \/ MakeTenant(c)
    <3>1. Moves(c)
      BY <1>0, <2>4, WhoChanged
    <3>2. ~Fail(c) /\ Command(c)
      BY <1>0, <1>2, <3>1 DEF Moves, Fail, Typed, TypeOK
    <3>3. ~InsertAgent(c) /\ ~InsertAccount(c) /\ ~InsertChannel(c) /\ ~Run(c)
      BY <1>0, <1>2 DEF InsertAgent, InsertAccount, InsertChannel, Run, Step, Typed, TypeOK
    <3> QED
      BY <3>2, <3>3 DEF Command
  <2> QED
    BY <2>1, <2>2, <2>3, <2>4
<1>3. ASSUME NEW p \in Calls, pc'[p] = "resolved" PROVE Homed(tenant[p])'
  <2>1. CASE Same(p)
    BY <1>1, <1>3, <2>1 DEF Same, AllHomed, Homed
  <2>2. ASSUME NEW x \in agents \cup accounts, tenant'[p] = x.tenant PROVE Homed(tenant[p])'
    <3>1. PICK t \in tenants : t.id = x.tenant
      BY DEF AllHomed, Homed
    <3> QED
      BY <2>2, <3>1, TablesGrow DEF Homed, Grow
  <2>3. CASE TryKey(p) \/ TrySession(p)
    <3>1. \E x \in agents \cup accounts : tenant'[p] = x.tenant
      BY <1>0, <1>3, <2>3 DEF TryKey, TrySession, SessionAccounts, Step, Typed, TypeOK
    <3> QED
      BY <2>2, <3>1
  <2>4. ASSUME ~Same(p) PROVE TryKey(p) \/ TrySession(p)
    <3>1. Moves(p)
      BY <1>0, <2>4, WhoChanged
    <3>2. ~Fail(p) /\ ~Trip(p) /\ Call(p)
      BY <1>0, <1>3, <3>1 DEF Moves, Fail, Trip, Typed, TypeOK
    <3>3. ~AskLogin(p) /\ ~FindAccount(p) /\ ~Grant(p) /\ ~Ask(p)
      BY <1>0, <1>3 DEF AskLogin, FindAccount, Grant, Ask, Step, Typed, TypeOK
    <3>4. ~Push(p) /\ ~List(p) /\ ~Reach(p)
      BY <1>0, <1>3 DEF Push, List, Reach, Step, Typed, TypeOK
    <3> QED
      BY <3>2, <3>3, <3>4 DEF Call
  <2> QED
    BY <2>1, <2>3, <2>4
<1>4. \A a \in agents' : Homed(a.tenant)'
  <2>1. ASSUME NEW c \in Commands, InsertAgent(c), NEW a \in agents' PROVE a \in agents \/ Homed(a.tenant)
    BY <2>1 DEF InsertAgent, Step, AllHomed
  <2>2. \A a \in agents' : a \in agents \/ Homed(a.tenant)
    BY <2>1, WhoInserts
  <2> QED
    BY <1>1, <2>2 DEF AllHomed
<1>5. \A a \in accounts' : Homed(a.tenant)'
  <2>1. ASSUME NEW c \in Commands, InsertAccount(c), NEW a \in accounts' PROVE a \in accounts \/ Homed(a.tenant)
    BY <2>1 DEF InsertAccount, Step, AllHomed
  <2>2. \A a \in accounts' : a \in accounts \/ Homed(a.tenant)
    BY <2>1, WhoInserts
  <2> QED
    BY <1>1, <2>2 DEF AllHomed
<1>6. \A r \in rows' : Homed(r.tenant)'
  <2>1. ASSUME NEW c \in Commands, InsertChannel(c), NEW r \in rows' PROVE r \in rows \/ Homed(r.tenant)
    BY <2>1 DEF InsertChannel, Step, AllHomed
  <2>2. ASSUME NEW p \in Calls, Push(p), NEW r \in rows' PROVE r \in rows \/ Homed(r.tenant)
    BY <2>2 DEF Push, Step, AllHomed
  <2>3. \A r \in rows' : r \in rows \/ Homed(r.tenant)
    BY <2>1, <2>2, WhoInserts
  <2> QED
    BY <1>1, <2>3 DEF AllHomed
<1> QED
  BY <1>2, <1>3, <1>4, <1>5, <1>6 DEF AllHomed

\* Commands that do not overlap hide nothing that was written.
LEMMA AllShownStep ==
  ASSUME Typed, OneTenant, AllHomed, AllShown, [Next]_vars
  PROVE  AllShown'
<1> SUFFICES ASSUME NEW p \in Calls, order'[p].op \in {"network", "channel"}
             PROVE  /\ \A r \in before'[p].rows : r \in rows' /\ r.kind = order'[p].op
                    /\ pc'[p] = "done" => before'[p].rows \subseteq saw'[p]
  BY DEF AllShown
<1>0. p \in Processes /\ p \notin Commands /\ rows \subseteq rows'
  BY AccountsConstants, TablesGrow DEF AccountsConstants, Processes, Grow
<1>1. CASE Same(p)
  BY <1>0, <1>1 DEF Same, AllShown
<1>2. CASE Ask(p)
  <2>1. PICK o \in Orders[p] : order'[p] = o /\ before' = [before EXCEPT ![p].rows = {r \in rows : r.kind = o.op}]
    BY <1>0, <1>2 DEF Ask, Typed, LocalsOK
  <2>2. before'[p].rows = {r \in rows : r.kind = o.op}
    BY <1>0, <2>1 DEF Typed, LocalsOK
  <2>3. pc'[p] # "done"
    BY <1>0, <1>2 DEF Ask, Step, Typed, TypeOK
  <2> QED
    BY <1>0, <2>1, <2>2, <2>3
<1>3. CASE List(p)
  <2>1. /\ order' = order /\ before' = before /\ pc[p] = "resolved"
        /\ saw'[p] = {r \in Own(tenant[p]) : r.kind = order[p].op}
    BY <1>0, <1>3 DEF List, Step, history, Typed, LocalsOK
  <2>2. ASSUME NEW r \in rows PROVE r.tenant = tenant[p]
    BY <2>1 DEF AllHomed, OneTenant, Homed
  <2> QED
    BY <1>0, <2>1, <2>2 DEF AllShown, Own
<1>4. ASSUME UNCHANGED <<order, before>>, pc'[p] # "done"
      PROVE  /\ \A r \in before'[p].rows : r \in rows' /\ r.kind = order'[p].op
             /\ pc'[p] = "done" => before'[p].rows \subseteq saw'[p]
  BY <1>0, <1>4 DEF AllShown
<1>5. CASE TryKey(p) \/ TrySession(p) \/ Trip(p)
  <2>1. UNCHANGED <<order, before>>
    BY <1>5 DEF TryKey, TrySession, Trip, history
  <2>2. pc'[p] # "done"
    BY <1>0, <1>5 DEF TryKey, TrySession, Trip, Step, Typed, TypeOK
  <2> QED
    BY <1>4, <2>1, <2>2
<1>6. ~AskLogin(p) /\ ~FindAccount(p) /\ ~Grant(p) /\ ~Push(p) /\ ~Reach(p) /\ ~Fail(p)
  <2>1. ~AskLogin(p) /\ ~Fail(p)
    BY <1>0 DEF AskLogin, Fail, Typed, LocalsOK
  <2>2. order' = order => pc[p] \notin {"looking", "granting"}
    BY DEF Typed, CallOK
  <2> QED
    BY <2>1, <2>2 DEF FindAccount, Grant, Push, Reach, Step, locals
<1> QED
  BY <1>0, <1>1, <1>2, <1>3, <1>5, <1>6, WhoChanged DEF Moves, Call

\* Commands that do not overlap keep one household.
LEMMA HouseholdStep ==
  ASSUME Typed, Household, [Next]_vars
  PROVE  Household'
<1> SUFFICES ASSUME ~overlapped' PROVE OneTenant' /\ AllHomed' /\ AllShown'
  BY DEF Household
<1>1. ~overlapped
  <2>1. ASSUME NEW c \in Commands, Command(c) PROVE overlapped => overlapped'
    BY <2>1 DEF Command, Run, FindTenant, MakeTenant, InsertAgent, InsertAccount, InsertChannel, history
  <2>2. ASSUME NEW p \in Calls, Call(p) PROVE overlapped' = overlapped
    BY <2>2 DEF Call, AskLogin, FindAccount, Grant, Ask, TryKey, TrySession, Push, List, Reach, history
  <2>3. ASSUME NEW p, Fail(p) \/ Trip(p) PROVE overlapped' = overlapped
    BY <2>3 DEF Fail, Trip
  <2>4. CASE Tick \/ UNCHANGED vars
    BY <2>4 DEF Tick, vars, history
  <2> QED
    BY <2>1, <2>2, <2>3, <2>4 DEF Next
<1> QED
  BY <1>1, OneTenantStep, AllHomedStep, AllShownStep DEF Household

-----------------------------------------------------------------------------
(* Theorems *)

Inv == Typed /\ Origins /\ (\A p \in Calls : Knows(p)) /\ NetworkRows /\ Household

\* The invariant holds at first.
LEMMA InvInit == Init => Inv
<1> SUFFICES ASSUME Init PROVE Inv
  OBVIOUS
<1>1. Typed
  BY TypedInit
<1>2. Origins
  BY <1>1 DEF Init, Origins, AgentRows, AccountRows, SessionRows, Processes
<1>3. \A p \in Calls : Knows(p)
  BY DEF Init, Knows, LoginKnows, PushKnows, ReadKnows, SawOwn, Processes, Reading
<1>4. NetworkRows
  BY DEF Init, NetworkRows
<1>5. OneTenant /\ AllHomed
  BY DEF Init, OneTenant, AllHomed, Running, Processes
<1>6. AllShown
  BY DEF Init, AllShown, Processes
<1> QED
  BY <1>1, <1>2, <1>3, <1>4, <1>5, <1>6 DEF Inv, Household

\* Every step keeps the invariant.
LEMMA InvStep == Inv /\ [Next]_vars => Inv'
<1> SUFFICES ASSUME Inv, [Next]_vars PROVE Inv'
  OBVIOUS
<1>1. Typed'
  BY TypedStep DEF Inv
<1>2. Origins'
  BY <1>1, OriginsStep DEF Inv
<1>3. (\A p \in Calls : Knows(p))'
  BY <1>1, <1>2, KnowsStep DEF Inv
<1> QED
  BY <1>1, <1>2, <1>3, NetworkRowsStep, HouseholdStep DEF Inv

\* Whatever overlaps, fails or is tried again, rows come from the process they
\* are named for, calls know what they have seen, networks are their agents',
\* and commands that do not overlap keep one household.
THEOREM AccountsInvariant == Spec => []Inv
BY InvInit, InvStep, PTL DEF Spec

\* Every variable has its type.
THEOREM AccountsTypeCorrect == Spec => []TypeOK
<1>1. Inv => TypeOK
  BY DEF Inv, Typed
<1> QED
  BY <1>1, AccountsInvariant, PTL

\* create_account: an address has one account, though its spellings and the
\* commands that gave them are many.
THEOREM AddressesHaveOneAccount == Spec => []OneAccountPerAddress
<1>1. Inv => OneAccountPerAddress
  BY AccountAddresses DEF Inv
<1> QED
  BY <1>1, AccountsInvariant, PTL

\* post_login: a password opens the account of an address exactly when a
\* command gave it to that address.
THEOREM PasswordsExact == Spec => []LoginsExact
<1>1. ASSUME Inv PROVE LoginsExact
  <2> SUFFICES ASSUME NEW l \in Calls, order[l].op = "login"
               PROVE  /\ pc[l] \in {"granting", "done"} => \E c \in Gave(order[l]) : pc[c] = "done"
                      /\ pc[l] = "unauthorized" => Gave(order[l]) \cap before[l].done = {}
    BY DEF LoginsExact
  <2>1. /\ pc[l] \in {"granting", "done"} => \E a \in AccountsOf(order[l].email) : Matches(a, order[l].password)
        /\ pc[l] = "unauthorized" => Gave(order[l]) \cap before[l].done = {}
    BY <1>1 DEF Inv, Knows, LoginKnows
  <2> QED
    BY <1>1, <2>1, AccountGiven DEF Inv
<1> QED
  BY <1>1, AccountsInvariant, PTL

\* authenticate_reader_token and reader_from_req: a read is made for the first
\* of its tokens that is good when it is tried, however the tables grow while
\* it tries them.
THEOREM ReadsByFirstGoodToken == Spec => []FirstGoodToken
<1>1. Inv => FirstGoodToken
  BY DEF Inv, FirstGoodToken, Knows, ReadKnows, Reading
<1> QED
  BY <1>1, AccountsInvariant, PTL

\* A read sees rows of its token's tenant only, and a network is in the tenant
\* of the agent that pushed it, however many tenants overlapping commands make.
THEOREM TenantsStayApart == Spec => []TenantsApart
<1>1. ASSUME Inv PROVE TenantsApart
  <2>1. ASSUME NEW p \in Calls, NEW r \in saw[p] PROVE r.tenant = TenantOf(Token(p))
    <3>1. r.tenant = tenant[p] /\ order[p].op \in Reading /\ pc[p] = "done"
      BY <1>1 DEF Inv, Knows, SawOwn
    <3>2. Token(p) = tokens[p][Len(now[p])] /\ tenant[p] = TenantOf(tokens[p][Len(now[p])])
      BY <1>1, <3>1 DEF Inv, Knows, ReadKnows, Token, Reading
    <3> QED
      BY <3>1, <3>2
  <2>2. ASSUME NEW r \in rows, r.kind = "network"
        PROVE  \E p \in Calls : order[p].op = "push" /\ [key |-> Token(p), tenant |-> r.tenant] \in agents
    BY <1>1, <2>2 DEF Inv, NetworkRows, Token
  <2> QED
    BY <2>1, <2>2 DEF TenantsApart
<1> QED
  BY <1>1, AccountsInvariant, PTL

\* ensure_default_tenant: commands that do not overlap, killed ones among them,
\* keep one tenant, and its lists show whatever was written before.
THEOREM HouseholdIsOne == Spec => []OneHousehold
<1>1. ASSUME Inv PROVE OneHousehold
  <2> SUFFICES ASSUME ~overlapped PROVE OneHousehold
    BY DEF OneHousehold
  <2>1. OneTenant /\ AllShown
    BY <1>1 DEF Inv, Household
  <2>2. Cardinality(tenants) <= 1
    <3>1. CASE tenants = {}
      BY <3>1, FS_EmptySet
    <3>2. ASSUME NEW t \in tenants PROVE Cardinality(tenants) <= 1
      <4>1. tenants = {t}
        BY <2>1 DEF OneTenant
      <4> QED
        BY <4>1, FS_Singleton
    <3> QED
      BY <3>1, <3>2
  <2> QED
    BY <2>1, <2>2 DEF OneHousehold, AllShown
<1> QED
  BY <1>1, AccountsInvariant, PTL
=============================================================================
