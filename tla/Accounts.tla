----------------------------- MODULE Accounts -----------------------------
(***************************************************************************)
(* Who may do what: the commands of main.rs that set a household up        *)
(* (enroll, create-user, add-channel), login, and the authentication of    *)
(* pushes, reads and proxied requests (auth.rs; post_login, the read       *)
(* endpoints' tenant filters and reader_from_req in routes.rs), over the   *)
(* tables of migrations 0001 and 0002.                                     *)
(*                                                                         *)
(* Commands are processes of their own beside the relay, and no statement  *)
(* of theirs is in a transaction with another: every SELECT or INSERT is   *)
(* one action.  A process is named by the fresh uuid, key or token it      *)
(* makes.  SHA-256 and argon2 are taken to be injective.                   *)
(***************************************************************************)
EXTENDS Integers, Sequences, FiniteSets

CONSTANTS
  Commands,  \* invocations of the relay's command line
  Calls,     \* HTTP calls
  Orders,    \* process -> what it may be asked to do
  Junk,      \* a token nobody was given
  TTL,       \* SESSION_TTL_SECS in clock ticks
  MaxTime,   \* bound on the clock
  NoTenant

Processes == Commands \cup Calls

ASSUME AccountsConstants ==
  /\ Commands \cap Calls = {}
  /\ DOMAIN Orders = Processes
  /\ \A c \in Commands : \A o \in Orders[c] : o.op \in {"enroll", "create-user", "add-channel"}
  /\ \A p \in Calls : \A o \in Orders[p] : o.op \in {"login", "push", "network", "channel", "proxy"}
  /\ \A p \in Processes : \A o \in Orders[p] : o.op \in {"create-user", "login"} =>
       o.email = [address |-> o.email.address, upper |-> o.email.upper]
  /\ TTL \in Nat \ {0} /\ MaxTime \in Nat
  /\ NoTenant \notin Commands /\ Junk \notin Processes

VARIABLES
  clock,     \* now_unix()
  tenants,   \* rows: [id, created]
  agents,    \* rows: [key, tenant]
  accounts,  \* rows: [id, tenant, email, password]
  sessions,  \* rows: [token, account, expires]
  rows,      \* rows of networks and notification_channels: [kind, id, tenant]
  pc, order, \* process -> where it is, and what it was asked
  tokens,    \* call -> the tokens it presents, in the order they are tried
  now,       \* process -> its readings of the clock, one for each token tried
  tenant,    \* process -> the tenant it has found
  saw,       \* read -> the rows it was shown
  before,    \* history: call -> the rows of its kind, or commands done, when it came
  overlapped, \* history: two commands ran at one time
  tripped    \* history: the calls that took an error for a bad token

tables  == <<tenants, agents, accounts, sessions, rows>>
locals  == <<order, tokens, now, tenant, saw>>
history == <<before, overlapped, tripped>>
vars    == <<clock, tables, pc, locals, history>>

Ended == {"done", "unauthorized", "not_found", "failed"}

Nothing == [rows |-> {}, done |-> {}]

Init ==
  /\ clock = 0
  /\ tenants = {} /\ agents = {} /\ accounts = {} /\ sessions = {} /\ rows = {}
  /\ pc = [p \in Processes |-> "idle"]
  /\ order = [p \in Processes |-> [op |-> "none"]]
  /\ tokens = [p \in Processes |-> <<>>]
  /\ now = [p \in Processes |-> <<>>]
  /\ tenant = [p \in Processes |-> NoTenant]
  /\ saw = [p \in Processes |-> {}]
  /\ before = [p \in Processes |-> Nothing]
  /\ overlapped = FALSE /\ tripped = {}

(* Operators named <Operator>_<bug> are variants of the definition that     *)
(* follows them; no behaviour of Spec takes them.                          *)

Step(p, from, to) == pc[p] = from /\ pc' = [pc EXCEPT ![p] = to]

\* now_unix() is read once for a command, a login, or a token that is tried; a
\* push needs no time.
ReadClock(p) == now' = [now EXCEPT ![p] = Append(@, clock)]

-----------------------------------------------------------------------------
(* Commands *)

Running(c) == pc[c] \in {"seeking", "making", "inserting"}

Run(c) ==
  /\ Step(c, "idle", "seeking")
  /\ \E o \in Orders[c] : order' = [order EXCEPT ![c] = o]
  /\ ReadClock(c)
  /\ overlapped' = (overlapped \/ \E d \in Commands : Running(d))
  /\ UNCHANGED <<clock, tables, tokens, tenant, saw, before, tripped>>

\* Variants: every command makes a tenant; a missing one is taken for the nil id.
Oldest_None == {}
Oldest_OrNil == IF tenants = {} THEN {[id |-> NoTenant, created |-> 0]} ELSE tenants

\* ORDER BY created_at LIMIT 1, equal times in any order.
Oldest == {t \in tenants : \A u \in tenants : t.created <= u.created}

\* ensure_default_tenant finds a tenant, or goes on to make one.
FindTenant(c) ==
  /\ \/ /\ Oldest # {} /\ Step(c, "seeking", "inserting")
        /\ \E t \in Oldest : tenant' = [tenant EXCEPT ![c] = t.id]
     \/ Oldest = {} /\ Step(c, "seeking", "making") /\ UNCHANGED tenant
  /\ UNCHANGED <<clock, tables, order, tokens, now, saw, history>>

MakeTenant(c) ==
  /\ Step(c, "making", "inserting")
  /\ tenants' = tenants \cup {[id |-> c, created |-> now[c][1]]}
  /\ tenant' = [tenant EXCEPT ![c] = c]
  /\ UNCHANGED <<clock, agents, accounts, sessions, rows, order, tokens, now, saw, history>>

\* enroll
InsertAgent(c) ==
  /\ order[c].op = "enroll" /\ Step(c, "inserting", "done")
  /\ agents' = agents \cup {[key |-> c, tenant |-> tenant[c]]}
  /\ UNCHANGED <<clock, tenants, accounts, sessions, rows, locals, history>>

\* Variant: addresses are taken as typed.
Lower_AsTyped(email) == email

\* to_lowercase: an e-mail is an address in some spelling.
Lower(email) == [email EXCEPT !.upper = FALSE]

AccountsOf(email) == {a \in accounts : a.email = Lower(email)}

\* create_account: accounts.email is unique.
InsertAccount(c) ==
  LET taken == AccountsOf(order[c].email) # {} IN
  /\ order[c].op = "create-user" /\ Step(c, "inserting", IF taken THEN "failed" ELSE "done")
  /\ accounts' = IF taken THEN accounts ELSE accounts \cup
       {[id |-> c, tenant |-> tenant[c], email |-> Lower(order[c].email), password |-> order[c].password]}
  /\ UNCHANGED <<clock, tenants, agents, sessions, rows, locals, history>>

\* add-channel
InsertChannel(c) ==
  /\ order[c].op = "add-channel" /\ Step(c, "inserting", "done")
  /\ rows' = rows \cup {[kind |-> "channel", id |-> c, tenant |-> tenant[c]]}
  /\ UNCHANGED <<clock, tenants, agents, accounts, sessions, locals, history>>

-----------------------------------------------------------------------------
(* Login *)

AskLogin(l) ==
  /\ Step(l, "idle", "looking")
  /\ \E o \in {x \in Orders[l] : x.op = "login"} : order' = [order EXCEPT ![l] = o]
  /\ ReadClock(l)
  /\ before' = [before EXCEPT ![l].done = {c \in Commands : pc[c] = "done"}]
  /\ UNCHANGED <<clock, tables, tokens, tenant, saw, overlapped, tripped>>

\* Variant: the password is not verified.
Matches_Any(a, password) == TRUE

Matches(a, password) == a.password = password

\* The account is looked up and the password verified.
FindAccount(l) ==
  /\ Step(l, "looking",
       IF \E a \in AccountsOf(order[l].email) : Matches(a, order[l].password)
       THEN "granting" ELSE "unauthorized")
  /\ UNCHANGED <<clock, tables, locals, history>>

Grant(l) ==
  /\ Step(l, "granting", "done")
  /\ \E a \in AccountsOf(order[l].email) :
       sessions' = sessions \cup {[token |-> l, account |-> a.id, expires |-> now[l][1] + TTL]}
  /\ UNCHANGED <<clock, tenants, agents, accounts, rows, locals, history>>

-----------------------------------------------------------------------------
(* Pushes and reads *)

\* Keys and session tokens are handed out when their process is done.
HandedOut == {a.key : a \in {x \in agents : pc[x.key] = "done"}}
             \cup {s.token : s \in {x \in sessions : pc[x.token] = "done"}}

\* bearer_token: the header's; a proxied request may have one elsewhere too.
Presentable(o) ==
  LET known == HandedOut \cup {Junk} IN
  IF o.op = "proxy" THEN known \X known ELSE {<<t>> : t \in known}

Ask(p) ==
  /\ Step(p, "idle", "keys")
  /\ \E o \in {x \in Orders[p] : x.op # "login"} :
       /\ order' = [order EXCEPT ![p] = o]
       /\ \E ts \in Presentable(o) : tokens' = [tokens EXCEPT ![p] = ts]
       /\ before' = [before EXCEPT ![p].rows = {r \in rows : r.kind = o.op}]
       /\ IF o.op = "push" THEN UNCHANGED now ELSE ReadClock(p)
  /\ UNCHANGED <<clock, tables, tenant, saw, overlapped, tripped>>

\* The token that is being tried.
Token(p) == IF order[p].op = "push" THEN tokens[p][1] ELSE tokens[p][Len(now[p])]

\* authenticate, and the first half of authenticate_reader_token.
TryKey(p) ==
  LET found == {a \in agents : a.key = Token(p)} IN
  /\ pc[p] = "keys"
  /\ \/ /\ found # {} /\ Step(p, "keys", "resolved")
        /\ \E a \in found : tenant' = [tenant EXCEPT ![p] = a.tenant]
     \/ /\ found = {} /\ Step(p, "keys", IF order[p].op = "push" THEN "unauthorized" ELSE "sessions")
        /\ UNCHANGED tenant
  /\ UNCHANGED <<clock, tables, order, tokens, now, saw, history>>

\* Variant: the last second counts.
Live_LastSecond(s, t) == s.expires >= t

Live(s, t) == s.expires > t

\* The accounts for which the token is a session's that has not expired.
SessionAccounts(p) ==
  {a \in accounts : \E s \in sessions :
     s.token = Token(p) /\ s.account = a.id /\ Live(s, now[p][Len(now[p])])}

\* The other half: a session, or else the next token, tried at a new time.
TrySession(p) ==
  /\ pc[p] = "sessions"
  /\ \/ \E a \in SessionAccounts(p) :
          Step(p, "sessions", "resolved") /\ tenant' = [tenant EXCEPT ![p] = a.tenant]
          /\ UNCHANGED now
     \/ /\ SessionAccounts(p) = {} /\ Len(now[p]) < Len(tokens[p])
        /\ Step(p, "sessions", "keys") /\ ReadClock(p) /\ UNCHANGED tenant
     \/ /\ SessionAccounts(p) = {} /\ Len(now[p]) = Len(tokens[p])
        /\ Step(p, "sessions", "unauthorized") /\ UNCHANGED <<now, tenant>>
  /\ UNCHANGED <<clock, tables, order, tokens, saw, history>>

\* post_inventory, as to the networks row: unique by tenant and fingerprint.
Push(p) ==
  /\ order[p].op = "push" /\ Step(p, "resolved", "done")
  /\ rows' = rows \cup {[kind |-> "network", id |-> <<tenant[p], order[p].net>>, tenant |-> tenant[p]]}
  /\ UNCHANGED <<clock, tenants, agents, accounts, sessions, locals, history>>

\* Variant: rows are not filtered by tenant.
Own_All(t) == rows

\* WHERE tenant_id = $1
Own(t) == {r \in rows : r.tenant = t}

\* get_networks and get_channels.
List(p) ==
  /\ order[p].op \in {"network", "channel"} /\ Step(p, "resolved", "done")
  /\ saw' = [saw EXCEPT ![p] = {r \in Own(tenant[p]) : r.kind = order[p].op}]
  /\ UNCHANGED <<clock, tables, order, tokens, now, tenant, history>>

\* assert_network_owned, for the audit endpoints and do_proxy: the network named
\* in the path is one of the tenant's, or there is none.
Reach(p) ==
  /\ order[p].op = "proxy"
  /\ \E n \in {r \in rows : r.kind = "network"} :
       /\ Step(p, "resolved", IF n \in Own(tenant[p]) THEN "done" ELSE "not_found")
       /\ saw' = [saw EXCEPT ![p] = {n} \cap Own(tenant[p])]
  /\ UNCHANGED <<clock, tables, order, tokens, now, tenant, history>>

-----------------------------------------------------------------------------
\* A database error, a killed command, a call hung up: what is written stays,
\* and the process is forgotten.
Fail(p) ==
  /\ pc[p] \notin Ended \cup {"idle"}
  /\ pc' = [pc EXCEPT ![p] = "failed"]
  /\ order' = [order EXCEPT ![p] = [op |-> "none"]]
  /\ tokens' = [tokens EXCEPT ![p] = <<>>] /\ now' = [now EXCEPT ![p] = <<>>]
  /\ tenant' = [tenant EXCEPT ![p] = NoTenant]
  /\ before' = [before EXCEPT ![p] = Nothing] /\ tripped' = tripped \ {p}
  /\ UNCHANGED <<clock, tables, saw, overlapped>>

\* reader_from_req takes the error for a bad token and tries the next one.
Trip(p) ==
  /\ order[p].op = "proxy"
  /\ pc[p] \in {"keys", "sessions"} /\ Len(now[p]) < Len(tokens[p])
  /\ pc' = [pc EXCEPT ![p] = "keys"] /\ ReadClock(p)
  /\ tripped' = tripped \cup {p}
  /\ UNCHANGED <<clock, tables, order, tokens, tenant, saw, before, overlapped>>

\* The wall clock moves, and may be set back.
Tick ==
  /\ clock' \in 0..MaxTime
  /\ UNCHANGED <<tables, pc, locals, history>>

Command(c) ==
  \/ Run(c) \/ FindTenant(c) \/ MakeTenant(c)
  \/ InsertAgent(c) \/ InsertAccount(c) \/ InsertChannel(c)

Call(p) ==
  \/ AskLogin(p) \/ FindAccount(p) \/ Grant(p)
  \/ Ask(p) \/ TryKey(p) \/ TrySession(p) \/ Push(p) \/ List(p) \/ Reach(p)

Next ==
  \/ \E c \in Commands : Command(c)
  \/ \E p \in Calls : Call(p)
  \/ \E p \in Processes : Fail(p)
  \/ \E p \in Calls : Trip(p)
  \/ Tick

Spec == Init /\ [][Next]_vars

-----------------------------------------------------------------------------
(* Properties *)

TypeOK ==
  /\ clock \in 0..MaxTime
  /\ \A t \in tenants : t.id \in Commands /\ t.created \in 0..MaxTime
  /\ \A a \in agents : a.key \in Commands /\ a.tenant \in Commands
  /\ \A a \in accounts : a.id \in Commands /\ a.tenant \in Commands
  /\ \A s \in sessions : s.token \in Calls /\ s.account \in Commands /\ s.expires \in Nat
  /\ \A r \in rows : r.kind \in {"network", "channel"} /\ r.tenant \in Commands
  /\ pc \in [Processes -> Ended \cup {"idle", "seeking", "making", "inserting", "looking",
                                      "granting", "keys", "sessions", "resolved"}]
  /\ tenant \in [Processes -> Commands \cup {NoTenant}]
  /\ \A p \in Processes : saw[p] \subseteq rows
  /\ overlapped \in BOOLEAN /\ tripped \subseteq Calls

\* Commands that are not run at the same time, killed ones among them, set up
\* one household: whoever reads sees every network pushed and every channel
\* added before, whichever agent and account they came from, and whatever the
\* wall clock did.
OneHousehold ==
  ~overlapped =>
    /\ Cardinality(tenants) <= 1
    /\ \A p \in Calls : order[p].op \in {"network", "channel"} /\ pc[p] = "done" =>
         before[p].rows \subseteq saw[p]

\* Even when addresses are typed in different spellings, by commands that run
\* at the same time, an address has one account.
OneAccountPerAddress ==
  \A a, b \in accounts : a.email.address = b.email.address => a = b

\* The commands that gave the address this password, in any spelling.
Gave(o) ==
  {c \in Commands : /\ order[c].op = "create-user" /\ order[c].password = o.password
                    /\ order[c].email.address = o.email.address}

\* A login gets a session only with a password its address was given, and with
\* that password is never refused once the command that gave it is done.
LoginsExact ==
  \A l \in Calls : order[l].op = "login" =>
    /\ pc[l] \in {"granting", "done"} => \E c \in Gave(order[l]) : pc[c] = "done"
    /\ pc[l] = "unauthorized" => Gave(order[l]) \cap before[l].done = {}

\* The key of an agent, or a session's token for TTL after the clock reading of
\* its login.
Good(token, t) ==
  \/ \E a \in agents : a.key = token
  \/ \E s \in sessions : s.token = token /\ t < now[token][1] + TTL

\* Whoever the token was given to.
TenantOf(token) ==
  CHOOSE t \in Commands \cup {NoTenant} :
    \/ [key |-> token, tenant |-> t] \in agents
    \/ \E s \in sessions, a \in accounts : s.token = token /\ s.account = a.id /\ a.tenant = t

\* A read is made for the first of its tokens that is good when it is tried, in
\* that token's tenant, and is refused only if none is: but for a token passed
\* over because of a database error.
FirstGoodToken ==
  \A p \in Calls : order[p].op \in {"network", "channel", "proxy"} =>
    LET i == Len(now[p]) IN
    /\ pc[p] \in {"resolved", "done", "not_found"} =>
         Good(tokens[p][i], now[p][i]) /\ tenant[p] = TenantOf(tokens[p][i])
    /\ pc[p] = "unauthorized" => i = Len(tokens[p]) /\ ~Good(tokens[p][i], now[p][i])
    /\ p \notin tripped => \A j \in 1..(i - 1) : ~Good(tokens[p][j], now[p][j])

\* Also when commands that overlapped have made several tenants, a reader sees
\* only rows of its own, and a network is in the tenant of an agent that pushed
\* it with its key.
TenantsApart ==
  /\ \A p \in Calls : \A r \in saw[p] : r.tenant = TenantOf(Token(p))
  /\ \A r \in rows : r.kind = "network" =>
       \E p \in Calls : order[p].op = "push" /\ [key |-> Token(p), tenant |-> r.tenant] \in agents

\* "yoksa "default" olusturur (D1 tek hesap)" (auth.rs:30): there is one tenant.
SingleTenant == Cardinality(tenants) <= 1
=============================================================================
