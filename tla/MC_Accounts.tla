---------------------------- MODULE MC_Accounts ----------------------------
(* A small instance of Accounts for TLC. *)
EXTENDS Accounts

CONSTANTS c1, c2, in, out, ann, secret, guess, home

Create(up, w) == [op |-> "create-user", email |-> [address |-> ann, upper |-> up], password |-> w]
Login(up, w)  == [op |-> "login", email |-> [address |-> ann, upper |-> up], password |-> w]

\* Two commands; a login or a push; and a read.  The login has the password of one
\* command's account, in the other's spelling.
MCOrders ==
  [p \in Processes |->
    CASE p = c1  -> {[op |-> "enroll"], Create(FALSE, secret)}
      [] p = c2  -> {[op |-> "enroll"], Create(TRUE, guess), [op |-> "add-channel"]}
      [] p = in  -> {Login(TRUE, secret), [op |-> "push", net |-> home]}
      [] p = out -> {[op |-> "network"], [op |-> "channel"], [op |-> "proxy"]}]
=============================================================================
