---------------------------- MODULE MC_Inventory ----------------------------
(* Small instances of Inventory for TLC. *)
EXTENDS Inventory, TLC

CONSTANTS n1, n2, h1, h2, h3, phone, tv, nas, home

On(m)  == [mac |-> m, online |-> TRUE]
Off(m) == [mac |-> m, online |-> FALSE]

\* Every push is about the one network; or h3's is about another.
MCOneNet  == [h \in Handlers |-> n1]
MCTwoNets == [h \in Handlers |-> IF h = h3 THEN n2 ELSE n1]

\* The networks are one household's.
MCTenantOf == [n \in Nets |-> home]

\* A device appears; two at a time.
MCPresence == [h \in Handlers |-> {<<On(phone)>>, <<On(phone), On(tv)>>}]

\* One or two devices that the network may not know yet.
MCChain == [h \in Handlers |-> {<<On(phone)>>, <<On(tv), On(nas)>>}]

\* A device appears, goes offline, is not reported any more, is listed twice.
MCTwice ==
  LET p == <<On(phone)>>
      q == <<Off(phone), On(tv), Off(tv)>>
  IN [h \in Handlers |-> CASE h = h1 -> {p} [] h = h2 -> {q} [] h = h3 -> {p, <<On(phone), On(tv)>>}]

\* Calls about the same network are alike.
MCSymmetry == Permutations({h \in Handlers : NetOf[h] = n1})
=============================================================================
