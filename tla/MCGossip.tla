------------------------------- MODULE MCGossip -------------------------------
(* A line of three nodes, the validator at one end, and a peer that speaks *)
(* an older version of the protocol.                                       *)
EXTENDS Gossip

CONSTANTS n1, n2, n3, n4

MCDials == [n \in Nodes |-> CASE n = n1 -> {} [] n = n2 -> {n1} [] n = n3 -> {n2} [] OTHER -> {n2}]
MCSpeaks == [n \in Nodes |-> [chain |-> "main", version |-> IF n = n4 THEN 1 ELSE 2]]

UserTx(nonce, tip, good, id) ==
    [from |-> 2, nonce |-> nonce, tip |-> tip, good |-> good, id |-> id]
MCUserTxs == {UserTx(0, 5, TRUE, 1), UserTx(0, 3, FALSE, 2), UserTx(1, 3, TRUE, 3)}
MCEntries == {n3}

Plan(network, running, txs, requests, empty, failures) ==
    [nodes |-> network, up |-> running, txs |-> txs, calls |-> requests, beats |-> empty,
     crashes |-> failures]

(* Users and gossip; the faucet and a crash; a user and a crash; a late    *)
(* comer.                                                                  *)
MCPlans ==
    {Plan({n1, n2, n3}, {n1, n2, n3}, MCUserTxs, 0, 0, 0),
     Plan({n1, n2}, {n1, n2}, {}, 2, 0, 1),
     Plan({n1, n2, n3}, {n1, n2, n3}, {UserTx(0, 5, TRUE, 1)}, 0, 1, 1),
     Plan(Nodes, {n1, n2}, {}, 0, 4, 0)}
=============================================================================
