--------------------------- MODULE MCGovernanceApp ---------------------------
(***************************************************************************)
(* A small DAO: its own wallet, which holds governance tokens too, and a   *)
(* user with the tokens of one collateral.                                 *)
(***************************************************************************)
EXTENDS GovernanceApp

MCWalletOf == [admin |-> "dao", user |-> "alice"]

Utxo(tx, owner, token) == [tx |-> tx, index |-> 0, owner |-> owner, token |-> token]

MCGenesis == {Utxo("g1", "dao", 5), Utxo("g2", "alice", 5)}

MCTxIds == <<"t1", "t2", "t3">>

MCWindows == {<<1, 2>>}

\* The DAO's clock is ahead of the chain's.
MCClockError == [admin |-> 1, user |-> 0]

\* It is so far ahead that the poll goes on for more than a slot.
MCFastClock == [admin |-> 2, user |-> 0]
=============================================================================
