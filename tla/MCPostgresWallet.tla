-------------------------- MODULE MCPostgresWallet --------------------------
(* Small instances of PostgresWallet for TLC.                              *)
EXTENDS PostgresWallet, TLC

CONSTANTS anna, shop, house, h1, h2, k1, k2, p1, p2

(* Anna has money on both sides, the shop (a hall's house wallet) none.    *)
MCOpeningDep == [w \in Players |-> IF w = anna THEN 1 ELSE 0]
MCOpeningWin == [w \in Players |-> IF w = anna THEN 1 ELSE 0]

(* Everything on any number of holds, except raising one.                  *)
PostingCalls == [p \in Procs |-> Operations \ {"increase"}]

(* Everything that cannot take money from under a hold.                    *)
HoldCalls == [p \in Procs |-> Operations \ {"transfer", "debit"}]

HoldSymmetry == Permutations(Keys) \cup Permutations(Holds) \cup Permutations(Procs)
=============================================================================
