---------------------------- MODULE MCPortfolio ----------------------------
(* A small instance of PortfolioSystem for TLC. *)
EXTENDS PortfolioSystem, TLC

Lower == [a \in Supplied |-> a]

SomeDeliveries == {[src |-> "alchemy", chain |-> "eth", txs |-> <<"a1", "a2">>],
                   [src |-> "zerion", chain |-> "base", txs |-> <<"a3">>]}

\* The exchange starts linked or not, and gets one stimulus less.
MCHeadStart == [f \in Feeds |-> IF f = "exchange" THEN 1 ELSE 0]

Symmetric == Permutations(Clients) \union Permutations(Pollers)
=============================================================================
