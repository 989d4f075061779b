---------------------------- MODULE MCEngagement ----------------------------
(* Small instances of Engagement for TLC. *)
EXTENDS Engagement

Event(id, client, server, feature, bridged) ==
  [id |-> id, client |-> client, server |-> server, feature |-> feature,
   bridged |-> bridged]

\* A client event of the registry, one of neither registry, a server event the
\* bridge passes on, and a client event of the feature 'system'.
SomeEvents == {Event(1, TRUE, FALSE, "known", FALSE),
               Event(2, FALSE, FALSE, "unknown", FALSE),
               Event(3, FALSE, TRUE, "known", TRUE),
               Event(4, FALSE, FALSE, "system", FALSE)}

\* A throttled event whose hash is shared, and one whose hash is its own.
SomeNotices == {[name |-> "wallet.transfer_detected.v1", subject |-> "tx"],
                [name |-> "social.comment_reply.v1", subject |-> "reply"]}

\* No two components run in one behaviour, so processes, requests and accounts
\* may share their names, which keeps the symmetry group small.
Symmetric == Permutations(StreamWorkers) \union Permutations(Calls)
=============================================================================
