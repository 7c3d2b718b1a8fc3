--------------------------- MODULE MCConsumerLoop ---------------------------
(* ConsumerLoop with the subscription of the restaurant service.            *)
EXTENDS ConsumerLoop

MCMessage == {[id |-> <<t, n>>, type |-> t] : t \in Topic, n \in 1..MaxMessages}
=============================================================================
