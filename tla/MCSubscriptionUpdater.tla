------------------------ MODULE MCSubscriptionUpdater ------------------------
(* SubscriptionUpdater with model values for contents and groups, which are *)
(* interchangeable.                                                         *)
EXTENDS SubscriptionUpdater

Interchangeable == Permutations(Keys) \cup Permutations(Groups)
=============================================================================
