-------------------------- MODULE MCFeedPublisher --------------------------
(***************************************************************************)
(* TLC instance of FeedPublisher.  The symmetry is used by the safety runs *)
(* only: events and publishers are interchangeable.                         *)
(***************************************************************************)
EXTENDS FeedPublisher, TLC

Symmetry == Permutations(Events \ Unsendable) \cup Permutations(Publishers)
=============================================================================
