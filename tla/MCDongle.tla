------------------------------ MODULE MCDongle ------------------------------
(* Instance of Dongle for TLC, against an arbitrary host.  MaxReplies      *)
(* bounds the lines such a host leaves unread.                             *)
EXTENDS Dongle, TLC

CONSTANT MaxReplies

FewReplies == Len(toHost) <= MaxReplies
Symmetry == Permutations(Requests) \cup Permutations(Keys)
=============================================================================
