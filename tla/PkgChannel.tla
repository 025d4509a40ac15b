------------------------------ MODULE PkgChannel ------------------------------
(***************************************************************************)
(* What get_pkg() promises about the packages it hands to the handlers of   *)
(* decode_pkg(), and no more: each is one the host sent, they come in the   *)
(* order of the line, and none comes twice.  Any of them may be missing.    *)
(* Packages are numbered in the order the host sends them, from 1.          *)
(***************************************************************************)
EXTENDS Naturals

CONSTANT Pkgs       \* the numbers of the packages

VARIABLES
  accepted,   \* the last package handed over, 0 before the first
  handed      \* how many were

Init == accepted = 0 /\ handed = 0

Accept(p) == p > accepted /\ accepted' = p /\ handed' = handed + 1

Next == \E p \in Pkgs : Accept(p)

Spec == Init /\ [][Next]_<<accepted, handed>>
==============================================================================
