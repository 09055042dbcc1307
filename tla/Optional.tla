------------------------------ MODULE Optional ------------------------------
(***************************************************************************)
(* Python's None, and lists taken as the sets of their elements.           *)
(***************************************************************************)
EXTENDS Integers, Sequences

CONSTANT None

Elements(list) == {list[i] : i \in DOMAIN list}
=============================================================================
