----------------------------- MODULE MCCatalog -----------------------------
(***************************************************************************)
(* Catalog on small instances: one stable key for clients, so that         *)
(* creations collide; two contents, one of which does not validate; one    *)
(* packaged fixture with one profile.                                      *)
(***************************************************************************)
EXTENDS CatalogProperties, TLC

CONSTANTS valid, invalid, wanted, fixture, station

MCNoPresets == <<>>
MCPresets   == <<[key |-> fixture, content |-> valid, profiles |-> <<station>>]>>

\* Two fixtures that share a profile.
MCTwoPresets ==
    <<[key |-> fixture, content |-> valid, profiles |-> <<station>>],
      [key |-> wanted, content |-> valid, profiles |-> <<station>>]>>

Symmetry == Permutations(Workers)
=============================================================================
