---------------------------- MODULE MCCatalogue ----------------------------
(* Small instances of Catalogue for TLC: three futures on two exchanges and *)
(* an option on each of two of them.                                        *)
EXTENDS Catalogue, TLC

MCExpiry == 1 :> 0 @@ 2 :> 1 @@ 3 :> 1 @@ 11 :> 0 @@ 12 :> 1 @@ 13 :> 1
MCVenue == 1 :> "nymex" @@ 2 :> "nymex" @@ 3 :> "ice"
MCUnder == 11 :> 1 @@ 12 :> 2 @@ 13 :> 2
============================================================================
