---------------------------- MODULE MCTimeLevels ----------------------------
(***************************************************************************)
(* TimeLevels for TLC: every model and projection Run knows, a name of     *)
(* each that it does not know, and both parities of the first iteration.   *)
(* Seven steps see every rotation of two and of three arrays close.        *)
(***************************************************************************)
EXTENDS TimeLevels

MCModels      == {"Monomaterial", "MultimaterialMix", "MultimaterialInterface", "OtherModel"}
MCProjections == {"AdProjection", "DirectProjection", "DirectProjectionCornerFluxes",
                  "OtherProjection"}
MCKnownProjections == MCProjections \ {"OtherProjection"}
MCMonomaterial == {"Monomaterial"}
=============================================================================
