------------------------- MODULE MCL1ddcConfiguration -------------------------
(***************************************************************************)
(* Three boards: an MM L1DDC that is trained, with a GBTx over IC and one  *)
(* over I2C, a Rim L1DDC without training, and a pFEB of which only the    *)
(* second GBTx is configured, in frames that end with the last register.   *)
(***************************************************************************)
EXTENDS L1ddcConfiguration, TLC

MCSettings ==
  (<<"paMode">> :> {1}) @@ (<<"paEnableGroup", 0>> :> {0, 1}) @@ (<<"paEnableEC">> :> {0})
    @@ (<<"paEnableGroup", 4>> :> {7})
    @@ (<<"paResetGroup", 1>> :> {3}) @@ (<<"paPhaseSelectGroup", 2, 5>> :> {0, 2})
    @@ (<<"paPhaseSelectEC">> :> {1}) @@ (<<"dllCoarseLockDetection">> :> {0})
GBTx(ec) == [configure |-> TRUE, ec |-> ec, settings |-> MCSettings]
NoGBTx   == [configure |-> FALSE, ec |-> FALSE, settings |-> <<>>]
MCConf ==
  <<[type |-> "mmg",  block |-> 16,  train |-> TRUE, save |-> TRUE,
     gbtx |-> <<GBTx(TRUE), GBTx(FALSE), NoGBTx>>],
    [type |-> "rim",  block |-> 16,  train |-> FALSE, save |-> FALSE, gbtx |-> <<GBTx(FALSE)>>],
    [type |-> "pfeb", block |-> 4, train |-> FALSE, save |-> TRUE,
     gbtx |-> <<NoGBTx, GBTx(FALSE)>>]>>
\* The registers of paMode and paEnableEC.
MCSpots == {62, 248}
=============================================================================
