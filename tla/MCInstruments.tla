--------------------------- MODULE MCInstruments ----------------------------
(***************************************************************************)
(* One endpoint that may answer; a device with a serial number and         *)
(* another of the same model without one; an address typed in.             *)
(***************************************************************************)
EXTENDS Instruments

MCDevices == {[bare |-> "u", full |-> "u1"], [bare |-> "u", full |-> "u"]}
MCAtStart ==
  {[d \in MCDevices |-> IF d.bare = d.full THEN "in" ELSE "mute"], [d \in MCDevices |-> "out"]}
MCOthers == {[kind |-> "vxi11", address |-> "e1"]}
=============================================================================
