--------------------------- MODULE MCPedalSession ---------------------------
(* Instance of PedalSession for TLC: pedals that share their product id     *)
(* with others, and a wheel whose driver is registered first.               *)
EXTENDS PedalSession

CONSTANTS game, telemetry, brake, released, half, nobody, neo, wheel

MCInterfaces == {neo, wheel}

Interface(product, joystickUsage, hints, model) ==
    [product |-> product, joystick |-> joystickUsage, hints |-> hints, model |-> model]

MCAttributes == [d \in MCInterfaces |->
    CASE d = neo -> Interface("P500", TRUE, {"ALPHA PEDAL NEO"}, "ALPHA PEDAL NEO")
      [] OTHER -> Interface("wheel", TRUE, {}, "unknown")]

MCDrivers == <<"foreign", "simagic">>
MCForeign == {"wheel"}
=============================================================================
