-------------------------- MODULE MCCollectorWire --------------------------
(***************************************************************************)
(* An instance of CollectorWire: one interface more than allowed, and a    *)
(* limit below, or at, what a scan returns.                                *)
(***************************************************************************)
EXTENDS CollectorWire

MCOptions(command, limit, interface, redacted) ==
    [command |-> command, limit |-> limit, interface |-> interface, redacted |-> redacted]

MCCommandLines ==
    {MCOptions("probe", 1, <<>>, TRUE), MCOptions("authorize", 1, <<>>, TRUE),
     MCOptions("scan", 1, <<>>, TRUE), MCOptions("scan", 2, <<1>>, FALSE)}
=============================================================================
