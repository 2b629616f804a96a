------------------------------ MODULE MCStartup -------------------------------
(* Offers of up to three security types, in every order; lines around the    *)
(* length of the key and of the buffer; up to two connectors.                *)
EXTENDS Startup

MCVersions     == {"RFB 003.003", "RFB 003.008"}
MCOffers       == UNION {[1 .. n -> {"NONE", "VNCAUTH", "other"}] : n \in 0 .. 3}
MCStatuses     == {0, 1}
MCDesktopSizes == {"like the screen", "larger"}
MCNameLengths  == {"fits", "too long"}
MCLines ==
  {[length |-> l[1], ends |-> l[2]] :
     l \in {<<0, "newline">>, <<1, "newline">>, <<2, "newline">>, <<3, "newline">>,
            <<4, "newline">>, <<5, "newline">>,
            <<0, "end">>, <<1, "end">>, <<2, "end">>, <<3, "end">>,
            <<0, "NUL">>, <<1, "NUL">>}}
MCConnectorLists ==
  UNION {[1 .. n -> {"modes", "no modes", "error"}] : n \in 0 .. 2}
=============================================================================
