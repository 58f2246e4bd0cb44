---------------------------- MODULE MCBindGuard ----------------------------
(* BindGuard for TLC: an address for each way through the programs, and one *)
(* that differs from ::1 in each of its words.                             *)
EXTENDS BindGuard

Nil == <<0, 0, 0, 0>>
Local == <<127, 0, 0, 1>>
Host == <<10, 0, 0, 127>>
Mapped == <<0, 0, 255, 255>>
Last == <<0, 0, 0, 1>>

MCAddresses4 == {Local, Host}
MCAddresses6 ==
    { <<Nil, Nil, Nil, Last>>, <<Nil, Nil, Nil, Local>>, <<Nil, Nil, Mapped, Local>>,
      <<Nil, Nil, Mapped, Host>>, <<Nil, Nil, Last, Last>>, <<Nil, Last, Nil, Last>>,
      <<Last, Nil, Nil, Last>> }
MCPorts == {Zero, <<31, 144, 0, 0>>}
=============================================================================
