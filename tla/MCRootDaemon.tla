---------------------------- MODULE MCRootDaemon ----------------------------
(* RootDaemon for an image of five or six instructions: 3 raises an        *)
(* exception the program handles, 4 is an INT3 of its own, 5 raises        *)
(* another exception.                                                      *)
EXTENDS RootDaemon

MCFaultCode == [a \in Address |-> CASE a \in {0, 3} -> "av" [] a = BadDll -> "overflow"
                                    [] a = 5 -> "cxx" [] OTHER -> None]
=============================================================================
