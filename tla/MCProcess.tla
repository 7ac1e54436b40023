----------------------------- MODULE MCProcess -----------------------------
(***************************************************************************)
(* Instances of Process: a plugin directory with shared objects and        *)
(* another file, and scripts that call anything in any order.              *)
(***************************************************************************)
EXTENDS Process, TLC

CONSTANTS a, b, c, readme

Three == {a, b, c}
MCOther == {readme}
MCDomain == {"AF_INET", "AF_UNIX"}
MCInet == {"AF_INET"}

Files == Permutations(Three)
=============================================================================
