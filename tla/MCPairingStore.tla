--------------------------- MODULE MCPairingStore ---------------------------
(* PairingStore with the gateway and one command-line tool, two senders    *)
(* and two codes, so that a code is often drawn again.                     *)
EXTENDS PairingStore, TLC

CONSTANTS gateway, tool, alice, bob, code1, code2

MCProcesses == {gateway, tool}
MCSenders == {alice, bob}
MCCodes == {code1, code2}

(* The processes and the codes are interchangeable, and so are the senders.*)
Alike == Permutations(MCProcesses) \union Permutations(MCSenders) \union Permutations(MCCodes)
=============================================================================
