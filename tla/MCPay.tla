-------------------------------- MODULE MCPay --------------------------------
(***************************************************************************)
(* Small instances of Pay for TLC.                                         *)
(***************************************************************************)
EXTENDS Pay

CONSTANTS server, cli, desktop, e1, w1, l1

TwoDispatchers == {server, cli}
ThreeDispatchers == {server, cli, desktop}
OneEndpoint == {e1}
OneWatch == {w1}
OneLine == {l1}
EveryLine == BankLines \X Watches
=============================================================================
