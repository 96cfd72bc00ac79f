--------------------------- MODULE MCFileTransfer ---------------------------
(* Values of the pairs of FileTransfer for TLC.                            *)
EXTENDS FileTransfer

CONSTANTS a, x, y

\* An administrator who wants two clients.
MCTwo == {<<a, x>>, <<a, y>>}
=============================================================================
