--------------------------- MODULE MCConnections ---------------------------
(* One SFTP server whose host keys may change, and two rclone remotes, which *)
(* have no host and no share to tell them apart.                             *)
EXTENDS Connections, TLC

CONSTANTS server, remote1, remote2, rsa, ed

MCPlaces   == {server, remote1, remote2}
MCIdentity == [p \in MCPlaces |-> IF p = server THEN "sftp" ELSE "rclone_remote"]
MCOffered  == [p \in MCPlaces |-> IF p = server THEN {{ed}, {rsa, ed}} ELSE {}]

Symmetry == Permutations(Requests)
=============================================================================
