---------------------------- MODULE MCCredentials ----------------------------
(***************************************************************************)
(* Small instances of Credentials: a record with and one without an IKE    *)
(* identity.                                                               *)
(***************************************************************************)
EXTENDS Credentials, TLC

CONSTANTS s1, k1, k2, r1, r2, id1

MCOneSite  == {s1}

MCPsks     == {k1, k2}
MCRecs     == {r1, r2}
MCIdentity == r1 :> {id1} @@ r2 :> {}

=============================================================================
