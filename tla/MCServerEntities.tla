-------------------------- MODULE MCServerEntities --------------------------
(***************************************************************************)
(* A listen server with one remote client.                                 *)
(***************************************************************************)
EXTENDS ServerEntities

CONSTANT MaxId

MCIds == 1..MaxId
MCNothing == {<<>>}
MCWeapon == {<<"weapon">>}
MCLoadouts == {<<"weapon">>, <<"knife", "weapon", "ammo">>}
=============================================================================
