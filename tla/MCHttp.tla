------------------------------- MODULE MCHttp -------------------------------
(***************************************************************************)
(* Two scripts; an address with two patterns in it and one with one.       *)
(***************************************************************************)
EXTENDS Http

CONSTANTS shop, shopItem, host, item

MCOutside == {shop, shopItem}
MCPatterns == {host, item}
MCWithin == [address \in MCOutside |-> IF address = shop THEN {host} ELSE {host, item}]

=============================================================================
