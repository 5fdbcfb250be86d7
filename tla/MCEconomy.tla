----------------------------- MODULE MCEconomy -----------------------------
(***************************************************************************)
(* Two runs on one volume, with three avatars and one script; of the keys  *)
(* for linkset data, two share a file and one is empty.                    *)
(***************************************************************************)
EXTENDS Volume, TLC

CONSTANTS ann, bob, cat, vendor

MCAvatars == {ann, bob, cat}
MCScripts == {vendor}
MCDeposits == {0, 2}
MCAmounts == {-1, 2}
MCDecades == {1, 10}
MCKeys == {<<"_">>, <<":">>, <<>>}
MCPlain == {"a", "_"}
MCValues == {<<"a">>}

AnyAvatar == Permutations(MCAvatars)

=============================================================================
