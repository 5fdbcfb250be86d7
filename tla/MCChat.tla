------------------------------- MODULE MCChat -------------------------------
(***************************************************************************)
(* Two scripts that listen on two channels, and two avatars.               *)
(***************************************************************************)
EXTENDS Chat, TLC

CONSTANTS door, lamp, ann, bob, object, chat, control, hello, bye

MCScripts == {door, lamp}
MCAvatars == {ann, bob}
MCNames == {object}
MCChannels == {chat, control}
MCTexts == {hello, bye}
MCAsked == {control}
MCLink == door :> 1 @@ lamp :> 2
MCNameOf == [a \in MCAvatars |-> object]

Filter(channel, name, id, text) == [channel |-> channel, name |-> name, id |-> id, text |-> text]
MCHeard == {Filter(chat, Blank, Blank, Blank), Filter(chat, Blank, door, hello), Filter(control, Blank, Blank, Blank)}

AnyAvatar == Permutations(MCAvatars)

=============================================================================
