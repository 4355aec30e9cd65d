----------------------------- MODULE MCCommands -----------------------------
(* Commands for TLC: inputs that end with and without a newline, a sealed *)
(* text, one that is not hex; as many stream objects as needed.             *)
EXTENDS Commands

MCUnknown == -1
MCHandle  == 1 .. MaxRuns + 5
AllCmd    == Drainer \cup ReadAll \cup Updater \cup Emitter \cup Unread
MCInput   == {<<>>, <<54, 49>>, <<66, 67, 49, 50, LF>>, Seal(<<65>>), Seal(<<65, 66>>)}
MCSealed  == {Seal(<<65, LF>>), Seal(<<65>>)}
MCHexed   == {AsHex(Seal(<<65>>))}
MCLines   == {<<97, LF, LF, 98, 99, LF, 66>>, <<97, LF, 98>>}
=============================================================================
