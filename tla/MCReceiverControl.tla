------------------------- MODULE MCReceiverControl -------------------------
(* Instances of ReceiverControl for TLC.                                   *)
EXTENDS ReceiverControl

(* One Galileo band.                                                       *)
SingleBand == {"1B"}
SingleBandOf == [c \in Channels |-> "1B"]
NoAssistance == [b \in Bands |-> NoBand]

(* Galileo E1 and E5a: two channels on the first, tied to a satellite      *)
(* each, the rest on the second.                                           *)
DualBands == {"1B", "5X"}
DualPrimary == {"1B"}
DualAssistance == [b \in Bands |-> IF b = "5X" THEN "1B" ELSE NoBand]
DualBandOf == [c \in Channels |-> IF c < 2 THEN "1B" ELSE "5X"]

NoneFixed == [c \in Channels |-> 0]
PrimaryFixed == [c \in Channels |-> IF c < 2 THEN c + 1 ELSE 0]
FirstFixed == [c \in Channels |-> IF c = 0 THEN 1 ELSE 0]

(* Commands: 200 control, 300 telecommand.                                 *)
NoCommands == {}
StopCommands == {<<200, 0>>}
StandbyCommands == {<<300, 10>>, <<300, 12>>}
AllCommands == {<<200, 1>>, <<300, 10>>, <<300, 11>>, <<300, 12>>, <<300, 13>>}

NoVisible == {[b \in Bands |-> <<>>]}
SomeVisible == {[b \in Bands |-> <<2, 1>>]}

(* Keep is the usual selection of a subsequence, on the short lists.       *)
ShortLists == UNION {[1 .. n -> 0 .. 2] : n \in 0 .. 4}

ASSUME KeepSelects ==
    \A list \in ShortLists, S \in SUBSET (0 .. 2) :
        Keep(list, S) = SelectSeq(list, LAMBDA x : x \in S)
=============================================================================
