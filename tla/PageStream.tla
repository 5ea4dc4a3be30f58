---------------------------- MODULE PageStream ----------------------------
(***************************************************************************)
(* What the telemetry decoder of a channel promises to the OSNMA worker    *)
(* about the pages it publishes: every publication is the page that the    *)
(* satellite of the channel has just finished sending, under its own PRN,  *)
(* or the last page published once more.  Nothing damaged and nothing      *)
(* older is published; pages may be lost.                                  *)
(*                                                                         *)
(* InavPages is shown to implement this, and OsnmaSubframes takes its      *)
(* pages from such a stream: Delivered, Missed and Repeated here are       *)
(* PageDelivered, PageLost and PageRepeated there.                         *)
(***************************************************************************)
EXTENDS Integers

CONSTANTS
    Sats,      \* satellites the channel may be given
    Nothing    \* stands for no page

VARIABLES
    on_air,    \* number of the page the satellites are sending
    pub        \* publications so far, the last page and its PRN label

streamVars == <<on_air, pub>>

StreamInit ==
    /\ on_air = 0
    /\ pub = [count |-> 0, page |-> Nothing, prn |-> "none"]

Publication(page, s) == pub' = [count |-> pub.count + 1, page |-> page, prn |-> s]

TimePasses == on_air' \in {on_air, on_air + 1}

(* A page is published at its end, so that it is never new twice.          *)
Delivered(s) ==
    /\ Publication([sat |-> s, n |-> on_air], s)
    /\ on_air' = on_air + 1

Missed == TimePasses /\ UNCHANGED pub

Repeated(s) ==
    /\ pub.count > 0
    /\ Publication(pub.page, s)
    /\ TimePasses

StreamNext == Missed \/ \E s \in Sats : Delivered(s) \/ Repeated(s)

StreamSpec == StreamInit /\ [][StreamNext]_streamVars
=============================================================================
