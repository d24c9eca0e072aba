------------------------------ MODULE ChatRoom ------------------------------
(***************************************************************************)
(* What the UDP chat promises to somebody who watches the screens: a line  *)
(* shows what the one it names has said, to somebody who has spoken too.   *)
(* The one exception is an empty message, which the server passes on under *)
(* a name it still has from before.                                        *)
(***************************************************************************)
CONSTANTS Clients, Texts, Empty, Blank

VARIABLES said, \* what has been said, and by whom
          shown \* the last line that appeared: on whose screen, the name and the text

spoken == {s[1] : s \in {s \in said : s[2] # Empty}}

Init == said = {} /\ shown = Blank

Say(c) == /\ \E t \in Texts : said' = said \cup {<<c, t>>}
          /\ UNCHANGED shown

Show(c) == /\ c \in spoken
           /\ \E line \in said \cup (spoken \X {Empty}) : shown' = <<c, line[1], line[2]>>
           /\ UNCHANGED said

Next == \E c \in Clients : Say(c) \/ Show(c)

Spec == Init /\ [][Next]_<<said, shown>>
=============================================================================
