------------------------------ MODULE ItemHome ------------------------------
(***************************************************************************)
(* What a channel server promises about its characters' items: each is in  *)
(* one slot of one character, wherever that slot is kept, in memory or in  *)
(* the database; it moves within a character, is given to another one, or  *)
(* is lost, but it is never copied.  A failed transaction, a crash, a      *)
(* storage that is listed twice and a stack that is divided end the        *)
(* promise.  Module CharacterStore implements this one.                    *)
(***************************************************************************)
CONSTANTS Char, Item, null, Slot

VARIABLES
    home,       \* home[c][s]: what slot s of character c holds
    disturbed   \* the promise has ended

vars == <<home, disturbed>>

Homes == [Char -> [Slot -> Item \cup {null}]]

\* An item is in at most one of the slots.
Injective(places) ==
    \A c, d \in Char : \A s, t \in Slot :
        places[c][s] = places[d][t] /\ places[c][s] # null => c = d /\ s = t

Init == home \in Homes /\ Injective(home) /\ disturbed = FALSE

Move(c, s, d, t) ==
    /\ home[c][s] # null /\ home[d][t] = null
    /\ home' = [home EXCEPT ![c][s] = null, ![d][t] = home[c][s]]

Lose ==
    /\ home' \in Homes
    /\ \A c \in Char, s \in Slot : home'[c][s] \in {home[c][s], null}

Disturb == disturbed' = TRUE /\ home' \in Homes

Next ==
    \/ Disturb
    \/ /\ Lose \/ \E c, d \in Char, s, t \in Slot : Move(c, s, d, t)
       /\ UNCHANGED disturbed

Spec == Init /\ [][Next]_vars
=============================================================================
