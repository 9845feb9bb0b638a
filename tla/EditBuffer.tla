------------------------------ MODULE EditBuffer ------------------------------
(***************************************************************************)
(* What an editing page of the panel promises its user, whatever requests, *)
(* answers and refetches go on behind it: a form that differs from what    *)
(* the server is known to hold shows as unsaved, and an unsaved form is    *)
(* changed by nobody but its user.                                         *)
(***************************************************************************)
CONSTANT Text    \* what the form may hold, the form before the first load included

VARIABLES text,  \* what the form shows
          clean, \* the Save button is disabled
          told   \* what the server has told the page it holds

bufferVars == <<text, clean, told>>

Init ==
    /\ text \in Text
    /\ clean = TRUE
    /\ told = {text}

(* The user edits the form. *)
Type ==
    /\ text' \in Text
    /\ clean' => text' \in told
    /\ clean' \in BOOLEAN
    /\ UNCHANGED told

(* The server tells what it holds: the form may follow, unless it has      *)
(* unsaved edits.                                                          *)
Learn ==
    /\ \E t \in Text :
          /\ told' = told \cup {t}
          /\ text' = text \/ (clean /\ text' = t)
    /\ clean' => text' \in told'
    /\ clean' \in BOOLEAN

Next == Type \/ Learn

Spec == Init /\ [][Next]_bufferVars
=============================================================================
