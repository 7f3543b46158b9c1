------------------------------ MODULE EditOnce ------------------------------
(***************************************************************************)
(* What the client wants of the conversion server: an edit offered to it    *)
(* changes the composition once, or not at all if the client gives up.      *)
(* Only an edit that was offered blindly (the client's picture of the       *)
(* composition was wrong, or the server has died since) may be repeated.    *)
(* EditRecovery implements this over a transport that loses calls.          *)
(***************************************************************************)
EXTENDS Renderings

VARIABLES text,     \* the composition
          edit,     \* the edit on offer
          phase,    \* "none", "pending" or "applied"
          exact     \* the edit was offered against this very composition

onceVars == <<text, edit, phase, exact>>

Init == text = <<>> /\ phase = "none" /\ exact \in BOOLEAN

\* A new edit is offered; the one before it is given up or was applied.
Offer ==
  /\ phase' = "pending"
  /\ exact' \in BOOLEAN
  /\ UNCHANGED text

\* While nothing was applied the picture may still become right or wrong.
Reassess ==
  /\ phase = "pending"
  /\ exact' \in BOOLEAN
  /\ UNCHANGED <<text, edit, phase>>

ApplyOnce ==
  /\ phase = "pending"
  /\ text' = Apply(edit, text)
  /\ phase' = "applied"
  /\ UNCHANGED <<edit, exact>>

Repeat ==
  /\ phase = "applied"
  /\ ~exact
  /\ text' = Apply(edit, text)
  /\ UNCHANGED <<edit, phase, exact>>

Withdraw ==
  /\ phase' = "none"
  /\ UNCHANGED <<text, exact>>

\* The composition ends, or the server that holds it does.
Wipe ==
  /\ text' = <<>>
  /\ phase' \in {"none", "pending"} \ (IF phase = "none" THEN {"pending"} ELSE {})
  /\ phase' = "pending" => edit' = edit
  /\ exact' \in {exact, FALSE}

Next == Offer \/ Reassess \/ ApplyOnce \/ Repeat \/ Withdraw \/ Wipe

Spec == Init /\ [][Next]_onceVars
=============================================================================
