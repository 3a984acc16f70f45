--------------------------- MODULE AnswerStream ---------------------------
(***************************************************************************)
(* What a connection promises its client: an answer is made up before any  *)
(* of it is sent, is not changed afterwards, arrives as a growing prefix   *)
(* of itself, and the connection ends when all of it was sent or with an   *)
(* error.  Nothing is promised when an answer is taken up before its       *)
(* handler has done with it, or does not fit where it is made.             *)
(***************************************************************************)
EXTENDS SequencesExt

VARIABLES
    phase,    \* "making", "sending", "ended", "broken" or "exposed"
    answer, sent

vars == <<phase, answer, sent>>

Init == phase = "making" /\ answer = <<>> /\ sent = <<>>

\* The handler may write, overwrite and clear as long as nothing was sent.
Make ==
    /\ phase = "making"
    /\ phase' \in {"making", "sending", "broken"}
    /\ sent' = sent

Send ==
    /\ phase = "sending"
    /\ answer' = answer
    /\ IsPrefix(sent, sent') /\ IsPrefix(sent', answer')
    /\ phase' \in {"sending", "broken"} \cup (IF sent' = answer THEN {"ended"} ELSE {})

\* An error may strike at any piece, also after it went out.
Break ==
    /\ phase = "sending" /\ phase' = "broken"
    /\ IsPrefix(sent, sent') /\ IsPrefix(sent', answer)

\* The handler goes on with an answer that is being sent, or spoils it.
Expose == phase \in {"making", "exposed"} /\ phase' = "exposed"

\* The slot is given to the next client.
Close == phase' = "making" /\ answer' = <<>> /\ sent' = <<>>

Next == Make \/ Send \/ Break \/ Expose \/ Close

Spec == Init /\ [][Next]_vars

=============================================================================
