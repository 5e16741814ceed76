---------------------------- MODULE PedcaRounds ----------------------------
(***************************************************************************)
(* What the P-EDCA procedure promises for each EDCAF, abstractly: rounds   *)
(* of CTS-to-self frames, at most Budget per round, each of which is due   *)
(* before it is sent, is sent once it is due, and is followed by the       *)
(* failure of an exchange before the next one is due.                      *)
(***************************************************************************)
EXTENDS Naturals

CONSTANTS
  Edcafs,   \* the EDCAFs
  Budget,   \* CTS-to-self frames a round may send
  AtOnce    \* whether P-EDCA is selected before any exchange fails

VARIABLES
  stage,   \* where each EDCAF is in its P-EDCA round
  sent     \* CTS-to-self frames each EDCAF sent in its round

(***************************************************************************)
(* edca      - no round: plain EDCA                                        *)
(* selected  - P-EDCA is selected, no CTS-to-self is due yet               *)
(* due       - the EDCAF contends to send a CTS-to-self                    *)
(* protected - a CTS-to-self was sent and protects the next exchange       *)
(***************************************************************************)
Stages == {"edca", "selected", "due", "protected"}

Init ==
  /\ stage \in [Edcafs -> {"edca", "due"}]
  /\ sent = [x \in Edcafs |-> 0]
  /\ \A x \in Edcafs : stage[x] = "due" => AtOnce /\ Budget > 0

\* An EDCAF whose exchanges failed too often starts a round, and a protected
\* exchange that fails takes the round back to its beginning.
Fail(x) ==
  /\ stage[x] \in {"edca", "protected"}
  /\ stage'[x] = "selected"
  /\ sent'[x] = sent[x]

\* A CTS-to-self becomes due, possibly together with the failure that caused it.
MakeDue(x) ==
  /\ stage[x] # "due"
  /\ sent[x] < Budget
  /\ stage'[x] = "due"
  /\ sent'[x] = sent[x]

SendCts(x) ==
  /\ stage[x] = "due"
  /\ stage'[x] = "protected"
  /\ sent'[x] = sent[x] + 1

\* A round ends on success or when its budget is used up, but never while a
\* CTS-to-self is due.
EndRound(x) ==
  /\ stage[x] \in {"selected", "protected"}
  /\ stage'[x] = "edca"
  /\ sent'[x] = 0

\* The next round starts with the success that ends one.
NextRound(x) ==
  /\ AtOnce
  /\ stage[x] \in {"selected", "protected"}
  /\ Budget > 0
  /\ stage'[x] = "due"
  /\ sent'[x] = 0

Same(x) == stage'[x] = stage[x] /\ sent'[x] = sent[x]

\* The EDCAFs of a device step together.
Next ==
  \A x \in Edcafs :
    Fail(x) \/ MakeDue(x) \/ SendCts(x) \/ EndRound(x) \/ NextRound(x) \/ Same(x)

Spec == Init /\ [][Next]_<<stage, sent>>
=============================================================================
