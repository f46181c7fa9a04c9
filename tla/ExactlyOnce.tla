---------------------------- MODULE ExactlyOnce ----------------------------
(***************************************************************************)
(* What the bridge promises a client, apart from how it does it: a request *)
(* key is carried out at most once, for one body; `ok' is never said of a  *)
(* request that was not carried out; and an answer is final, as is the     *)
(* decision not to carry a request out, unless two friring processes have  *)
(* ever run side by side.                                                  *)
(***************************************************************************)
EXTENDS Sequences

CONSTANTS Keys, Bodies

VARIABLES performed,  \* key |-> the bodies carried out under it, in order
          reply,      \* key |-> the answer on record
          shared      \* two friring processes have run at the same time

Init ==
    /\ performed = [k \in Keys |-> <<>>]
    /\ reply = [k \in Keys |-> "none"]
    /\ shared = FALSE

Open(k) == reply[k] = "none" \/ shared

Perform(k, b) ==
    /\ Open(k) /\ performed[k] = <<>>
    /\ performed' = [performed EXCEPT ![k] = <<b>>]
    /\ UNCHANGED <<reply, shared>>

Answer(k, a) ==
    /\ Open(k)
    /\ a = "ok" => performed[k] # <<>>
    /\ reply' = [reply EXCEPT ![k] = a]
    /\ UNCHANGED <<performed, shared>>

Share == shared' = TRUE /\ UNCHANGED <<performed, reply>>

Next ==
    \/ \E k \in Keys : \/ \E b \in Bodies : Perform(k, b)
                       \/ \E a \in {"ok", "refused"} : Answer(k, a)
    \/ Share

Spec == Init /\ [][Next]_<<performed, reply, shared>>

=============================================================================
