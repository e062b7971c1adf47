---------------------------- MODULE SecretSource ----------------------------
(***************************************************************************)
(* What an ML-KEM locker promises about a shared secret, without keys,     *)
(* flags or States: a secret is agreed, and the ciphertext that announces  *)
(* it, if there is one, is put out first, each unit once and in order;     *)
(* then one destination gets the secret, or a part of it, and it is gone.  *)
(* A sealed secret goes to no readable destination.                        *)
(***************************************************************************)
EXTENDS Integers, Sequences

CONSTANTS Secrets, Ciphertexts

VARIABLES
  secret,  \* the secret held, or NoSecret
  due,     \* what is left of its ciphertext to put out
  sealed,
  out      \* what the last step put out

NoSecret  == <<>>
NoOutput  == [kind |-> "none"]
Silent    == out' = NoOutput
Forgotten == secret' = NoSecret /\ due' = <<>>

Init == secret = NoSecret /\ due = <<>> /\ sealed \in BOOLEAN /\ out = NoOutput

Agree == secret = NoSecret /\ secret' \in Secrets /\ due' \in Ciphertexts \cup {<<>>} /\ Silent

Announce ==
  /\ secret # NoSecret
  /\ \E n \in 0..Len(due) :
       /\ out' = [kind |-> "emitted", units |-> SubSeq(due, 1, n)]
       /\ due' = SubSeq(due, n + 1, Len(due))
  /\ UNCHANGED secret

Give(n, readable) ==
  /\ secret # NoSecret /\ due = <<>> /\ ~(sealed /\ readable)
  /\ out' = [kind |-> "secret", units |-> SubSeq(secret, 1, n), readable |-> readable]
  /\ Forgotten

Forget == Forgotten /\ Silent

\* Anything else that a locker without secret puts out, or one with secret does.
Otherwise == /\ out'.kind = "none" \/ (secret = NoSecret /\ out'.kind = "emitted")
             /\ UNCHANGED <<secret, due>>

Next ==
  /\ UNCHANGED sealed
  /\ \/ Agree
     \/ Announce
     \/ secret # NoSecret /\ \E n \in 0..Len(secret), r \in BOOLEAN : Give(n, r)
     \/ Forget
     \/ Otherwise

Spec == Init /\ [][Next]_<<secret, due, sealed, out>>
=============================================================================
