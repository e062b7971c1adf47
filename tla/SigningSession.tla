--------------------------- MODULE SigningSession ---------------------------
(***************************************************************************)
(* What an ML-DSA locker promises about signing, without fields, transfer  *)
(* counters, loop iterations or an ADS: a signing session is begun on one  *)
(* key, message and random value, and ends with the signature of exactly   *)
(* these, or without one.  A session may be saved and taken up later, but  *)
(* a random value begins one session only.                                 *)
(***************************************************************************)
EXTENDS Integers

CONSTANTS Keys, Messages, Sign(_, _, _), MaxNonce

VARIABLES
  session,    \* the session under way, or NoSession
  signature,  \* the signature ready for output, or NoSignature
  saved,      \* sessions and signatures saved
  begun       \* random values that began a session

NoSession   == <<>>
NoSignature == <<>>
Sessions    == Keys \X Messages \X (0..MaxNonce)

Init == session = NoSession /\ signature = NoSignature /\ saved = {} /\ begun = {}

Fresh(r) == r = 0 \/ r \notin begun
Began(r) == begun' = IF r = 0 THEN begun ELSE begun \cup {r}

Begin(s) ==
  /\ session = NoSession /\ Fresh(s[3])
  /\ session' = s /\ signature' = NoSignature /\ Began(s[3])
  /\ UNCHANGED saved

Finish ==
  /\ session # NoSession
  /\ session' = NoSession /\ signature' = Sign(session[1], session[2], session[3])
  /\ UNCHANGED <<saved, begun>>

\* A session that is never interrupted, and one that ends as it begins.
SignAtOnce(s) ==
  /\ session = NoSession /\ Fresh(s[3])
  /\ session' = NoSession /\ signature' = Sign(s[1], s[2], s[3]) /\ Began(s[3])
  /\ UNCHANGED saved
FailAtOnce(r) ==
  /\ session = NoSession /\ Fresh(r)
  /\ session' = NoSession /\ signature' = NoSignature /\ Began(r)
  /\ UNCHANGED saved

Drop == session' = NoSession /\ signature' = NoSignature /\ UNCHANGED <<saved, begun>>

\* A copy may lack the session, and a session may be lost when it is taken up.
Save ==
  /\ \E s \in {session, NoSession} : saved' = saved \cup {<<s, signature>>}
  /\ UNCHANGED <<session, signature, begun>>

TakeUp(p) ==
  /\ session' \in {p[1], NoSession}
  /\ signature' = p[2]
  /\ UNCHANGED <<saved, begun>>

Next ==
  \/ \E s \in Sessions : Begin(s) \/ SignAtOnce(s)
  \/ \E r \in 0..MaxNonce : FailAtOnce(r)
  \/ Finish \/ Drop \/ Save
  \/ \E p \in saved : TakeUp(p)

Spec == Init /\ [][Next]_<<session, signature, saved, begun>>
=============================================================================
