------------------------------ MODULE Signing ------------------------------
(***************************************************************************)
(* Crypto: key pairs, certificates and signatures as Demo makes them, with *)
(* the ContentSigner of Bouncy Castle as a protocol: its stream feeds a    *)
(* java.security.Signature, and getSignature() signs what was written      *)
(* since the last signature and leaves the object empty.  A signature is   *)
(* the pair of the key that made it and of what it covers.                 *)
(***************************************************************************)
CONSTANTS
  KeyPairs,  \* key pairs that may be generated
  Data,      \* what callers sign
  Nothing    \* the empty message, none of Data

VARIABLES
  generated,   \* key pairs generated
  certs,       \* certificates issued
  call,        \* the arguments of the call of sign() in progress
  pc,          \* its next statement
  written,     \* what the signer of that call has to sign
  signatures   \* what sign() and signCades() were asked for and returned

vars == <<generated, certs, call, pc, written, signatures>>

Signature(key, covered) == [key |-> key, covered |-> covered]
Answer(data, key, signature) == [data |-> data, key |-> key, signature |-> signature]

Init ==
  /\ generated = {} /\ certs = {}
  /\ call \in [data : Data, key : KeyPairs]
  /\ pc = "idle" /\ written = Nothing
  /\ signatures = {}

generateKeyPair ==
  /\ pc = "idle"
  /\ \E k \in KeyPairs \ generated : generated' = generated \cup {k}
  /\ UNCHANGED <<certs, call, pc, written, signatures>>

\* The certificate's signer is asked for one signature only.
issueCert ==
  /\ pc = "idle"
  /\ \E issuer, subject \in generated :
       certs' = certs \cup
         {[subject |-> subject, signature |-> Signature(issuer, subject)]}
  /\ UNCHANGED <<generated, call, pc, written, signatures>>

\* A new signer is empty.
getContentSigner ==
  /\ pc = "idle"
  /\ \E data \in Data, key \in generated : call' = [data |-> data, key |-> key]
  /\ pc' = "write" /\ written' = Nothing
  /\ UNCHANGED <<generated, certs, signatures>>

Write ==
  /\ pc = "write"
  /\ pc' = "print" /\ written' = call.data
  /\ UNCHANGED <<generated, certs, call, signatures>>

\* println(... + signer.getSignature())
Println ==
  /\ pc = "print"
  /\ pc' = "return" /\ written' = Nothing
  /\ UNCHANGED <<generated, certs, call, signatures>>

\* return signer.getSignature()
Return ==
  /\ pc = "return"
  /\ pc' = "idle" /\ written' = Nothing
  /\ signatures' = signatures \cup
       {Answer(call.data, call.key, Signature(call.key, written))}
  /\ UNCHANGED <<generated, certs, call>>

\* signCades() leaves the one signature to the CMS generator.
signCades ==
  /\ pc = "idle" /\ certs # {}
  /\ \E data \in Data, key \in generated :
       signatures' = signatures \cup {Answer(data, key, Signature(key, data))}
  /\ UNCHANGED <<generated, certs, call, pc, written>>

Next == generateKeyPair \/ issueCert \/ getContentSigner \/ Write \/ Println \/ Return
          \/ signCades

Spec == Init /\ [][Next]_vars

-----------------------------------------------------------------------------
\* What is returned as the signature of data, as Demo prints it, is a
\* signature over that data with the key it was asked for.
SignatureOfData ==
  \A answer \in signatures : answer.signature = Signature(answer.key, answer.data)
=============================================================================
