----------------------------- MODULE MCSigning -----------------------------
(* Small instances of Signing for TLC. *)
EXTENDS Signing, TLC

CONSTANTS s1, s2, s3, h1, h2

TwoTiers   == (s1 :> 1) @@ (s2 :> 2)
PairLast   == (s1 :> 1) @@ (s2 :> 2) @@ (s3 :> 2)
BothSign   == (s1 :> "signer") @@ (s2 :> "approver")
AllSign    == (s1 :> "signer") @@ (s2 :> "approver") @@ (s3 :> "signer")

Lifecycle == {"submitForReview", "retractReview", "approveAgreement", "rejectAgreement",
              "activateAgreement", "expireAgreement", "deleteAgreement", "cancelAgreement"}
Signers == {"sendForSignature", "submitRecipientSignature"}
Links == {"sendManualReminder", "createSignerSession", "expiryWarning"}

\* One more loop like the reminder's; RacingLinks has it.
Everything == (Lifecycle \cup Signers \cup Links \cup {"declineRecipientSignature"})
                  \ {"expiryWarning"}
RacingLinks == Signers \cup Links
=============================================================================
