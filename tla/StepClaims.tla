----------------------------- MODULE StepClaims -----------------------------
(***************************************************************************)
(* What the repository's documents say of revocation where overlapping calls *)
(* do something else.  The claim is refuted by a run of its own.            *)
(***************************************************************************)
EXTENDS SharingSteps

\* docs/testing.md:117 has the revoked user lose access: no mailbox that RevokeAccess
\* removed opens its file while no call is under way.  An append that began before
\* the revocation writes the inode back under the key the removed mailbox holds.
RevokedStayOut ==
    (\A c \in Client : call[c] = None) => RevokedNeverReopens
=============================================================================
