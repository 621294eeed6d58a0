--------------------------- MODULE SharingClaims ---------------------------
(***************************************************************************)
(* What the repository's documents say of sharing and revocation where the *)
(* code does something else.  Each claim is refuted by a run of its own.    *)
(***************************************************************************)
EXTENDS Sharing

\* The record at g was made from an invitation that h's user sent for h's file.
InvitedBy(g, h) ==
    /\ access[g] # None
    /\ \E j \in Id : /\ invitation[j] # None
                     /\ invitation[j].from = h[1]
                     /\ invitation[j].name = h[2]
                     /\ invitation[j].to = g[1]
                     /\ invitation[j].mailbox = access[g].mailbox

\* P holds of every step in which a client revokes r's access to the handle h.
OnRevoke(P(_, _)) ==
    \A c \in Client, f \in Filename, r \in User :
        RevokeAccess(c, f, r) => P(<<session[c].name, f>>, r)

\* README.md:25 has RevokeAccess update the remaining sharees: everyone else whom
\* the revoker or a remaining sharee invited and who could load the file can still
\* load it.  RevokeAccess puts the new key into the mailboxes of its own Children map
\* only.  That misses the users a remaining sharee invited, and a sharee invited
\* twice who uses the first mailbox: the map holds the second.
ShareesKept(h, r) ==
    \A g \in Handle :
        /\ LoadFileSucceeds(g) /\ g[1] # r
        /\ \/ InvitedBy(g, h)
           \/ \E p \in Handle :
                 InvitedBy(g, p) /\ InvitedBy(p, h) /\ p[1] # r /\ access[p].mailbox \in Kept(h, r)
        => LoadFileSucceeds(g)'
RemainingShareesKeepAccess == [][OnRevoke(ShareesKept)]_vars

\* docs/testing.md:117 has a revoked direct sharee lose access: after a successful
\* RevokeAccess no record that r made from the revoker's invitations for this
\* file name loads.  Not so when the owner stored the file again in between:
\* StoreFile starts an empty Children map and a new inode, and the sharees stay
\* on the old one, where no revocation reaches them any more.
RevokedLocked(h, r) ==
    \A g \in Handle : g[1] = r /\ InvitedBy(g, h) /\ access'[g] = access[g]
        => ~LoadFileSucceeds(g)'
RevokedUserLosesAccess == [][OnRevoke(RevokedLocked)]_vars
=============================================================================
