--------------------------- MODULE MCPlatformServices ---------------------------
EXTENDS PlatformServices, MCCourseStore, MCCoursePackages

CONSTANTS approver, widget, digest1, digest2, public1, public2

MCBlocks == {[type |-> "TABLE", titled |-> FALSE], [type |-> "CODE", titled |-> FALSE]}

\* The same key ID, offered for approvals, for own plugins, and with another public key.
MCKeyOffers ==
    {[id |-> approver, purpose |-> "BTG_APPROVAL_SIGNING", public |-> public1, allows |-> {}],
     [id |-> approver, purpose |-> "BTG_OWNED_SIGNING", public |-> public1, allows |-> {widget}],
     [id |-> approver, purpose |-> "BTG_APPROVAL_SIGNING", public |-> public2, allows |-> {}]}

MCPackages ==
    {[release |-> widget, digest |-> d, key |-> approver, signer |-> public1] : d \in {digest1, digest2}}

MCSymmetry == Permutations(Requests)

=============================================================================
