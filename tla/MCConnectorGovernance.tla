----------------------- MODULE MCConnectorGovernance -----------------------
EXTENDS ConnectorGovernance, TLC

Symmetry == Permutations(User) \cup Permutations(Req)

\* No action reads what the last commit audited.
View == <<entitled, orgWide, override, conn, consent, req, raced>>
============================================================================
