-------------------------- MODULE MCCertificateServer --------------------------
(***************************************************************************)
(* Small instances of CertificateServer for TLC.                           *)
(***************************************************************************)
EXTENDS CertificateServer, TLC

MCSymmetry ==
    Permutations(Goroutine) \cup Permutations(CertID) \cup
    Permutations(ChallengeToken) \cup Permutations(KeyAuth)

=============================================================================
