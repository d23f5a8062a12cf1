-------------------------- MODULE MCCertificateStatus --------------------------
(* Instances of CertificateStatus for TLC. *)
EXTENDS CertificateStatus, TLC

RevocationSymmetry == Permutations(Revocations)
=============================================================================
