--------------------------- MODULE MCOCSPDelivery ---------------------------
(* Instances of OCSPDelivery for TLC. *)
EXTENDS OCSPDelivery

TwoServers == <<"ocsp1", "ocsp2">>
=============================================================================
