--------------------------- MODULE MCConfigReload ---------------------------
(* Two workers and the admin thread; one revision switches the admin listener *)
(* off, one names a certificate that cannot be loaded.                        *)
EXTENDS ConfigReload

CONSTANTS r1, r2, r3

MCRevisions == {r1, r2, r3}
MCAdminOff == {r2}
MCBadCert == {r3}
=============================================================================
