--------------------------- MODULE MCPrivacyMasker ---------------------------
(* Three secrets: a mail address, a database URL, and a password that only *)
(* its place in an assignment gives away.                                  *)
EXTENDS PrivacyMasker

CONSTANTS mail, url, password

MCSecrets == {mail, url, password}
MCNatural == [s \in MCSecrets |-> IF s = url THEN "DATABASE_URL"
                                  ELSE IF s = mail THEN "EMAIL" ELSE "plain"]
=============================================================================
