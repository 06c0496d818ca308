------------------------------ MODULE MCLaunch ------------------------------
(***************************************************************************)
(* Launch on small instances.                                              *)
(***************************************************************************)
EXTENDS Launch

Fields(disk, dir, url, login, ca) ==
    [disk |-> disk, dir |-> dir, url |-> url, login |-> login, ca |-> ca, asked |-> FALSE]

\* Memory; disk with and without a directory; a gateway with its login, without
\* it, with an unusable address, with a certificate.
MCChoices == {Fields(FALSE, FALSE, "none", FALSE, FALSE),
              Fields(TRUE, TRUE, "none", FALSE, FALSE),
              Fields(TRUE, FALSE, "none", FALSE, FALSE),
              Fields(FALSE, FALSE, "good", TRUE, TRUE),
              Fields(FALSE, FALSE, "good", FALSE, FALSE),
              Fields(FALSE, FALSE, "bad", TRUE, FALSE)}

Inherited(disk, dir, url, login, tls) ==
    [disk |-> disk, dir |-> dir, url |-> url, login |-> login, ca |-> FALSE, tls |-> tls]

\* Nothing; leftover storage and a leftover gateway; a TLS certificate and key.
MCEnvs == {Inherited(FALSE, FALSE, "none", FALSE, FALSE),
           Inherited(TRUE, FALSE, "good", TRUE, FALSE),
           Inherited(FALSE, FALSE, "none", FALSE, TRUE)}
=============================================================================
