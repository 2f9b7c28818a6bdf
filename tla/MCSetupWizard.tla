--------------------------- MODULE MCSetupWizard ---------------------------
(***************************************************************************)
(* Instances of SetupWizard for TLC.                                       *)
(***************************************************************************)
EXTENDS SetupWizard

OneForm == {[name |-> "ann", email |-> "ann@x", pw |-> "pw1"]}
TwoNames == OneForm \cup {[name |-> "bob", email |-> "ann@x", pw |-> "pw1"]}
OneClient == <<"console">>
TwoClients == <<"console", "cloud">>
OneHost == <<"auth">>
TwoHosts == <<"auth", "enrol">>
AllFaults == {"state_save", "mirror", "users_flush", "oidc", "templates",
              "creds", "certbot", "npm_login", "npm_bootstrap", "npm_api",
              "sentinel"}
=============================================================================
