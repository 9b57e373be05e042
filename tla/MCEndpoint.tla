------------------------------ MODULE MCEndpoint ------------------------------
(* Full URLs of either scheme, a bare host, each with and without a path, and *)
(* a URL without a host; another host in the environment.                    *)
EXTENDS Endpoint

MCUrl(s, h, p, slash) == [scheme |-> s, host |-> h, port |-> p, path |-> slash]

MCFlagUrls ==
  {MCUrl(s, "collector", 4000, slash) : s \in {"none", "http", "https"}, slash \in BOOLEAN}
  \cup {MCUrl("http", "", 0, TRUE)}

MCEnvUrls == {MCUrl(s, "gateway", 4001, slash) : s \in {"http", "https"}, slash \in BOOLEAN}

=============================================================================
