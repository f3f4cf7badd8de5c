----------------------------- MODULE MCRequests -----------------------------
(* One URL of each kind: both protocols, both families, a name, a port     *)
(* that was left out, a protocol that is refused.                          *)
EXTENDS Requests

MCUrls == { [protocol |-> "tcp",  host |-> "v4",   port |-> 80,     path |-> "a"],
            [protocol |-> "tcp",  host |-> "name", port |-> NoPort, path |-> "a"],
            [protocol |-> "udp",  host |-> "v4",   port |-> 80,     path |-> "a"],
            [protocol |-> "udp",  host |-> "v6",   port |-> 8080,   path |-> "a"],
            [protocol |-> "http", host |-> "v4",   port |-> 80,     path |-> "a"] }
=============================================================================
