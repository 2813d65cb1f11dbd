------------------------------ MODULE MCServing ------------------------------
(* Command lines, ACLs and a scale for the integer widths. *)
EXTENDS Serving

Plain == [tls_cert |-> FALSE, tls_key |-> FALSE, tls_client_auth |-> "disabled",
          broker_tls_cert |-> FALSE, broker_tls_key |-> FALSE,
          broker_tls_ca |-> FALSE, broker_tls_server_name |-> FALSE,
          authz |-> "off", authz_super_users |-> {}, bearer |-> "off",
          webhooks |-> "none", outbound |-> "valid", registry |-> FALSE,
          dedup_window |-> 7, dedup_partitions |-> 2, create_timeout |-> <<4>>,
          replication_factor |-> <<2>>, allow_fallback |-> <<>>]

Guarded == [Plain EXCEPT !.authz = "simple", !.bearer = "unsecured", !.outbound = "none"]

Secured == [Plain EXCEPT !.tls_cert = TRUE, !.tls_key = TRUE, !.tls_client_auth = "optional",
                         !.authz = "simple", !.bearer = "unsecured", !.outbound = "none",
                         !.registry = TRUE, !.replication_factor = <<1>>]

Strict == [Secured EXCEPT !.tls_client_auth = "required", !.authz_super_users = {"alice"},
                          !.bearer = "off"]

\* Lines main refuses, and lines at the limits of what it accepts.
Edges ==
    { [Plain EXCEPT !.tls_cert = TRUE], [Plain EXCEPT !.tls_key = TRUE],
      [Secured EXCEPT !.tls_client_auth = "maybe"],
      [Plain EXCEPT !.broker_tls_cert = TRUE, !.broker_tls_key = TRUE],
      [Plain EXCEPT !.broker_tls_key = TRUE],
      [Plain EXCEPT !.authz = "on"], [Plain EXCEPT !.bearer = "on"],
      [Plain EXCEPT !.webhooks = "invalid"], [Plain EXCEPT !.outbound = "invalid"],
      [Plain EXCEPT !.allow_fallback = <<FALSE>>] }
    \cup {[Plain EXCEPT !.dedup_window = w] : w \in {0, 8, 9}}
    \cup {[Plain EXCEPT !.create_timeout = <<w>>] : w \in {0, 5}}

Profile(line, faults, changes, flips, conns) ==
    [args |-> line, budget |-> [faults |-> faults, changes |-> changes, flips |-> flips, conns |-> conns]]

MCProfiles ==
    { Profile(Plain, 1, 0, 3, 0), Profile([Plain EXCEPT !.outbound = "none"], 0, 0, 0, 2),
      Profile(Guarded, 1, 0, 0, 1),
      Profile(Secured, 1, 1, 0, 0), Profile([Secured EXCEPT !.authz = "off"], 0, 0, 0, 1),
      Profile(Strict, 0, 0, 0, 1) }
    \cup {Profile([e EXCEPT !.outbound = IF @ = "valid" THEN "none" ELSE @], 0, 0, 0, 0) : e \in Edges}

Entry(p, permission) == [principal |-> p, permission |-> permission, pattern |-> "literal"]
MCAcls == {{Entry("bob", "allow"), Entry("bob", "deny")}, {Entry("alice", "allow"), Entry("bob", "allow")}}

=============================================================================
