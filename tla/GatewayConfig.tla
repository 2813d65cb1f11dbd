---------------------------- MODULE GatewayConfig ----------------------------
(***************************************************************************)
(* From the command line to a configuration: bin/gateway.rs (Args, main    *)
(* and the functions that build its parts) and config.rs.  Paths, names    *)
(* and file contents are reduced to whether they are given and well        *)
(* formed.  A duration is the number of milliseconds that was written, an  *)
(* absent optional flag the empty sequence.                                *)
(***************************************************************************)
EXTENDS Naturals, Sequences

CONSTANTS I32_MAX, FIRST_AMBIGUOUS_F64_MILLIS

ASSUME WidthAssumption ==
    /\ I32_MAX \in Nat /\ FIRST_AMBIGUOUS_F64_MILLIS \in Nat
    /\ 1 < I32_MAX /\ I32_MAX < FIRST_AMBIGUOUS_F64_MILLIS
    /\ FIRST_AMBIGUOUS_F64_MILLIS % 2 = 0          \* 2^53

\* The flags of the command line.
Args == [tls_cert : BOOLEAN, tls_key : BOOLEAN, tls_client_auth : STRING,
         broker_tls_cert : BOOLEAN, broker_tls_key : BOOLEAN,
         broker_tls_ca : BOOLEAN, broker_tls_server_name : BOOLEAN,
         authz : STRING, authz_super_users : SUBSET STRING, bearer : STRING,
         webhooks : STRING, outbound : STRING, registry : BOOLEAN,
         dedup_window : Nat, dedup_partitions : Nat, create_timeout : Seq(Nat),
         replication_factor : Seq(Nat), allow_fallback : Seq(BOOLEAN)]

Or(flag, default) == IF flag = <<>> THEN default ELSE Head(flag)

\* A quantity is an f64: from the first ambiguous value on, every second
\* integer becomes its neighbour.
quantity(ms) == IF ms < FIRST_AMBIGUOUS_F64_MILLIS THEN ms ELSE ms - (ms % 2)

protocol_millis_i32(ms) == quantity(ms) \in 1..I32_MAX

protocol_millis_i64(ms) ==
    /\ quantity(ms) < FIRST_AMBIGUOUS_F64_MILLIS
    /\ quantity(ms) > 0

\* Args::runtime_config: a flag that is given replaces the default.
runtime_config(args) ==
    [replication_factor |-> Or(args.replication_factor, 3),
     allow_fallback |-> Or(args.allow_fallback, TRUE),
     create_timeout |-> Or(args.create_timeout, 1)]

validate_protocol_runtime(args) ==
    /\ protocol_millis_i32(runtime_config(args).create_timeout)
    /\ protocol_millis_i64(args.dedup_window)

tls_ok(args) ==
    /\ args.tls_cert = args.tls_key
    /\ args.tls_cert => args.tls_client_auth \in {"disabled", "optional", "required"}

build_broker_security(args) ==
    /\ args.broker_tls_cert = args.broker_tls_key
    /\ args.broker_tls_cert => args.broker_tls_server_name

build_authz_settings(args) == args.authz \in {"off", "simple"}
build_bearer(args) == args.bearer \in {"off", "unsecured"}

\* A file that is named is read, parsed and compiled, or the process ends.
load_webhooks(args) == args.webhooks # "invalid"
load_outbound(args) == args.outbound # "invalid"

\* Everything main refuses, before it has done anything.
configured(args) ==
    /\ validate_protocol_runtime(args)
    /\ tls_ok(args) /\ build_broker_security(args)
    /\ build_authz_settings(args) /\ build_bearer(args)
    /\ load_webhooks(args) /\ load_outbound(args)

\* topic.rs: what is asked of the broker for the two internal topics.
InternalTopics == {"dedup", "membership"}

topic_configs(args, t) ==
    [partitions |-> IF t = "dedup" THEN args.dedup_partitions ELSE 1,
     retention |-> IF t = "dedup" THEN quantity(args.dedup_window) ELSE 0]

=============================================================================
