------------------------------ MODULE MCKeyMgr ------------------------------
(* Small instances of KeyMgr for TLC. *)
EXTENDS KeyMgr

Key(alg, ksk, zsk, lifetime) ==
  [alg |-> alg, ksk |-> ksk, zsk |-> zsk, lifetime |-> lifetime]

MCTiming ==
  [dnskey_ttl |-> 1, publish_safety |-> 0, zone_propagation_delay |-> 0,
   zone_max_ttl |-> 1, retire_safety |-> 0, signdelay |-> 1, ds_ttl |-> 1,
   parent_propagation_delay |-> 0, ds_retry |-> 1, purge_keys |-> 1,
   refreshkeyinterval |-> 3]

NoKeys == <<>>
NoChanges == {}

CSK == [csk |-> <<Key("A", TRUE, TRUE, 6)>>]
Forever == [csk |-> <<Key("A", TRUE, TRUE, 0)>>]

(* A KSK that never rolls and a ZSK that does, configured in either order. *)
Split == [split |-> <<Key("A", TRUE, FALSE, 0), Key("A", FALSE, TRUE, 4)>>]
ZskFirst == [split |-> <<Key("A", FALSE, TRUE, 4), Key("A", TRUE, FALSE, 0)>>]

(* A split policy left for a key of another algorithm, or for no DNSSEC. *)
Policy == [old |-> Split["split"], new |-> <<Key("B", TRUE, TRUE, 0)>>, insecure |-> <<>>]
PolicyChanges == {<<"old", "new">>, <<"old", "insecure">>}

(* One key, and another algorithm. *)
Algorithms ==
  [old |-> <<Key("A", TRUE, TRUE, 0)>>, new |-> <<Key("B", TRUE, TRUE, 0)>>]
AlgorithmChange == {<<"old", "new">>}
=============================================================================
