------------------------------ MODULE KeyRules ------------------------------
(***************************************************************************)
(* The rules of lib/dns/keymgr.c that decide whether a record of a DNSSEC  *)
(* key may change its state.  A keyring K maps key ids to keys; a key has, *)
(* for each type of record it is involved in, the state of that record in  *)
(* the caches of the world.                                                *)
(***************************************************************************)
EXTENDS Integers, FiniteSets

NA == "NA"   \* a state that is not set, or that may be anything

States == {"HIDDEN", "RUMOURED", "OMNIPRESENT", "UNRETENTIVE"}

Types == {"DNSKEY", "ZRRSIG", "KRRSIG", "DS"}

Want(dnskey, zrrsig, krrsig, ds) ==
  [DNSKEY |-> dnskey, ZRRSIG |-> zrrsig, KRRSIG |-> krrsig, DS |-> ds]

(* The state that the record wants to move to next. *)
keymgr_desiredstate(key, state) ==
  CASE key.goal = "HIDDEN" /\ state \in {"RUMOURED", "OMNIPRESENT"}
         -> "UNRETENTIVE"
    [] key.goal = "HIDDEN" /\ state \in {"HIDDEN", "UNRETENTIVE"}
         -> "HIDDEN"
    [] key.goal = "OMNIPRESENT" /\ state \in {"RUMOURED", "OMNIPRESENT"}
         -> "OMNIPRESENT"
    [] key.goal = "OMNIPRESENT" /\ state \in {"HIDDEN", "UNRETENTIVE"}
         -> "RUMOURED"
    [] OTHER -> state

-----------------------------------------------------------------------------
(***************************************************************************)
(* A question c asked of a keyring: the keyring c.K, the key c.key that    *)
(* wants to move its record c.type, and the state c.next to pretend that   *)
(* this record is in (NA: no pretending).                                  *)
(***************************************************************************)
Question(K, key, type, next) ==
  [K |-> K, key |-> key, type |-> type, next |-> next]

AsIs(c) == [c EXCEPT !.next = NA]

keymgr_key_match_state(c, k, want) ==
  \A i \in Types :
    \/ want[i] = NA
    \/ LET state == IF i = c.type /\ k = c.key /\ c.next # NA
                    THEN c.next ELSE c.K[k].st[i]
       IN  want[i] = state \/ (want[i] = "HIDDEN" /\ state = NA)

SameAlg(c, k) == c.K[k].alg = c.K[c.key].alg

(* d is the direct predecessor of k. *)
keymgr_direct_dep(K, d, k) == K[d].succ = k /\ K[k].pred = d

AllHidden(K, d) == \A i \in Types : K[d].st[i] \in {NA, "HIDDEN"}

(* The keys that depend on k: the key it replaces, until that is hidden. *)
keymgr_dep(K, k) ==
  {d \in DOMAIN K : keymgr_direct_dep(K, d, k) /\ ~AllHidden(K, d)}

(* Equation (2): z replaces x, directly or through keys in z's state. *)
keymgr_key_is_successor(c, x, z) ==
  LET successor[y \in DOMAIN c.K] ==
        \E d \in keymgr_dep(c.K, y) :
          \/ d = x
          \/ keymgr_key_match_state(c, d, c.K[y].st) /\ successor[d]
  IN  keymgr_dep(c.K, x) = {} /\ successor[z]

(* keymgr_key_exists_with_state, without and with check_successor; wants   *)
(* and wants2 are alternatives.                                            *)
ExistsWithState(c, want, keys) ==
  \E k \in keys : keymgr_key_match_state(c, k, want)

AlgKeys(c) == {k \in DOMAIN c.K : SameAlg(c, k)}

ExistsSuccession(c, wants, wants2) ==
  \E k \in AlgKeys(c), want \in wants :
    /\ keymgr_key_match_state(c, k, want)
    /\ \E s \in DOMAIN c.K \ {k}, want2 \in wants2 :
         /\ keymgr_key_match_state(c, s, want2)
         /\ keymgr_key_is_successor(c, k, s)

(* keymgr_ds_hidden_or_chained, with must_be_hidden set and not set. *)
DSHidden(c) ==
  \A k \in AlgKeys(c) : keymgr_key_match_state(c, k, Want(NA, NA, NA, "HIDDEN"))

keymgr_ds_hidden_or_chained(c) ==
  \A k \in AlgKeys(c) :
    \/ keymgr_key_match_state(c, k, Want(NA, NA, NA, "HIDDEN"))
    \/ keymgr_key_match_state(c, k, Want("OMNIPRESENT", NA, "OMNIPRESENT", NA))
    \/ ExistsWithState(c, Want("OMNIPRESENT", NA, "OMNIPRESENT", "OMNIPRESENT"),
                       AlgKeys(c))

keymgr_dnskey_hidden_or_chained(c) ==
  \A k \in AlgKeys(c) :
    \/ keymgr_key_match_state(c, k, Want("HIDDEN", NA, NA, NA))
    \/ ExistsWithState(c, Want(c.K[k].st["DNSKEY"], "OMNIPRESENT", NA, NA),
                       AlgKeys(c))

(* Rule 1, equation (3a): there is a DS, or the zone goes insecure. *)
keymgr_have_ds(c, secure_to_insecure) ==
  \/ secure_to_insecure
  \/ \E s \in {"OMNIPRESENT", "RUMOURED"} :
       ExistsWithState(c, Want(NA, NA, NA, s), DOMAIN c.K)

(* A faulty variant: rule 2 takes a DS that is not yet everywhere. *)
have_dnskey_Rumoured(c) ==
  LET O == "OMNIPRESENT"  R == "RUMOURED" IN
  \/ \E s \in {O, R} : ExistsWithState(c, Want(O, NA, O, s), AlgKeys(c))
  \/ keymgr_ds_hidden_or_chained(c)

(* Rule 2, equations (3b) to (3e): the DS leads to a DNSKEY. *)
keymgr_have_dnskey(c) ==
  LET O == "OMNIPRESENT"  U == "UNRETENTIVE"  R == "RUMOURED" IN
  \/ ExistsWithState(c, Want(O, NA, O, O), AlgKeys(c))
  \/ ExistsSuccession(c, {Want(O, NA, O, U)}, {Want(O, NA, O, R)})
  \/ ExistsSuccession(
       c, {Want(U, NA, U, O), Want(O, NA, U, O), Want(U, NA, O, O)},
          {Want(R, NA, R, O), Want(O, NA, R, O), Want(R, NA, O, O)})
  \/ keymgr_ds_hidden_or_chained(c)

(* A faulty variant: rule 3 is content with a signature that is not yet    *)
(* everywhere.                                                             *)
have_rrsig_Rumoured(c) ==
  LET O == "OMNIPRESENT"  R == "RUMOURED" IN
  \/ DSHidden(c)
  \/ \E s \in {O, R} : ExistsWithState(c, Want(O, s, NA, NA), AlgKeys(c))
  \/ keymgr_dnskey_hidden_or_chained(c)

(* Rule 3, equations (3f) to (3i): the DNSKEY leads to signatures. *)
keymgr_have_rrsig(c) ==
  LET O == "OMNIPRESENT"  U == "UNRETENTIVE"  R == "RUMOURED" IN
  \/ DSHidden(c)
  \/ ExistsWithState(c, Want(O, O, NA, NA), AlgKeys(c))
  \/ ExistsSuccession(c, {Want(U, O, NA, NA)}, {Want(R, O, NA, NA)})
  \/ ExistsSuccession(c, {Want(O, U, NA, NA)}, {Want(O, R, NA, NA)})
  \/ keymgr_dnskey_hidden_or_chained(c)

(* The rollover methods: pre-publish a ZSK, double-KSK a KSK. *)
keymgr_policy_approval(c) ==
  LET O == "OMNIPRESENT"  U == "UNRETENTIVE"  R == "RUMOURED"
      dnskey == c.K[c.key].st["DNSKEY"]
  IN
  \/ c.next # R
  \/ c.type = "DNSKEY"
  \/ /\ c.type = "ZRRSIG"
     /\ \/ dnskey = O
        \/ ~ \/ ExistsWithState(c, Want(O, NA, O, O), AlgKeys(c))
             \/ ExistsSuccession(c, {Want(O, NA, O, U)}, {Want(O, NA, O, R)})
             \/ ExistsSuccession(c, {Want(U, NA, NA, O)}, {Want(R, NA, NA, O)})
  \/ c.type = "KRRSIG" /\ dnskey \notin {NA, "HIDDEN"}
  \/ c.type = "DS" /\ dnskey = O

(* A faulty variant: rules 2 and 3 are not asked for. *)
transition_allowed_Rule1Only(c, secure_to_insecure) ==
  \/ keymgr_have_ds(c, secure_to_insecure)
  \/ ~keymgr_have_ds(AsIs(c), secure_to_insecure)

(* Equation (1): no rule that holds is broken by the transition. *)
keymgr_transition_allowed(c, secure_to_insecure) ==
  /\ \/ keymgr_have_ds(c, secure_to_insecure)
     \/ ~keymgr_have_ds(AsIs(c), secure_to_insecure)
  /\ keymgr_have_dnskey(c) \/ ~keymgr_have_dnskey(AsIs(c))
  /\ keymgr_have_rrsig(c) \/ ~keymgr_have_rrsig(AsIs(c))
=============================================================================
