------------------------------- MODULE KeyMgr -------------------------------
(***************************************************************************)
(* DNSSEC key management of a zone with a dnssec-policy: lib/dns/keymgr.c, *)
(* called by zone_rekey of lib/dns/zone.c, with the check of the parent's  *)
(* DS records and the rndc commands.  The parent and the caches of the     *)
(* world's validators are external.                                        *)
(*                                                                         *)
(* The present is always Now: Tick moves every recorded time one step into *)
(* the past, and times older than Now - Horizon are not told apart.        *)
(***************************************************************************)
EXTENDS KeyRules, Sequences, SequencesExt

CONSTANTS
  MaxKeys,        \* key ids are 1..MaxKeys
  Now, Horizon,   \* the present, and the oldest time that matters
  Policies,       \* the dnssec-policies: a function to sequences of keys
  FirstPolicy,    \* the policy the zone starts with
  FirstFiles,     \* the keys the zone starts with
  Changes,        \* reconfigurations: pairs of policy names
  Timing,         \* the timing parameters of dns_kasp_t, a record
  Operator        \* what may happen: "checkds", "rollover", "loadkeys", "agents",
                  \* "keygen", "fail" and "races"

ASSUME TimingAssumption ==
  /\ MaxKeys \in Nat /\ Horizon \in Nat /\ Now > Horizon
  /\ FirstPolicy \in DOMAIN Policies
  /\ Changes \subseteq (DOMAIN Policies) \X (DOMAIN Policies)
  /\ \A f \in DOMAIN Timing \ {"refreshkeyinterval"} : Timing[f] \in 0..Horizon
  /\ Timing.refreshkeyinterval \in Nat \ {0}

VARIABLES
  policy,      \* the name of the zone's dnssec-policy
  files,       \* the key files: a partial function from ids to keys
  checkds_ok,  \* zone->checkds_ok: the keys as read by the last zone_rekey
  refreshkeytime,  \* when zone_rekey runs next
  rekeying,    \* the keys of a zone_rekey that has yet to update the zone
  rndc,        \* the rndc command under way, with its copy of the key
  zone,        \* the published DNSKEYs, signers and CDS records
  parent,      \* the DS records in the parent zone
  caches       \* the RRsets that validators may still hold, with their age

vars == <<policy, files, checkds_ok, refreshkeytime, rekeying, rndc, zone, parent,
          caches>>

Ids == 1..MaxKeys
Unset == 0
Oldest == Now - Horizon

(* Records indexed by type of record and by kind of time. *)
ByType(Op(_)) == Want(Op("DNSKEY"), Op("ZRRSIG"), Op("KRRSIG"), Op("DS"))

ByTime(Op(_)) ==
  [publish |-> Op("publish"), activate |-> Op("activate"),
   inactive |-> Op("inactive"), delete |-> Op("delete"),
   syncpublish |-> Op("syncpublish"), dspublish |-> Op("dspublish"),
   dsdelete |-> Op("dsdelete")]

TimeNames == {"publish", "activate", "inactive", "delete", "syncpublish",
              "dspublish", "dsdelete"}

NoLifetime == -1   \* no lifetime metadata; 0: unlimited

(* A key as keymgr_createkey leaves it. *)
keymgr_createkey(kkey) ==
  LET Never(x) == Unset  None(x) == NA IN
  [alg |-> kkey.alg, ksk |-> kkey.ksk, zsk |-> kkey.zsk, role |-> TRUE,
   goal |-> NA,
   st |-> ByType(None), chg |-> ByType(Never), time |-> ByTime(Never), created |-> Now,
   lifetime |-> kkey.lifetime, pred |-> 0, succ |-> 0]

(* dst_key_setstate, with dst_key_settime for the time of the change. *)
SetState(key, i, s, t) == [key EXCEPT !.st[i] = s, !.chg[i] = t]
SetTime(key, n, t) == [key EXCEPT !.time[n] = t]

keymgr_dnsseckey_kaspkey_match(key, kkey) ==
  key.role /\ key.alg = kkey.alg /\ key.ksk = kkey.ksk /\ key.zsk = kkey.zsk

dst_key_is_unused(key) ==
  /\ \A n \in TimeNames : key.time[n] = Unset
  /\ \A i \in Types : key.chg[i] # Unset => key.st[i] = "HIDDEN"

(* The states trump the times, and every key has its states when asked. *)
dst_key_is_active(key) ==
  /\ key.ksk => key.st["DS"] \in {"RUMOURED", "OMNIPRESENT"}
  /\ key.zsk => key.st["ZRRSIG"] \in {"RUMOURED", "OMNIPRESENT"}

-----------------------------------------------------------------------------
(* Timing. *)
MaxOf(a, b) == IF a >= b THEN a ELSE b

Ttlsig == Timing.zone_max_ttl
ZoneProp == Timing.zone_propagation_delay

Prepub == Timing.dnskey_ttl + Timing.publish_safety + ZoneProp

keymgr_settime_remove(key) ==
  LET retire == key.time["inactive"]
      zsk_remove == retire + Ttlsig + ZoneProp + Timing.retire_safety
                      + Timing.signdelay
      ksk_remove == retire + Timing.ds_ttl + Timing.parent_propagation_delay
                      + Timing.retire_safety
  IN  IF retire = Unset THEN key
      ELSE SetTime(key, "delete", MaxOf(IF key.ksk THEN ksk_remove ELSE 0,
                                        IF key.zsk THEN zsk_remove ELSE 0))

keymgr_settime_syncpublish(key, first) ==
  LET published == key.time["publish"]
      sync == published + Prepub
      zrrsig_present == published + Ttlsig + ZoneProp + Timing.publish_safety
  IN  IF published = Unset \/ ~key.ksk THEN key
      ELSE SetTime(key, "syncpublish",
                   IF first THEN MaxOf(sync, zrrsig_present) ELSE sync)

(* The active key with its missing metadata filled in ... *)
Default(key, n, t) == IF key.time[n] = Unset THEN SetTime(key, n, t) ELSE key

DefaultSync(key) ==
  IF ~key.ksk THEN key
  ELSE Default(key, "syncpublish",
               key.time["publish"] +
                 MaxOf(Prepub, IF key.pred # 0 THEN 0
                               ELSE Ttlsig + Timing.publish_safety + ZoneProp))

DefaultLifetime(key, lifetime) ==
  IF key.lifetime = NoLifetime THEN [key EXCEPT !.lifetime = lifetime] ELSE key

DefaultRetire(key) ==
  IF key.lifetime = 0 THEN key
  ELSE Default(key, "inactive", key.time["activate"] + key.lifetime)

WithMetadata(key, lifetime) ==
  keymgr_settime_remove(
    DefaultRetire(
      DefaultLifetime(
        DefaultSync(Default(Default(key, "activate", Now), "publish", Now)),
        lifetime)))

(* ... and when its successor must be published; 0: no successor needed. *)
keymgr_prepublication_time(key) ==
  LET retire == key.time["inactive"] IN
  IF retire = Unset THEN 0
  ELSE IF Prepub > retire THEN Now ELSE retire - Prepub

(* A faulty variant: without the delay to sign the zone again. *)
transition_time_NoSigndelay(key, type, next) ==
  LET lastchange == IF key.chg[type] = Unset THEN Now ELSE key.chg[type]
      seen == key.time[IF next = "OMNIPRESENT" THEN "dspublish" ELSE "dsdelete"]
  IN
  IF next \in {"RUMOURED", "UNRETENTIVE"} THEN Now
  ELSE CASE type \in {"DNSKEY", "KRRSIG"} -> lastchange + Timing.dnskey_ttl + ZoneProp
         [] type = "ZRRSIG" ->
              lastchange + Ttlsig + ZoneProp + Timing.retire_safety
         [] type = "DS" ->
              IF seen = Unset \/ seen > Now THEN Now + Timing.ds_retry
              ELSE seen + Timing.ds_ttl + Timing.parent_propagation_delay
                     + Timing.retire_safety

(* A faulty variant: the TTL of the DNSKEY RRset is not waited for. *)
transition_time_NoTTL(key, type, next) ==
  IF next \in {"RUMOURED", "UNRETENTIVE"} \/ type \in {"DNSKEY", "KRRSIG"} THEN Now
  ELSE transition_time_NoSigndelay(key, type, next)

(* When it is time for a record to move to the next state. *)
keymgr_transition_time(key, type, next) ==
  LET lastchange == IF key.chg[type] = Unset THEN Now ELSE key.chg[type]
      seen == key.time[IF next = "OMNIPRESENT" THEN "dspublish" ELSE "dsdelete"]
  IN
  IF next \in {"RUMOURED", "UNRETENTIVE"} THEN Now
  ELSE CASE type \in {"DNSKEY", "KRRSIG"} ->
              lastchange + Timing.dnskey_ttl + ZoneProp
                + (IF next = "OMNIPRESENT" THEN Timing.publish_safety ELSE 0)
         [] type = "ZRRSIG" ->
              lastchange + Ttlsig + ZoneProp + Timing.retire_safety
                + (IF key.pred # 0 \/ key.succ # 0 THEN Timing.signdelay ELSE 0)
         [] type = "DS" ->
              IF seen = Unset \/ seen > Now THEN Now + Timing.ds_retry
              ELSE seen + Timing.ds_ttl + Timing.parent_propagation_delay
                     + Timing.retire_safety

-----------------------------------------------------------------------------
(* The first time a key is seen, its times tell its role and its states. *)
Reached(t) == t # Unset /\ t <= Now

Settled(since, delay, old, recent) == IF since + delay <= Now THEN old ELSE recent

InitialDNSKEY(t) ==
  IF Reached(t["delete"])
  THEN Settled(t["delete"], Timing.dnskey_ttl + ZoneProp, "HIDDEN", "UNRETENTIVE")
  ELSE IF Reached(t["publish"])
  THEN Settled(t["publish"], Timing.dnskey_ttl + ZoneProp, "OMNIPRESENT", "RUMOURED")
  ELSE "HIDDEN"

InitialZRRSIG(t) ==
  IF Reached(t["delete"]) THEN "HIDDEN"
  ELSE IF Reached(t["inactive"])
  THEN Settled(t["inactive"], Ttlsig + ZoneProp, "HIDDEN", "UNRETENTIVE")
  ELSE IF Reached(t["activate"])
  THEN Settled(t["activate"], Ttlsig + ZoneProp, "OMNIPRESENT", "RUMOURED")
  ELSE "HIDDEN"

InitialDS(t) ==
  IF Reached(t["delete"]) THEN "HIDDEN"
  ELSE IF Reached(t["inactive"]) THEN "UNRETENTIVE"
  ELSE IF Reached(t["syncpublish"])
  THEN Settled(t["syncpublish"], Timing.ds_ttl + Timing.parent_propagation_delay,
               "OMNIPRESENT", "RUMOURED")
  ELSE "HIDDEN"

InitialGoal(t) ==
  IF /\ \E n \in {"activate", "publish", "syncpublish"} : Reached(t[n])
     /\ ~Reached(t["inactive"]) /\ ~Reached(t["delete"])
  THEN "OMNIPRESENT" ELSE "HIDDEN"

InitialState(key, i, state) ==
  IF key.st[i] = NA THEN SetState(key, i, state, Now) ELSE key

WithRole(key, csk) ==
  IF key.role THEN key
  ELSE [key EXCEPT !.role = TRUE, !.ksk = @ \/ csk, !.zsk = @ \/ csk]

WithGoal(key) == [key EXCEPT !.goal = IF @ = NA THEN InitialGoal(key.time) ELSE @]

WithDNSKEY(key) == InitialState(key, "DNSKEY", InitialDNSKEY(key.time))

WithKSK(key, csk) ==
  IF ~(key.ksk \/ csk) THEN key
  ELSE InitialState(InitialState(key, "KRRSIG", InitialDNSKEY(key.time)),
                    "DS", InitialDS(key.time))

WithZSK(key, csk) ==
  IF ~(key.zsk \/ csk) THEN key
  ELSE InitialState(key, "ZRRSIG", InitialZRRSIG(key.time))

keymgr_key_init(key, csk) ==
  WithZSK(WithKSK(WithDNSKEY(WithGoal(WithRole(key, csk))), csk), csk)

(* keymgr_key_init has given the key its states already. *)
keymgr_key_retire(key) ==
  keymgr_settime_remove(
    [key EXCEPT !.goal = "HIDDEN",
                !.time["inactive"] = IF @ = Unset \/ @ > Now THEN Now ELSE @])

(* A faulty variant: only the DNSKEY record is looked at. *)
may_be_purged_DNSKEYOnly(key) ==
  /\ Timing.purge_keys # 0
  /\ key.goal # "OMNIPRESENT"
  /\ ~dst_key_is_unused(key)
  /\ key.st["DNSKEY"] \in {NA, "UNRETENTIVE", "HIDDEN"}

keymgr_key_may_be_purged(key) ==
  /\ Timing.purge_keys # 0
  /\ key.goal # "OMNIPRESENT"
  /\ ~dst_key_is_unused(key)
  /\ \A i \in Types : key.st[i] \in {NA, "HIDDEN"}
  /\ \A i \in Types : key.chg[i] + Timing.purge_keys < Now

-----------------------------------------------------------------------------
(***************************************************************************)
(* keymgr_update.  A pass u over the keyring has the keys u.K, the next    *)
(* event u.next (0: none) and whether it changed a state.                  *)
(***************************************************************************)
(* A faulty variant: a later event replaces the next one. *)
Transition_Last(u, id, i, next, when) ==
  IF when > Now THEN [u EXCEPT !.next = MaxOf(@, when)]
  ELSE [u EXCEPT !.K[id] = SetState(@, i, next, Now), !.changed = TRUE]

Transition(u, id, i, next, when) ==
  IF when > Now
  THEN [u EXCEPT !.next = IF @ = 0 \/ @ > when THEN when ELSE @]
  ELSE [u EXCEPT !.K[id] = SetState(@, i, next, Now), !.changed = TRUE]

Approved(c, secure_to_insecure) ==
  keymgr_policy_approval(c) /\ keymgr_transition_allowed(c, secure_to_insecure)

UpdateTo(u, id, i, next, secure_to_insecure) ==
  IF /\ next # u.K[id].st[i]
     /\ Approved(Question(u.K, id, i, next), secure_to_insecure)
  THEN Transition(u, id, i, next, keymgr_transition_time(u.K[id], i, next))
  ELSE u

UpdateRecord(u, id, i, secure_to_insecure) ==
  IF u.K[id].st[i] = NA THEN u
  ELSE UpdateTo(u, id, i, keymgr_desiredstate(u.K[id], u.K[id].st[i]),
                secure_to_insecure)

RECURSIVE Pass(_, _, _, _)
Pass(u, order, i, secure_to_insecure) ==
  IF order = <<>> THEN u
  ELSE IF i > 4 THEN Pass(u, Tail(order), 1, secure_to_insecure)
  ELSE Pass(UpdateRecord(u, Head(order), <<"DNSKEY", "ZRRSIG", "KRRSIG", "DS">>[i],
                         secure_to_insecure),
            order, i + 1, secure_to_insecure)

RECURSIVE keymgr_update(_, _, _)
keymgr_update(u, order, secure_to_insecure) ==
  LET passed == Pass([u EXCEPT !.changed = FALSE], order, 1, secure_to_insecure)
  IN  IF passed.changed THEN keymgr_update(passed, order, secure_to_insecure)
      ELSE passed

-----------------------------------------------------------------------------
(***************************************************************************)
(* dns_keymgr_run.  A run r has the keys r.K (new ones included), the next *)
(* event r.next, the new keys r.new in order of creation, and r.full when  *)
(* it would need more than MaxKeys ids.                                    *)
(***************************************************************************)
keymgr_key_has_successor(K, k, ring) ==
  \E s \in ring : keymgr_direct_dep(K, k, s)

(* A key taken or made for a key of the policy starts its life, at the     *)
(* given times; first: it replaces no other key.                           *)
StopAfter(key, lifetime) ==
  IF lifetime = 0 THEN key
  ELSE keymgr_settime_remove(
         SetTime(key, "inactive", key.time["activate"] + lifetime))

Start(key, lifetime, publish, active, first) ==
  StopAfter(
    keymgr_settime_syncpublish(
      [key EXCEPT !.lifetime = lifetime, !.goal = "OMNIPRESENT",
                  !.time["publish"] = publish, !.time["activate"] = active],
      first),
    lifetime)

(* The successor is late when it was made after its publication time. *)
StartSuccessor(key, lifetime, pred, old, late) ==
  [Start(key, lifetime,
         keymgr_prepublication_time(old) + late,
         MaxOf(old.time["inactive"] + late, key.created), FALSE)
     EXCEPT !.pred = pred]

Late(key, old) == MaxOf(key.created - keymgr_prepublication_time(old), 0)

Introduce(K, id, key, lifetime, pred) ==
  IF pred = 0 THEN (id :> Start(key, lifetime, Now, Now, TRUE)) @@ K
  ELSE (id :> StartSuccessor(key, lifetime, pred, K[pred], Late(key, K[pred])))
       @@ [K EXCEPT ![pred].succ = id, ![pred].goal = "HIDDEN"]

FirstOf(seq) == IF seq = <<>> THEN 0 ELSE Head(seq)

(* The first unused key of the keyring that matches, 0: none. *)
Candidate(K, kkey, order) ==
  LET Unused(k) == /\ keymgr_dnsseckey_kaspkey_match(K[k], kkey)
                   /\ dst_key_is_unused(K[k])
  IN  FirstOf(SelectSeq(order, Unused))

FreeId(K) == IF DOMAIN K = Ids THEN 0
             ELSE CHOOSE i \in Ids \ DOMAIN K : \A j \in 1..(i - 1) : j \in DOMAIN K

NewKey(r, kkey, pred, candidate, free) ==
  IF candidate # 0
  THEN [r EXCEPT !.K = Introduce(@, candidate, @[candidate], kkey.lifetime, pred)]
  ELSE IF free = 0 THEN [r EXCEPT !.full = TRUE]
  ELSE [r EXCEPT
          !.K = Introduce(@, free, keymgr_key_init(keymgr_createkey(kkey),
                                                   kkey.ksk /\ kkey.zsk),
                          kkey.lifetime, pred),
          !.new = Append(@, free)]

NeedsNoSuccessor(prepub) == prepub = 0 \/ prepub > Now

(* The next event becomes the publication of the successor, if sooner. *)
NextRollover(r, prepub) ==
  [r EXCEPT !.next = IF @ = 0 \/ prepub < @ THEN prepub ELSE @]

RollActive(r, kkey, active, prepub, order) ==
  IF NeedsNoSuccessor(prepub) THEN NextRollover(r, prepub)
  ELSE IF keymgr_key_has_successor(r.K, active, Range(order)) THEN r
  ELSE NewKey(r, kkey, active, Candidate(r.K, kkey, order), FreeId(r.K))

RollDefaulted(r, kkey, active, order) ==
  RollActive(r, kkey, active, keymgr_prepublication_time(r.K[active]), order)

(* No active key, but a published one that matches: its private key may be *)
(* offline and no successor is made.  The copy of the key is not saved.    *)
RollOffline(r, prepub) ==
  IF NeedsNoSuccessor(prepub) THEN NextRollover(r, prepub) ELSE r

keymgr_key_rollover(r, kkey, active, offline, order) ==
  IF active # 0
  THEN RollDefaulted([r EXCEPT !.K[active] = WithMetadata(@, kkey.lifetime)],
                     kkey, active, order)
  ELSE IF offline # <<>>
  THEN RollOffline(r, keymgr_prepublication_time(
                        WithMetadata(Head(offline), kkey.lifetime)))
  ELSE NewKey(r, kkey, 0, Candidate(r.K, kkey, order), FreeId(r.K))

(* The keyring walked for one key of the policy: the first key that is or  *)
(* wants to be active is kept, other ones in use are retired.              *)
Excess(K, k, active) ==
  /\ ~dst_key_is_unused(K[k]) /\ K[k].goal = "OMNIPRESENT"
  /\ keymgr_dep(K, k) = {} /\ keymgr_dep(K, active) = {}

VisitMatch(w, k) ==
  IF w.active # 0
  THEN IF Excess(w.K, k, w.active)
       THEN [w EXCEPT !.K[k] = keymgr_key_retire(@)] ELSE w
  ELSE IF w.K[k].goal = "OMNIPRESENT" \/ dst_key_is_active(w.K[k])
  THEN [w EXCEPT !.active = k] ELSE w

WalkKeyring(K0, kkey, order) ==
  LET Visit(w, k) ==
        IF ~keymgr_dnsseckey_kaspkey_match(w.K[k], kkey) THEN w
        ELSE VisitMatch([w EXCEPT !.K[k] = DefaultLifetime(@, kkey.lifetime)], k)
  IN  FoldLeft(Visit, [K |-> K0, active |-> 0], order)

(* The published keys that match, as they are in the files. *)
OfflineKeys(K0, kkey, dnskeys, order) ==
  LET Shown(k) == k \in dnskeys /\ keymgr_dnsseckey_kaspkey_match(K0[k], kkey)
      shown == SelectSeq(order, Shown)
  IN  [n \in DOMAIN shown |-> K0[shown[n]]]

CreateKeys(r0, K0, kasp, dnskeys, order) ==
  LET Roll(r, kkey, w) ==
        keymgr_key_rollover([r EXCEPT !.K = w.K], kkey, w.active,
                            OfflineKeys(K0, kkey, dnskeys, order), order)
      Visit(r, kkey) == Roll(r, kkey, WalkKeyring(r.K, kkey, order))
  IN  FoldLeft(Visit, r0, kasp)

(* Unwanted keys are retired, with or without a successor. *)
ReviewKeys(K0, kasp, csk, order) ==
  LET Settle(key) ==
        IF \E n \in DOMAIN kasp : keymgr_dnsseckey_kaspkey_match(key, kasp[n])
        THEN key ELSE keymgr_key_retire(key)
      Visit(K, k) == [K EXCEPT ![k] = Settle(keymgr_key_init(@, csk))]
  IN  FoldLeft(Visit, K0, order)

UpdateKeys(r, order, secure_to_insecure) ==
  keymgr_update(r, order \o r.new, secure_to_insecure)

RunReviewed(K, K0, kasp, dnskeys, order) ==
  UpdateKeys(
    CreateKeys([K |-> K, next |-> 0, new |-> <<>>, full |-> FALSE, changed |-> FALSE,
                purge |-> {k \in DOMAIN K : keymgr_key_may_be_purged(K[k])}],
               K0, kasp, dnskeys, order),
    order, kasp = <<>>)

dns_keymgr_run(K0, kasp, dnskeys, order) ==
  RunReviewed(ReviewKeys(K0, kasp, Cardinality(dnskeys) = 1, order),
              K0, kasp, dnskeys, order)

-----------------------------------------------------------------------------
(***************************************************************************)
(* The zone: dns_dnssec_updatekeys, dns_dnssec_syncupdate and              *)
(* dns_dnssec_syncdelete act on the hints of the keys K, and sign_apex and *)
(* the signing of the rest of the zone follow them.                        *)
(***************************************************************************)
Introduced == {"RUMOURED", "OMNIPRESENT"}

dst_key_is_removed(key) ==
  ~dst_key_is_unused(key) /\ key.st["DNSKEY"] \in {"UNRETENTIVE", "HIDDEN"}

(* A faulty variant: no CDS DELETE record. *)
UpdateZone_NoCdsDelete(z, K, insecure) ==
  LET Having(type) == {k \in DOMAIN K : K[k].st[type] \in Introduced}
      rmkeys == {k \in z.dnskeys \cap DOMAIN K : dst_key_is_removed(K[k])}
      dnskeys == (z.dnskeys \ rmkeys) \cup Having("DNSKEY")
  IN  [dnskeys |-> dnskeys,
       ksigners |-> {k \in dnskeys \cap Having("KRRSIG") : K[k].ksk},
       zsigners |-> {k \in dnskeys \cap Having("ZRRSIG") : K[k].zsk},
       cds |-> Having("DS"), cdsdel |-> FALSE]

UpdateZone(z, K, insecure) ==
  LET Having(type) == {k \in DOMAIN K : K[k].st[type] \in Introduced}
      rmkeys == {k \in z.dnskeys \cap DOMAIN K : dst_key_is_removed(K[k])}
      dnskeys == (z.dnskeys \ rmkeys) \cup Having("DNSKEY")
      ksigners == {k \in dnskeys \cap Having("KRRSIG") : K[k].ksk}
      withdrawn == {k \in DOMAIN K : K[k].st["DS"] \in {"UNRETENTIVE", "HIDDEN"}}
  IN  [dnskeys |-> dnskeys,
       ksigners |-> ksigners,
       zsigners |-> {k \in dnskeys \cap Having("ZRRSIG") : K[k].zsk},
       cds |-> ((z.cds \cup Having("DS")) \ withdrawn) \ rmkeys,
       cdsdel |-> insecure /\ ksigners # {}]

-----------------------------------------------------------------------------
(***************************************************************************)
(* The caches of the world (external).  For each kind of RRset a cache may *)
(* hold the current one or one that was replaced less than its lifetime    *)
(* ago: caches.ds, caches.dnskey and caches.sig map replaced ones to the   *)
(* time they have left.  Signatures of the zone are made again in          *)
(* signdelay, and at once when an algorithm comes or goes.                 *)
(***************************************************************************)
Replaced(c, old, new, left) ==
  IF old = new THEN c
  ELSE [v \in DOMAIN c \cup {old} |-> IF v = old THEN left ELSE c[v]]

Aged(c) == [v \in {w \in DOMAIN c : c[w] > 1} |-> c[v] - 1]

KeySet(z) == <<z.dnskeys, z.ksigners>>

Algs(K, keys) == {K[k].alg : k \in keys \cap DOMAIN K}

Published(K, z) ==
  LET signdelay == IF Algs(K, z.zsigners) = Algs(K, zone.zsigners)
                   THEN Timing.signdelay ELSE 0
  IN  /\ zone' = z
      /\ caches' = [caches EXCEPT
           !.dnskey = Replaced(@, KeySet(zone), KeySet(z),
                               Timing.dnskey_ttl + ZoneProp),
           !.sig = Replaced(@, zone.zsigners, z.zsigners,
                            Timing.zone_max_ttl + ZoneProp + signdelay)]

-----------------------------------------------------------------------------
(* The keys whose DS is to be checked: only these are kept of              *)
(* zone->checkds_ok, and zone_checkds asks the parent when there are any.  *)
DSUnseen(key) == key.st["DS"] = "RUMOURED" /\ key.time["dspublish"] = Unset
DSUnwithdrawn(key) == key.st["DS"] = "UNRETENTIVE" /\ key.time["dsdelete"] = Unset

zone_checkds(K) ==
  [k \in {i \in DOMAIN K : K[i].ksk /\ (DSUnseen(K[i]) \/ DSUnwithdrawn(K[i]))} |->
     K[k]]

(* The orders in which the keyring may list the key files: those of a      *)
(* directory that lists ids upwards, or downwards.                         *)
Listings(K) ==
  LET up == SetToSortSeq(DOMAIN K, <) IN {up, Reverse(up)}

(* zone_rekey, with the lock of the dnssec-policy held: the keys are read  *)
(* for the check of the DS, the key manager runs and saves the keys.  When *)
(* a key cannot be made nothing is saved, but what was purged is gone.     *)
(* Behaviours with more than MaxKeys keys at a time are not explored.      *)
Retry == 1   \* ten minutes, here one step of time

Apart == "races" \notin Operator

RekeyKeys ==
  /\ refreshkeytime <= Now
  /\ rekeying = <<>>
  /\ Apart => rndc = <<>>
  /\ \E r \in {dns_keymgr_run(files, Policies[policy], zone.dnskeys, order) :
                 order \in Listings(files)} :
       /\ checkds_ok' = IF "agents" \in Operator THEN zone_checkds(files) ELSE <<>>
       /\ \/ /\ ~r.full
             /\ files' = [k \in DOMAIN r.K \ r.purge |-> r.K[k]]
             /\ rekeying' = <<[K |-> r.K, next |-> r.next]>>
             /\ UNCHANGED refreshkeytime
          \/ /\ "fail" \in Operator
             /\ r.full \/ r.new # <<>>
             /\ files' = [k \in DOMAIN files \ r.purge |-> files[k]]
             /\ refreshkeytime' = Now + Retry
             /\ UNCHANGED rekeying
  /\ UNCHANGED <<policy, rndc, zone, parent, caches>>

(* The rest of zone_rekey, without that lock: the zone is updated, and the *)
(* timer is set, whatever was asked for in the meantime.                   *)
RekeyZone ==
  /\ rekeying # <<>>
  /\ rekeying' = <<>>
  /\ \E r \in {rekeying[1]} :
       /\ \E z \in {UpdateZone(zone, r.K, Policies[policy] = <<>>)} :
            Published(r.K, z)
       /\ refreshkeytime' = IF r.next > 0 THEN r.next
                            ELSE Now + Timing.refreshkeyinterval
  /\ UNCHANGED <<policy, files, checkds_ok, rndc, parent>>

(* The update of the zone fails, or named stops before it and starts       *)
(* again.                                                                  *)
RekeyFails ==
  /\ "fail" \in Operator
  /\ rekeying # <<>>
  /\ rekeying' = <<>>
  /\ refreshkeytime' = Now + Retry
  /\ UNCHANGED <<policy, files, checkds_ok, rndc, zone, parent, caches>>

(* dns_zone_rekey asks for a run of zone_rekey, here for rndc loadkeys. *)
dns_zone_rekey == refreshkeytime' = Now

Loadkeys ==
  /\ "loadkeys" \in Operator
  /\ dns_zone_rekey
  /\ UNCHANGED <<policy, files, checkds_ok, rekeying, rndc, zone, parent, caches>>

(* A faulty variant: the withdrawal is recorded as a publication. *)
keymgr_checkds_Publish(key, dspublish) ==
  [key EXCEPT !.time["dspublish"] = Now,
              !.st["DS"] = IF dspublish THEN "RUMOURED" ELSE "UNRETENTIVE"]

(* keymgr_checkds on key k of a keyring. *)
keymgr_checkds(key, dspublish) ==
  [key EXCEPT !.time[IF dspublish THEN "dspublish" ELSE "dsdelete"] = Now,
              !.st["DS"] = IF dspublish THEN "RUMOURED" ELSE "UNRETENTIVE"]

(* checkds_done: an answer of the parental agent is applied to all keys of *)
(* zone->checkds_ok, and these copies are saved.                           *)
CheckdsDone ==
  LET seen == {k \in DOMAIN checkds_ok \cap parent : DSUnseen(checkds_ok[k])}
      gone == {k \in DOMAIN checkds_ok \ parent : DSUnwithdrawn(checkds_ok[k])}
      saved == [k \in seen \cup gone |-> keymgr_checkds(checkds_ok[k], k \in seen)]
  IN  /\ "agents" \in Operator
      /\ rekeying = <<>>   \* both run in the loop of the zone
      /\ seen \cup gone # {}
      /\ checkds_ok' = [k \in DOMAIN checkds_ok \ (seen \cup gone) |-> checkds_ok[k]]
      /\ files' = saved @@ files
      /\ dns_zone_rekey
      /\ UNCHANGED <<policy, rekeying, rndc, zone, parent, caches>>

(* rndc dnssec -checkds and -rollover, from another loop: the keys are     *)
(* read with the lock of the dnssec-policy held, and then, with the lock   *)
(* taken again, the copy is changed and saved.  The operator looks at the  *)
(* parent before the command, and rolls a key that has no end in sight.    *)
RndcRead(k, command) ==
  /\ command \in Operator
  /\ rndc = <<>> /\ k \in DOMAIN files
  /\ Apart => rekeying = <<>>
  /\ command = "checkds" =>
       /\ files[k].ksk
       /\ \/ k \in parent /\ DSUnseen(files[k])
          \/ k \notin parent /\ DSUnwithdrawn(files[k])
  /\ command = "rollover" => /\ Reached(files[k].time["activate"])
                             /\ files[k].time["inactive"] = Unset
  /\ rndc' = <<[k |-> k, command |-> command, key |-> files[k]]>>
  /\ UNCHANGED <<policy, files, checkds_ok, refreshkeytime, rekeying, zone,
                 parent, caches>>

dns_keymgr_rollover(key) ==
  [key EXCEPT !.time["inactive"] = Now + Prepub,
              !.lifetime = Now + Prepub - key.time["activate"]]

RndcWrite ==
  /\ rndc # <<>>
  /\ rndc' = <<>>
  /\ \E c \in {rndc[1]} :
       files' = (c.k :> IF c.command = "checkds"
                        THEN keymgr_checkds(c.key, c.key.st["DS"] = "RUMOURED")
                        ELSE dns_keymgr_rollover(c.key)) @@ files
  /\ dns_zone_rekey
  /\ UNCHANGED <<policy, checkds_ok, rekeying, zone, parent, caches>>

(* dnssec-keygen -k -G makes a key for later use: it has no times but the  *)
(* one of its creation, and an id that no other key has.                   *)
Keygen(kkey) ==
  /\ "keygen" \in Operator
  /\ \A k \in DOMAIN files : ~dst_key_is_unused(files[k])
  /\ \E k \in Ids \ DOMAIN files :
       files' = (k :> keymgr_createkey(kkey)) @@ files
  /\ UNCHANGED <<policy, checkds_ok, refreshkeytime, rekeying, rndc, zone,
                 parent, caches>>

(* A new configuration, loaded while no loop runs, gives the zone another  *)
(* dnssec-policy.                                                          *)
Reconfigure(new) ==
  /\ <<policy, new>> \in Changes
  /\ rekeying = <<>>
  /\ policy' = new
  /\ dns_zone_rekey
  /\ UNCHANGED <<files, checkds_ok, rekeying, rndc, zone, parent, caches>>

(* The parent follows the CDS records of the zone (external). *)
ParentSync ==
  LET ds == IF zone.cdsdel THEN {} ELSE zone.cds
  IN  /\ zone.cdsdel \/ ds # {}
      /\ ds # parent
      /\ parent' = ds
      /\ caches' = [caches EXCEPT
           !.ds = Replaced(@, parent, ds,
                           Timing.ds_ttl + Timing.parent_propagation_delay)]
      /\ UNCHANGED <<policy, files, checkds_ok, refreshkeytime, rekeying, rndc, zone>>

Earlier1(t) == IF t = Unset THEN Unset ELSE MaxOf(t - 1, Oldest)

AgedKeys(K) ==
  [k \in DOMAIN K |->
     LET Time(n) == Earlier1(K[k].time[n])
         Chg(i) == Earlier1(K[k].chg[i])
     IN  [K[k] EXCEPT !.time = ByTime(Time), !.chg = ByType(Chg),
                      !.created = Earlier1(@)]]

(* A run of zone_rekey and an rndc command are short compared with a step  *)
(* of time.                                                                *)
Tick ==
  /\ rekeying = <<>> /\ rndc = <<>>
  /\ files' = AgedKeys(files)
  /\ checkds_ok' = AgedKeys(checkds_ok)
  /\ refreshkeytime' = Earlier1(refreshkeytime)
  /\ caches' = [caches EXCEPT !.ds = Aged(@), !.dnskey = Aged(@), !.sig = Aged(@)]
  /\ UNCHANGED <<policy, rekeying, rndc, zone, parent>>

-----------------------------------------------------------------------------
(* A zone that starts unsigned, or with keys FirstFiles made without a     *)
(* dnssec-policy: published, signing and with the DS of the KSK in the     *)
(* parent long since.                                                      *)
Init ==
  LET keys == DOMAIN FirstFiles
      ksks == {k \in keys : FirstFiles[k].ksk}
      zsks == {k \in keys : FirstFiles[k].zsk}
  IN  /\ policy = FirstPolicy
      /\ files = FirstFiles
      /\ checkds_ok = <<>>
      /\ refreshkeytime = Now
      /\ rekeying = <<>>
      /\ rndc = <<>>
      /\ zone = [dnskeys |-> keys, ksigners |-> ksks, zsigners |-> zsks,
                 cds |-> {}, cdsdel |-> FALSE]
      /\ parent = ksks
      /\ caches = [ds |-> <<>>, dnskey |-> <<>>, sig |-> <<>>]

Next ==
  \/ RekeyKeys
  \/ RekeyZone
  \/ RekeyFails
  \/ Loadkeys
  \/ CheckdsDone
  \/ \E k \in Ids, command \in {"checkds", "rollover"} : RndcRead(k, command)
  \/ RndcWrite
  \/ \E n \in DOMAIN Policies[policy] : Keygen(Policies[policy][n])
  \/ \E new \in DOMAIN Policies : Reconfigure(new)
  \/ ParentSync
  \/ Tick

Spec == Init /\ [][Next]_vars

-----------------------------------------------------------------------------
(* The types of the variables; a state and the time it was entered are set *)
(* together.                                                               *)
KeyType(key) ==
  /\ {key.ksk, key.zsk, key.role} \subseteq BOOLEAN
  /\ key.goal \in {NA, "HIDDEN", "OMNIPRESENT"}
  /\ \A i \in Types : /\ key.st[i] \in States \cup {NA}
                      /\ key.chg[i] \in Nat
                      /\ key.st[i] = NA <=> key.chg[i] = Unset
  /\ \A n \in TimeNames : key.time[n] \in Nat
  /\ key.lifetime \in Nat \cup {NoLifetime}
  /\ {key.pred, key.succ} \subseteq Ids \cup {0}

TypeOK ==
  /\ policy \in DOMAIN Policies
  /\ \A K \in {files, checkds_ok} :
       DOMAIN K \subseteq Ids /\ \A k \in DOMAIN K : KeyType(K[k])
  /\ refreshkeytime \in Nat
  /\ Len(rekeying) <= 1 /\ Len(rndc) <= 1
  /\ zone.dnskeys \cup zone.cds \cup parent \subseteq Ids
  /\ zone.ksigners \cup zone.zsigners \subseteq zone.dnskeys
  /\ zone.cdsdel \in BOOLEAN

(* What a validator may see. *)
DSViews == {parent} \cup DOMAIN caches.ds
KeyViews == {KeySet(zone)} \cup DOMAIN caches.dnskey
SigViews == {zone.zsigners} \cup DOMAIN caches.sig

(* The zone is never bogus: whatever mix of current and cached RRsets a    *)
(* validator has, each algorithm of the DS RRset has a DS whose DNSKEY is  *)
(* published and signs the DNSKEY RRset, and a published DNSKEY whose      *)
(* signature is on the records of the zone.                                *)
NoBogus ==
  \A ds \in DSViews, keys \in KeyViews, sig \in SigViews :
    \A a \in Algs(files, ds) :
      /\ \E k \in ds \cap keys[1] \cap keys[2] \cap DOMAIN files : files[k].alg = a
      /\ \E k \in keys[1] \cap sig \cap DOMAIN files : files[k].alg = a

(* The key files of a key are not removed as long as a validator may see a *)
(* record of it.                                                           *)
KeysInUseOnDisk ==
  /\ TypeOK
  /\ UNION DSViews \cup UNION SigViews \subseteq DOMAIN files
  /\ \A keys \in KeyViews : keys[1] \subseteq DOMAIN files

(* Between two runs of the key manager, as long as the next key event that *)
(* it asked for is not due, a run would not change the state of a record   *)
(* and would not start or end the life of a key.                           *)
NothingMissed ==
  rekeying = <<>> /\ rndc = <<>> /\ refreshkeytime > Now =>
    \A order \in Listings(files) :
      \E r \in {dns_keymgr_run(files, Policies[policy], zone.dnskeys, order)} :
        /\ DOMAIN r.K = DOMAIN files
        /\ \A k \in DOMAIN files :
             /\ files[k].goal \in {NA, r.K[k].goal}
             /\ \A i \in Types : files[k].st[i] \in {NA, r.K[k].st[i]}

(* No step takes away what the DNSKEY rule or the RRSIG rule has found:    *)
(* once the states of an algorithm's keys pass keymgr_have_dnskey, or pass *)
(* keymgr_have_rrsig, the states saved next pass it as well.               *)
RuleKept(Rule(_)) ==
  \A k \in DOMAIN files \cap DOMAIN files' :
    /\ files'[k].alg = files[k].alg
    /\ Rule(Question(files, k, "DNSKEY", NA))
    => Rule(Question(files', k, "DNSKEY", NA))

RulesKept ==
  [][RuleKept(keymgr_have_dnskey) /\ RuleKept(keymgr_have_rrsig)]_vars

(* The states of a key tell the truth: what is OMNIPRESENT every validator *)
(* that looks has, and what is HIDDEN none has any longer.                 *)
StateTrue(state, k, views) ==
  /\ state = "OMNIPRESENT" => \A v \in views : k \in v
  /\ state = "HIDDEN" => \A v \in views : k \notin v

StatesTrue ==
  \A k \in DOMAIN files :
    /\ StateTrue(files[k].st["DNSKEY"], k, {v[1] : v \in KeyViews})
    /\ StateTrue(files[k].st["KRRSIG"], k, {v[2] : v \in KeyViews})
    /\ StateTrue(files[k].st["ZRRSIG"], k, SigViews)
    /\ StateTrue(files[k].st["DS"], k, DSViews)

Fairness ==
  /\ SF_vars(Tick)
  /\ []<>(refreshkeytime > Now)
  /\ SF_vars(RekeyZone)
  /\ WF_vars(ParentSync)
  /\ SF_vars(CheckdsDone)
  /\ \A k \in Ids : SF_vars(RndcRead(k, "checkds"))
  /\ WF_vars(RndcWrite)

FairSpec == Spec /\ Fairness

(* A key that is retired is withdrawn and its files are removed. *)
RetiredKeysLeave ==
  \A k \in Ids :
    /\ k \in DOMAIN files
    /\ files[k].goal = "HIDDEN" /\ ~dst_key_is_unused(files[k])
    ~> k \notin DOMAIN files

(* A zone that is to be insecure ends without DS and DNSKEY records. *)
InsecureInTheEnd ==
  [](policy = "insecure" => <>(parent = {} /\ zone.dnskeys = {}))
=============================================================================
