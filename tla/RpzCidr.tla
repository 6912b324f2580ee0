------------------------------ MODULE RpzCidr ------------------------------
(***************************************************************************)
(* The radix tree in which a view's response policy zones share their      *)
(* address triggers (lib/dns/rpz.c): search() with and without create,     *)
(* add_cidr(), del_cidr() and dns_rpz_find_ip().                           *)
(*                                                                         *)
(* An address prefix is a sequence of bits; a node is named by its prefix. *)
(* A node's "set" says which zones have a trigger at this prefix, its      *)
(* "sum" which zones have one at or below it; zones are numbered from 0 in *)
(* the order of their precedence.  The three address trigger types have    *)
(* bits of their own in every node and never meet; one type is modelled.   *)
(***************************************************************************)
EXTENDS Integers, Sequences, FiniteSets, SequencesExt, FiniteSetsExt

\* NULL, as a prefix no address has
NoNode == <<2>>

EmptyTree == [root |-> NoNode, node |-> <<>>]

\* diff_keys: how many leading bits agree
DiffKeys(p, q) == Len(LongestCommonPrefix({p, q}))

\* trim_zbits: after a hit only zones that precede the hit, or are the hit, matter
TrimZbits(zbits, found) ==
    IF zbits \cap found = {} THEN zbits
    ELSE {z \in zbits : z <= Min(zbits \cap found)}

(***************************************************************************)
(* search() with create = false: the exact node, or the last node on the   *)
(* way to the target that holds a bit still asked for.                     *)
(***************************************************************************)
CidrPartial(p) == [how |-> "partial", at |-> p]
CidrExact(p) == [how |-> "exact", at |-> p]
CidrNotFound == [how |-> "none", at |-> NoNode]

RECURSIVE CidrSearchFrom(_, _, _, _, _)
CidrSearchFrom(t, cur, tgt, set, best) ==
    IF cur = NoNode THEN best
    ELSE LET n == t.node[cur]
             dbit == DiffKeys(tgt, cur)
             hit == n.set \cap set # {}
         IN  CASE n.sum \cap set = {} -> best
               [] n.sum \cap set # {} /\ cur = tgt -> IF hit THEN CidrExact(cur) ELSE best
               [] n.sum \cap set # {} /\ cur # tgt /\ dbit = Len(cur) ->
                      CidrSearchFrom(t, n.child[tgt[dbit + 1]], tgt,
                                 IF hit THEN TrimZbits(set, n.set) ELSE set,
                                 IF hit THEN CidrPartial(cur) ELSE best)
               [] OTHER -> best

CidrSearch(t, tgt, set) == CidrSearchFrom(t, t.root, tgt, set, CidrNotFound)

(***************************************************************************)
(* The updates.                                                            *)
(***************************************************************************)
SumOf(t, p) ==
    t.node[p].set \cup UNION {t.node[c].sum : c \in {t.node[p].child[b] : b \in {0, 1}} \ {NoNode}}

\* set_sum_pair: from the node upwards, as far as a sum changes
RECURSIVE SetSumPair(_, _)
SetSumPair(t, p) ==
    IF p = NoNode \/ SumOf(t, p) = t.node[p].sum THEN t
    ELSE SetSumPair([t EXCEPT !.node[p].sum = SumOf(t, p)], t.node[p].parent)

\* The pointer to a node is in its parent, or is the root.
CidrLink(t, parent, num, p) ==
    IF parent = NoNode THEN [t EXCEPT !.root = p]
    ELSE [t EXCEPT !.node[parent].child[num] = p]

\* new_node; sum is that of the child it is put above
CidrNewNode(t, p, parent, set, sum) ==
    [t EXCEPT !.node = @ @@ (p :> [set |-> set, sum |-> sum, parent |-> parent,
                                   child |-> [b \in {0, 1} |-> NoNode]])]

CidrAdopt(t, p, c, num) ==
    [t EXCEPT !.node[p].child[num] = c, !.node[c].parent = p]

\* search() with create = true; "new" is ISC_R_SUCCESS, FALSE is ISC_R_EXISTS
RECURSIVE CidrInsertFrom(_, _, _, _, _, _)
CidrInsertFrom(t, cur, parent, num, tgt, bits) ==
    LET dbit == DiffKeys(tgt, cur)
        fork == SubSeq(tgt, 1, dbit)
    IN  CASE cur = NoNode ->
                 [new |-> TRUE,
                  tree |-> SetSumPair(CidrLink(CidrNewNode(t, tgt, parent, bits, {}),
                                           parent, num, tgt), tgt)]
          [] cur = tgt ->
                 IF t.node[cur].set \cap bits # {} THEN [new |-> FALSE, tree |-> t]
                 ELSE [new |-> TRUE,
                       tree |-> SetSumPair([t EXCEPT !.node[cur].set = @ \cup bits], cur)]
          [] cur \notin {NoNode, tgt} /\ dbit = Len(tgt) ->
                 [new |-> TRUE,
                  tree |-> SetSumPair(
                      CidrAdopt(CidrLink(CidrNewNode(t, tgt, parent, bits, t.node[cur].sum),
                                 parent, num, tgt),
                            tgt, cur, cur[dbit + 1]), tgt)]
          [] cur \notin {NoNode, tgt} /\ dbit = Len(cur) ->
                 CidrInsertFrom(t, t.node[cur].child[tgt[dbit + 1]], cur, tgt[dbit + 1], tgt, bits)
          [] OTHER ->
                 LET t1 == CidrNewNode(CidrNewNode(t, tgt, fork, bits, {}),
                                   fork, parent, {}, t.node[cur].sum)
                     t2 == CidrLink(t1, parent, num, fork)
                     t3 == [t2 EXCEPT !.node[fork].child[tgt[dbit + 1]] = tgt]
                 IN  [new |-> TRUE,
                      tree |-> SetSumPair(CidrAdopt(t3, fork, cur, 1 - tgt[dbit + 1]), tgt)]

CidrInsert(t, tgt, z) == CidrInsertFrom(t, t.root, NoNode, 0, tgt, {z})

\* del_cidr's loop: a node without data and with at most one child is spliced out.
RECURSIVE CidrPrune(_, _)
CidrPrune(t, p) ==
    IF p = NoNode THEN t
    ELSE LET n == t.node[p]
             children == {n.child[b] : b \in {0, 1}} \ {NoNode}
             child == IF children = {} THEN NoNode ELSE CHOOSE c \in children : TRUE
             num == IF n.parent # NoNode /\ t.node[n.parent].child[1] = p THEN 1 ELSE 0
             t1 == CidrLink(t, n.parent, num, child)
             t2 == IF child = NoNode THEN t1 ELSE [t1 EXCEPT !.node[child].parent = n.parent]
         IN  IF n.set # {} \/ Cardinality(children) = 2 THEN t
             ELSE CidrPrune([t2 EXCEPT !.node = [q \in DOMAIN @ \ {p} |-> @[q]]], n.parent)

\* del_cidr: "gone" is whether there was a trigger to remove
CidrRemove(t, tgt, z) ==
    IF CidrSearch(t, tgt, {z}).how # "exact" THEN [gone |-> FALSE, tree |-> t]
    ELSE [gone |-> TRUE,
          tree |-> CidrPrune(SetSumPair([t EXCEPT !.node[tgt].set = @ \ {z}], tgt), tgt)]

(***************************************************************************)
(* dns_rpz_find_ip: the policy zone to try for an address, among zbits.    *)
(* zbit_to_num takes the highest bit.                                      *)
(***************************************************************************)
CidrNoZone == [num |-> -1, prefix |-> NoNode]

CidrFindIp(t, zbits, addr) ==
    LET found == CidrSearch(t, addr, zbits)
    IN  IF zbits = {} \/ found.how = "none" THEN CidrNoZone
        ELSE [num |-> Max(t.node[found.at].set \cap zbits), prefix |-> found.at]

(***************************************************************************)
(* What the tree stands for.                                               *)
(***************************************************************************)
TriggersOf(t) == UNION {{<<p, z>> : z \in t.node[p].set} : p \in DOMAIN t.node}

\* Pointers agree in both directions, a child extends its parent on its side,
\* every node is reached from the root, and none is without data and childless
\* or with a single child.
TreeShape(t) ==
    LET Children(p) == {t.node[p].child[b] : b \in {0, 1}} \ {NoNode}
    IN  /\ t.root = NoNode <=> DOMAIN t.node = {}
        /\ \A p \in DOMAIN t.node :
              /\ t.node[p].parent = NoNode <=> p = t.root
              /\ p # t.root => p \in Children(t.node[p].parent)
              /\ \A b \in {0, 1} : LET c == t.node[p].child[b]
                                   IN  c # NoNode => /\ t.node[c].parent = p
                                                     /\ IsStrictPrefix(p, c)
                                                     /\ c[Len(p) + 1] = b
              /\ t.node[p].set # {} \/ Cardinality(Children(p)) = 2

\* sum holds exactly the zones with a trigger at or below the node.
TreeSums(t) ==
    \A p \in DOMAIN t.node :
        t.node[p].sum = UNION {t.node[q].set : q \in {q \in DOMAIN t.node : IsPrefix(p, q)}}
=============================================================================
