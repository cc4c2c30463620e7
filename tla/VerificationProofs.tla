------------------------ MODULE VerificationProofs ------------------------
(***************************************************************************)
(* Proofs about what is concluded of an action and about what recovery     *)
(* does next: Verification with its walks, and Branches.                   *)
(*                                                                         *)
(* Of Verification, for any calls, plans, windows, trees, caps and         *)
(* effects: a walk that was neither cut, refused, failed nor overtaken by  *)
(* a change has read the whole tree, and no bucket grants too much         *)
(* (WalkInv); a verdict stands on evidence younger than the call's         *)
(* subscription (VerdictInv); what showed of the action itself when its    *)
(* check looked is not missed (OwnEffectSeen).                             *)
(*                                                                         *)
(* Of Branches, for any actions, classes and contexts: a branch past its   *)
(* claim holds the token, the promise of single delivery is kept, and,     *)
(* what the same invariant shows, no branch ever fires.                    *)
(***************************************************************************)
EXTENDS Branches, Verification, FiniteSetTheorems, TLAPS

-----------------------------------------------------------------------------
(* Walks. *)

Entry == [node : Node, alive : BOOLEAN]

WalkState ==
  [kind : Kind, queue : Seq(Item), at : Item \cup {Null},
   out : Seq(Entry), truncated : BOOLEAN,
   limited : BOOLEAN, failed : BOOLEAN, moved : BOOLEAN]

Nodes(s) == {s[i].node : i \in DOMAIN s}
Distinct(s) == \A i, j \in DOMAIN s : s[i].node = s[j].node => i = j

(* Nothing has kept the walk from reading the whole tree so far. *)
Clean(w) == ~w.truncated /\ ~w.limited /\ ~w.failed /\ ~w.moved

(* The nodes whose children have been queued. *)
Opened(w) == IF w.at = Null THEN Nodes(w.out) ELSE Nodes(w.out) \ {w.at.node}

(* What was met, read or queued: each node once, with the children of all that
   are opened, and nothing else but the root. *)
Covers(t, w) ==
  LET met == Nodes(w.out) \cup Nodes(w.queue)
  IN  /\ Distinct(w.out) /\ Distinct(w.queue)
      /\ Nodes(w.out) \cap Nodes(w.queue) = {}
      /\ w.at # Null => w.at.node \in Nodes(w.out)
      /\ Root \in met
      /\ \A m \in Opened(w) : Elements(t[m]) \subseteq met
      /\ \A n \in met : n = Root \/ \E m \in Opened(w) : n \in Elements(t[m])

Follows(t, w) == w \in WalkState /\ (Clean(w) => Covers(t, w))

WalksInv ==
  /\ kids \in Shapes /\ DOMAIN walk = Call
  /\ \A c \in Call : walk[c] # Null => Follows(kids, walk[c])

(* Tokens. *)
Grant == [last : Nat, here : Nat]
BucketInv(have, grant, b) ==
  /\ have \in 0 .. Capacity[b] /\ grant \in Grant
  /\ grant.here + have <= Capacity[b]
  /\ grant.last + grant.here + have <= Capacity[b] + Rate

TokensInv ==
  /\ DOMAIN tokens = Bucket /\ DOMAIN granted = Bucket
  /\ \A b \in Bucket : BucketInv(tokens[b], granted[b], b)

-----------------------------------------------------------------------------
(* A call. *)

Shot ==
  [win : [Window -> Nat] \cup {NotYet, Failed}, pb : Nat \cup {NotYet},
   roi : Nat \cup {NotYet, Failed}]
Before ==
  [win : [Window -> Nat] \cup {Failed}, pb : Nat, roi : Nat \cup {Failed}, base : Nat]
Medium == [text : Nat \cup {Failed}, nodes : Nat, truncated : BOOLEAN]
Confidence == Nat \X (Nat \ {0})

Stage ==
  {"idle", "walk", "probe", "again", "ready", "before", "before2", "fire", "after", "l2",
   "verdict"} \cup Settled

CallTypes(c) ==
  /\ plan[c] # Null \/ pc[c] = "absent"
  /\ conf[c][1] <= conf[c][2]

Types ==
  /\ plan \in Plans
  /\ pc \in [Call -> Stage]
  /\ handle \in [Call -> Node \cup {Null}]
  /\ shot \in [Call -> Shot]
  /\ DOMAIN before = Call
  /\ l0 \in [Call -> {"none", "open", "silent", "raised"} \cup Heard]
  /\ l1 \in [Call -> Cheap \cup {Null}]
  /\ polls \in [Call -> 0 .. MaxPolls]
  /\ text \in [Call -> Nat \cup {NotYet, Failed}]
  /\ DOMAIN medium = Call
  /\ conf \in [Call -> Confidence]
  /\ DOMAIN lifted = Call
  /\ fault \in [Call -> [uneven : BOOLEAN, faint : BOOLEAN]]
  /\ ver \in [Aspect -> Nat]
  /\ moved \in [Call -> SUBSET Aspect]
  /\ DOMAIN acted = Call
  /\ due \in [Call -> SUBSET Aspect]
  /\ shown \in [Call -> SUBSET {"roi", "nav"}]
  /\ upsets \in 0 .. MaxUpsets

(* What was read since the call subscribed; what is not so any more has moved. *)
Seen(c, v, x) == v \in Nat /\ (v # ver[x] => x \in moved[c])

ReadSeen(c, read) ==
  /\ read.win \notin {NotYet, Failed} => \A x \in Window : Seen(c, read.win[x], x)
  /\ read.pb \notin {NotYet, 0} => Seen(c, read.pb - 1, "pb")
  /\ read.roi \notin {NotYet, Failed} => Seen(c, read.roi, "roi")

ShotInv(c) ==
  /\ ~Capturing(c) => shot[c] = EmptyShot
  /\ ReadSeen(c, shot[c])
  /\ pc[c] \in {"before2", "fire", "after"} =>
       /\ before[c] \in Before /\ ReadSeen(c, before[c])
       /\ Seen(c, before[c].base, "nav") /\ before[c].base <= ver["nav"]

(* A notification is about something that moved. *)
HeardInv(c) ==
  /\ l0[c] # "none" => pc[c] \in Seeing
  /\ l0[c] \in Heard => l0[c] \in moved[c]

(* So is a cheap signal, unless a capture failed on one side. *)
CheapInv(c) ==
  l1[c] # Null =>
    /\ pc[c] \in {"after", "l2", "verdict"}
    /\ l1[c].pb \in {0, 3} /\ l1[c].roi \in {0, 3} /\ l1[c].nav \in {0, 3}
    /\ l1[c].win > 0 => fault[c].uneven \/ Window \cap moved[c] # {}
    /\ l1[c].pb > 0 => fault[c].uneven \/ "pb" \in moved[c]
    /\ l1[c].roi > 0 => "roi" \in moved[c]
    /\ l1[c].nav > 0 => "nav" \in moved[c]

(* Who walks has a walk, and what only the ladder has. *)
LadderInv(c) ==
  /\ pc[c] = "walk" => walk[c] \in WalkState
  /\ pc[c] \in {"before2", "l2"} => plan[c].mode = "ladder" /\ walk[c] \in WalkState
  /\ pc[c] \in {"fire", "after", "l2"} /\ plan[c].mode = "ladder" => medium[c] \in Medium
  /\ lifted[c] # Null => pc[c] = "verdict"

Grounded(c) ==
  \/ fault[c].uneven
  \/ \E s \in Signals : /\ Weights[plan[c].class][s] > 0
                        /\ AspectsOf(s) \cap moved[c] # {}

(* A vote that is not enough is none, or a single window of three. *)
VoteInv(c) ==
  /\ pc[c] = "l2" => /\ ~Verified(conf[c])
                     /\ conf[c][1] > 0 => Grounded(c) /\ 3 * conf[c][1] = conf[c][2]
  /\ Approved(c) => /\ Grounded(c)
                    /\ lifted[c] # Null => ~BelowL3(lifted[c].from) /\ ~lifted[c].truncated

(* What showed of the action has its signal, or left the pixels alike. *)
OwnInv(c) ==
  plan[c] # Null /\ plan[c].mode # "demo" =>
    /\ pc[c] \notin {"after", "l2", "verdict"} => shown[c] = {}
    /\ pc[c] = "after" =>
         /\ "nav" \in Showing(c) => before[c].base < ver["nav"]
         /\ "nav" \in shown[c] => l1[c] # Null /\ l1[c].nav = 3
         /\ l1[c] # Null => l1[c].roi = 3 \/ fault[c].faint
    /\ pc[c] \in {"l2", "verdict"} /\ Telling(c) # {} => Approved(c)

CallInv(c) ==
  /\ CallTypes(c) /\ ShotInv(c) /\ HeardInv(c) /\ CheapInv(c) /\ LadderInv(c)
  /\ VoteInv(c) /\ OwnInv(c)

VerificationIInv == WalksInv /\ TokensInv /\ Types /\ \A c \in Call : CallInv(c)

-----------------------------------------------------------------------------
(* Walks of any tree. *)

(* A node more is read. *)
LEMMA NodesAppend ==
  ASSUME NEW S, NEW s \in Seq(S), NEW x \in S
  PROVE  /\ Nodes(Append(s, x)) = Nodes(s) \cup {x.node}
         /\ Distinct(s) /\ x.node \notin Nodes(s) => Distinct(Append(s, x))
<1> DEFINE a == Append(s, x)
<1>1. /\ DOMAIN a = 1 .. Len(s) + 1 /\ DOMAIN s = 1 .. Len(s) /\ Len(s) \in Nat
      /\ a[Len(s) + 1] = x
      /\ \A i \in 1 .. Len(s) : a[i] = s[i]
  OBVIOUS
<1> HIDE DEF a
<1>2. \A i \in DOMAIN a : i \in DOMAIN s \/ i = Len(s) + 1
  BY <1>1
<1>3. Nodes(a) = Nodes(s) \cup {x.node}
  BY <1>1, <1>2 DEF Nodes
<1>4. ASSUME Distinct(s), x.node \notin Nodes(s),
             NEW i \in DOMAIN a, NEW j \in DOMAIN a, a[i].node = a[j].node
      PROVE  i = j
  BY <1>1, <1>2, <1>4 DEF Nodes, Distinct
<1> QED BY <1>3, <1>4 DEF Distinct, a

(* The first is taken from the queue. *)
LEMMA NodesTail ==
  ASSUME NEW S, NEW s \in Seq(S), s # <<>>
  PROVE  /\ Head(s) \in S /\ Tail(s) \in Seq(S)
         /\ Nodes(s) = Nodes(Tail(s)) \cup {Head(s).node}
         /\ Distinct(s) => Distinct(Tail(s)) /\ Head(s).node \notin Nodes(Tail(s))
<1> DEFINE r == Tail(s)
<1>1. /\ DOMAIN s = 1 .. Len(s) /\ Len(s) \in Nat \ {0} /\ r \in Seq(S)
      /\ DOMAIN r = 1 .. Len(s) - 1
      /\ Head(s) = s[1] /\ s[1] \in S
      /\ \A i \in 1 .. Len(s) - 1 : r[i] = s[i + 1]
  OBVIOUS
<1> HIDE DEF r
<1>2. \A i \in DOMAIN s : i = 1 \/ (i - 1 \in DOMAIN r /\ r[i - 1] = s[i])
  BY <1>1
<1>3. \A i \in DOMAIN r : i + 1 \in DOMAIN s /\ r[i] = s[i + 1] /\ i + 1 # 1 /\ i \in Nat
  BY <1>1
<1>4. Nodes(s) = Nodes(r) \cup {s[1].node}
  <2>1. Nodes(s) \subseteq Nodes(r) \cup {s[1].node}
    BY <1>2 DEF Nodes
  <2>2. Nodes(r) \subseteq Nodes(s) /\ s[1].node \in Nodes(s)
    BY <1>1, <1>3, SMTT(30) DEF Nodes
  <2> QED BY <2>1, <2>2
<1>5. ASSUME Distinct(s) PROVE Distinct(r) /\ s[1].node \notin Nodes(r)
  <2>1. ASSUME NEW i \in DOMAIN r, NEW j \in DOMAIN r, r[i].node = r[j].node PROVE i = j
    <3>1. i + 1 = j + 1
      BY <1>3, <1>5, <2>1 DEF Distinct
    <3> QED BY <3>1, <1>3
  <2>2. ASSUME NEW i \in DOMAIN r, r[i].node = s[1].node PROVE FALSE
    BY <1>1, <1>3, <1>5, <2>2 DEF Distinct
  <2> QED BY <2>1, <2>2 DEF Distinct, Nodes
<1> QED BY <1>1, <1>4, <1>5 DEF r

(* What was not met before is added to the queue. *)
LEMMA NodesConcat ==
  ASSUME NEW S, NEW s \in Seq(S), NEW u \in Seq(S)
  PROVE  /\ s \o u \in Seq(S)
         /\ Nodes(s \o u) = Nodes(s) \cup Nodes(u)
         /\ Distinct(s) /\ Distinct(u) /\ Nodes(s) \cap Nodes(u) = {} => Distinct(s \o u)
<1> DEFINE a == s \o u
<1>1. /\ DOMAIN s = 1 .. Len(s) /\ DOMAIN u = 1 .. Len(u) /\ Len(s) \in Nat /\ Len(u) \in Nat
      /\ a \in Seq(S) /\ DOMAIN a = 1 .. Len(s) + Len(u)
      /\ \A i \in 1 .. Len(s) : a[i] = s[i]
      /\ \A i \in 1 .. Len(u) : a[Len(s) + i] = u[i]
  OBVIOUS
<1> HIDE DEF a
<1>2. \A i \in DOMAIN a :
        \/ i \in DOMAIN s /\ a[i] = s[i]
        \/ i - Len(s) \in DOMAIN u /\ a[i] = u[i - Len(s)]
  <2> SUFFICES ASSUME NEW i \in 1 .. Len(s) + Len(u), i \notin DOMAIN s
               PROVE  i - Len(s) \in DOMAIN u /\ a[i] = u[i - Len(s)]
    BY <1>1
  <2>1. i - Len(s) \in 1 .. Len(u) /\ Len(s) + (i - Len(s)) = i
    BY <1>1
  <2> QED BY <2>1, <1>1
<1>3. Nodes(a) = Nodes(s) \cup Nodes(u)
  <2>1. Nodes(a) \subseteq Nodes(s) \cup Nodes(u)
    BY <1>2 DEF Nodes
  <2>2. Nodes(s) \subseteq Nodes(a)
    <3>1. \A i \in DOMAIN s : i \in DOMAIN a /\ a[i] = s[i]
      BY <1>1
    <3> QED BY <3>1 DEF Nodes
  <2>3. Nodes(u) \subseteq Nodes(a)
    <3>1. \A i \in DOMAIN u : Len(s) + i \in DOMAIN a /\ a[Len(s) + i] = u[i]
      BY <1>1
    <3> QED BY <3>1 DEF Nodes
  <2> QED BY <2>1, <2>2, <2>3
<1>4. ASSUME Distinct(s), Distinct(u), Nodes(s) \cap Nodes(u) = {},
             NEW i \in DOMAIN a, NEW j \in DOMAIN a, a[i].node = a[j].node
      PROVE  i = j
  <2>1. CASE i \in DOMAIN s /\ a[i] = s[i] /\ j \in DOMAIN s /\ a[j] = s[j]
    BY <1>4, <2>1 DEF Distinct
  <2>2. CASE /\ i - Len(s) \in DOMAIN u /\ a[i] = u[i - Len(s)]
             /\ j - Len(s) \in DOMAIN u /\ a[j] = u[j - Len(s)]
    <3>1. i - Len(s) = j - Len(s)
      BY <1>4, <2>2 DEF Distinct
    <3> QED BY <3>1, <1>1
  <2>3. ASSUME NEW m \in DOMAIN s, NEW n \in DOMAIN u, s[m].node = u[n].node PROVE FALSE
    BY <1>4, <2>3 DEF Nodes
  <2> QED BY <1>2, <1>4, <2>1, <2>2, <2>3
<1> QED BY <1>1, <1>3, <1>4 DEF Distinct, a

LEMMA CapTypes ==
  ASSUME NEW k \in Kind
  PROVE  Cap[k].depth \in Nat /\ Cap[k].children \in Nat /\ Cap[k].nodes \in Nat \ {0}
BY CapAssumption

LEMMA EntryNodes ==
  ASSUME NEW s \in Seq(Entry)
  PROVE  Nodes(s) \subseteq Node
<1>1. \A i \in DOMAIN s : s[i] \in Entry
  OBVIOUS
<1> QED BY <1>1 DEF Nodes, Entry

LEMMA NewWalkCovers ==
  ASSUME NEW k \in Kind, NEW t \in Shapes
  PROVE  Follows(t, NewWalk(k))
<1> DEFINE root == [node |-> Root, depth |-> 0]
           w == NewWalk(k)
<1>1. root \in Item /\ root.node = Root
  BY TreeAssumption DEF Item
<1> HIDE DEF root
<1>2. /\ w.queue = <<root>> /\ w.out = <<>> /\ w.at = Null
      /\ w \in WalkState
  BY <1>1 DEF NewWalk, WalkState, root
<1>3. Nodes(w.queue) = {Root} /\ Distinct(w.queue)
  BY <1>1, <1>2 DEF Nodes, Distinct
<1>4. Nodes(w.out) = {} /\ Distinct(w.out)
  BY <1>2 DEF Nodes, Distinct
<1> HIDE DEF w
<1> QED BY <1>2, <1>3, <1>4 DEF Follows, Covers, Opened, w

(* A node is read, and its children are still to be read. *)
LEMMA ReadCovers ==
  ASSUME NEW t, NEW w \in WalkState, Covers(t, w), w.at = Null, w.queue # <<>>,
         NEW alive \in BOOLEAN, NEW u \in WalkState,
         u.queue = Tail(w.queue), u.at = Head(w.queue),
         u.out = Append(w.out, [node |-> Head(w.queue).node, alive |-> alive])
  PROVE  Covers(t, u)
<1> DEFINE n == Head(w.queue).node
           read == [node |-> n, alive |-> alive]
<1>1. w.queue \in Seq(Item) /\ w.out \in Seq(Entry)
  BY DEF WalkState
<1>2. /\ Head(w.queue) \in Item
      /\ Nodes(w.queue) = Nodes(u.queue) \cup {n}
      /\ Distinct(w.queue) => Distinct(u.queue) /\ n \notin Nodes(u.queue)
  BY <1>1, NodesTail
<1>3. n \in Node /\ read \in Entry /\ read.node = n /\ u.out = Append(w.out, read)
  BY <1>2 DEF Item, Entry
<1> HIDE DEF read
<1>4. /\ Nodes(u.out) = Nodes(w.out) \cup {n}
      /\ Distinct(w.out) /\ n \notin Nodes(w.out) => Distinct(u.out)
  BY <1>1, <1>3, NodesAppend
<1>5. u.at # Null /\ u.at.node = n
  BY <1>2, CapAssumption
<1> HIDE DEF n
<1>6. n \notin Nodes(w.out) /\ Opened(w) = Nodes(w.out) /\ Opened(u) = Nodes(w.out)
  BY <1>2, <1>4, <1>5 DEF Covers, Opened
<1>7. Nodes(u.out) \cup Nodes(u.queue) = Nodes(w.out) \cup Nodes(w.queue)
  BY <1>2, <1>4
<1> QED BY <1>2, <1>4, <1>5, <1>6, <1>7 DEF Covers

(* The children of a node, as items. *)
LEMMA Children ==
  ASSUME NEW t \in Shapes, NEW n \in Node, NEW d \in Nat
  PROVE  LET items == [i \in DOMAIN t[n] |-> [node |-> t[n][i], depth |-> d]]
         IN  /\ items \in Seq(Item)
             /\ Nodes(items) = Elements(t[n])
             /\ Distinct(items)
<1> DEFINE items == [i \in DOMAIN t[n] |-> [node |-> t[n][i], depth |-> d]]
<1>1. t[n] \in Seq(Node) /\ IsTree(t)
  BY TreeAssumption
<1>2. /\ DOMAIN t[n] = 1 .. Len(t[n]) /\ Len(t[n]) \in Nat
      /\ \A i \in 1 .. Len(t[n]) : t[n][i] \in Node
  BY <1>1
<1>3. /\ DOMAIN items = DOMAIN t[n]
      /\ \A i \in DOMAIN t[n] : items[i] \in Item /\ items[i].node = t[n][i]
  BY <1>2 DEF Item
<1> HIDE DEF items
<1>4. items \in Seq(Item)
  <2>1. items \in [1 .. Len(t[n]) -> Item]
    BY <1>2, <1>3 DEF items
  <2> QED BY <1>2, <2>1
<1>5. Nodes(items) = Elements(t[n])
  BY <1>3 DEF Nodes, Elements
<1>6. Distinct(items)
  BY <1>1, <1>3 DEF Distinct, IsTree
<1> QED BY <1>4, <1>5, <1>6 DEF items

(* The children are queued.  None of them was met: whoever was has its parent
   among the opened, and a parent only. *)
LEMMA OpenCovers ==
  ASSUME NEW t \in Shapes, NEW w \in WalkState, Covers(t, w), w.at # Null,
         NEW u \in WalkState, u.at = Null, u.out = w.out, NEW items \in Seq(Item),
         Nodes(items) = Elements(t[w.at.node]), Distinct(items),
         u.queue = w.queue \o items
  PROVE  Covers(t, u)
<1> DEFINE n == w.at.node
           met == Nodes(w.out) \cup Nodes(w.queue)
<1>1. w.queue \in Seq(Item) /\ w.out \in Seq(Entry) /\ n \in Node
  BY DEF WalkState, Item
<1>2. /\ Nodes(u.queue) = Nodes(w.queue) \cup Nodes(items)
      /\ Nodes(w.queue) \cap Nodes(items) = {} /\ Distinct(w.queue) => Distinct(u.queue)
  BY <1>1, NodesConcat
<1>3. Opened(w) = Nodes(w.out) \ {n} /\ Opened(u) = Nodes(w.out) /\ n \in Nodes(w.out)
  BY DEF Opened, Covers
<1>4. Opened(w) \subseteq Node
  BY <1>1, <1>3, EntryNodes
<1>5. IsTree(t)
  BY TreeAssumption
<1> HIDE DEF n
<1>6. ASSUME NEW x \in met, x \in Elements(t[n]) PROVE FALSE
  <2>1. x # Root
    BY <1>1, <1>5, <1>6 DEF IsTree
  <2>2. PICK m \in Opened(w) : x \in Elements(t[m])
    BY <2>1, <1>6 DEF Covers
  <2>3. m = n
    BY <1>1, <1>4, <1>5, <1>6, <2>2 DEF IsTree, Elements
  <2> QED BY <2>2, <2>3, <1>3
<1>7. Distinct(u.queue) /\ Nodes(u.out) \cap Nodes(u.queue) = {}
  BY <1>2, <1>6 DEF Covers, n
<1>8. Nodes(u.out) \cup Nodes(u.queue) = met \cup Elements(t[n])
  BY <1>2 DEF n
<1>9. \A m \in Opened(u) : Elements(t[m]) \subseteq met \cup Elements(t[n])
  BY <1>3 DEF Covers
<1>10. \A x \in met \cup Elements(t[n]) : x = Root \/ \E m \in Opened(u) : x \in Elements(t[m])
  BY <1>3 DEF Covers
<1> HIDE DEF met
<1>11. Root \in met \cup Elements(t[n])
  BY DEF Covers, met
<1> QED BY <1>7, <1>8, <1>9, <1>10, <1>11 DEF Covers

(* The walk is over, and nothing kept it from anything. *)
LEMMA CoversAll ==
  ASSUME NEW w \in WalkState, kids \in Shapes, Covers(kids, w), w.at = Null, w.queue = <<>>
  PROVE  /\ {w.out[i].node : i \in DOMAIN w.out} = {n \in Node : Alive(n)}
         /\ Len(w.out) = Cardinality({n \in Node : Alive(n)})
<1> DEFINE there == {n \in Node : Alive(n)}
<1>1. Nodes(w.queue) = {}
  BY DEF Nodes
<1>2. w.out \in Seq(Entry) /\ Nodes(w.out) \subseteq Node
  BY EntryNodes DEF WalkState
<1>3. /\ Opened(w) = Nodes(w.out) /\ Root \in Nodes(w.out) /\ Distinct(w.out)
      /\ \A m \in Nodes(w.out) : Elements(kids[m]) \subseteq Nodes(w.out)
      /\ \A n \in Nodes(w.out) : n = Root \/ \E m \in Nodes(w.out) : n \in Elements(kids[m])
  BY <1>1 DEF Opened, Covers
<1>4. \A m \in Node : Elements(kids[m]) \subseteq Nodes(w.out)
  <2>1. IsTree(kids) /\ Nodes(w.out) \in SUBSET Node
    BY <1>2, TreeAssumption
  <2> QED BY <1>3, <2>1 DEF IsTree
<1>5. Nodes(w.out) = there
  BY <1>2, <1>3, <1>4 DEF Alive
<1>6. Len(w.out) = Cardinality(there)
  <2> DEFINE f == [i \in 1 .. Len(w.out) |-> w.out[i].node]
  <2>1. DOMAIN w.out = 1 .. Len(w.out) /\ Len(w.out) \in Nat
    BY <1>2
  <2>2. f \in [1 .. Len(w.out) -> there]
    BY <1>5, <2>1 DEF Nodes
  <2>3. \A i, j \in 1 .. Len(w.out) : f[i] = f[j] => i = j
    BY <1>3, <2>1 DEF Distinct
  <2>4. \A n \in there : \E i \in 1 .. Len(w.out) : f[i] = n
    BY <1>5, <2>1 DEF Nodes
  <2> HIDE DEF f, there
  <2>5. f \in Bijection(1 .. Len(w.out), there)
    BY <2>2, <2>3, <2>4 DEF Bijection, Injection, Surjection, IsInjective
  <2>6. ExistsBijection(1 .. Len(w.out), there)
    BY <2>5 DEF ExistsBijection
  <2> QED BY <2>1, <2>6, FS_CountingElements
<1> QED BY <1>5, <1>6 DEF Nodes

-----------------------------------------------------------------------------
(* The walks of the calls. *)

LEMMA OneWalk ==
  ASSUME WalksInv, NEW c \in Call, NEW w, Follows(kids, w),
         walk' = [walk EXCEPT ![c] = w], kids' = kids
  PROVE  WalksInv' /\ walk'[c] \in WalkState
BY DEF WalksInv, Follows

LEMMA NoWalk ==
  ASSUME WalksInv, NEW c \in Call, walk' = [walk EXCEPT ![c] = Null], kids' = kids
  PROVE  WalksInv'
BY DEF WalksInv

LEMMA SameWalks == WalksInv /\ UNCHANGED <<kids, walk>> => WalksInv'
BY DEF WalksInv

LEMMA ReadNodeWalks ==
  ASSUME WalksInv, NEW c \in Call, ReadNode(c)
  PROVE  WalksInv' /\ walk'[c] \in WalkState
<1> DEFINE w == walk[c]
           item == Head(w.queue)
           entry == [node |-> item.node, alive |-> Alive(item.node)]
           popped == [w EXCEPT !.queue = Tail(@)]
           read == [popped EXCEPT !.out = Append(@, entry)]
<1>1. /\ w # Null /\ w \in WalkState /\ w.at = Null /\ w.queue # <<>>
      /\ Follows(kids, w) /\ kids \in Shapes /\ kids' = kids
  BY DEF ReadNode, WalksInv, Follows, Done
<1>2. \/ walk' = [walk EXCEPT ![c] = [popped EXCEPT !.limited = TRUE]]
      \/ walk' = [walk EXCEPT ![c] = [read EXCEPT !.at = item]]
      \/ walk' = [walk EXCEPT ![c] = [read EXCEPT !.truncated = TRUE]]
      \/ walk' = [walk EXCEPT ![c] = [popped EXCEPT !.failed = TRUE]]
  <2>1. CASE item.depth + 1 <= Cap[w.kind].depth
    BY <2>1 DEF ReadNode
  <2>2. CASE ~(item.depth + 1 <= Cap[w.kind].depth)
    BY <2>2 DEF ReadNode
  <2> QED BY <2>1, <2>2
<1>3. w.queue \in Seq(Item) /\ w.out \in Seq(Entry)
  BY <1>1 DEF WalkState
<1>4. item \in Item /\ Tail(w.queue) \in Seq(Item)
  BY <1>1, <1>3, NodesTail
<1>5. Alive(item.node) \in BOOLEAN
  BY DEF Alive
<1>6. entry \in Entry
  BY <1>4, <1>5 DEF Item, Entry
<1> HIDE DEF item
<1>7. Append(w.out, entry) \in Seq(Entry)
  BY <1>3, <1>6
<1> HIDE DEF entry, w
<1>8. /\ popped \in WalkState /\ popped.queue = Tail(w.queue)
      /\ popped.out = w.out /\ popped.at = w.at
  BY <1>1, <1>4 DEF WalkState
<1> HIDE DEF popped
<1>9. /\ read \in WalkState /\ read.queue = Tail(w.queue)
      /\ read.out = Append(w.out, entry) /\ read.at = w.at
      /\ Clean(read) => Clean(w)
  <2>1. read \in WalkState /\ read.out = Append(w.out, entry) /\ read.at = w.at
    BY <1>7, <1>8 DEF WalkState
  <2>2. Clean(read) => Clean(w)
    BY <1>1, <1>8 DEF WalkState, Clean, popped
  <2> QED BY <1>8, <2>1, <2>2 DEF WalkState
<1> HIDE DEF read
<1>10. Follows(kids, [popped EXCEPT !.limited = TRUE])
  BY <1>8 DEF WalkState, Follows, Clean
<1>11. Follows(kids, [popped EXCEPT !.failed = TRUE])
  BY <1>8 DEF WalkState, Follows, Clean
<1>12. Follows(kids, [read EXCEPT !.truncated = TRUE])
  BY <1>9 DEF WalkState, Follows, Clean
<1>13. Follows(kids, [read EXCEPT !.at = item])
  <2> DEFINE u == [read EXCEPT !.at = item]
  <2>1. /\ u \in WalkState /\ u.queue = Tail(w.queue) /\ u.at = item
        /\ u.out = Append(w.out, entry)
        /\ Clean(u) => Clean(read)
    BY <1>4, <1>9 DEF WalkState, Clean
  <2> HIDE DEF u
  <2>2. Clean(u) => Covers(kids, u)
    BY <1>1, <1>5, <1>9, <2>1, ReadCovers DEF Follows, item, entry
  <2> QED BY <2>1, <2>2 DEF Follows, u
<1> QED BY <1>1, <1>2, <1>10, <1>11, <1>12, <1>13, OneWalk

LEMMA PrefixWhole ==
  ASSUME NEW S, NEW s \in Seq(S), NEW n \in Nat
  PROVE  /\ Prefix(s, n) \in Seq(S)
         /\ Len(s) <= n => Prefix(s, n) = s
<1>1. CASE Len(s) < n
  BY <1>1 DEF Prefix
<1>2. CASE ~(Len(s) < n)
  BY <1>2 DEF Prefix
<1> QED BY <1>1, <1>2

LEMMA ReadKidsWalks ==
  ASSUME WalksInv, NEW c \in Call, ReadKids(c)
  PROVE  WalksInv' /\ walk'[c] \in WalkState
<1> DEFINE w == walk[c]
           n == w.at.node
           first == Prefix(kids[n], Cap[w.kind].children)
           items == [i \in DOMAIN first |-> [node |-> first[i], depth |-> w.at.depth + 1]]
           closed == [w EXCEPT !.at = Null]
<1>1. /\ w # Null /\ w \in WalkState /\ w.at # Null /\ w.at \in Item
      /\ Follows(kids, w) /\ kids \in Shapes /\ kids' = kids
  BY DEF ReadKids, WalksInv, Follows, WalkState
<1>2. \/ walk' = [walk EXCEPT ![c] = [closed EXCEPT !.limited = TRUE]]
      \/ walk' = [walk EXCEPT ![c] = [closed EXCEPT !.failed = TRUE]]
      \/ walk' = [walk EXCEPT ![c] = Expanded(w)]
  BY <1>1 DEF ReadKids, WalksInv, WalkState
<1>3. n \in Node /\ w.at.depth \in Nat /\ kids[n] \in Seq(Node) /\ w.kind \in Kind
  BY <1>1, TreeAssumption DEF Item, WalkState
<1>4. Cap[w.kind].children \in Nat
  BY <1>3, CapTypes
<1> HIDE DEF w
<1>5. closed \in WalkState
  BY <1>1 DEF WalkState
<1> HIDE DEF closed
<1>6. /\ Follows(kids, [closed EXCEPT !.limited = TRUE])
      /\ Follows(kids, [closed EXCEPT !.failed = TRUE])
  BY <1>5 DEF WalkState, Follows, Clean
<1>7. Follows(kids, Expanded(w))
  <2> DEFINE u == Expanded(w)
  <2>1. first \in Seq(Node) /\ (Len(kids[n]) <= Cap[w.kind].children => first = kids[n])
    BY <1>3, <1>4, PrefixWhole
  <2>2. items \in Seq(Item)
    <3>1. DOMAIN first = 1 .. Len(first) /\ Len(first) \in Nat
      BY <2>1
    <3>2. items \in [1 .. Len(first) -> Item]
      BY <1>3, <2>1, <3>1 DEF Item
    <3> QED BY <3>1, <3>2
  <2>3. w.queue \in Seq(Item)
    BY <1>1 DEF WalkState
  <2>4. w.queue \o items \in Seq(Item)
    BY <2>2, <2>3
  <2>5. (w.truncated \/ Len(kids[n]) > Cap[w.kind].children) \in BOOLEAN
    BY <1>1 DEF WalkState
  <2>6. u = [[[w EXCEPT !.at = Null] EXCEPT !.queue = @ \o items]
               EXCEPT !.truncated = @ \/ Len(kids[n]) > Cap[w.kind].children]
    BY <1>1 DEF Expanded, WalkState
  <2> HIDE DEF items, first, u
  <2>7. /\ u \in WalkState /\ u.at = Null /\ u.out = w.out /\ u.queue = w.queue \o items
        /\ Clean(u) => Clean(w) /\ ~(Len(kids[n]) > Cap[w.kind].children)
    BY <1>1, <2>4, <2>5, <2>6 DEF WalkState, Clean
  <2>8. ASSUME Clean(u) PROVE Covers(kids, u)
    <3>1. first = kids[n] /\ Covers(kids, w)
      <4>1. Len(kids[n]) \in Nat
        BY <1>3
      <4>2. Len(kids[n]) <= Cap[w.kind].children
        BY <1>4, <2>7, <2>8, <4>1
      <4> QED BY <1>1, <2>1, <2>7, <2>8, <4>2 DEF Follows
    <3>2. w.at.depth + 1 \in Nat
      BY <1>3
    <3>3. items = [i \in DOMAIN kids[n] |-> [node |-> kids[n][i], depth |-> w.at.depth + 1]]
      BY <3>1 DEF items
    <3>4. Nodes(items) = Elements(kids[n]) /\ Distinct(items)
      BY <1>1, <1>3, <3>2, <3>3, Children
    <3> QED BY <1>1, <2>2, <2>7, <3>1, <3>4, OpenCovers
  <2> QED BY <2>7, <2>8 DEF Follows, u
<1> QED BY <1>1, <1>2, <1>6, <1>7, OneWalk

(* Another tree, or the same. *)
LEMMA ReshapeWalks ==
  ASSUME WalksInv, NEW shape \in Shapes, Reshape(shape)
  PROVE  WalksInv' /\ \A c \in Call : walk[c] \in WalkState => walk'[c] \in WalkState
<1>1. ASSUME NEW c \in Call
      PROVE  /\ walk'[c] # Null => Follows(shape, walk'[c])
             /\ walk[c] \in WalkState => walk'[c] \in WalkState
  <2>1. walk[c] # Null => Follows(kids, walk[c])
    BY DEF WalksInv
  <2>2. CASE walk[c] = Null \/ shape = kids
    BY <2>1, <2>2 DEF Reshape
  <2>3. CASE walk[c] # Null /\ shape # kids
    <3>1. walk'[c] = [walk[c] EXCEPT !.moved = TRUE] /\ walk[c] \in WalkState
      BY <2>1, <2>3 DEF Reshape, Follows
    <3> QED BY <3>1 DEF Follows, WalkState, Clean
  <2> QED BY <2>2, <2>3
<1> QED BY <1>1 DEF Reshape, WalksInv

LEMMA WholeTree == WalksInv => WholeTreeOrReason
<1> SUFFICES ASSUME WalksInv, NEW c \in Call, walk[c] # Null, Done(walk[c]),
                    ~Truncated(walk[c]), ~walk[c].limited, ~walk[c].failed, ~walk[c].moved
             PROVE  /\ {walk[c].out[i].node : i \in DOMAIN walk[c].out}
                         = {n \in Node : Alive(n)}
                    /\ Len(walk[c].out) = Cardinality({n \in Node : Alive(n)})
  BY DEF WholeTreeOrReason
<1>1. walk[c] \in WalkState /\ Covers(kids, walk[c]) /\ kids \in Shapes
  BY DEF WalksInv, Follows, Clean, Truncated
<1>2. walk[c].at = Null /\ walk[c].queue = <<>>
  BY DEF Done, Truncated
<1> QED BY <1>1, <1>2, CoversAll

-----------------------------------------------------------------------------
(* Tokens. *)

LEMMA BucketTypes ==
  ASSUME NEW b \in Bucket
  PROVE  Capacity[b] \in Nat \ {0} /\ Rate \in Nat
BY CapAssumption

LEMMA AcquireTokens ==
  ASSUME TokensInv, NEW b \in Bucket, Acquire(b)
  PROVE  TokensInv'
<1> USE BucketTypes
<1>1. ASSUME NEW d \in Bucket PROVE BucketInv(tokens'[d], granted'[d], d)
  <2>1. BucketInv(tokens[d], granted[d], d) /\ Capacity[d] \in Nat
    BY DEF TokensInv
  <2>2. CASE d # b
    BY <2>1, <2>2 DEF Acquire, TokensInv
  <2>3. CASE d = b
    <3>1. tokens'[d] = tokens[d] - 1 /\ granted'[d] = [granted[d] EXCEPT !.here = @ + 1]
      BY <2>3 DEF Acquire, TokensInv
    <3> QED BY <2>1, <2>3, <3>1 DEF Acquire, BucketInv, Grant
  <2> QED BY <2>2, <2>3
<1> QED BY <1>1 DEF TokensInv, Acquire

LEMMA TickTokens == TokensInv /\ Tick => TokensInv'
<1> SUFFICES ASSUME TokensInv, Tick, NEW b \in Bucket
             PROVE  BucketInv(tokens'[b], granted'[b], b)
  BY DEF TokensInv, Tick
<1>1. BucketInv(tokens[b], granted[b], b) /\ Capacity[b] \in Nat /\ Rate \in Nat
  BY BucketTypes DEF TokensInv
<1>2. Refilled(b) \in 0 .. Capacity[b] /\ Refilled(b) <= tokens[b] + Rate
  BY <1>1 DEF Refilled, BucketInv
<1>3. tokens'[b] = Refilled(b) /\ granted'[b] = [last |-> granted[b].here, here |-> 0]
  BY DEF Tick
<1> QED BY <1>1, <1>2, <1>3 DEF BucketInv, Grant

LEMMA SameTokens == TokensInv /\ UNCHANGED <<tokens, granted>> => TokensInv'
BY DEF TokensInv

LEMMA RateIsHeld == TokensInv => RateHeld
<1> SUFFICES ASSUME TokensInv, NEW b \in Bucket
             PROVE  granted[b].last + granted[b].here <= Capacity[b] + Rate
  BY DEF RateHeld
<1>1. BucketInv(tokens[b], granted[b], b) /\ Capacity[b] \in Nat /\ Rate \in Nat
  BY BucketTypes DEF TokensInv
<1> QED BY <1>1 DEF BucketInv, Grant

-----------------------------------------------------------------------------
(* Steps that do not concern a call. *)

(* The desktop and what the call knows of it stay as they are. *)
Same(c) ==
  /\ plan' = plan /\ ver' = ver
  /\ pc'[c] = pc[c] /\ shot'[c] = shot[c] /\ before'[c] = before[c]
  /\ l0'[c] = l0[c] /\ l1'[c] = l1[c] /\ polls'[c] = polls[c]
  /\ medium'[c] = medium[c] /\ conf'[c] = conf[c] /\ lifted'[c] = lifted[c]
  /\ fault'[c] = fault[c] /\ moved'[c] = moved[c]
  /\ acted'[c] = acted[c] /\ due'[c] = due[c] /\ shown'[c] = shown[c]
  /\ walk[c] \in WalkState => walk'[c] \in WalkState

LEMMA SameCall ==
  ASSUME NEW c \in Call, CallInv(c), Same(c)
  PROVE  CallInv(c)'
<1> USE DEF Same
<1>1. CallTypes(c)'
  BY DEF CallInv, CallTypes
<1>2. ShotInv(c)'
  BY DEF CallInv, ShotInv, ReadSeen, Seen, Capturing
<1>3. HeardInv(c)'
  BY DEF CallInv, HeardInv
<1>4. CheapInv(c)'
  BY DEF CallInv, CheapInv
<1>5. LadderInv(c)'
  BY DEF CallInv, LadderInv
<1>6. VoteInv(c)'
  BY DEF CallInv, VoteInv, Approved, Grounded
<1>7. OwnInv(c)'
  BY DEF CallInv, OwnInv, Showing, Telling, Approved
<1> QED BY <1>1, <1>2, <1>3, <1>4, <1>5, <1>6, <1>7 DEF CallInv

Early == {"absent", "idle", "walk", "probe", "again", "ready"}

(* Before the call subscribes there is nothing to keep. *)
LEMMA EarlyCall ==
  ASSUME NEW c \in Call, Types, CallInv(c), pc[c] \in Early, pc'[c] \in Early \ {"absent"},
         plan[c] # Null, pc'[c] = "walk" => walk'[c] \in WalkState,
         UNCHANGED <<plan, ver, shot, before, l0, l1, polls, medium, conf, lifted, fault,
         moved, acted, due, shown>>
  PROVE  CallInv(c)'
<1>1. CallTypes(c)'
  BY DEF CallInv, CallTypes
<1>2. ShotInv(c)'
  BY DEF CallInv, ShotInv, ReadSeen, Seen, Capturing, Early
<1>3. HeardInv(c)'
  BY DEF CallInv, HeardInv, Early, Seeing
<1>4. CheapInv(c)'
  BY DEF CallInv, CheapInv, Early
<1>5. LadderInv(c)'
  BY DEF CallInv, LadderInv, Early
<1>6. VoteInv(c)' /\ OwnInv(c)'
  BY DEF CallInv, VoteInv, OwnInv, Approved, Early
<1> QED BY <1>1, <1>2, <1>3, <1>4, <1>5, <1>6 DEF CallInv

(* A call that has a plan is not absent. *)
LEMMA HasPlan ==
  ASSUME NEW c \in Call, Types, CallInv(c), pc[c] # "absent"
  PROVE  /\ plan[c] \in Plan /\ plan[c].mode \in Mode /\ plan[c].class \in Class
         /\ plan[c].cdp \in BOOLEAN
BY PlanAssumption DEF Types, CallInv, CallTypes, Plan

LEMMA CallsSame ==
  ASSUME VerificationIInv, WalksInv', TokensInv', Types', \A d \in Call : Same(d)
  PROVE  VerificationIInv'
BY SameCall DEF VerificationIInv

LEMMA CallsKept ==
  ASSUME VerificationIInv, NEW c \in Call, WalksInv', TokensInv', Types', CallInv(c)',
         \A d \in Call \ {c} : Same(d)
  PROVE  VerificationIInv'
BY SameCall DEF VerificationIInv

-----------------------------------------------------------------------------
(* Resolution. *)

LEMMA FindWindowKeeps ==
  ASSUME VerificationIInv, NEW c \in Call, FindWindow(c)
  PROVE  VerificationIInv'
<1>1. Types /\ WalksInv /\ TokensInv /\ CallInv(c)
  BY DEF VerificationIInv
<1>2. plan[c] # Null /\ pc[c] \in Early /\ pc'[c] \in Early \ {"absent"}
  BY <1>1 DEF FindWindow, Early, CallInv, CallTypes, Types
<1>3. WalksInv'
  <2>1. Follows(kids, NewWalk("T1"))
    BY <1>1, NewWalkCovers DEF WalksInv, Kind
  <2> QED BY <1>1, <2>1, OneWalk, SameWalks DEF FindWindow
<1>31. pc'[c] = "walk" => walk'[c] \in WalkState
  <2>1. NewWalk("T1") \in WalkState
    BY <1>1, NewWalkCovers DEF WalksInv, Kind, Follows
  <2> QED BY <1>1, <2>1 DEF FindWindow, WalksInv, Types
<1>4. TokensInv'
  BY <1>1, SameTokens DEF FindWindow
<1>5. Types'
  BY <1>1, SMTT(30)
     DEF FindWindow, Types, Stage, callVars, cheapVars, mediumVars, voteVars, deskVars, actVars
<1>6. CallInv(c)'
  BY <1>1, <1>2, <1>31, EarlyCall DEF FindWindow, cheapVars, mediumVars, voteVars, deskVars, actVars
<1>7. \A d \in Call \ {c} : Same(d)
  BY <1>1 DEF FindWindow, Types, Same, cheapVars, mediumVars, voteVars, deskVars, actVars, WalksInv
<1> QED BY <1>3, <1>4, <1>5, <1>6, <1>7, CallsKept

LEMMA BringTargetKeeps ==
  ASSUME VerificationIInv, NEW c \in Call, BringTarget(c)
  PROVE  VerificationIInv'
<1>1. Types /\ WalksInv /\ TokensInv /\ CallInv(c)
  BY DEF VerificationIInv
<1>2. plan[c] # Null /\ pc[c] \in Early /\ pc'[c] \in Early \ {"absent", "walk"}
  BY <1>1 DEF BringTarget, Early, CallInv, CallTypes, Types
<1>3. WalksInv' /\ TokensInv'
  BY <1>1, SameWalks, SameTokens DEF BringTarget, walkVars
<1>4. Types'
  BY <1>1, TreeAssumption
  DEF BringTarget, Types, Stage, cheapVars, mediumVars, voteVars, deskVars, actVars
<1>5. CallInv(c)'
  BY <1>1, <1>2, EarlyCall DEF BringTarget, cheapVars, mediumVars, voteVars, deskVars, actVars
<1>6. \A d \in Call \ {c} : Same(d)
  BY <1>1 DEF BringTarget, Types, Same, walkVars, cheapVars, mediumVars, voteVars, deskVars, actVars
<1> QED BY <1>3, <1>4, <1>5, <1>6, CallsKept

LEMMA LocateKeeps ==
  ASSUME VerificationIInv, NEW c \in Call, Locate(c)
  PROVE  VerificationIInv'
<1>1. Types /\ WalksInv /\ TokensInv /\ CallInv(c)
  BY DEF VerificationIInv
<1>2. /\ plan[c] # Null /\ pc[c] \in Early
      /\ \/ pc' = [pc EXCEPT ![c] = "ready"] /\ UNCHANGED handle
         \/ \E i \in Matches(c) : /\ handle' = [handle EXCEPT ![c] = walk[c].out[i].node]
                                  /\ pc' = [pc EXCEPT ![c] = "probe"]
  BY <1>1 DEF Locate, Early, CallInv, CallTypes, Types
<1>3. WalksInv' /\ TokensInv'
  BY <1>1, NoWalk, SameTokens DEF Locate
<1>4. \A i \in Matches(c) : walk[c].out[i].node \in Node \cup {Null}
  <2>1. walk[c].out \in Seq(Entry)
    <3>1. walk[c] \in WalkState
      BY <1>1 DEF Locate, CallInv, LadderInv
    <3> QED BY <3>1 DEF WalkState
  <2>2. \A i \in DOMAIN walk[c].out : walk[c].out[i] \in Entry
    BY <2>1
  <2> QED BY <2>2 DEF Matches, Entry
<1>5. Types' /\ pc'[c] \in Early \ {"absent", "walk"}
  <2>1. pc' \in [Call -> Stage] /\ pc'[c] \in Early \ {"absent", "walk"}
    <3>1. \E stage \in {"ready", "probe"} : pc' = [pc EXCEPT ![c] = stage]
      BY <1>2
    <3> QED BY <1>1, <3>1 DEF Types, Stage, Early
  <2>2. handle' \in [Call -> Node \cup {Null}]
    BY <1>1, <1>2, <1>4 DEF Types
  <2> QED BY <1>1, <2>1, <2>2 DEF Locate, Types, cheapVars, mediumVars, voteVars, deskVars, actVars
<1>6. CallInv(c)'
  BY <1>1, <1>2, <1>5, EarlyCall DEF Locate, cheapVars, mediumVars, voteVars, deskVars, actVars
<1>7. \A d \in Call \ {c} : Same(d)
  BY <1>1, <1>2
  DEF Locate, Types, WalksInv, Same, cheapVars, mediumVars, voteVars, deskVars, actVars
<1> QED BY <1>3, <1>5, <1>6, <1>7, CallsKept

LEMMA ProbeKeeps ==
  ASSUME VerificationIInv, NEW c \in Call, Probe(c)
  PROVE  VerificationIInv'
<1>1. Types /\ WalksInv /\ TokensInv /\ CallInv(c)
  BY DEF VerificationIInv
<1>2. /\ plan[c] # Null /\ pc[c] \in Early
      /\ \E h \in {handle[c], Null} : handle' = [handle EXCEPT ![c] = h]
      /\ \E stage \in {"ready", "again"} : pc' = [pc EXCEPT ![c] = stage]
  BY <1>1 DEF Probe, Early, CallInv, CallTypes, Types
<1>3. WalksInv' /\ TokensInv'
  BY <1>1, SameWalks, SameTokens, AcquireTokens DEF Probe, Refuse, Bucket
<1>4. Types' /\ pc'[c] \in Early \ {"absent", "walk"}
  <2>1. pc' \in [Call -> Stage] /\ pc'[c] \in Early \ {"absent", "walk"}
    BY <1>1, <1>2 DEF Types, Stage, Early
  <2>2. handle' \in [Call -> Node \cup {Null}]
    BY <1>1, <1>2 DEF Types
  <2> QED BY <1>1, <2>1, <2>2 DEF Probe, Types, cheapVars, mediumVars, voteVars, deskVars, actVars
<1>5. CallInv(c)'
  BY <1>1, <1>2, <1>4, EarlyCall DEF Probe, cheapVars, mediumVars, voteVars, deskVars, actVars
<1>6. \A d \in Call \ {c} : Same(d)
  BY <1>1, <1>2 DEF Probe, Types, Same, cheapVars, mediumVars, voteVars, deskVars, actVars
<1> QED BY <1>3, <1>4, <1>5, <1>6, CallsKept

(* From here on the call keeps what moves. *)
LEMMA SubscribeKeeps ==
  ASSUME VerificationIInv, NEW c \in Call, Subscribe(c)
  PROVE  VerificationIInv'
<1>1. Types /\ WalksInv /\ TokensInv /\ CallInv(c)
  BY DEF VerificationIInv
<1>2. /\ pc[c] = "ready" /\ plan[c] # Null
      /\ pc' = [pc EXCEPT ![c] = "before"] /\ moved' = [moved EXCEPT ![c] = {}]
      /\ l0' = l0 \/ l0' = [l0 EXCEPT ![c] = "open"]
      /\ UNCHANGED <<walkVars, plan, handle, cheapVars, mediumVars, voteVars, ver, upsets,
                     acted, due, shown>>
  BY <1>1 DEF Subscribe, CallInv, CallTypes, actVars
<1> USE <1>2 DEF walkVars, cheapVars, mediumVars, voteVars
<1>3. WalksInv' /\ TokensInv'
  BY <1>1, SameWalks, SameTokens
<1>4. Types'
  BY <1>1 DEF Types, Stage
<1>5. /\ l0[c] = "none" /\ l1[c] = Null /\ lifted[c] = Null /\ shot[c] = EmptyShot
      /\ pc'[c] = "before" /\ moved'[c] = {} /\ l0'[c] \in {"none", "open"}
  BY <1>1 DEF Types, CallInv, ShotInv, HeardInv, CheapInv, LadderInv, Capturing, Seeing
<1>6. CallTypes(c)' /\ HeardInv(c)' /\ CheapInv(c)' /\ LadderInv(c)' /\ VoteInv(c)'
  BY <1>1, <1>5
  DEF CallInv, CallTypes, HeardInv, CheapInv, LadderInv, VoteInv, Seeing, Heard, Approved
<1>7. ShotInv(c)' /\ OwnInv(c)'
  BY <1>1, <1>5 DEF CallInv, ShotInv, OwnInv, ReadSeen, EmptyShot, Capturing
<1>8. \A d \in Call \ {c} : Same(d)
  BY <1>1 DEF Types, Same
<1> QED BY <1>3, <1>4, <1>6, <1>7, <1>8, CallsKept DEF CallInv

-----------------------------------------------------------------------------
(* The snapshots. *)

LEMMA Versions ==
  ASSUME Types
  PROVE  /\ ver["pb"] \in Nat /\ ver["roi"] \in Nat /\ ver["nav"] \in Nat
         /\ \A x \in Window : x \in Aspect /\ ver[x] \in Nat
BY DEF Types, Aspect

LEMMA ShotTaken ==
  ASSUME VerificationIInv, NEW c \in Call, Capturing(c), NEW s \in Shot, ReadSeen(c, s),
         shot' = [shot EXCEPT ![c] = s], upsets' \in 0 .. MaxUpsets,
         \/ shown' = shown
         \/ pc[c] = "after" /\ shown' = [shown EXCEPT ![c] = @ \cup {"roi"}],
         UNCHANGED <<walkVars, callVars, before, l1, polls, l0, mediumVars, voteVars, ver,
         moved, acted, due>>
  PROVE  VerificationIInv'
<1>1. Types /\ WalksInv /\ TokensInv /\ CallInv(c)
  BY DEF VerificationIInv
<1>2. WalksInv' /\ TokensInv'
  BY <1>1, SameWalks, SameTokens DEF walkVars
<1>3. Types'
  <2>1. shown' \in [Call -> SUBSET {"roi", "nav"}]
    BY <1>1 DEF Types
  <2> QED BY <1>1, <2>1 DEF Types, callVars, mediumVars, voteVars
<1>4. /\ shot'[c] = s /\ pc'[c] = pc[c] /\ plan' = plan /\ before' = before /\ acted' = acted
      /\ "nav" \in shown'[c] => "nav" \in shown[c]
      /\ pc[c] # "after" => shown' = shown
  BY <1>1 DEF Types, callVars
<1>5. CallTypes(c)' /\ HeardInv(c)' /\ CheapInv(c)' /\ LadderInv(c)' /\ VoteInv(c)'
  BY <1>1
  DEF CallInv, CallTypes, HeardInv, CheapInv, LadderInv, VoteInv, Approved, Grounded,
      walkVars, callVars, mediumVars, voteVars
<1>6. ShotInv(c)'
  BY <1>1, <1>4 DEF CallInv, ShotInv, Capturing, ReadSeen, Seen
<1>7. OwnInv(c)'
  <2>1. pc[c] \in {"before", "after"} /\ Showing(c)' = Showing(c)
    BY <1>4 DEF Capturing, Showing
  <2> QED BY <1>1, <1>4, <2>1 DEF CallInv, OwnInv, callVars, voteVars
<1>8. \A d \in Call \ {c} : Same(d)
  BY <1>1 DEF Types, Same, walkVars, callVars, mediumVars, voteVars
<1> QED BY <1>2, <1>3, <1>5, <1>6, <1>7, <1>8, CallsKept DEF CallInv

LEMMA TakeWindowsKeeps ==
  ASSUME VerificationIInv, NEW c \in Call, TakeWindows(c)
  PROVE  VerificationIInv'
<1>1. Types /\ CallInv(c) /\ shot[c] \in Shot
  BY DEF VerificationIInv, Types
<1>2. PICK v \in {Failed, [w \in Window |-> ver[w]]} :
        shot' = [shot EXCEPT ![c] = [shot[c] EXCEPT !.win = v]]
  BY <1>1 DEF TakeWindows, Types
<1>3. /\ Capturing(c) /\ upsets' \in 0 .. MaxUpsets
      /\ UNCHANGED <<walkVars, callVars, before, l1, polls, l0, mediumVars, voteVars, ver,
                     moved, acted, due, shown>>
  BY <1>1, PlanAssumption DEF TakeWindows, Capture, Types, actVars
<1> DEFINE s == [shot[c] EXCEPT !.win = v]
<1>4. v \in [Window -> Nat] \cup {Failed}
  BY <1>1, <1>2, Versions
<1>5. s \in Shot /\ s.win = v /\ s.pb = shot[c].pb /\ s.roi = shot[c].roi
  BY <1>1, <1>4 DEF Shot
<1> HIDE DEF s
<1>6. ReadSeen(c, s)
  BY <1>1, <1>2, <1>5, Versions DEF CallInv, ShotInv, ReadSeen, Seen
<1> QED BY <1>2, <1>3, <1>5, <1>6, ShotTaken DEF s

LEMMA TakeBoardKeeps ==
  ASSUME VerificationIInv, NEW c \in Call, TakeBoard(c)
  PROVE  VerificationIInv'
<1>1. Types /\ CallInv(c) /\ shot[c] \in Shot
  BY DEF VerificationIInv, Types
<1>2. PICK v \in {0, 1 + ver["pb"]} :
        shot' = [shot EXCEPT ![c] = [shot[c] EXCEPT !.pb = v]]
  BY <1>1 DEF TakeBoard, Types
<1>3. /\ Capturing(c) /\ upsets' \in 0 .. MaxUpsets
      /\ UNCHANGED <<walkVars, callVars, before, l1, polls, l0, mediumVars, voteVars, ver,
                     moved, acted, due, shown>>
  BY <1>1, PlanAssumption DEF TakeBoard, Capture, Types, actVars
<1> DEFINE s == [shot[c] EXCEPT !.pb = v]
<1>4. v \in Nat /\ (v # 0 => v - 1 = ver["pb"])
  BY <1>1, <1>2, Versions
<1>5. s \in Shot /\ s.win = shot[c].win /\ s.pb = v /\ s.roi = shot[c].roi
  BY <1>1, <1>4 DEF Shot
<1> HIDE DEF s
<1>6. ReadSeen(c, s)
  BY <1>1, <1>4, <1>5, Versions DEF CallInv, ShotInv, ReadSeen, Seen
<1> QED BY <1>2, <1>3, <1>5, <1>6, ShotTaken DEF s

LEMMA TakePixelsKeeps ==
  ASSUME VerificationIInv, NEW c \in Call, TakePixels(c)
  PROVE  VerificationIInv'
<1>1. Types /\ CallInv(c) /\ shot[c] \in Shot
  BY DEF VerificationIInv, Types
<1>2. PICK v \in {Failed, ver["roi"]} :
        shot' = [shot EXCEPT ![c] = [shot[c] EXCEPT !.roi = v]]
  BY <1>1 DEF TakePixels, Types
<1>3. /\ Capturing(c) /\ upsets' \in 0 .. MaxUpsets
      /\ \/ shown' = shown
         \/ pc[c] = "after" /\ shown' = [shown EXCEPT ![c] = @ \cup {"roi"}]
      /\ UNCHANGED <<walkVars, callVars, before, l1, polls, l0, mediumVars, voteVars, ver,
                     moved, acted, due>>
  <2>1. \E fails \in BOOLEAN : upsets' = upsets \/ (upsets < MaxUpsets /\ upsets' = upsets + 1)
    BY DEF TakePixels, Capture
  <2>2. upsets' \in 0 .. MaxUpsets
    BY <1>1, <2>1, PlanAssumption DEF Types
  <2>3. \/ shown' = shown
        \/ pc[c] = "after" /\ shown' = [shown EXCEPT ![c] = @ \cup {"roi"}]
    <3>1. shown \in [Call -> SUBSET {"roi", "nav"}]
      BY <1>1 DEF Types
    <3> QED BY <3>1 DEF TakePixels, Looked
  <2> QED BY <2>2, <2>3 DEF TakePixels, Capture
<1> DEFINE s == [shot[c] EXCEPT !.roi = v]
<1>4. v \in Nat \cup {Failed}
  BY <1>1, <1>2, Versions
<1>5. s \in Shot /\ s.win = shot[c].win /\ s.pb = shot[c].pb /\ s.roi = v
  BY <1>1, <1>4 DEF Shot
<1> HIDE DEF s
<1>6. ReadSeen(c, s)
  BY <1>1, <1>2, <1>5, Versions DEF CallInv, ShotInv, ReadSeen, Seen
<1> QED BY <1>2, <1>3, <1>5, <1>6, ShotTaken DEF s

LEMMA ShotComplete ==
  ASSUME Types, NEW c \in Call, Taken(c)
  PROVE  /\ shot[c].win \in [Window -> Nat] \cup {Failed} /\ shot[c].pb \in Nat
         /\ shot[c].roi \in Nat \cup {Failed}
BY DEF Types, Taken, Shot

LEMMA NoShot ==
  ASSUME NEW c \in Call
  PROVE  EmptyShot \in Shot /\ ReadSeen(c, EmptyShot)
BY DEF EmptyShot, Shot, ReadSeen

LEMMA BeforeDoneKeeps ==
  ASSUME VerificationIInv, NEW c \in Call, BeforeDone(c)
  PROVE  VerificationIInv'
<1> DEFINE b == [win |-> shot[c].win, pb |-> shot[c].pb, roi |-> shot[c].roi,
                 base |-> ver["nav"]]
<1>1. Types /\ WalksInv /\ TokensInv /\ CallInv(c) /\ pc[c] = "before"
  BY DEF VerificationIInv, BeforeDone
<1>2. b \in Before
  BY <1>1, ShotComplete, Versions DEF BeforeDone, Before
<1>3. /\ b.win = shot[c].win /\ b.pb = shot[c].pb /\ b.roi = shot[c].roi
      /\ b.base = ver["nav"]
  OBVIOUS
<1>4. /\ before' = [before EXCEPT ![c] = b] /\ shot' = [shot EXCEPT ![c] = EmptyShot]
      /\ kids' = kids
      /\ UNCHANGED <<tokens, granted, plan, handle, l1, polls, l0, text, medium,
                     conf, lifted, fault, ver, moved, upsets, acted, due, shown>>
  BY DEF BeforeDone, mediumVars, voteVars, deskVars, actVars
<1> HIDE DEF b
<1>5. \/ /\ pc' = [pc EXCEPT ![c] = "before2"] /\ plan[c].mode = "ladder"
         /\ walk' = [walk EXCEPT ![c] = NewWalk("L2")]
      \/ /\ \/ pc' = [pc EXCEPT ![c] = "after"] /\ plan[c].mode = "demo"
            \/ pc' = [pc EXCEPT ![c] = "fire"]
         /\ plan[c].mode # "ladder" /\ walk' = walk
  BY DEF BeforeDone
<1>6. WalksInv' /\ (pc'[c] = "before2" => walk'[c] \in WalkState)
  <2>1. Follows(kids, NewWalk("L2"))
    BY <1>1, NewWalkCovers DEF WalksInv, Kind
  <2> QED BY <1>1, <1>4, <1>5, <2>1, OneWalk, SameWalks DEF Types
<1>7. TokensInv'
  BY <1>1, <1>4, SameTokens
<1>8. Types' /\ pc'[c] \in {"before2", "fire", "after"}
  <2>1. pc' \in [Call -> Stage] /\ pc'[c] \in {"before2", "fire", "after"}
    <3>1. \E s \in {"before2", "fire", "after"} : pc' = [pc EXCEPT ![c] = s]
      BY <1>5
    <3> QED BY <1>1, <3>1 DEF Types, Stage
  <2>2. shot' \in [Call -> Shot] /\ DOMAIN before' = Call
    BY <1>1, <1>4, NoShot DEF Types
  <2> QED BY <1>1, <1>4, <2>1, <2>2 DEF Types
<1>9. before'[c] = b /\ shot'[c] = EmptyShot /\ l1[c] = Null /\ lifted[c] = Null
  BY <1>1, <1>4 DEF Types, CallInv, CheapInv, LadderInv
<1>10. CallTypes(c)' /\ HeardInv(c)' /\ CheapInv(c)' /\ VoteInv(c)'
  BY <1>1, <1>4, <1>8, <1>9
  DEF CallInv, CallTypes, HeardInv, CheapInv, VoteInv, Approved, Seeing
<1>11. LadderInv(c)'
  BY <1>1, <1>4, <1>5, <1>6, <1>8, <1>9 DEF LadderInv, Types
<1>12. ShotInv(c)'
  <2>1. ReadSeen(c, b) /\ Seen(c, b.base, "nav") /\ b.base <= ver["nav"]
    BY <1>1, <1>3, ShotComplete, Versions DEF CallInv, ShotInv, ReadSeen, Seen, BeforeDone
  <2> QED BY <1>2, <1>4, <1>8, <1>9, <2>1, NoShot DEF ShotInv, ReadSeen, Seen
<1>13. OwnInv(c)'
  BY <1>1, <1>4, <1>5, <1>8 DEF CallInv, OwnInv, Types
<1>14. \A d \in Call \ {c} : Same(d)
  BY <1>1, <1>4, <1>5 DEF Types, WalksInv, Same
<1> QED BY <1>6, <1>7, <1>8, <1>10, <1>11, <1>12, <1>13, <1>14, CallsKept DEF CallInv

LEMMA RecogniseKeeps ==
  ASSUME VerificationIInv, NEW c \in Call, Recognise(c)
  PROVE  VerificationIInv'
<1>1. Types /\ WalksInv /\ TokensInv
  BY DEF VerificationIInv
<1>2. /\ \E t \in {Failed, ver["roi"]} : text' = [text EXCEPT ![c] = t]
      /\ upsets' \in 0 .. MaxUpsets
      /\ UNCHANGED <<walkVars, callVars, cheapVars, l0, medium, voteVars, ver, moved, acted,
                     due, shown>>
  <2>1. \E fails \in BOOLEAN : upsets' = upsets \/ (upsets < MaxUpsets /\ upsets' = upsets + 1)
    BY DEF Recognise, Capture
  <2>2. upsets' \in 0 .. MaxUpsets
    BY <1>1, <2>1, PlanAssumption DEF Types
  <2> QED BY <2>2 DEF Recognise, Capture, actVars
<1>3. WalksInv' /\ TokensInv'
  BY <1>1, <1>2, SameWalks, SameTokens DEF walkVars
<1>4. Types'
  <2>1. text' \in [Call -> Nat \cup {NotYet, Failed}]
    BY <1>1, <1>2, Versions DEF Types
  <2> QED BY <1>1, <1>2, <2>1 DEF Types, callVars, cheapVars, voteVars
<1>5. \A d \in Call : Same(d)
  BY <1>2 DEF Same, walkVars, callVars, cheapVars, voteVars
<1> QED BY <1>3, <1>4, <1>5, CallsSame

LEMMA MediumTypes ==
  ASSUME Types, NEW c \in Call, MediumTaken(c), walk[c] \in WalkState
  PROVE  Snapshot2(c) \in Medium
<1>1. text[c] \in Nat \cup {Failed}
  BY DEF MediumTaken, Types
<1>2. Len(walk[c].out) \in Nat /\ Truncated(walk[c]) \in BOOLEAN
  BY DEF WalkState, Truncated
<1> QED BY <1>1, <1>2 DEF Snapshot2, Medium

LEMMA MediumDoneKeeps ==
  ASSUME VerificationIInv, NEW c \in Call, MediumDone(c)
  PROVE  VerificationIInv'
<1>1. Types /\ WalksInv /\ TokensInv /\ CallInv(c) /\ pc[c] = "before2"
  BY DEF VerificationIInv, MediumDone
<1>2. Snapshot2(c) \in Medium
  BY <1>1, MediumTypes DEF MediumDone, CallInv, LadderInv
<1>3. /\ medium' = [medium EXCEPT ![c] = Snapshot2(c)]
      /\ text' = [text EXCEPT ![c] = NotYet]
      /\ walk' = [walk EXCEPT ![c] = Null]
      /\ pc' = [pc EXCEPT ![c] = "fire"]
      /\ UNCHANGED <<kids, tokens, granted, plan, handle, shot, before, l1, polls, l0, conf,
                     lifted, fault, ver, moved, upsets, acted, due, shown>>
  BY DEF MediumDone, cheapVars, voteVars, deskVars, actVars
<1>4. WalksInv' /\ TokensInv'
  BY <1>1, <1>3, NoWalk, SameTokens
<1>5. Types' /\ pc'[c] = "fire" /\ medium'[c] = Snapshot2(c)
  BY <1>1, <1>3 DEF Types, Stage
<1>6. CallTypes(c)' /\ HeardInv(c)' /\ CheapInv(c)' /\ VoteInv(c)' /\ OwnInv(c)'
  BY <1>1, <1>3, <1>5
  DEF CallInv, CallTypes, HeardInv, CheapInv, VoteInv, OwnInv, Approved, Seeing
<1>7. LadderInv(c)'
  BY <1>1, <1>2, <1>3, <1>5 DEF CallInv, LadderInv
<1>8. ShotInv(c)'
  BY <1>1, <1>3, <1>5 DEF CallInv, ShotInv, ReadSeen, Seen, Capturing
<1>9. \A d \in Call \ {c} : Same(d)
  BY <1>1, <1>3 DEF Types, WalksInv, Same
<1> QED BY <1>4, <1>5, <1>6, <1>7, <1>8, <1>9, CallsKept DEF CallInv

-----------------------------------------------------------------------------
(* Changes of the desktop. *)

LEMMA ChangedWalks ==
  ASSUME WalksInv, TokensInv, NEW S, Changed(S)
  PROVE  /\ WalksInv' /\ TokensInv'
         /\ \A c \in Call : walk[c] \in WalkState => walk'[c] \in WalkState
BY ReshapeWalks, SameWalks, SameTokens DEF Changed

LEMMA ChangedVer ==
  ASSUME Types, NEW S \in SUBSET Aspect, Changed(S)
  PROVE  /\ ver' \in [Aspect -> Nat]
         /\ \A x \in Aspect \ S : ver'[x] = ver[x]
         /\ ver["nav"] <= ver'["nav"] /\ ("nav" \in S => ver["nav"] < ver'["nav"])
<1>1. PICK look \in [S \cap (Window \cup {"roi"}) -> Titles \cup Pictures] :
        ver' = [x \in Aspect |->
                  IF x \in DOMAIN look THEN look[x]
                  ELSE IF x \in S \cap {"pb", "nav"} THEN ver[x] + 1 ELSE ver[x]]
  BY DEF Changed
<1>2. /\ DOMAIN look \subseteq S /\ "nav" \notin DOMAIN look /\ "nav" \in Aspect
      /\ \A x \in DOMAIN look : look[x] \in Nat
  <2>1. DOMAIN look = S \cap (Window \cup {"roi"})
    OBVIOUS
  <2>2. \A x \in DOMAIN look : look[x] \in Titles \cup Pictures
    BY <2>1
  <2>3. "nav" \notin Window \cup {"roi"} /\ Titles \subseteq Nat /\ Pictures \subseteq Nat
    BY PlanAssumption
  <2>4. "nav" \in Aspect
    BY DEF Aspect
  <2> QED BY <2>1, <2>2, <2>3, <2>4
<1>3. ver \in [Aspect -> Nat]
  BY DEF Types
<1> QED BY <1>1, <1>2, <1>3

LEMMA ChangedDesk ==
  ASSUME Types, NEW S \in SUBSET Aspect, Changed(S), NEW c \in Call
  PROVE  /\ ver' \in [Aspect -> Nat]
         /\ \A x \in Aspect \ S : ver'[x] = ver[x]
         /\ ver["nav"] <= ver'["nav"] /\ ("nav" \in S => ver["nav"] < ver'["nav"])
         /\ moved'[c] = IF pc[c] \in Seeing THEN moved[c] \cup S ELSE moved[c]
         /\ l0'[c] # l0[c] => l0[c] = "open" /\ l0'[c] \in Heard \cap S
         /\ UNCHANGED <<plan, handle, shot, before, l1, polls, text, medium, conf, lifted,
                        fault>>
<1>1. moved'[c] = IF pc[c] \in Seeing THEN moved[c] \cup S ELSE moved[c]
  BY DEF Changed
<1>2. l0'[c] # l0[c] => l0[c] = "open" /\ l0'[c] \in Heard \cap S
  BY DEF Changed
<1> QED BY <1>1, <1>2, ChangedVer DEF Changed, cheapVars, mediumVars, voteVars

LEMMA ChangedTypes ==
  ASSUME Types, NEW S \in SUBSET Aspect, Changed(S), pc' \in [Call -> Stage],
         DOMAIN acted' = Call, due' \in [Call -> SUBSET Aspect], shown' = shown,
         upsets' \in 0 .. MaxUpsets
  PROVE  Types'
<1>1. ver' \in [Aspect -> Nat]
  BY ChangedVer
<1>2. moved' \in [Call -> SUBSET Aspect]
  BY DEF Changed, Types
<1>3. l0' \in [Call -> {"none", "open", "silent", "raised"} \cup Heard]
  BY DEF Changed, Types
<1> QED BY <1>1, <1>2, <1>3 DEF Changed, Types, cheapVars, mediumVars, voteVars

LEMMA SeenOn ==
  ASSUME Types, NEW S \in SUBSET Aspect, Changed(S), NEW c \in Call, pc[c] \in Seeing,
         NEW x \in Aspect, NEW v, Seen(c, v, x)
  PROVE  Seen(c, v, x)'
<1>1. moved'[c] = moved[c] \cup S
  BY ChangedDesk
<1>2. x \notin S => ver'[x] = ver[x]
  BY ChangedDesk
<1> QED BY <1>1, <1>2 DEF Seen

LEMMA ReadOn ==
  ASSUME Types, NEW S \in SUBSET Aspect, Changed(S), NEW c \in Call, pc[c] \in Seeing,
         NEW read, ReadSeen(c, read)
  PROVE  ReadSeen(c, read)'
<1>1. {"pb", "roi"} \subseteq Aspect /\ Window \subseteq Aspect
  BY DEF Aspect
<1>2. \A x \in Aspect : \A v : Seen(c, v, x) => Seen(c, v, x)'
  BY SeenOn
<1> QED BY <1>1, <1>2 DEF ReadSeen

(* What a change leaves true of a call, whether it is the call's own or not. *)
LEMMA ChangedCall ==
  ASSUME VerificationIInv, NEW S \in SUBSET Aspect, Changed(S), NEW c \in Call,
         pc'[c] = pc[c] \/ (pc[c] = "fire" /\ pc'[c] = "after")
  PROVE  /\ CallTypes(c)' /\ ShotInv(c)' /\ HeardInv(c)' /\ CheapInv(c)' /\ LadderInv(c)'
         /\ VoteInv(c)'
<1>1. Types /\ CallInv(c) /\ WalksInv /\ TokensInv
  BY DEF VerificationIInv
<1>2. /\ moved'[c] = IF pc[c] \in Seeing THEN moved[c] \cup S ELSE moved[c]
      /\ l0'[c] # l0[c] => l0[c] = "open" /\ l0'[c] \in Heard \cap S
      /\ UNCHANGED <<plan, shot, before, l1, medium, conf, lifted, fault>>
  BY <1>1, ChangedDesk
<1>3. walk[c] \in WalkState => walk'[c] \in WalkState
  BY <1>1, ChangedWalks
<1>4. CallTypes(c)' /\ LadderInv(c)'
  BY <1>1, <1>2, <1>3 DEF CallInv, CallTypes, LadderInv
<1>5. ShotInv(c)'
  <2>1. ~Capturing(c)' => shot[c] = EmptyShot
    BY <1>1, <1>2 DEF CallInv, ShotInv, Capturing
  <2>2. ReadSeen(c, shot[c])'
    <3>1. CASE pc[c] \in Seeing
      BY <1>1, <1>2, <3>1, ReadOn DEF CallInv, ShotInv
    <3>2. CASE pc[c] \notin Seeing
      <4>1. shot[c] = EmptyShot
        BY <1>1, <3>2 DEF CallInv, ShotInv, Capturing, Seeing
      <4> QED BY <4>1, <1>2 DEF ReadSeen, EmptyShot
    <3> QED BY <3>1, <3>2
  <2>3. ASSUME pc'[c] \in {"before2", "fire", "after"}
        PROVE  /\ before[c] \in Before /\ ReadSeen(c, before[c])'
               /\ Seen(c, before[c].base, "nav")' /\ before[c].base <= ver'["nav"]
    <3>1. /\ pc[c] \in Seeing /\ before[c] \in Before /\ ReadSeen(c, before[c])
          /\ Seen(c, before[c].base, "nav") /\ "nav" \in Aspect
          /\ before[c].base <= ver["nav"]
      BY <1>1, <2>3 DEF CallInv, ShotInv, Seeing, Aspect
    <3>2. ReadSeen(c, before[c])'
      BY <1>1, <1>2, <3>1, ReadOn
    <3>3. Seen(c, before[c].base, "nav")'
      BY <1>1, <1>2, <3>1, SeenOn
    <3>4. before[c].base <= ver'["nav"]
      <4>1. ver["nav"] \in Nat /\ ver'["nav"] \in Nat /\ ver["nav"] <= ver'["nav"]
        BY <1>1, <3>1, ChangedDesk, Versions
      <4>2. before[c].base \in Nat
        BY <3>1 DEF Before
      <4> QED BY <3>1, <4>1, <4>2
    <3> QED BY <3>1, <3>2, <3>3, <3>4
  <2> QED BY <1>2, <2>1, <2>2, <2>3 DEF ShotInv
<1>6. HeardInv(c)'
  BY <1>1, <1>2 DEF CallInv, HeardInv, Seeing, Heard
<1>7. CheapInv(c)'
  BY <1>1, <1>2 DEF CallInv, CheapInv
<1>8. VoteInv(c)'
  <2>1. Grounded(c) => Grounded(c)'
    BY <1>2 DEF Grounded
  <2> QED BY <1>1, <1>2, <2>1 DEF CallInv, VoteInv, Approved
<1> QED BY <1>4, <1>5, <1>6, <1>7, <1>8

(* What shows of an action is newer than the snapshot before it. *)
LEMMA ChangedOwn ==
  ASSUME VerificationIInv, NEW S \in SUBSET Aspect, Changed(S), NEW c \in Call,
         pc'[c] = pc[c], shown'[c] = shown[c], Showing(c)' \subseteq Showing(c) \cup S
  PROVE  OwnInv(c)'
<1>1. Types /\ CallInv(c)
  BY DEF VerificationIInv
<1>2. /\ ver["nav"] \in Nat /\ ver'["nav"] \in Nat
      /\ ver["nav"] <= ver'["nav"] /\ ("nav" \in S => ver["nav"] < ver'["nav"])
      /\ UNCHANGED <<plan, before, l1, conf, fault>>
  BY <1>1, ChangedDesk, Versions DEF Aspect
<1>3. pc[c] = "after" => before[c].base \in Nat /\ before[c].base <= ver["nav"]
  BY <1>1 DEF CallInv, ShotInv, Before
<1>4. ASSUME plan[c] # Null, plan[c].mode # "demo", pc[c] = "after", "nav" \in Showing(c)'
      PROVE  before[c].base < ver'["nav"]
  <2>1. CASE "nav" \in Showing(c)
    BY <1>1, <1>2, <1>3, <1>4, <2>1 DEF CallInv, OwnInv
  <2>2. CASE "nav" \in S
    BY <1>2, <1>3, <1>4, <2>2
  <2> QED BY <1>4, <2>1, <2>2
<1>5. Telling(c)' = Telling(c) /\ Approved(c)' = Approved(c)
  BY <1>2 DEF Telling, Approved
<1> QED BY <1>1, <1>2, <1>4, <1>5 DEF CallInv, OwnInv

LEMMA OtherKeeps ==
  ASSUME VerificationIInv, Other
  PROVE  VerificationIInv'
<1>1. Types /\ WalksInv /\ TokensInv
  BY DEF VerificationIInv
<1>2. PICK S \in Foreign : Changed(S)
  BY DEF Other
<1>3. S \in SUBSET Aspect
  BY PlanAssumption
<1>4. upsets' \in 0 .. MaxUpsets /\ UNCHANGED <<pc, acted, due, shown>>
  <2>1. upsets < MaxUpsets /\ upsets' = upsets + 1
    BY DEF Other
  <2>2. upsets' \in 0 .. MaxUpsets
    BY <1>1, <2>1, PlanAssumption DEF Types
  <2> QED BY <2>2 DEF Other, actVars
<1>5. Types'
  <2>1. pc' \in [Call -> Stage] /\ DOMAIN acted' = Call /\ due' \in [Call -> SUBSET Aspect]
    BY <1>1, <1>4 DEF Types
  <2> QED BY <1>1, <1>2, <1>3, <1>4, <2>1, ChangedTypes
<1>6. \A c \in Call : CallInv(c)'
  <2>1. \A c \in Call : Showing(c)' = Showing(c)
    BY <1>4 DEF Showing
  <2> QED BY <1>2, <1>3, <1>4, <2>1, ChangedCall, ChangedOwn DEF CallInv
<1> QED BY <1>1, <1>2, <1>5, <1>6, ChangedWalks DEF VerificationIInv

LEMMA ShowKeeps ==
  ASSUME VerificationIInv, NEW c \in Call, Show(c)
  PROVE  VerificationIInv'
<1>1. Types /\ WalksInv /\ TokensInv
  BY DEF VerificationIInv
<1>2. PICK x \in due[c] : Changed({x}) /\ due' = [due EXCEPT ![c] = @ \ {x}]
  BY DEF Show
<1>3. {x} \in SUBSET Aspect
  BY <1>1 DEF Types
<1>4. upsets' \in 0 .. MaxUpsets /\ UNCHANGED <<pc, acted, shown>>
  BY <1>1 DEF Show, Types
<1>5. Types'
  <2>1. due' \in [Call -> SUBSET Aspect]
    BY <1>1, <1>2 DEF Types
  <2> QED BY <1>1, <1>2, <1>3, <1>4, <2>1, ChangedTypes DEF Types
<1>6. \A d \in Call : CallInv(d)'
  <2>1. \A d \in Call : Showing(d)' \subseteq Showing(d) \cup {x}
    BY <1>1, <1>2, <1>4 DEF Showing, Types
  <2> QED BY <1>2, <1>3, <1>4, <2>1, ChangedCall, ChangedOwn DEF CallInv
<1> QED BY <1>1, <1>2, <1>5, <1>6, ChangedWalks DEF VerificationIInv

(* An action shows nothing yet. *)
LEMMA ActKeeps ==
  ASSUME VerificationIInv, NEW c \in Call, Act(c)
  PROVE  VerificationIInv'
<1>1. Types /\ WalksInv /\ TokensInv /\ CallInv(c) /\ plan[c] # Null
  BY DEF VerificationIInv, Act
<1>2. PICK S \in plan[c].effects : acted' = [acted EXCEPT ![c] = S] /\ due' = [due EXCEPT ![c] = S]
  BY DEF Act
<1>3. S \in SUBSET Aspect
  BY <1>1, <1>2, PlanAssumption DEF Types, Plan
<1>4. /\ UNCHANGED <<walkVars, plan, handle, cheapVars, l0, mediumVars, voteVars, deskVars, shown>>
      /\ \/ pc[c] = "fire" /\ pc' = [pc EXCEPT ![c] = "after"]
         \/ plan[c].mode = "demo" /\ pc' = pc
  BY DEF Act
<1> USE DEF walkVars, cheapVars, mediumVars, voteVars, deskVars
<1>5. WalksInv' /\ TokensInv'
  BY <1>1, <1>4, SameWalks, SameTokens
<1>6. Types'
  <2>1. pc' \in [Call -> Stage]
    BY <1>1, <1>4 DEF Types, Stage
  <2>2. DOMAIN acted' = Call /\ due' \in [Call -> SUBSET Aspect]
    BY <1>1, <1>2, <1>3 DEF Types
  <2> QED BY <1>1, <1>4, <2>1, <2>2 DEF Types
<1>7. pc'[c] = pc[c] \/ (pc[c] = "fire" /\ pc'[c] = "after")
  BY <1>1, <1>4 DEF Types
<1>8. CallTypes(c)' /\ HeardInv(c)' /\ CheapInv(c)' /\ LadderInv(c)' /\ VoteInv(c)'
  BY <1>1, <1>4, <1>7
  DEF CallInv, CallTypes, HeardInv, CheapInv, LadderInv, VoteInv, Approved, Grounded, Seeing
<1>9. ShotInv(c)'
  BY <1>1, <1>4, <1>7 DEF CallInv, ShotInv, ReadSeen, Seen, Capturing
<1>10. OwnInv(c)'
  <2>1. Showing(c)' = {}
    BY <1>1, <1>2 DEF Showing, Types
  <2>2. CASE plan[c].mode = "demo"
    BY <1>4, <2>2 DEF OwnInv
  <2>3. CASE plan[c].mode # "demo"
    <3>1. pc[c] = "fire" /\ pc'[c] = "after" /\ l1[c] = Null /\ shown[c] = {}
      BY <1>1, <1>4, <2>3 DEF Types, CallInv, CheapInv, OwnInv
    <3> QED BY <1>4, <2>1, <3>1 DEF OwnInv
  <2> QED BY <2>2, <2>3
<1>11. \A d \in Call \ {c} : Same(d)
  BY <1>1, <1>2, <1>4 DEF Types, Same
<1> QED BY <1>5, <1>6, <1>8, <1>9, <1>10, <1>11, CallsKept DEF CallInv

-----------------------------------------------------------------------------
(* The first two layers. *)

LEMMA WaitKeeps ==
  ASSUME VerificationIInv, NEW c \in Call, pc[c] = "after",
         NEW heard \in {"open", "silent", "raised"}, l0' = [l0 EXCEPT ![c] = heard],
         UNCHANGED <<walkVars, callVars, cheapVars, mediumVars, voteVars, deskVars, acted,
                     due, shown>>
  PROVE  VerificationIInv'
<1>1. Types /\ WalksInv /\ TokensInv /\ CallInv(c)
  BY DEF VerificationIInv
<1> USE DEF walkVars, callVars, cheapVars, mediumVars, voteVars, deskVars
<1>2. WalksInv' /\ TokensInv'
  BY <1>1, SameWalks, SameTokens
<1>3. Types' /\ l0'[c] = heard
  BY <1>1 DEF Types
<1>4. CallTypes(c)' /\ ShotInv(c)' /\ CheapInv(c)' /\ LadderInv(c)' /\ VoteInv(c)' /\ OwnInv(c)'
  BY <1>1
  DEF CallInv, CallTypes, ShotInv, CheapInv, LadderInv, VoteInv, OwnInv, Capturing, ReadSeen,
      Seen, Approved, Grounded, Showing, Telling
<1>5. HeardInv(c)'
  BY <1>1, <1>3 DEF CallInv, HeardInv, Seeing, Heard
<1>6. \A d \in Call \ {c} : Same(d)
  BY <1>1 DEF Types, Same
<1> QED BY <1>2, <1>3, <1>4, <1>5, <1>6, CallsKept DEF CallInv

LEMMA ExpectKeeps ==
  ASSUME VerificationIInv, NEW c \in Call, Expect(c)
  PROVE  VerificationIInv'
BY WaitKeeps DEF Expect, actVars

LEMMA SilenceKeeps ==
  ASSUME VerificationIInv, NEW c \in Call, Silence(c)
  PROVE  VerificationIInv'
BY WaitKeeps DEF Silence, actVars

LEMMA WindowsCounted ==
  ASSUME NEW old, NEW new
  PROVE  /\ WindowsChanged(old, new) \in Nat
         /\ WindowsChanged(old, new) > 0 =>
              \/ (old = Failed) # (new = Failed)
              \/ /\ old # Failed /\ new # Failed
                 /\ \E w \in Window : old[w] # new[w]
<1> DEFINE C == {w \in Window : old[w] # new[w]}
<1>1. IsFiniteSet(Window) /\ IsFiniteSet(C)
  BY PlanAssumption, FS_Subset
<1>2. Cardinality(Window) \in Nat /\ Cardinality(C) \in Nat /\ (C = {} => Cardinality(C) = 0)
  BY <1>1, FS_CardinalityType, FS_EmptySet
<1>3. CASE old = Failed \/ new = Failed
  BY <1>2, <1>3 DEF WindowsChanged
<1>4. CASE ~(old = Failed \/ new = Failed)
  BY <1>2, <1>4 DEF WindowsChanged
<1> QED BY <1>3, <1>4

LEMMA CheapTypes ==
  ASSUME NEW old, NEW new
  PROVE  /\ CheapSignals(old, new) \in Cheap
         /\ CheapSignals(old, new).pb = (IF old.pb # new.pb THEN 3 ELSE 0)
         /\ CheapSignals(old, new).roi = (IF Unlike(old.roi, new.roi) THEN 3 ELSE 0)
         /\ CheapSignals(old, new).nav = 0
         /\ CheapSignals(old, new).win > 0 => WindowsChanged(old.win, new.win) > 0
<1> DEFINE n == WindowsChanged(old.win, new.win)
           win == IF n > 3 THEN 3 ELSE n
<1>1. n \in Nat
  BY WindowsCounted
<1>2. CheapSignals(old, new).win = win
  BY DEF CheapSignals
<1> HIDE DEF n
<1>3. win \in 0 .. 3 /\ (win > 0 => n > 0)
  BY <1>1
<1> QED BY <1>2, <1>3 DEF CheapSignals, Cheap, n

LEMMA DiffKeeps ==
  ASSUME VerificationIInv, NEW c \in Call, Diff(c)
  PROVE  VerificationIInv'
<1> DEFINE sig == CheapSignals(before[c], shot[c])
           uneven == \/ (before[c].win = Failed) # (shot[c].win = Failed)
                     \/ (before[c].pb = 0) # (shot[c].pb = 0)
           faint == ~Unlike(before[c].roi, shot[c].roi)
           look == IF plan[c].cdp THEN 0 ELSE MaxPolls
<1>1. Types /\ WalksInv /\ TokensInv /\ CallInv(c) /\ pc[c] = "after" /\ l1[c] = Null
  BY DEF VerificationIInv, Diff
<1>2. /\ l1' = [l1 EXCEPT ![c] = sig] /\ polls' = [polls EXCEPT ![c] = look]
      /\ shot' = [shot EXCEPT ![c] = EmptyShot]
      /\ fault' = [fault EXCEPT ![c] = [uneven |-> uneven, faint |-> faint]]
      /\ UNCHANGED <<walkVars, plan, pc, handle, before, l0, text, medium, conf, lifted, ver,
                     moved, upsets, acted, due, shown>>
  BY DEF Diff, callVars, mediumVars, deskVars, actVars
<1>3. /\ sig \in Cheap /\ sig.nav = 0
      /\ sig.pb = (IF before[c].pb # shot[c].pb THEN 3 ELSE 0)
      /\ sig.roi = (IF faint THEN 0 ELSE 3)
      /\ sig.win > 0 => \/ (before[c].win = Failed) # (shot[c].win = Failed)
                        \/ /\ before[c].win # Failed /\ shot[c].win # Failed
                           /\ \E w \in Window : before[c].win[w] # shot[c].win[w]
  BY CheapTypes, WindowsCounted
<1>4. /\ shot[c].win # NotYet /\ shot[c].pb \in Nat /\ shot[c].roi \in Nat \cup {Failed}
      /\ before[c].win # NotYet /\ before[c].pb \in Nat /\ before[c].roi \in Nat \cup {Failed}
      /\ NotYet \notin Nat /\ NotYet # Failed /\ before[c] \in Before
  BY <1>1, ShotComplete, SentinelAssumption
  DEF Diff, Taken, CallInv, ShotInv, Before
<1>5. ReadSeen(c, before[c]) /\ ReadSeen(c, shot[c])
  BY <1>1 DEF CallInv, ShotInv
<1> HIDE DEF sig
<1>6. look \in 0 .. MaxPolls /\ (plan[c].cdp => look = 0)
  BY PlanAssumption
<1> HIDE DEF look
<1>7. uneven \in BOOLEAN /\ faint \in BOOLEAN
  BY DEF Unlike
<1>8. /\ (before[c].win = Failed) # (shot[c].win = Failed) => uneven
      /\ before[c].pb # shot[c].pb /\ (before[c].pb = 0 \/ shot[c].pb = 0) => uneven
  OBVIOUS
<1>9. ~faint => /\ before[c].roi # Failed /\ shot[c].roi # Failed
                /\ before[c].roi # shot[c].roi
  BY <1>4 DEF Unlike, DHASH_THRESHOLD_BITS
<1> HIDE DEF uneven, faint
<1>10. WalksInv' /\ TokensInv'
  BY <1>1, <1>2, SameWalks, SameTokens DEF walkVars
<1>11. /\ l1'[c] = sig /\ polls'[c] = look /\ shot'[c] = EmptyShot
       /\ fault'[c].uneven = uneven /\ fault'[c].faint = faint
  BY <1>1, <1>2 DEF Types
<1>12. Types'
  <2>1. l1' \in [Call -> Cheap \cup {Null}]
    BY <1>1, <1>2, <1>3 DEF Types
  <2>2. polls' \in [Call -> 0 .. MaxPolls]
    BY <1>1, <1>2, <1>6 DEF Types
  <2>3. shot' \in [Call -> Shot]
    BY <1>1, <1>2, NoShot DEF Types
  <2>4. fault' \in [Call -> [uneven : BOOLEAN, faint : BOOLEAN]]
    BY <1>1, <1>2, <1>7 DEF Types
  <2> QED BY <1>1, <1>2, <2>1, <2>2, <2>3, <2>4 DEF Types
<1>13. CallTypes(c)' /\ HeardInv(c)' /\ LadderInv(c)' /\ VoteInv(c)'
  BY <1>1, <1>2
  DEF CallInv, CallTypes, HeardInv, LadderInv, VoteInv, Approved, walkVars
<1>14. ShotInv(c)'
  BY <1>1, <1>2, <1>11 DEF CallInv, ShotInv, ReadSeen, Seen, EmptyShot
<1>15. CheapInv(c)'
  <2>1. sig.win > 0 => uneven \/ Window \cap moved[c] # {}
    <3>1. ASSUME before[c].win # Failed, shot[c].win # Failed,
                 NEW w \in Window, before[c].win[w] # shot[c].win[w]
          PROVE  w \in moved[c]
      BY <1>4, <1>5, <3>1 DEF ReadSeen, Seen
    <3> QED BY <1>3, <1>8, <3>1
  <2>2. sig.pb > 0 => uneven \/ "pb" \in moved[c]
    <3>1. CASE before[c].pb = shot[c].pb
      BY <1>3, <3>1
    <3>2. CASE before[c].pb # shot[c].pb /\ (before[c].pb = 0 \/ shot[c].pb = 0)
      BY <1>8, <3>2
    <3>3. CASE before[c].pb # shot[c].pb /\ before[c].pb # 0 /\ shot[c].pb # 0
      <4>1. Seen(c, before[c].pb - 1, "pb") /\ Seen(c, shot[c].pb - 1, "pb")
        BY <1>4, <1>5, <3>3 DEF ReadSeen
      <4>2. before[c].pb - 1 # shot[c].pb - 1
        BY <1>4, <3>3
      <4> QED BY <4>1, <4>2 DEF Seen
    <3> QED BY <3>1, <3>2, <3>3
  <2>3. sig.roi > 0 => "roi" \in moved[c]
    <3>1. CASE ~faint
      BY <1>4, <1>5, <1>9, <3>1 DEF ReadSeen, Seen
    <3> QED BY <1>3, <3>1
  <2>4. sig.pb \in {0, 3} /\ sig.roi \in {0, 3} /\ sig.nav \in {0, 3} /\ ~(sig.nav > 0)
    BY <1>3
  <2> QED BY <1>1, <1>2, <1>11, <2>1, <2>2, <2>3, <2>4 DEF CheapInv
<1>16. OwnInv(c)'
  <2>1. CASE plan[c] = Null \/ plan[c].mode = "demo"
    BY <1>2, <2>1 DEF OwnInv
  <2>2. CASE plan[c] # Null /\ plan[c].mode # "demo"
    <3>1. /\ "nav" \in Showing(c) => before[c].base < ver["nav"]
          /\ "nav" \notin shown[c]
      BY <1>1, <2>2 DEF CallInv, OwnInv
    <3>2. Showing(c)' = Showing(c)
      BY <1>2 DEF Showing
    <3> QED BY <1>1, <1>2, <1>3, <1>11, <3>1, <3>2 DEF OwnInv
  <2> QED BY <2>1, <2>2
<1>17. \A d \in Call \ {c} : Same(d)
  BY <1>1, <1>2 DEF Types, Same, walkVars
<1> QED BY <1>10, <1>12, <1>13, <1>14, <1>15, <1>16, <1>17, CallsKept DEF CallInv

LEMMA PollKeeps ==
  ASSUME VerificationIInv, NEW c \in Call, Poll(c)
  PROVE  VerificationIInv'
<1>1. Types /\ WalksInv /\ TokensInv /\ CallInv(c) /\ pc[c] = "after"
  BY DEF VerificationIInv, Poll
<1>2. l1[c] \in Cheap /\ l1[c] # Null /\ polls[c] \in 0 .. MaxPolls /\ polls[c] < MaxPolls
  BY <1>1 DEF Poll, Types
<1>3. /\ UNCHANGED <<walkVars, callVars, shot, before, l0, mediumVars, voteVars, deskVars,
                     acted, due>>
      /\ shown' = [shown EXCEPT ![c] = IF "nav" \in Showing(c) THEN @ \cup {"nav"} ELSE @]
  BY <1>1 DEF Poll, Looked
<1> USE DEF walkVars, callVars, mediumVars, voteVars, deskVars
<1>4. /\ before[c] \in Before /\ Seen(c, before[c].base, "nav")
  BY <1>1 DEF CallInv, ShotInv
<1>5. PICK look \in Cheap, n \in 0 .. MaxPolls :
        /\ l1' = [l1 EXCEPT ![c] = look] /\ polls' = [polls EXCEPT ![c] = n]
        /\ look.win = l1[c].win /\ look.pb = l1[c].pb /\ look.roi = l1[c].roi
        /\ \/ look.nav = 3 /\ NavSince(c)
           \/ look.nav = l1[c].nav /\ ~NavSince(c)
  <2>1. CASE NavSince(c)
    <3>1. [l1[c] EXCEPT !.nav = 3] \in Cheap
      BY <1>2 DEF Cheap
    <3>2. l1' = [l1 EXCEPT ![c] = [l1[c] EXCEPT !.nav = 3]]
      BY <1>1, <2>1 DEF Poll, Types
    <3>3. polls' = [polls EXCEPT ![c] = MaxPolls] /\ MaxPolls \in 0 .. MaxPolls
      BY <2>1, PlanAssumption DEF Poll
    <3> QED BY <1>2, <2>1, <3>1, <3>2, <3>3 DEF Cheap
  <2>2. CASE ~NavSince(c)
    <3>1. l1' = [l1 EXCEPT ![c] = l1[c]] /\ polls' = [polls EXCEPT ![c] = polls[c] + 1]
      BY <1>1, <2>2 DEF Poll, Types
    <3>2. polls[c] + 1 \in 0 .. MaxPolls
      BY <1>2, PlanAssumption
    <3> QED BY <1>2, <2>2, <3>1, <3>2
  <2> QED BY <2>1, <2>2
<1>6. WalksInv' /\ TokensInv'
  BY <1>1, <1>3, SameWalks, SameTokens
<1>7. Types' /\ l1'[c] = look
  <2>1. l1' \in [Call -> Cheap \cup {Null}] /\ l1'[c] = look
    BY <1>1, <1>5 DEF Types
  <2>2. polls' \in [Call -> 0 .. MaxPolls]
    BY <1>1, <1>5 DEF Types
  <2>3. shown' \in [Call -> SUBSET {"roi", "nav"}]
    BY <1>1, <1>3 DEF Types
  <2> QED BY <1>1, <1>3, <2>1, <2>2, <2>3 DEF Types
<1>8. CallTypes(c)' /\ HeardInv(c)' /\ LadderInv(c)' /\ VoteInv(c)'
  BY <1>1, <1>3 DEF CallInv, CallTypes, HeardInv, LadderInv, VoteInv, Approved
<1>9. ShotInv(c)'
  BY <1>1, <1>2, <1>3, <1>5 DEF CallInv, ShotInv, ReadSeen, Seen, Capturing
<1>10. NavSince(c) => "nav" \in moved[c]
  BY <1>4 DEF NavSince, Seen
<1>11. CheapInv(c)'
  BY <1>1, <1>2, <1>3, <1>5, <1>7, <1>10 DEF CallInv, CheapInv
<1>12. OwnInv(c)'
  <2>1. CASE plan[c] = Null \/ plan[c].mode = "demo"
    BY <1>3, <2>1 DEF OwnInv
  <2>2. CASE plan[c] # Null /\ plan[c].mode # "demo"
    <3>1. /\ "nav" \in Showing(c) => NavSince(c)
          /\ "nav" \in shown[c] => l1[c].nav = 3
          /\ l1[c].roi = 3 \/ fault[c].faint
      <4>1. "nav" \in Showing(c) => before[c].base < ver["nav"]
        BY <1>1, <2>2 DEF CallInv, OwnInv
      <4>2. "nav" \in shown[c] => l1[c].nav = 3
        BY <1>1, <2>2 DEF CallInv, OwnInv
      <4>3. l1[c].roi = 3 \/ fault[c].faint
        BY <1>1, <1>2, <2>2 DEF CallInv, OwnInv
      <4>4. before[c].base \in Nat /\ ver["nav"] \in Nat
        BY <1>1, <1>4, Versions DEF Before
      <4>5. before[c].base < ver["nav"] => NavSince(c)
        BY <4>4 DEF NavSince
      <4> QED BY <4>1, <4>2, <4>3, <4>5
    <3>2. shown'[c] = IF "nav" \in Showing(c) THEN shown[c] \cup {"nav"} ELSE shown[c]
      BY <1>1, <1>3 DEF Types
    <3>3. Showing(c)' = Showing(c)
      BY <1>3 DEF Showing
    <3>4. "nav" \in shown'[c] => look.nav = 3
      BY <1>5, <3>1, <3>2
    <3>5. look # Null /\ pc'[c] = "after"
      BY <1>1, <1>3, <1>5, SentinelAssumption
    <3> QED BY <1>1, <1>3, <1>5, <1>7, <2>2, <3>1, <3>3, <3>4, <3>5 DEF CallInv, OwnInv
  <2> QED BY <2>1, <2>2
<1>13. \A d \in Call \ {c} : Same(d)
  BY <1>1, <1>3, <1>5 DEF Types, Same
<1> QED BY <1>6, <1>7, <1>8, <1>9, <1>11, <1>12, <1>13, CallsKept DEF CallInv

-----------------------------------------------------------------------------
(* The vote. *)

LEMMA TotalOf ==
  ASSUME NEW f, NEW W
  PROVE  Total(f, W) = f["value"] * W["value"] + f["focus"] * W["focus"] + f["win"] * W["win"]
                         + f["pb"] * W["pb"] + f["roi"] * W["roi"] + f["nav"] * W["nav"]
BY DEF Total, Sum, Signals

(* The sums of a vote: of the signals by weight, and of the weights present. *)
Present(f) == [s \in Signals |-> IF f[s] > 0 THEN 1 ELSE 0]
Decisive(f, W) == \E s \in {"pb", "roi", "nav"} : f[s] = 3 /\ W[s] > 0

Tally(f, W) ==
  LET t == Total(f, W)
      p == Total(Present(f), W)
  IN  /\ t \in Nat /\ p \in Nat /\ t <= 3 * p
      /\ p > 0 => \E s \in Signals : f[s] > 0 /\ W[s] > 0
      /\ p = 0 \/ 2 * t >= 3 * p \/ t = p
      /\ Decisive(f, W) => p > 0 /\ 2 * t >= 3 * p

(* full is the weight of what is seen in full, z whether windows changed, x how
   many thirds of their weight w they have. *)
LEMMA Halves ==
  ASSUME NEW full \in Nat, NEW w \in Nat, NEW x \in 0 .. 3, NEW z \in {0, 1},
         x = 0 <=> z = 0, full = 0 \/ 3 * full >= w,
         NEW t, NEW p, t = 3 * full + x * w, p = full + z * w
  PROVE  /\ t \in Nat /\ p \in Nat /\ t <= 3 * p
         /\ p = 0 \/ 2 * t >= 3 * p \/ t = p
         /\ full > 0 => p > 0 /\ 2 * t >= 3 * p
         /\ p > 0 => full > 0 \/ (x > 0 /\ w > 0)
<1>1. x * w \in {0, w, 2 * w, 3 * w} /\ z * w \in {0, w}
  OBVIOUS
<1>2. CASE x = 0
  BY <1>2
<1>3. CASE x = 1
  BY <1>3
<1>4. CASE x = 2
  BY <1>4
<1>5. CASE x = 3
  BY <1>5
<1> QED BY <1>2, <1>3, <1>4, <1>5

(* Whatever the class, a full signal is half of what is present, and what is
   less than half is a single window. *)
LEMMA ClassTally ==
  ASSUME NEW k \in Class, NEW f \in [Signals -> 0 .. 3],
         \A s \in Signals \ {"win"} : f[s] \in {0, 3}
  PROVE  Tally(f, Weights[k])
<1> DEFINE W == Weights[k]
           P == Present(f)
<1>1. \A s \in {"value", "focus", "pb", "roi", "nav"} :
        /\ P[s] \in {0, 1} /\ f[s] = 3 * P[s] /\ (P[s] = 1 => f[s] > 0)
  BY DEF Present, Signals
<1>2. f["win"] \in 0 .. 3 /\ P["win"] \in {0, 1} /\ (f["win"] = 0 <=> P["win"] = 0)
  BY DEF Present, Signals
<1>3. /\ Total(f, W) = f["value"] * W["value"] + f["focus"] * W["focus"]
                         + f["win"] * W["win"] + f["pb"] * W["pb"] + f["roi"] * W["roi"]
                         + f["nav"] * W["nav"]
      /\ Total(P, W) = P["value"] * W["value"] + P["focus"] * W["focus"]
                         + P["win"] * W["win"] + P["pb"] * W["pb"] + P["roi"] * W["roi"]
                         + P["nav"] * W["nav"]
  BY TotalOf
<1> HIDE DEF P
<1>4. ASSUME NEW full \in Nat, W["win"] \in Nat,
             full = 0 \/ 3 * full >= W["win"],
             Total(f, W) = 3 * full + f["win"] * W["win"],
             Total(P, W) = full + P["win"] * W["win"],
             full > 0 => \E s \in Signals : f[s] > 0 /\ W[s] > 0,
             Decisive(f, W) => full > 0
      PROVE  Tally(f, W)
  <2> DEFINE t == Total(f, W)
             p == Total(P, W)
  <2>1. /\ t \in Nat /\ p \in Nat /\ t <= 3 * p
        /\ p = 0 \/ 2 * t >= 3 * p \/ t = p
        /\ full > 0 => p > 0 /\ 2 * t >= 3 * p
        /\ p > 0 => full > 0 \/ (f["win"] > 0 /\ W["win"] > 0)
    <3> HIDE DEF t, p, W
    <3> QED BY <1>2, <1>4, Halves DEF t, p
  <2>2. "win" \in Signals
    BY DEF Signals
  <2> HIDE DEF t, p, W
  <2>3. p > 0 => \E s \in Signals : f[s] > 0 /\ W[s] > 0
    BY <1>4, <2>1, <2>2
  <2>4. Decisive(f, W) => p > 0 /\ 2 * t >= 3 * p
    BY <1>4, <2>1
  <2> QED BY <2>1, <2>3, <2>4 DEF Tally, t, p, P
<1>5. CASE k = "click"
  <2> DEFINE full == 6 * P["value"] + 4 * P["focus"] + 3 * P["roi"] + 7 * P["nav"]
  <2>1. /\ W["value"] = 6 /\ W["focus"] = 4 /\ W["win"] = 3
        /\ W["pb"] = 0 /\ W["roi"] = 3 /\ W["nav"] = 7
    BY <1>5 DEF Weights
  <2> HIDE DEF W
  <2>2. full \in Nat /\ (full = 0 \/ 3 * full >= W["win"])
    BY <1>1, <2>1
  <2>3. Total(f, W) = 3 * full + f["win"] * W["win"]
    BY <1>1, <1>2, <1>3, <2>1
  <2>4. Total(P, W) = full + P["win"] * W["win"]
    BY <1>1, <1>2, <1>3, <2>1
  <2>5. full > 0 => \E s \in Signals : f[s] > 0 /\ W[s] > 0
    BY <1>1, <2>1 DEF Signals
  <2>6. Decisive(f, W) => full > 0
    BY <1>1, <2>1 DEF Decisive
  <2> HIDE DEF full
  <2>7. Tally(f, W)
    BY <1>4, <2>1, <2>2, <2>3, <2>4, <2>5, <2>6
  <2> QED BY <2>7 DEF W
<1>6. CASE k = "type"
  <2> DEFINE full == 8 * P["value"] + 1 * P["pb"] + 5 * P["nav"]
  <2>1. /\ W["value"] = 8 /\ W["focus"] = 0 /\ W["win"] = 0
        /\ W["pb"] = 1 /\ W["roi"] = 0 /\ W["nav"] = 5
    BY <1>6 DEF Weights
  <2> HIDE DEF W
  <2>2. full \in Nat /\ (full = 0 \/ 3 * full >= W["win"])
    BY <1>1, <2>1
  <2>3. Total(f, W) = 3 * full + f["win"] * W["win"]
    BY <1>1, <1>2, <1>3, <2>1
  <2>4. Total(P, W) = full + P["win"] * W["win"]
    BY <1>1, <1>2, <1>3, <2>1
  <2>5. full > 0 => \E s \in Signals : f[s] > 0 /\ W[s] > 0
    BY <1>1, <2>1 DEF Signals
  <2>6. Decisive(f, W) => full > 0
    BY <1>1, <2>1 DEF Decisive
  <2> HIDE DEF full
  <2>7. Tally(f, W)
    BY <1>4, <2>1, <2>2, <2>3, <2>4, <2>5, <2>6
  <2> QED BY <2>7 DEF W
<1>7. CASE k = "scroll"
  <2> DEFINE full == 4 * P["roi"] + 4 * P["nav"]
  <2>1. /\ W["value"] = 0 /\ W["focus"] = 0 /\ W["win"] = 5
        /\ W["pb"] = 0 /\ W["roi"] = 4 /\ W["nav"] = 4
    BY <1>7 DEF Weights
  <2> HIDE DEF W
  <2>2. full \in Nat /\ (full = 0 \/ 3 * full >= W["win"])
    BY <1>1, <2>1
  <2>3. Total(f, W) = 3 * full + f["win"] * W["win"]
    BY <1>1, <1>2, <1>3, <2>1
  <2>4. Total(P, W) = full + P["win"] * W["win"]
    BY <1>1, <1>2, <1>3, <2>1
  <2>5. full > 0 => \E s \in Signals : f[s] > 0 /\ W[s] > 0
    BY <1>1, <2>1 DEF Signals
  <2>6. Decisive(f, W) => full > 0
    BY <1>1, <2>1 DEF Decisive
  <2> HIDE DEF full
  <2>7. Tally(f, W)
    BY <1>4, <2>1, <2>2, <2>3, <2>4, <2>5, <2>6
  <2> QED BY <2>7 DEF W
<1>8. CASE k = "set_value"
  <2> DEFINE full == 9 * P["value"] + 5 * P["nav"]
  <2>1. /\ W["value"] = 9 /\ W["focus"] = 0 /\ W["win"] = 0
        /\ W["pb"] = 0 /\ W["roi"] = 0 /\ W["nav"] = 5
    BY <1>8 DEF Weights
  <2> HIDE DEF W
  <2>2. full \in Nat /\ (full = 0 \/ 3 * full >= W["win"])
    BY <1>1, <2>1
  <2>3. Total(f, W) = 3 * full + f["win"] * W["win"]
    BY <1>1, <1>2, <1>3, <2>1
  <2>4. Total(P, W) = full + P["win"] * W["win"]
    BY <1>1, <1>2, <1>3, <2>1
  <2>5. full > 0 => \E s \in Signals : f[s] > 0 /\ W[s] > 0
    BY <1>1, <2>1 DEF Signals
  <2>6. Decisive(f, W) => full > 0
    BY <1>1, <2>1 DEF Decisive
  <2> HIDE DEF full
  <2>7. Tally(f, W)
    BY <1>4, <2>1, <2>2, <2>3, <2>4, <2>5, <2>6
  <2> QED BY <2>7 DEF W
<1>9. CASE k = "other"
  <2> DEFINE full == 0
  <2>1. /\ W["value"] = 0 /\ W["focus"] = 0 /\ W["win"] = 0
        /\ W["pb"] = 0 /\ W["roi"] = 0 /\ W["nav"] = 0
    BY <1>9 DEF Weights
  <2> HIDE DEF W
  <2>2. full \in Nat /\ (full = 0 \/ 3 * full >= W["win"])
    BY <1>1, <2>1
  <2>3. Total(f, W) = 3 * full + f["win"] * W["win"]
    BY <1>1, <1>2, <1>3, <2>1
  <2>4. Total(P, W) = full + P["win"] * W["win"]
    BY <1>1, <1>2, <1>3, <2>1
  <2>5. full > 0 => \E s \in Signals : f[s] > 0 /\ W[s] > 0
    BY <1>1, <2>1 DEF Signals
  <2>6. Decisive(f, W) => full > 0
    BY <1>1, <2>1 DEF Decisive
  <2> HIDE DEF full
  <2>7. Tally(f, W)
    BY <1>4, <2>1, <2>2, <2>3, <2>4, <2>5, <2>6
  <2> QED BY <2>7 DEF W
<1> QED BY <1>5, <1>6, <1>7, <1>8, <1>9 DEF Class

LEMMA MeanOf ==
  ASSUME NEW f, NEW W, Tally(f, W)
  PROVE  LET q == Mean(f, W)
         IN  /\ q \in Confidence /\ q[1] <= q[2]
             /\ q[1] > 0 => \E s \in Signals : f[s] > 0 /\ W[s] > 0
             /\ Verified(q) \/ q[1] = 0 \/ 3 * q[1] = q[2]
             /\ Verified(q) => q[1] > 0
             /\ Decisive(f, W) => Verified(q)
<1> DEFINE t == Total(f, W)
           p == Total(Present(f), W)
<1>1. Mean(f, W) = IF p = 0 THEN <<0, 1>> ELSE <<t, 3 * p>>
  BY DEF Mean, Present
<1>2. /\ t \in Nat /\ p \in Nat /\ t <= 3 * p
      /\ p > 0 => \E s \in Signals : f[s] > 0 /\ W[s] > 0
      /\ p = 0 \/ 2 * t >= 3 * p \/ t = p
      /\ Decisive(f, W) => p > 0 /\ 2 * t >= 3 * p
  BY DEF Tally
<1> HIDE DEF t, p
<1>3. CASE p = 0
  BY <1>1, <1>2, <1>3 DEF Confidence, Verified
<1>4. CASE p # 0
  <2>1. Mean(f, W)[1] = t /\ Mean(f, W)[2] = 3 * p /\ Mean(f, W) \in Confidence
    BY <1>1, <1>2, <1>4 DEF Confidence
  <2> QED BY <1>2, <1>4, <2>1 DEF Verified
<1> QED BY <1>3, <1>4

LEMMA SignalTypes ==
  ASSUME Types, NEW c \in Call, CallInv(c), l1[c] # Null
  PROVE  /\ Signal(c) \in [Signals -> 0 .. 3]
         /\ \A s \in Signals \ {"win"} : Signal(c)[s] \in {0, 3}
         /\ \A s \in {"pb", "roi", "nav"} : Signal(c)[s] = l1[c][s]
<1>1. /\ l1[c].win \in 0 .. 3 /\ l1[c].pb \in {0, 3} /\ l1[c].roi \in {0, 3}
      /\ l1[c].nav \in {0, 3}
  BY DEF Types, Cheap, CallInv, CheapInv
<1>2. \A s \in Signals :
        /\ Signal(c)[s] = IF s \in Heard THEN IF l0[c] = s THEN 3 ELSE 0 ELSE l1[c][s]
        /\ s \in Heard \/ s \in {"win", "pb", "roi", "nav"}
  BY DEF Signal, Signals, Heard
<1>3. /\ \A s \in Signals : Signal(c)[s] \in 0 .. 3
      /\ \A s \in Signals \ {"win"} : Signal(c)[s] \in {0, 3}
  BY <1>1, <1>2
<1>4. Signal(c) \in [Signals -> 0 .. 3]
  BY <1>3 DEF Signal
<1>5. \A s \in {"pb", "roi", "nav"} : Signal(c)[s] = l1[c][s]
  BY <1>2 DEF Heard, Signals
<1> QED BY <1>3, <1>4, <1>5

(* What a layer saw has happened. *)
LEMMA SignalGrounded ==
  ASSUME Types, NEW c \in Call, CallInv(c), l1[c] # Null, NEW s \in Signals, Signal(c)[s] > 0
  PROVE  fault[c].uneven \/ AspectsOf(s) \cap moved[c] # {}
<1>1. Signal(c)[s] = IF s \in Heard THEN IF l0[c] = s THEN 3 ELSE 0 ELSE l1[c][s]
  BY DEF Signal
<1>2. CASE s \in Heard
  <2>1. l0[c] = s /\ s \in moved[c] /\ s \in {"value", "focus"}
    BY <1>1, <1>2 DEF CallInv, HeardInv, Heard
  <2> QED BY <2>1 DEF AspectsOf, Aspect
<1>3. CASE s = "win"
  BY <1>1, <1>3 DEF CallInv, CheapInv, AspectsOf, Heard
<1>4. CASE s \in {"pb", "roi", "nav"}
  <2>1. fault[c].uneven \/ s \in moved[c]
    BY <1>1, <1>4 DEF CallInv, CheapInv, Heard
  <2> QED BY <1>4, <2>1 DEF AspectsOf, Aspect
<1> QED BY <1>2, <1>3, <1>4 DEF Signals, Heard

LEMMA VoteOf ==
  ASSUME Types, NEW c \in Call, CallInv(c), l1[c] # Null, pc[c] = "after"
  PROVE  /\ Vote(c) \in Confidence /\ Vote(c)[1] <= Vote(c)[2]
         /\ Vote(c)[1] > 0 => Grounded(c)
         /\ Verified(Vote(c)) \/ Vote(c)[1] = 0 \/ 3 * Vote(c)[1] = Vote(c)[2]
         /\ Verified(Vote(c)) => Vote(c)[1] > 0
         /\ \A s \in {"pb", "roi", "nav"} :
              l1[c][s] = 3 /\ Weights[plan[c].class][s] > 0 => Verified(Vote(c))
<1> DEFINE W == Weights[plan[c].class]
<1>1. Tally(Signal(c), W)
  BY HasPlan, SignalTypes, ClassTally
<1> HIDE DEF W
<1>2. LET q == Mean(Signal(c), W)
      IN  /\ q \in Confidence /\ q[1] <= q[2]
          /\ q[1] > 0 => \E s \in Signals : Signal(c)[s] > 0 /\ W[s] > 0
          /\ Verified(q) \/ q[1] = 0 \/ 3 * q[1] = q[2]
          /\ Verified(q) => q[1] > 0
          /\ Decisive(Signal(c), W) => Verified(q)
  BY <1>1, MeanOf
<1>3. (\E s \in Signals : Signal(c)[s] > 0 /\ W[s] > 0) => Grounded(c)
  BY SignalGrounded DEF Grounded, W
<1>4. \A s \in {"pb", "roi", "nav"} : l1[c][s] = 3 /\ W[s] > 0 => Decisive(Signal(c), W)
  BY SignalTypes DEF Decisive
<1>5. Vote(c) = Mean(Signal(c), W)
  BY DEF Vote, W
<1> QED BY <1>2, <1>3, <1>4, <1>5 DEF W

LEMMA AggregateKeeps ==
  ASSUME VerificationIInv, NEW c \in Call, Aggregate(c)
  PROVE  VerificationIInv'
<1> DEFINE q == Vote(c)
<1>1. /\ Types /\ WalksInv /\ TokensInv /\ CallInv(c) /\ pc[c] = "after" /\ l1[c] # Null
      /\ polls[c] = MaxPolls /\ MaxPolls # 0
  BY PlanAssumption DEF VerificationIInv, Aggregate
<1>2. /\ q \in Confidence /\ q[1] <= q[2] /\ (q[1] > 0 => Grounded(c))
      /\ Verified(q) \/ q[1] = 0 \/ 3 * q[1] = q[2]
      /\ Verified(q) => q[1] > 0
      /\ \A s \in {"pb", "roi", "nav"} :
           l1[c][s] = 3 /\ Weights[plan[c].class][s] > 0 => Verified(q)
  BY <1>1, VoteOf
<1>3. /\ conf' = [conf EXCEPT ![c] = q]
      /\ \/ /\ ~Verified(q) /\ plan[c].mode = "ladder"
            /\ pc' = [pc EXCEPT ![c] = "l2"] /\ walk' = [walk EXCEPT ![c] = NewWalk("L2")]
         \/ pc' = [pc EXCEPT ![c] = "verdict"] /\ walk' = walk
      /\ UNCHANGED <<kids, tokens, granted, plan, handle, shot, before, l1, polls, l0, text,
                     medium, lifted, fault, ver, moved, upsets, acted, due, shown>>
  BY DEF Aggregate, cheapVars, mediumVars, deskVars, actVars
<1> HIDE DEF q
<1>4. WalksInv' /\ (pc'[c] = "l2" => walk'[c] \in WalkState)
  <2>1. Follows(kids, NewWalk("L2"))
    BY <1>1, NewWalkCovers DEF WalksInv, Kind
  <2> QED BY <1>1, <1>3, <2>1, OneWalk, SameWalks DEF Types
<1>5. TokensInv'
  BY <1>1, <1>3, SameTokens
<1>6. Types' /\ conf'[c] = q /\ pc'[c] \in {"l2", "verdict"} /\ lifted[c] = Null
  <2>1. pc' \in [Call -> Stage] /\ pc'[c] \in {"l2", "verdict"}
    <3>1. \E s \in {"l2", "verdict"} : pc' = [pc EXCEPT ![c] = s]
      BY <1>3
    <3> QED BY <1>1, <3>1 DEF Types, Stage
  <2>2. conf' \in [Call -> Confidence] /\ conf'[c] = q
    BY <1>1, <1>2, <1>3 DEF Types
  <2>3. lifted[c] = Null
    BY <1>1 DEF CallInv, LadderInv
  <2> QED BY <1>1, <1>3, <2>1, <2>2, <2>3 DEF Types
<1>7. pc'[c] = "l2" => ~Verified(q) /\ plan[c].mode = "ladder"
  BY <1>1, <1>3 DEF Types
<1>8. CallTypes(c)' /\ ShotInv(c)' /\ HeardInv(c)'
  BY <1>1, <1>2, <1>3, <1>6
  DEF CallInv, CallTypes, ShotInv, HeardInv, Capturing, ReadSeen, EmptyShot, Seeing
<1>9. CheapInv(c)' /\ LadderInv(c)'
  BY <1>1, <1>3, <1>4, <1>6, <1>7 DEF CallInv, CheapInv, LadderInv
<1>10. VoteInv(c)'
  <2>1. Grounded(c)' = Grounded(c)
    BY <1>3 DEF Grounded
  <2> QED BY <1>2, <1>3, <1>6, <1>7, <2>1 DEF VoteInv, Approved
<1>11. OwnInv(c)'
  <2>1. CASE plan[c] = Null \/ plan[c].mode = "demo"
    BY <1>3, <2>1 DEF OwnInv
  <2>2. CASE plan[c] # Null /\ plan[c].mode # "demo"
    <3>1. /\ shown[c] \subseteq {"roi", "nav"}
          /\ "nav" \in shown[c] => l1[c].nav = 3
          /\ l1[c].roi = 3 \/ fault[c].faint
      BY <1>1, <2>2 DEF CallInv, OwnInv, Types
    <3>2. Telling(c) # {} => Verified(q)
      BY <1>2, <3>1 DEF Telling
    <3>3. Telling(c)' = Telling(c)
      BY <1>3 DEF Telling
    <3> QED BY <1>3, <1>6, <1>7, <3>2, <3>3 DEF OwnInv, Approved
  <2> QED BY <2>1, <2>2
<1>12. \A d \in Call \ {c} : Same(d)
  BY <1>1, <1>3 DEF Types, WalksInv, Same
<1> QED BY <1>4, <1>5, <1>6, <1>8, <1>9, <1>10, <1>11, <1>12, CallsKept DEF CallInv

-----------------------------------------------------------------------------
(* The medium layer. *)

LEMMA BoostTypes ==
  ASSUME NEW old \in Medium, NEW new \in Medium, NEW expected \in BOOLEAN
  PROVE  \E b1 \in Nat, b2 \in Nat \ {0} :
           /\ Boost(old, new, expected) = <<b1, b2>> /\ b1 <= b2
           /\ old.truncated \/ new.truncated => 2 * b1 = b2
<1> DEFINE delta == IF old.nodes > new.nodes THEN old.nodes - new.nodes
                    ELSE new.nodes - old.nodes
           base == IF old.nodes = 0 THEN 1 ELSE old.nodes
           found == expected \/ (old.text # Failed /\ new.text # Failed /\ old.text # new.text)
           partial == old.truncated \/ new.truncated
<1>1. delta \in Nat /\ base \in Nat \ {0}
  BY DEF Medium
<1>2. Boost(old, new, expected) =
        IF partial THEN <<1, 2>>
        ELSE IF found \/ delta >= base THEN <<1, 1>> ELSE <<delta, base>>
  BY DEF Boost
<1> HIDE DEF delta, base, found
<1>3. CASE partial
  <2>1. Boost(old, new, expected) = <<1, 2>>
    BY <1>2, <1>3
  <2> QED BY <2>1
<1>4. CASE ~partial /\ (found \/ delta >= base)
  <2>1. Boost(old, new, expected) = <<1, 1>>
    BY <1>2, <1>4
  <2> QED BY <1>4, <2>1
<1>5. CASE ~partial /\ ~(found \/ delta >= base)
  <2>1. Boost(old, new, expected) = <<delta, base>> /\ delta <= base
    BY <1>1, <1>2, <1>5
  <2> QED BY <1>1, <1>5, <2>1
<1> QED BY <1>3, <1>4, <1>5

(* A boost of half, or on a vote of nothing, does not tip the verdict. *)
LEMMA Tipped ==
  ASSUME NEW q1 \in Nat, NEW q2 \in Nat \ {0}, q1 = 0 \/ 3 * q1 = q2,
         NEW b1 \in Nat, NEW b2 \in Nat \ {0}, b1 <= b2
  PROVE  LET r == Raised(<<q1, q2>>, <<b1, b2>>)
         IN  /\ r \in Confidence /\ r[1] <= r[2]
             /\ Verified(r) => q1 > 0 /\ 2 * b1 # b2
<1> DEFINE n == 5 * q1 * b2 + b1 * q2
           d == 5 * q2 * b2
           r == Raised(<<q1, q2>>, <<b1, b2>>)
<1>1. r = IF n > d THEN <<1, 1>> ELSE <<n, d>>
  BY DEF Raised
<1>2. CASE q1 = 0
  <2>1. /\ b1 * q2 \in Nat /\ b2 * q2 \in Nat /\ b2 * q2 > 0 /\ b1 * q2 <= b2 * q2
        /\ q2 * b2 = b2 * q2
    OBVIOUS
  <2>2. n = b1 * q2 /\ d = 5 * (b2 * q2)
    BY <1>2
  <2>3. n \in Nat /\ d \in Nat \ {0} /\ 2 * n < d
    BY <2>1, <2>2
  <2> HIDE DEF n, d, r
  <2>4. r = <<n, d>> /\ r \in Nat \X (Nat \ {0}) /\ r[1] = n /\ r[2] = d
    BY <1>1, <2>3
  <2> QED BY <2>3, <2>4 DEF Confidence, Verified, r
<1>3. CASE q1 # 0 /\ 3 * q1 = q2
  <2>1. /\ q1 * b1 \in Nat /\ q1 * b2 \in Nat /\ q1 * b2 > 0 /\ q1 * b1 <= q1 * b2
    BY <1>3
  <2>2. n = 5 * (q1 * b2) + 3 * (q1 * b1) /\ d = 15 * (q1 * b2)
    BY <1>3
  <2>3. n \in Nat /\ d \in Nat \ {0} /\ n <= d
    BY <2>1, <2>2
  <2>4. 2 * b1 = b2 => q1 * b2 = 2 * (q1 * b1)
    OBVIOUS
  <2>5. 2 * b1 = b2 => 2 * n < d
    BY <2>1, <2>2, <2>4
  <2> HIDE DEF n, d, r
  <2>6. r = <<n, d>> /\ r \in Nat \X (Nat \ {0}) /\ r[1] = n /\ r[2] = d
    BY <1>1, <2>3
  <2> QED BY <1>3, <2>3, <2>5, <2>6 DEF Confidence, Verified, r
<1> QED BY <1>2, <1>3

LEMMA EscalateKeeps ==
  ASSUME VerificationIInv, NEW c \in Call, Escalate(c)
  PROVE  VerificationIInv'
<1>1. Types /\ WalksInv /\ TokensInv /\ CallInv(c) /\ pc[c] = "l2" /\ MediumTaken(c)
  BY DEF VerificationIInv, Escalate
<1>2. medium[c] \in Medium /\ Snapshot2(c) \in Medium
  BY <1>1, MediumTypes DEF CallInv, LadderInv
<1>3. PICK expected \in BOOLEAN :
        conf' = [conf EXCEPT ![c] = Raised(@, Boost(medium[c], Snapshot2(c), expected))]
  BY DEF Escalate
<1> DEFINE cut == medium[c].truncated \/ Truncated(walk[c])
           q == conf[c]
           r == Raised(q, Boost(medium[c], Snapshot2(c), expected))
<1>4. /\ conf' = [conf EXCEPT ![c] = r]
      /\ lifted' = [lifted EXCEPT ![c] = [from |-> q, truncated |-> cut]]
      /\ text' = [text EXCEPT ![c] = NotYet] /\ walk' = [walk EXCEPT ![c] = Null]
      /\ pc' = [pc EXCEPT ![c] = "verdict"]
      /\ UNCHANGED <<kids, tokens, granted, plan, handle, shot, before, l1, polls, l0, medium,
                     fault, ver, moved, upsets, acted, due, shown>>
  BY <1>1, <1>3 DEF Escalate, Types, cheapVars, deskVars, actVars
<1>5. /\ q \in Confidence /\ ~Verified(q) /\ (q[1] > 0 => Grounded(c))
      /\ q[1] = 0 \/ 3 * q[1] = q[2]
  BY <1>1 DEF Types, CallInv, VoteInv, Confidence
<1>6. PICK b1 \in Nat, b2 \in Nat \ {0} :
        /\ Boost(medium[c], Snapshot2(c), expected) = <<b1, b2>> /\ b1 <= b2
        /\ cut => 2 * b1 = b2
  <2>1. Snapshot2(c).truncated = Truncated(walk[c])
    BY DEF Snapshot2
  <2> QED BY <1>2, <2>1, BoostTypes
<1>7. q = <<q[1], q[2]>> /\ q[1] \in Nat /\ q[2] \in Nat \ {0}
  BY <1>5 DEF Confidence
<1> HIDE DEF q, r, cut
<1>8. r \in Confidence /\ r[1] <= r[2] /\ (Verified(r) => q[1] > 0 /\ 2 * b1 # b2)
  BY <1>5, <1>6, <1>7, Tipped DEF r
<1>9. Verified(r) => Grounded(c) /\ ~BelowL3(q) /\ ~cut
  BY <1>5, <1>6, <1>7, <1>8 DEF BelowL3
<1>10. WalksInv' /\ TokensInv'
  BY <1>1, <1>4, NoWalk, SameTokens
<1>11. /\ Types' /\ pc'[c] = "verdict" /\ conf'[c] = r
       /\ lifted'[c] = [from |-> q, truncated |-> cut]
  <2>1. conf' \in [Call -> Confidence] /\ conf'[c] = r
    BY <1>1, <1>4, <1>8 DEF Types
  <2>2. pc' \in [Call -> Stage] /\ pc'[c] = "verdict"
    BY <1>1, <1>4 DEF Types, Stage
  <2>3. text' \in [Call -> Nat \cup {NotYet, Failed}]
    BY <1>1, <1>4 DEF Types
  <2>4. DOMAIN lifted' = Call /\ lifted'[c] = [from |-> q, truncated |-> cut]
    BY <1>1, <1>4 DEF Types
  <2> QED BY <1>1, <1>4, <2>1, <2>2, <2>3, <2>4 DEF Types
<1>12. CallTypes(c)' /\ ShotInv(c)' /\ HeardInv(c)' /\ CheapInv(c)' /\ LadderInv(c)'
  BY <1>1, <1>4, <1>8, <1>11
  DEF CallInv, CallTypes, ShotInv, HeardInv, CheapInv, LadderInv, Capturing, ReadSeen,
      EmptyShot, Seeing
<1>13. VoteInv(c)'
  <2>1. Grounded(c)' = Grounded(c)
    BY <1>4 DEF Grounded
  <2> QED BY <1>9, <1>11, <2>1 DEF VoteInv, Approved
<1>14. OwnInv(c)'
  <2>1. CASE plan[c] = Null \/ plan[c].mode = "demo"
    BY <1>4, <2>1 DEF OwnInv
  <2>2. CASE plan[c] # Null /\ plan[c].mode # "demo"
    <3>1. Telling(c) = {}
      BY <1>1, <2>2 DEF CallInv, OwnInv, Approved
    <3>2. Telling(c)' = Telling(c)
      BY <1>4 DEF Telling
    <3> QED BY <1>4, <1>11, <3>1, <3>2 DEF OwnInv
  <2> QED BY <2>1, <2>2
<1>15. \A d \in Call \ {c} : Same(d)
  BY <1>1, <1>4 DEF Types, WalksInv, Same
<1> QED BY <1>10, <1>11, <1>12, <1>13, <1>14, <1>15, CallsKept DEF CallInv

-----------------------------------------------------------------------------
(* The end of a call, and steps that no call makes. *)

LEMMA ForgetKeeps ==
  ASSUME VerificationIInv, NEW c \in Call, pc[c] # "absent", Forget(c),
         NEW s \in Settled \ {"absent"}, pc' = [pc EXCEPT ![c] = s],
         \E did : acted' = [acted EXCEPT ![c] = did]
  PROVE  VerificationIInv'
<1>1. Types /\ WalksInv /\ TokensInv /\ CallInv(c) /\ plan[c] # Null
  BY DEF VerificationIInv, CallInv, CallTypes
<1>2. /\ handle' = [handle EXCEPT ![c] = Null] /\ shot' = [shot EXCEPT ![c] = EmptyShot]
      /\ before' = [before EXCEPT ![c] = Null] /\ l0' = [l0 EXCEPT ![c] = "none"]
      /\ l1' = [l1 EXCEPT ![c] = Null] /\ polls' = [polls EXCEPT ![c] = 0]
      /\ medium' = [medium EXCEPT ![c] = Null] /\ conf' = [conf EXCEPT ![c] = <<0, 1>>]
      /\ lifted' = [lifted EXCEPT ![c] = Null] /\ fault' = [fault EXCEPT ![c] = NoFault]
      /\ moved' = [moved EXCEPT ![c] = {}] /\ shown' = [shown EXCEPT ![c] = {}]
      /\ UNCHANGED <<kids, walk, tokens, granted, plan, text, ver, upsets, due>>
  BY DEF Forget, walkVars
<1>3. WalksInv' /\ TokensInv'
  BY <1>1, <1>2, SameWalks, SameTokens
<1>4. Types'
  <2>1. pc' \in [Call -> Stage] /\ handle' \in [Call -> Node \cup {Null}]
    BY <1>1, <1>2 DEF Types, Stage
  <2>2. shot' \in [Call -> Shot] /\ DOMAIN before' = Call
    BY <1>1, <1>2, NoShot DEF Types
  <2>3. /\ l0' \in [Call -> {"none", "open", "silent", "raised"} \cup Heard]
        /\ l1' \in [Call -> Cheap \cup {Null}]
    BY <1>1, <1>2 DEF Types
  <2>4. polls' \in [Call -> 0 .. MaxPolls] /\ DOMAIN medium' = Call
    BY <1>1, <1>2, PlanAssumption DEF Types
  <2>5. conf' \in [Call -> Confidence] /\ DOMAIN lifted' = Call
    BY <1>1, <1>2 DEF Types, Confidence
  <2>6. fault' \in [Call -> [uneven : BOOLEAN, faint : BOOLEAN]]
    BY <1>1, <1>2 DEF Types, NoFault
  <2>7. /\ moved' \in [Call -> SUBSET Aspect] /\ DOMAIN acted' = Call
        /\ shown' \in [Call -> SUBSET {"roi", "nav"}]
    BY <1>1, <1>2 DEF Types
  <2> QED BY <1>1, <1>2, <2>1, <2>2, <2>3, <2>4, <2>5, <2>6, <2>7 DEF Types
<1>5. /\ pc'[c] = s /\ shot'[c] = EmptyShot /\ l0'[c] = "none" /\ l1'[c] = Null
      /\ conf'[c] = <<0, 1>> /\ lifted'[c] = Null /\ plan' = plan /\ shown'[c] = {}
  BY <1>1, <1>2 DEF Types
<1>6. CallTypes(c)' /\ ShotInv(c)' /\ HeardInv(c)' /\ CheapInv(c)'
  BY <1>1, <1>5
  DEF CallTypes, ShotInv, HeardInv, CheapInv, Capturing, ReadSeen, EmptyShot, Seeing, Settled,
      Heard
<1>7. LadderInv(c)' /\ VoteInv(c)' /\ OwnInv(c)'
  BY <1>5 DEF LadderInv, VoteInv, OwnInv, Approved, Settled
<1>8. \A d \in Call \ {c} : Same(d)
  BY <1>1, <1>2 DEF Types, Same
<1> QED BY <1>3, <1>4, <1>6, <1>7, <1>8, CallsKept DEF CallInv

LEMMA VerdictKeeps ==
  ASSUME VerificationIInv, NEW c \in Call, Verdict(c)
  PROVE  VerificationIInv'
<1>1. \E s \in Settled \ {"absent"} : pc' = [pc EXCEPT ![c] = s]
  <2> DEFINE s == IF Verified(conf[c]) THEN "verified"
                  ELSE IF BelowL3(conf[c]) THEN "unavailable" ELSE "unverified"
  <2>1. s \in Settled \ {"absent"}
    BY DEF Settled
  <2>2. pc' = [pc EXCEPT ![c] = s]
    BY DEF Verdict
  <2> QED BY <2>1, <2>2
<1>2. \E did : acted' = [acted EXCEPT ![c] = did]
  BY DEF Verdict
<1> QED BY <1>1, <1>2, ForgetKeeps DEF Verdict

LEMMA RaiseKeeps ==
  ASSUME VerificationIInv, NEW c \in Call, Raise(c)
  PROVE  VerificationIInv'
<1>1. \E s \in Settled \ {"absent"} : pc' = [pc EXCEPT ![c] = s]
  BY DEF Raise, Settled
<1>2. \E did : acted' = [acted EXCEPT ![c] = did]
  BY DEF Raise
<1> QED BY <1>1, <1>2, ForgetKeeps DEF Raise

LEMMA WalkingKeeps ==
  ASSUME VerificationIInv, NEW c \in Call, Walking(c)
  PROVE  VerificationIInv'
<1>1. Types /\ WalksInv /\ TokensInv
  BY DEF VerificationIInv
<1>2. WalksInv' /\ walk'[c] \in WalkState
  BY <1>1, ReadNodeWalks, ReadKidsWalks DEF Walking
<1>3. \A d \in Call \ {c} : walk'[d] = walk[d]
  BY <1>1 DEF Walking, ReadNode, ReadKids, WalksInv
<1>4. TokensInv'
  <2>1. walk[c].kind \in Bucket
    BY <1>1 DEF Walking, ReadNode, ReadKids, WalksInv, Follows, WalkState, Kind, Bucket
  <2>2. Refuse(walk[c].kind) \/ Acquire(walk[c].kind)
    BY DEF Walking, ReadNode, ReadKids
  <2> QED BY <1>1, <2>1, <2>2, AcquireTokens, SameTokens DEF Refuse
<1> USE DEF Walking, callVars, cheapVars, mediumVars, voteVars, deskVars, actVars
<1>5. Types'
  BY <1>1 DEF Types
<1>6. \A d \in Call : Same(d)
  BY <1>2, <1>3 DEF Same
<1> QED BY <1>2, <1>4, <1>5, <1>6, CallsSame

LEMMA CompeteKeeps ==
  ASSUME VerificationIInv, Compete
  PROVE  VerificationIInv'
<1>1. Types /\ WalksInv /\ TokensInv
  BY DEF VerificationIInv
<1>2. WalksInv' /\ TokensInv'
  BY <1>1, SameWalks, AcquireTokens DEF Compete
<1>3. Types' /\ \A d \in Call : Same(d)
  BY <1>1, PlanAssumption
  DEF Compete, Types, Same, callVars, cheapVars, mediumVars, voteVars, actVars
<1> QED BY <1>2, <1>3, CallsSame

LEMMA PassingKeeps ==
  ASSUME VerificationIInv, Passing \/ UNCHANGED verificationVars
  PROVE  VerificationIInv'
<1>1. Types /\ WalksInv /\ TokensInv
  BY DEF VerificationIInv
<1>2. /\ UNCHANGED <<kids, walk, callVars, cheapVars, l0, mediumVars, voteVars, deskVars,
                     acted, due, shown>>
      /\ Tick \/ UNCHANGED <<tokens, granted>>
  BY DEF Passing, Tick, verificationVars, walkVars, actVars
<1>3. WalksInv' /\ TokensInv'
  BY <1>1, <1>2, SameWalks, TickTokens, SameTokens
<1>4. Types' /\ \A d \in Call : Same(d)
  BY <1>1, <1>2 DEF Types, Same, callVars, cheapVars, mediumVars, voteVars, deskVars, actVars
<1> QED BY <1>3, <1>4, CallsSame

-----------------------------------------------------------------------------
(* The theorems. *)

LEMMA Beginning == VerificationInit => VerificationIInv
<1> SUFFICES ASSUME VerificationInit PROVE VerificationIInv
  OBVIOUS
<1> USE DEF VerificationInit
<1>1. WalksInv
  BY DEF WalkInit, WalksInv
<1>2. TokensInv
  <2>1. ASSUME NEW b \in Bucket PROVE BucketInv(tokens[b], granted[b], b)
    <3>1. /\ tokens[b] = Capacity[b] /\ granted[b] = [last |-> 0, here |-> 0]
          /\ Capacity[b] \in Nat /\ Rate \in Nat
      BY CapAssumption DEF WalkInit
    <3> QED BY <3>1 DEF BucketInv, Grant
  <2> QED BY <2>1, CapAssumption DEF WalkInit, TokensInv
<1>3. Types
  <2>1. pc \in [Call -> Stage] /\ text \in [Call -> Nat \cup {NotYet, Failed}]
    BY DEF Stage, Settled
  <2>2. shot \in [Call -> Shot]
    BY DEF EmptyShot, Shot
  <2>3. conf \in [Call -> Confidence] /\ fault \in [Call -> [uneven : BOOLEAN, faint : BOOLEAN]]
    BY DEF Confidence, NoFault
  <2>4. polls \in [Call -> 0 .. MaxPolls] /\ upsets \in 0 .. MaxUpsets
    BY PlanAssumption
  <2> QED BY <2>1, <2>2, <2>3, <2>4 DEF Types
<1>4. ASSUME NEW c \in Call PROVE CallInv(c)
  <2>1. /\ pc[c] \in {"absent", "idle"} /\ (plan[c] = Null => pc[c] = "absent")
        /\ shot[c] = EmptyShot /\ l0[c] = "none" /\ l1[c] = Null /\ lifted[c] = Null
        /\ conf[c] = <<0, 1>> /\ shown[c] = {}
    OBVIOUS
  <2>2. CallTypes(c) /\ ShotInv(c) /\ HeardInv(c) /\ CheapInv(c)
    BY <2>1 DEF CallTypes, ShotInv, HeardInv, CheapInv, ReadSeen, EmptyShot, Heard
  <2>3. LadderInv(c) /\ VoteInv(c) /\ OwnInv(c)
    BY <2>1 DEF LadderInv, VoteInv, OwnInv, Approved
  <2> QED BY <2>2, <2>3 DEF CallInv
<1> QED BY <1>1, <1>2, <1>3, <1>4 DEF VerificationIInv

LEMMA VerificationStep ==
  VerificationIInv /\ [VerificationNext]_verificationVars => VerificationIInv'
<1> SUFFICES ASSUME VerificationIInv, [VerificationNext]_verificationVars
             PROVE  VerificationIInv'
  OBVIOUS
<1>1. ASSUME NEW c \in Call, Resolving(c) PROVE VerificationIInv'
  BY <1>1, FindWindowKeeps, BringTargetKeeps, LocateKeeps, ProbeKeeps, SubscribeKeeps
  DEF Resolving
<1>2. ASSUME NEW c \in Call, Snapping(c) PROVE VerificationIInv'
  BY <1>2, TakeWindowsKeeps, TakeBoardKeeps, TakePixelsKeeps, BeforeDoneKeeps, RecogniseKeeps,
     MediumDoneKeeps
  DEF Snapping
<1>3. ASSUME NEW c \in Call, Act(c) \/ Show(c) PROVE VerificationIInv'
  BY <1>3, ActKeeps, ShowKeeps
<1>4. ASSUME NEW c \in Call, Deciding(c) PROVE VerificationIInv'
  BY <1>4, ExpectKeeps, SilenceKeeps, DiffKeeps, PollKeeps, AggregateKeeps, RaiseKeeps,
     EscalateKeeps, VerdictKeeps
  DEF Deciding
<1>5. ASSUME NEW c \in Call, Walking(c) PROVE VerificationIInv'
  BY <1>5, WalkingKeeps
<1>6. CASE Other
  BY <1>6, OtherKeeps
<1>7. CASE Compete
  BY <1>7, CompeteKeeps
<1>8. CASE Passing \/ Ended \/ UNCHANGED verificationVars
  BY <1>8, PassingKeeps DEF Ended
<1> QED BY <1>1, <1>2, <1>3, <1>4, <1>5, <1>6, <1>7, <1>8 DEF VerificationNext

(* The inductive invariant of walks, snapshots and verdicts. *)
LEMMA VerificationInvariant == VerificationSpec => []VerificationIInv
BY Beginning, VerificationStep, PTL DEF VerificationSpec

LEMMA VerdictStands == VerificationIInv => VerdictInv
<1> SUFFICES ASSUME VerificationIInv PROVE VerdictInv
  OBVIOUS
<1>1. Types /\ TokensInv /\ \A c \in Call : CallInv(c)
  BY DEF VerificationIInv
<1>2. VerificationTypeOK
  <2>1. \A b \in Bucket : tokens[b] \in 0 .. Capacity[b]
    BY <1>1 DEF TokensInv, BucketInv
  <2>2. \A c \in Call : /\ conf[c][1] \in Nat /\ conf[c][2] \in Nat \ {0}
                        /\ conf[c][1] <= conf[c][2]
    BY <1>1 DEF Types, Confidence, CallInv, CallTypes
  <2> QED BY <1>1, <2>1, <2>2 DEF VerificationTypeOK, Types, Stage
<1>3. EvidenceIsReal
  BY <1>1 DEF EvidenceIsReal, CallInv, VoteInv, Grounded
<1>4. MediumOnlyTips
  BY <1>1 DEF MediumOnlyTips, CallInv, VoteInv
<1> QED BY <1>2, <1>3, <1>4 DEF VerdictInv

LEMMA EffectsSeen == VerificationIInv => OwnEffectSeen
<1> SUFFICES ASSUME VerificationIInv, NEW c \in Call, pc[c] = "verdict",
                    plan[c].mode # "demo", Telling(c) # {}
             PROVE  Approved(c)
  BY DEF OwnEffectSeen
<1>1. CallInv(c) /\ plan[c] # Null
  BY DEF VerificationIInv, CallInv, CallTypes
<1> QED BY <1>1 DEF CallInv, OwnInv

(* However walks, probes and other callers interleave over a changing tree, a
   walk that was not cut, had no read refused or failed and met no changing tree
   has read the whole tree once, and no bucket grants more within two ticks than
   it holds and gains.  Of refused and failed reads the walker says nothing. *)
THEOREM WalkAlways == VerificationSpec => []WalkInv
<1>1. VerificationIInv => WalkInv
  BY WholeTree, RateIsHeld DEF VerificationIInv, WalkInv
<1> QED BY <1>1, VerificationInvariant, PTL

(* For every set of calls, windows and effects: what is verified has evidence
   that is younger than the call's subscription, and the medium layer tips only
   what was left undecided, from walks that were not cut. *)
THEOREM VerdictAlways == VerificationSpec => []VerdictInv
BY VerificationInvariant, VerdictStands, PTL

(* What showed of the action when the check for it looked, in the browser's
   events or in pixels beyond the threshold, is neither lost nor outvoted,
   whatever else changes, fails or competes; what shows later is missed. *)
THEOREM OwnEffectAlways == VerificationSpec => []OwnEffectSeen
BY VerificationInvariant, EffectsSeen, PTL

-----------------------------------------------------------------------------
(* The branches of a recovery. *)

(* A branch at this place is on its way to its channel. *)
Way(b, place) ==
  \/ b \in Firing /\ place \in {"registry", "fire"}
  \/ b = "B5" /\ place \in {"sleep", "resolve"}

Untouched(a) == \A c \in Channel : performed[a][c] = 0

(* Whoever is on its way holds the token, which is then as it was when the
   branch found it free; the branch's own token keeps its channel from firing. *)
Held(a) ==
  /\ owner[a] = None => Untouched(a)
  /\ \A b \in Branch : Way(b, at[a][b]) => owner[a] = ChannelOf[b] /\ Untouched(a)
  /\ \A b \in Branch : reply[a][b] # "fired"
  /\ phase[a] # "recovered"

HeldInv == TypeOK /\ \A a \in Action : Held(a)

-----------------------------------------------------------------------------

LEMMA ChannelNames ==
  /\ Firing = {"B1", "B2", "B5"}
  /\ Firing \subseteq Branch
  /\ \A b \in Firing : ChannelOf[b] \in Channel /\ ChannelOf[b] # None
  /\ \A b1, b2 \in Firing : ChannelOf[b1] = ChannelOf[b2] => b1 = b2
BY DEF Firing, ChannelOf, Branch, Channel, None

(* The start of an attempt. *)
LEMMA InitHeld == Init => HeldInv
<1> SUFFICES ASSUME Init PROVE HeldInv
  OBVIOUS
<1> USE BranchesAssumption
<1>1. PICK did \in SUBSET {a \in Action : owner[a] # None} :
        performed = [a \in Action |-> [c \in Channel |->
                       IF a \in did /\ owner[a] = c THEN 1 ELSE 0]]
  BY DEF Init
<1>2. /\ at \in [Action -> [Branch -> {"off", "start"}]]
      /\ reply = [a \in Action |-> [b \in Branch |-> "none"]]
  BY DEF Init, Launched, NoReply
<1>3. TypeOK
  BY <1>1, <1>2 DEF Init, TypeOK, Place, Reply, Over
<1>4. ASSUME NEW a \in Action PROVE Held(a)
  <2>1. owner[a] = None => Untouched(a)
    BY <1>1 DEF Untouched
  <2>2. \A b \in Branch : at[a][b] \in {"off", "start"} /\ reply[a][b] = "none"
    BY <1>2
  <2> QED BY <2>1, <2>2 DEF Held, Way, Init
<1> QED BY <1>3, <1>4 DEF HeldInv

(* A step that leaves the token alone and sends its branch on its way only if
   it was on its way already. *)
LEMMA Moved ==
  ASSUME HeldInv, NEW a \in Action, NEW b \in Branch, NEW place \in Place,
         at' = [at EXCEPT ![a][b] = place],
         \/ reply' = reply
         \/ \E r \in Reply \ {"fired"} : reply' = [reply EXCEPT ![a][b] = r],
         UNCHANGED <<owner, performed, context, fan, phase, cycle>>,
         Way(b, place) => Way(b, at[a][b])
  PROVE  HeldInv'
<1>1. TypeOK
  BY DEF HeldInv
<1>2. /\ at' \in [Action -> [Branch -> Place]]
      /\ \A x \in Action, y \in Branch :
           at'[x][y] = IF x = a /\ y = b THEN place ELSE at[x][y]
  BY <1>1 DEF TypeOK
<1>3. /\ reply' \in [Action -> [Branch -> Reply]]
      /\ \A x \in Action, y \in Branch : reply'[x][y] = "fired" => reply[x][y] = "fired"
  <2>1. CASE reply' = reply
    BY <1>1, <2>1 DEF TypeOK
  <2>2. ASSUME NEW r \in Reply \ {"fired"}, reply' = [reply EXCEPT ![a][b] = r]
        PROVE  /\ reply' \in [Action -> [Branch -> Reply]]
               /\ \A x \in Action, y \in Branch :
                    reply'[x][y] = IF x = a /\ y = b THEN r ELSE reply[x][y]
    BY <1>1, <2>2 DEF TypeOK
  <2> QED BY <2>1, <2>2
<1>4. TypeOK'
  BY <1>1, <1>2, <1>3 DEF TypeOK
<1>5. ASSUME NEW x \in Action PROVE Held(x)'
  <2>1. Held(x)
    BY DEF HeldInv
  <2>2. \A y \in Branch : Way(y, at'[x][y]) => Way(y, at[x][y])
    BY <1>2
  <2> QED BY <2>1, <2>2, <1>3 DEF Held, Untouched
<1> QED BY <1>4, <1>5 DEF HeldInv

LEMMA TryMoves ==
  ASSUME HeldInv, NEW a \in Action, NEW b \in Branch, NEW place \in Place,
         NEW known \in BOOLEAN, Try(a, b, known, place),
         Way(b, place) => Way(b, at[a][b])
  PROVE  HeldInv' /\ UNCHANGED <<owner, performed>>
<1>1. CASE known
  BY <1>1, Moved DEF Try, GoTo, Unmoved
<1>2. CASE ~known
  <2>1. /\ at' = [at EXCEPT ![a][b] = "done"]
        /\ reply' = [reply EXCEPT ![a][b] = "failed"]
        /\ UNCHANGED <<owner, performed, context, fan, phase, cycle>>
    BY <1>2 DEF Try, End, Unmoved
  <2>2. "done" \in Place /\ "failed" \in Reply \ {"fired"} /\ ~Way(b, "done")
    BY DEF Place, Reply, Way
  <2> QED BY <2>1, <2>2, Moved
<1> QED BY <1>1, <1>2

LEMMA FindMoves ==
  ASSUME HeldInv, NEW a \in Action, NEW b \in Branch, NEW place \in Place,
         Find(a, b, place), Way(b, place) => Way(b, at[a][b])
  PROVE  HeldInv' /\ UNCHANGED <<owner, performed>>
<1>1. PICK found \in BOOLEAN : Try(a, b, found, place)
  BY DEF Find, Try
<1> QED BY <1>1, TryMoves

(* A branch that ends without having fired. *)
LEMMA EndMoves ==
  ASSUME HeldInv, NEW a \in Action, NEW b \in Branch, NEW how \in Reply \ {"fired"},
         End(a, b, how), UNCHANGED owner, Unmoved
  PROVE  HeldInv' /\ UNCHANGED <<owner, performed>>
<1>1. "done" \in Place /\ ~Way(b, "done")
  BY DEF Place, Way
<1> QED BY <1>1, Moved DEF End, Unmoved

(* A claim sends the branch on its way if the token was free: then nobody else
   was. *)
LEMMA ClaimKeeps ==
  ASSUME HeldInv, NEW a \in Action, NEW b \in Firing, NEW place \in Place,
         TryClaim(a, b, place)
  PROVE  HeldInv' /\ [Delivery!Next]_(Delivery!vars)
<1>1. TypeOK /\ b \in Branch /\ ChannelOf[b] \in Channel /\ ChannelOf[b] # None
  BY ChannelNames DEF HeldInv
<1>2. CASE owner[a] # None
  <2>1. owner' = owner
    BY <1>1, <1>2 DEF TryClaim, TypeOK
  <2>2. HeldInv' /\ UNCHANGED <<owner, performed>>
    BY <1>1, <1>2, <2>1, EndMoves DEF TryClaim, Reply
  <2> QED BY <2>2 DEF Delivery!vars
<1>3. CASE owner[a] = None
  <2>1. /\ owner' = [owner EXCEPT ![a] = ChannelOf[b]]
        /\ at' = [at EXCEPT ![a][b] = place]
        /\ UNCHANGED <<performed, context, fan, phase, cycle, reply>>
    BY <1>3 DEF TryClaim, GoTo, Unmoved
  <2>2. /\ at' \in [Action -> [Branch -> Place]]
        /\ \A x \in Action, y \in Branch :
             at'[x][y] = IF x = a /\ y = b THEN place ELSE at[x][y]
    BY <1>1, <2>1 DEF TypeOK
  <2>3. /\ owner' \in [Action -> Channel \cup {None}]
        /\ \A x \in Action : owner'[x] = IF x = a THEN ChannelOf[b] ELSE owner[x]
    BY <1>1, <2>1 DEF TypeOK
  <2>4. TypeOK'
    BY <1>1, <2>1, <2>2, <2>3 DEF TypeOK
  <2>5. ASSUME NEW x \in Action PROVE Held(x)'
    <3>1. Held(x)
      BY DEF HeldInv
    <3>2. CASE x # a
      BY <3>1, <3>2, <2>1, <2>2, <2>3 DEF Held, Untouched
    <3>3. CASE x = a
      <4>1. Untouched(a)' /\ owner'[a] = ChannelOf[b]
        BY <1>3, <3>1, <3>3, <2>1, <2>3 DEF Held, Untouched
      <4>2. \A y \in Branch : y # b => ~Way(y, at'[a][y])
        <5>1. \A y \in Branch : Way(y, at[a][y]) => y \in Firing
          BY ChannelNames DEF Way
        <5> QED BY <5>1, <1>3, <3>1, <3>3, <2>2, ChannelNames DEF Held
      <4> QED BY <4>1, <4>2, <3>1, <3>3, <1>1, <2>1 DEF Held
    <3> QED BY <3>2, <3>3
  <2>6. Delivery!Own(a, ChannelOf[b])
    BY <1>1, <1>3, <2>1 DEF Delivery!Own
  <2> QED BY <1>1, <2>4, <2>5, <2>6 DEF HeldInv, Delivery!Next
<1> QED BY <1>2, <1>3

(* The channel of a branch finds the token taken, by the branch itself. *)
LEMMA FireSkips ==
  ASSUME HeldInv, NEW a \in Action, NEW b \in Firing, ChannelFire(a, b)
  PROVE  HeldInv' /\ UNCHANGED <<owner, performed>>
<1>1. TypeOK /\ Held(a) /\ b \in Branch /\ ChannelOf[b] # None
  BY ChannelNames DEF HeldInv
<1>2. owner[a] # None
  BY <1>1 DEF ChannelFire, Held, Way
<1>3. owner' = owner /\ performed' = performed
  BY <1>1, <1>2, ChannelNames DEF ChannelFire, TypeOK
<1>4. End(a, b, "skipped") /\ Unmoved
  BY <1>2, <1>3 DEF ChannelFire, Unmoved
<1> QED BY <1>1, <1>3, <1>4, EndMoves DEF Reply

(* Every step of a branch, of the orchestrator and of the caller. *)
LEMMA StepHeld ==
  HeldInv /\ [Next]_vars => HeldInv' /\ [Delivery!Next]_(Delivery!vars)
<1> SUFFICES ASSUME HeldInv, [Next]_vars
             PROVE  HeldInv' /\ [Delivery!Next]_(Delivery!vars)
  OBVIOUS
<1> DEFINE Aside == UNCHANGED <<owner, performed>>
<1>0. Aside => [Delivery!Next]_(Delivery!vars)
  BY DEF Delivery!vars
<1>s. {"walk", "resolve", "registry", "fire", "sleep", "claim"} \subseteq Place
  BY DEF Place
<1>t. TypeOK
  BY DEF HeldInv
<1>b. Firing = {"B1", "B2", "B5"} /\ Firing \subseteq Branch /\ {"B3", "B4"} \subseteq Branch
  BY ChannelNames DEF Branch
<1>1. CASE UNCHANGED vars
  BY <1>0, <1>1 DEF vars, HeldInv, TypeOK, Held, Untouched
<1>2. ASSUME NEW a \in Action, Cancel(a) PROVE HeldInv' /\ Aside
  BY <1>2, <1>t DEF Cancel, HeldInv, TypeOK, Held, Untouched
<1>3. ASSUME NEW a \in Action, EndCancelled(a) PROVE HeldInv' /\ Aside
  BY <1>3, <1>t DEF EndCancelled, HeldInv, TypeOK, Held, Untouched, Over
<1>4. ASSUME NEW a \in Action, EndCycle(a) PROVE HeldInv' /\ Aside
  <2>1. /\ \A b \in Branch : at[a][b] \in {"off", "done"}
        /\ ~ \E b \in Branch : reply[a][b] = "fired"
    BY <1>4 DEF EndCycle, BranchesDone, HeldInv, Held
  <2>2. CASE cycle[a] < MaxCycles
    <3>1. /\ phase' = phase
          /\ cycle' = [cycle EXCEPT ![a] = @ + 1]
          /\ at' = [at EXCEPT ![a] = Launched(fan[a])]
          /\ reply' = [reply EXCEPT ![a] = NoReply]
          /\ UNCHANGED <<owner, performed, context, fan>>
      BY <1>4, <1>t, <2>1, <2>2 DEF EndCycle, TypeOK
    <3>2. /\ Launched(fan[a]) \in [Branch -> Place] /\ NoReply \in [Branch -> Reply]
          /\ \A b \in Branch : ~Way(b, Launched(fan[a])[b]) /\ NoReply[b] # "fired"
      BY DEF Launched, NoReply, Place, Reply, Way
    <3>3. cycle[a] + 1 \in 1..MaxCycles
      BY <2>2, <1>t, BranchesAssumption DEF TypeOK
    <3>4. TypeOK'
      BY <3>1, <3>2, <3>3, <1>t DEF TypeOK
    <3>5. ASSUME NEW x \in Action PROVE Held(x)'
      <4>1. Held(x)
        BY DEF HeldInv
      <4>2. \A b \in Branch :
              /\ Way(b, at'[x][b]) => Way(b, at[x][b])
              /\ reply'[x][b] = "fired" => reply[x][b] = "fired"
        BY <3>1, <3>2, <1>t DEF TypeOK
      <4> QED BY <4>1, <4>2, <3>1 DEF Held, Untouched
    <3> QED BY <3>1, <3>4, <3>5 DEF HeldInv
  <2>3. CASE ~(cycle[a] < MaxCycles)
    <3>1. /\ phase' = [phase EXCEPT ![a] = "given_up"]
          /\ UNCHANGED <<owner, performed, context, fan, cycle, at, reply>>
      BY <1>4, <1>t, <2>1, <2>3 DEF EndCycle, TypeOK
    <3> QED BY <3>1, <1>t DEF HeldInv, TypeOK, Held, Untouched, Over
  <2> QED BY <2>2, <2>3
<1>5. ASSUME NEW a \in Action, B1Start(a) \/ B2Start(a) PROVE HeldInv' /\ Aside
  <2>1. context[a].pid \in BOOLEAN
    BY <1>t, BranchesAssumption DEF TypeOK, Context
  <2> QED BY <1>5, <2>1, <1>s, <1>b, TryMoves DEF B1Start, B2Start, Way
<1>6. ASSUME NEW a \in Action, B1Walk(a) \/ B2Resolve(a) \/ B1Registry(a) \/ B5Resolve(a)
      PROVE  HeldInv' /\ Aside
  BY <1>6, <1>s, <1>b, FindMoves DEF B1Walk, B2Resolve, B1Registry, B5Resolve, Way
<1>7. ASSUME NEW a \in Action, B1Claim(a) \/ B2Claim(a) \/ B5Claim(a)
      PROVE  HeldInv' /\ [Delivery!Next]_(Delivery!vars)
  BY <1>7, <1>s, <1>b, ClaimKeeps DEF B1Claim, B2Claim, B5Claim
<1>8. ASSUME NEW a \in Action, B1Fire(a) \/ B2Fire(a) \/ B5Fire(a) PROVE HeldInv' /\ Aside
  BY <1>8, <1>b, FireSkips DEF B1Fire, B2Fire, B5Fire
<1>9. ASSUME NEW a \in Action, B3Replan(a) \/ B4Replan(a) PROVE HeldInv' /\ Aside
  <2>1. PICK b \in {"B3", "B4"} : ClaimAsPlanner(a, b)
    BY <1>9 DEF B3Replan, B4Replan
  <2>2. {"raised", "failed"} \subseteq Reply \ {"fired"}
    BY DEF Reply
  <2> QED BY <2>1, <2>2, <1>b, EndMoves DEF ClaimAsPlanner
<1>10. ASSUME NEW a \in Action, B5Stagger(a) PROVE HeldInv' /\ Aside
  <2>1. Try(a, "B5", ~Cancelled(a) /\ owner[a] # None /\ context[a].pid, "resolve")
    BY <1>10 DEF B5Stagger
  <2>2. PICK known \in BOOLEAN : Try(a, "B5", known, "resolve")
    BY <2>1 DEF Try
  <2> QED BY <2>2, <1>10, <1>s, <1>b, TryMoves DEF B5Stagger, Way
<1>11. ASSUME NEW a \in Action, NEW b \in Branch, Stub(a, b) \/ Abort(a, b)
       PROVE  HeldInv' /\ Aside
  <2>1. {"aborted", "failed"} \subseteq Reply \ {"fired"}
    BY DEF Reply
  <2> QED BY <1>11, <2>1, EndMoves DEF Stub, Abort
<1> QED
  BY <1>0, <1>1, <1>2, <1>3, <1>4, <1>5, <1>6, <1>7, <1>8, <1>9, <1>10, <1>11
  DEF Next, Progress, BranchStep

LEMMA HeldAlways == Spec => []HeldInv
<1>1. HeldInv /\ [Next]_vars => HeldInv'
  BY StepHeld
<1> QED BY InitHeld, <1>1, PTL DEF Spec

-----------------------------------------------------------------------------

(* At any time one branch of an action at most is on its way to a channel; it
   holds the token, and nothing was done under the token before. *)
THEOREM BranchesHoldToken == Spec => []BranchInv
<1>1. HeldInv => BranchInv
  <2> SUFFICES ASSUME HeldInv, NEW a \in Action
               PROVE  /\ Cardinality(Acting(a)) <= 1
                      /\ \A b \in Acting(a) :
                           owner[a] = ChannelOf[b] /\ \A c \in Channel : performed[a][c] = 0
    BY DEF BranchInv, OneActs, HeldInv
  <2>1. \A b \in Acting(a) : b \in Firing /\ Way(b, at[a][b])
    BY ChannelNames DEF Acting, Way
  <2>2. \A b \in Acting(a) : owner[a] = ChannelOf[b] /\ \A c \in Channel : performed[a][c] = 0
    BY <2>1, ChannelNames DEF HeldInv, Held, Untouched
  <2>3. Cardinality(Acting(a)) <= 1
    <3>1. CASE Acting(a) = {}
      BY <3>1, FS_EmptySet
    <3>2. ASSUME NEW b \in Acting(a) PROVE Cardinality(Acting(a)) <= 1
      <4>1. Acting(a) = {b}
        BY <2>1, <2>2, ChannelNames
      <4> QED BY <4>1, FS_Singleton
    <3> QED BY <3>1, <3>2
  <2> QED BY <2>2, <2>3
<1> QED BY <1>1, HeldAlways, PTL

(* Recovery keeps the promise of the race: one owner for good, one effect. *)
THEOREM BranchesImplementDelivery == Spec => ImplementsDelivery
<1>1. HeldInv /\ [Next]_vars => [Delivery!Next]_(Delivery!vars)
  BY StepHeld
<1> QED BY <1>1, HeldAlways, PTL DEF Spec, ImplementsDelivery

(* The price of claiming twice: whatever the context and the class, no branch
   fires its channel and no attempt ends in a recovery. *)
THEOREM NoBranchFires ==
  Spec => [](\A a \in Action : phase[a] # "recovered" /\
                               \A b \in Branch : reply[a][b] # "fired")
<1>1. HeldInv => \A a \in Action : phase[a] # "recovered" /\
                                   \A b \in Branch : reply[a][b] # "fired"
  BY DEF HeldInv, Held
<1> QED BY <1>1, HeldAlways, PTL
=============================================================================
