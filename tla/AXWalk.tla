------------------------------- MODULE AXWalk -------------------------------
(***************************************************************************)
(* Bounded walks of an application's accessibility tree: walk_subtree      *)
(* (basicctrl/ax/walker.py), which the medium verifier uses, and T1's own  *)
(* _walk_with_refs (basicctrl/translators/t1_ax.py), both breadth first,   *)
(* both paying a token bucket (basicctrl/ax/rate_limit.py) for each node   *)
(* and for each list of children they read.                                *)
(*                                                                         *)
(* A read runs in a thread, so the tree may change between two steps of a  *)
(* walk, and several walks take tokens of one bucket.  A step pops or      *)
(* expands one node.  The attributes of a node are its name; the seven or  *)
(* more calls that read them cost one token and are one step.              *)
(***************************************************************************)
EXTENDS Naturals, Sequences, FiniteSets

CONSTANTS
  Call,      \* the calls that walk
  Node,      \* elements of the tree
  Root,      \* the window a walk starts from
  Shapes,    \* the trees there may be: children in order, per node
  Cap,       \* the caps of each kind of walk: depth, children, nodes
  Capacity,  \* the capacity of each bucket
  Rate,      \* tokens a bucket gains per tick
  MaxTime,   \* bound on the clock
  Null

Kind == {"T1", "L2"}
Item == [node : Node, depth : Nat]
Bucket == {"T1", "L2", "validate"}

Elements(s) == {s[i] : i \in DOMAIN s}

(* A shape is a tree: the root is nobody's child, an element is a child once,
   and whoever has children hangs together with the root. *)
IsTree(t) ==
  /\ \A m \in Node : Root \notin Elements(t[m])
  /\ \A m, n \in Node : \A i \in DOMAIN t[m], j \in DOMAIN t[n] :
       t[m][i] = t[n][j] => m = n /\ i = j
  /\ \A S \in SUBSET Node :
       Root \in S /\ (\A m \in S : Elements(t[m]) \subseteq S)
         => \A m \in Node : Elements(t[m]) \subseteq S

ASSUME TreeAssumption ==
  /\ Root \in Node
  /\ Shapes # {} /\ Shapes \subseteq [Node -> Seq(Node)]
  /\ \A t \in Shapes : IsTree(t)

ASSUME CapAssumption ==
  /\ Cap \in [Kind -> [depth : Nat, children : Nat, nodes : Nat \ {0}]]
  /\ Capacity \in [Bucket -> Nat \ {0}] /\ Rate \in Nat /\ MaxTime \in Nat
  /\ Null \notin Node /\ Null \notin Item

VARIABLES
  kids,     \* the tree
  walk,     \* the walk of each call, Null when it walks nothing
  tokens,   \* what is left in each bucket
  granted,  \* history: tokens each bucket granted in this tick and the last
  now       \* the clock

walkVars == <<kids, walk, tokens, granted, now>>

Prefix(s, n) == SubSeq(s, 1, IF Len(s) < n THEN Len(s) ELSE n)

Alive(n) == n = Root \/ \E m \in Node : n \in Elements(kids[m])

(***************************************************************************)
(* A walk: what is still to be read, the node whose children are to be     *)
(* read next, and what was read.  truncated is the flag that walk_subtree  *)
(* returns; T1 keeps none.  limited, failed and moved record that a read   *)
(* was refused a token, that one failed, and that the tree changed.        *)
(***************************************************************************)
NewWalk(k) ==
  [kind |-> k, queue |-> <<[node |-> Root, depth |-> 0]>>, at |-> Null,
   out |-> <<>>, truncated |-> FALSE, limited |-> FALSE, failed |-> FALSE,
   moved |-> FALSE]

Done(w) == w.at = Null /\ (w.queue = <<>> \/ Len(w.out) >= Cap[w.kind].nodes)

(* The cap on nodes fires with work left in the queue. *)
Truncated(w) == w.truncated \/ w.queue # <<>>

(* Variant of Refilled: every tick starts a new allowance. *)
RefilledFully(b) == Capacity[b]

(* One tick's refill. *)
Refilled(b) ==
  IF tokens[b] + Rate > Capacity[b] THEN Capacity[b] ELSE tokens[b] + Rate

(* acquire: a token, or False at once; nobody waits for one. *)
Acquire(b) ==
  /\ tokens[b] > 0
  /\ tokens' = [tokens EXCEPT ![b] = @ - 1]
  /\ granted' = [granted EXCEPT ![b].here = @ + 1]

Refuse(b) == tokens[b] = 0 /\ UNCHANGED <<tokens, granted>>

(* The next node's attributes.  An accessibility error ends the read in the
   medium walk; one in each walk is enough to tell. *)
ReadNode(c) ==
  /\ walk[c] # Null /\ walk[c].at = Null /\ ~Done(walk[c])
  /\ LET w == walk[c]
         item == Head(w.queue)
         popped == [w EXCEPT !.queue = Tail(@)]
         read == [popped EXCEPT
                    !.out = Append(@, [node |-> item.node, alive |-> Alive(item.node)])]
     IN  \/ /\ Refuse(w.kind)
            /\ walk' = [walk EXCEPT ![c] = [popped EXCEPT !.limited = TRUE]]
         \/ /\ Acquire(w.kind)
            /\ walk' = [walk EXCEPT ![c] =
                 IF item.depth + 1 <= Cap[w.kind].depth
                 THEN [read EXCEPT !.at = item]
                 ELSE [read EXCEPT !.truncated = TRUE]]
         \/ /\ w.kind = "L2" /\ ~w.failed
            /\ Acquire(w.kind)
            /\ walk' = [walk EXCEPT ![c] = [popped EXCEPT !.failed = TRUE]]
  /\ UNCHANGED <<kids, now>>

(* The children of w.at are queued, up to the cap. *)
Expanded(w) ==
  LET all == kids[w.at.node]
      first == Prefix(all, Cap[w.kind].children)
  IN  [w EXCEPT !.at = Null,
                !.queue = @ \o [i \in DOMAIN first |->
                                  [node |-> first[i], depth |-> w.at.depth + 1]],
                !.truncated = @ \/ Len(all) > Cap[w.kind].children]

(* The children of the node just read. *)
ReadKids(c) ==
  /\ walk[c] # Null /\ walk[c].at # Null
  /\ LET w == walk[c]
     IN  \/ /\ Refuse(w.kind)
            /\ walk' = [walk EXCEPT ![c].at = Null, ![c].limited = TRUE]
         \/ /\ Acquire(w.kind)
            /\ walk' = [walk EXCEPT ![c] = Expanded(w)]
         \/ /\ w.kind = "L2" /\ ~w.failed
            /\ Acquire(w.kind)
            /\ walk' = [walk EXCEPT ![c].at = Null, ![c].failed = TRUE]
  /\ UNCHANGED <<kids, now>>

(* Time passes: every bucket is refilled, up to its capacity.  Time in which
   no bucket gains anything is not counted. *)
Tick ==
  /\ now < MaxTime /\ \E b \in Bucket : Refilled(b) # tokens[b]
  /\ now' = now + 1
  /\ tokens' = [b \in Bucket |-> Refilled(b)]
  /\ granted' = [b \in Bucket |-> [last |-> granted[b].here, here |-> 0]]
  /\ UNCHANGED <<kids, walk>>

(* Walks under way see another tree from here on. *)
Reshape(shape) ==
  /\ kids' = shape
  /\ walk' = [c \in Call |->
                IF walk[c] = Null \/ shape = kids THEN walk[c]
                ELSE [walk[c] EXCEPT !.moved = TRUE]]

WalkInit ==
  /\ kids \in Shapes
  /\ walk = [c \in Call |-> Null]
  /\ tokens = Capacity
  /\ granted = [b \in Bucket |-> [last |-> 0, here |-> 0]]
  /\ now = 0

-----------------------------------------------------------------------------

(***************************************************************************)
(* A walk that was neither cut by a cap, nor refused a token, nor failed,  *)
(* over a tree that stood still, has read every element of the tree, each  *)
(* once.  The callers are told of the caps only, by the flag: a walk that  *)
(* was refused a token or whose read failed looks like a whole one.        *)
(***************************************************************************)
WholeTreeOrReason ==
  \A c \in Call :
    LET w == walk[c]
    IN  w # Null /\ Done(w) /\ ~Truncated(w) /\ ~w.limited /\ ~w.failed /\ ~w.moved
          => /\ {w.out[i].node : i \in DOMAIN w.out} = {n \in Node : Alive(n)}
             /\ Len(w.out) = Cardinality({n \in Node : Alive(n)})

(***************************************************************************)
(* However the walks and probes of several calls interleave, a bucket      *)
(* grants at most its capacity and one refill within two ticks: the bound  *)
(* that rate_limit.py's 20 per second really amounts to.                   *)
(***************************************************************************)
RateHeld ==
  \A b \in Bucket : granted[b].last + granted[b].here <= Capacity[b] + Rate

(* A walk that nothing cut short is whole, and paid for what it read. *)
WalkInv == WholeTreeOrReason /\ RateHeld
=============================================================================
