---------------------------- MODULE DaemonProofs ----------------------------
(***************************************************************************)
(* Proofs about the two daemons that talk to browsers.                     *)
(*                                                                         *)
(* CDPSession, for any actions, pages and times: types, one daemon in use, *)
(* and a click that fired has both its halves on the page it was measured  *)
(* on, or that page closed between them.  The argument follows a session   *)
(* that an action lost.  Its page is closed and stays so, and its daemon   *)
(* has gone on to a later session: whoever calls on the old one from then  *)
(* on is refused.  A position measured on another page comes with a        *)
(* session that is gone in this sense, so that its click may be pressed    *)
(* there, but is never released.                                           *)
(*                                                                         *)
(* BrowserDaemon, for any calls, processes and restarts of the browser:    *)
(* failures have a cause, and one daemon answers unless starts overlapped. *)
(***************************************************************************)
EXTENDS CDPSession, BrowserDaemon, TLAPS

Pages == [Page -> {"unborn", "open", "closed"}]

(* Sessions ss, daemons ds and pages pg refer to one another. *)
World(ss, ds, pg) ==
  /\ ss \in Seq(Session) /\ ds \in Seq(Daemon) /\ pg \in Pages
  /\ \A s \in 1..Len(ss) : ss[s].d \in 1..Len(ds) /\ pg[ss[s].page] # "unborn"
  /\ \A d \in 1..Len(ds) :
       /\ ds[d].sess \in 0..Len(ss)
       /\ ds[d].sess # 0 => ss[ds[d].sess].d = d
       /\ ds[d].shut <=> ds[d].sock = "closed"

(* What no step undoes: who a session is of and on which page, that a      *)
(* daemon's session is its latest, that a socket or a page is closed.      *)
Later(ss, ds, pg, ss2, ds2, pg2) ==
  /\ Len(ss) <= Len(ss2) /\ Len(ds) <= Len(ds2)
  /\ \A s \in 1..Len(ss) : ss2[s].page = ss[s].page /\ ss2[s].d = ss[s].d
  /\ \A d \in 1..Len(ds) :
       /\ ds2[d].sess = ds[d].sess \/ ds2[d].sess > Len(ss)
       /\ ds2[d].sock = "open" => ds[d].sock = "open"
  /\ \A p \in Page : pg[p] = "closed" => pg2[p] = "closed"

(* The page of session s is closed. *)
Away(s, ss, pg) == pg[ss[s].page] = "closed"

(* It is, and the daemon has another session by now. *)
Lapsed(s, ss, ds, pg) == Away(s, ss, pg) /\ ds[ss[s].d].sess # s

Clicks(r) == r.pc \in {"resolved", "press", "release"} \/ (r.pc = "connect" /\ r.fires)

(* The stages of a connection, and of a call that lost its session. *)
Anew == {"look", "attach", "enable", "retry"}

(* The state r of an action by itself: its place and its stage. *)
Placed(r) ==
  /\ r \in ActionState
  /\ r.d = 0 <=> r.pc \in {"open", "resolved", "done"}
  /\ r.pc \notin Call \cup {"connect"} => r.stage = "send"
  /\ r.pc = "connect" => r.stage \in Anew
  /\ r.stage = "attach" \/ r.pc \in {"reattach", "enable"} => r.pick \in Page
  /\ r.pc = "open" => ~r.fires
  /\ r.status = "fired" => r.pc = "done" /\ r.pressed = r.at
  /\ r.status = "fired" \/ Clicks(r) => r.at \in Page
  /\ r.pc \in Call \/ Clicks(r) => r.sid # 0

(* What the action knows of its daemon and its session is so. *)
Knows(r, ss, ds, pg) ==
  /\ r.d \in 0..Len(ds) /\ r.sid \in 0..Len(ss)
  /\ r.d # 0 => ds[r.d].sess # 0 \/ (r.pc = "connect" /\ r.stage \in {"look", "attach"})
  /\ r.pc \in {"document", "query", "box"} => ss[r.sid].d = r.d
  /\ r.pc \in Call /\ r.stage = "lost" /\ ss[r.sid].d = r.d => Away(r.sid, ss, pg)
  /\ r.pc \in Call /\ r.stage \in {"look", "attach"} =>
       ss[r.sid].d = r.d /\ Away(r.sid, ss, pg)
  /\ r.pc \in Call /\ r.stage \in {"enable", "retry"} => Lapsed(r.sid, ss, ds, pg)

(* The position measured, and the mouse button pressed, are on the page of *)
(* the session, or this session is gone.  A click that fired was released  *)
(* where it was measured, or the page is closed.                           *)
OnPage(r, ss, ds, pg) ==
  /\ Clicks(r) => ss[r.sid].page = r.at \/ Lapsed(r.sid, ss, ds, pg)
  /\ r.pc = "release" =>
       \/ r.pressed = r.at /\ ss[r.sid].page = r.at
       \/ r.stage \in {"send", "lost"} /\ Lapsed(r.sid, ss, ds, pg)
  /\ r.status = "fired" => r.released = r.at \/ pg[r.at] = "closed"

Fits(r, ss, ds, pg) == Placed(r) /\ Knows(r, ss, ds, pg) /\ OnPage(r, ss, ds, pg)

(* Who holds the lock lk is connecting; nobody else uses an open daemon    *)
(* but the one in the cache ca, and nobody at all while someone connects.  *)
OneOpen(ac, lk, ca, ds) ==
  /\ lk \in Action \cup {None}
  /\ ca \in 0..Len(ds)
  /\ ca # 0 => ds[ca].sess # 0
  /\ \A a \in Action : ac[a].pc = "connect" <=> lk = a
  /\ \A a \in Action :
       ac[a].pc # "connect" /\ ac[a].d # 0 /\ ds[ac[a].d].sock = "open" => ac[a].d = ca
  /\ lk # None /\ ca # 0 => ds[ca].sock = "closed"

Clocked == now \in Nat /\ filtered \in BOOLEAN

SessionIInv ==
  /\ Clocked
  /\ World(sessions, daemons, page)
  /\ act \in [Action -> ActionState]
  /\ \A a \in Action : Fits(act[a], sessions, daemons, page)
  /\ OneOpen(act, lock, cache, daemons)

-----------------------------------------------------------------------------
(* What steps do to the world. *)

LEMMA SeqExcept ==
  ASSUME NEW S, NEW q \in Seq(S), NEW i \in 1..Len(q), NEW e \in S
  PROVE  /\ [q EXCEPT ![i] = e] \in Seq(S)
         /\ Len([q EXCEPT ![i] = e]) = Len(q)
         /\ [q EXCEPT ![i] = e][i] = e
         /\ \A j \in 1..Len(q) : j # i => [q EXCEPT ![i] = e][j] = q[j]
OBVIOUS

LEMMA DaemonFields ==
  ASSUME NEW e \in Daemon, NEW n \in Nat
  PROVE  /\ [e EXCEPT !.sess = n] \in Daemon
         /\ [e EXCEPT !.sess = n].sess = n
         /\ [e EXCEPT !.sess = n].sock = e.sock
         /\ [e EXCEPT !.sess = n].shut = e.shut
         /\ [e EXCEPT !.sock = "closed", !.shut = TRUE] \in Daemon
         /\ [e EXCEPT !.sock = "closed", !.shut = TRUE].sess = e.sess
         /\ [e EXCEPT !.sock = "closed", !.shut = TRUE].sock = "closed"
         /\ [e EXCEPT !.sock = "closed", !.shut = TRUE].shut = TRUE
BY DEF Daemon

LEMMA WorldTypes ==
  ASSUME NEW ss, NEW ds, NEW pg, World(ss, ds, pg)
  PROVE  /\ ss \in Seq(Session) /\ ds \in Seq(Daemon)
         /\ Len(ss) \in Nat /\ Len(ds) \in Nat
         /\ \A s \in 1..Len(ss) : ss[s] \in Session /\ ss[s].page \in Page
         /\ \A d \in 1..Len(ds) : ds[d] \in Daemon /\ ds[d].sess \in Nat
<1>1. ss \in Seq(Session) /\ ds \in Seq(Daemon)
  BY DEF World
<1>2. /\ \A s \in 1..Len(ss) : ss[s] \in Session
      /\ \A d \in 1..Len(ds) : ds[d] \in Daemon
  BY <1>1
<1>3. \A e \in Session : e.page \in Page
  BY DEF Session
<1>4. \A e \in Daemon : e.sess \in Nat
  BY DEF Daemon
<1>. QED BY <1>1, <1>2, <1>3, <1>4

LEMMA LaterSame ==
  ASSUME NEW ss, NEW ds, NEW pg, World(ss, ds, pg)
  PROVE  Later(ss, ds, pg, ss, ds, pg)
BY DEF Later, World

(* Other fields of daemons and sessions change. *)
LEMMA FieldsChange ==
  ASSUME NEW ss, NEW ds, NEW pg, World(ss, ds, pg),
         NEW ss2 \in Seq(Session), NEW ds2 \in Seq(Daemon),
         Len(ss2) = Len(ss), Len(ds2) = Len(ds),
         \A s \in 1..Len(ss) : ss2[s].page = ss[s].page /\ ss2[s].d = ss[s].d,
         \A d \in 1..Len(ds) : ds2[d].sess = ds[d].sess /\ ds2[d].sock = ds[d].sock
                                /\ ds2[d].shut = ds[d].shut
  PROVE  World(ss2, ds2, pg) /\ Later(ss, ds, pg, ss2, ds2, pg)
<1>1. /\ \A s \in 1..Len(ss) : ss[s].d \in 1..Len(ds) /\ pg[ss[s].page] # "unborn"
      /\ \A d \in 1..Len(ds) :
           /\ ds[d].sess \in 0..Len(ss)
           /\ ds[d].sess # 0 => ss[ds[d].sess].d = d
           /\ ds[d].shut <=> ds[d].sock = "closed"
      /\ pg \in Pages
  BY DEF World
<1>2. \A s \in 1..Len(ss2) : ss2[s].d \in 1..Len(ds2) /\ pg[ss2[s].page] # "unborn"
  BY <1>1
<1>3. \A d \in 1..Len(ds2) : ds2[d].sess \in 0..Len(ss2)
  BY <1>1
<1>4. \A d \in 1..Len(ds2) : ds2[d].sess # 0 => ss2[ds2[d].sess].d = d
  <2>1. ASSUME NEW d \in 1..Len(ds2), ds2[d].sess # 0 PROVE ss2[ds2[d].sess].d = d
    <3>1. ds2[d].sess = ds[d].sess /\ ds[d].sess \in 1..Len(ss)
      BY <1>1, <2>1, WorldTypes
    <3>. QED BY <1>1, <2>1, <3>1
  <2>. QED BY <2>1
<1>5. \A d \in 1..Len(ds2) : ds2[d].shut <=> ds2[d].sock = "closed"
  BY <1>1
<1>6. Later(ss, ds, pg, ss2, ds2, pg)
  BY WorldTypes DEF Later
<1>. QED BY <1>1, <1>2, <1>3, <1>4, <1>5, <1>6 DEF World

LEMMA Touched ==
  ASSUME NEW ss, NEW ds, NEW pg, World(ss, ds, pg),
         NEW d \in 1..Len(ds), NEW ds2, NEW t,
         \/ ds2 = [ds EXCEPT ![d].last = t] /\ t \in Nat
         \/ ds2 = [ds EXCEPT ![d].at = t] /\ t \in Page \cup {None}
  PROVE  World(ss, ds2, pg) /\ Later(ss, ds, pg, ss, ds2, pg)
<1>1. PICK e \in Daemon :
        /\ ds2 = [ds EXCEPT ![d] = e]
        /\ e.sess = ds[d].sess /\ e.sock = ds[d].sock /\ e.shut = ds[d].shut
  <2>1. ds[d] \in Daemon
    BY WorldTypes
  <2>2. CASE ds2 = [ds EXCEPT ![d].last = t] /\ t \in Nat
    <3>1. [ds[d] EXCEPT !.last = t] \in Daemon
      BY <2>1, <2>2 DEF Daemon
    <3>. QED BY <2>1, <2>2, <3>1 DEF Daemon
  <2>3. CASE ds2 = [ds EXCEPT ![d].at = t] /\ t \in Page \cup {None}
    <3>1. [ds[d] EXCEPT !.at = t] \in Daemon
      BY <2>1, <2>3 DEF Daemon
    <3>. QED BY <2>1, <2>3, <3>1 DEF Daemon
  <2>. QED BY <2>2, <2>3
<1>2. ds2 \in Seq(Daemon) /\ Len(ds2) = Len(ds)
  BY <1>1, WorldTypes
<1>3. \A f \in 1..Len(ds) : ds2[f].sess = ds[f].sess /\ ds2[f].sock = ds[f].sock
                             /\ ds2[f].shut = ds[f].shut
  BY <1>1, WorldTypes
<1>. QED BY <1>2, <1>3, WorldTypes, FieldsChange

LEMMA Documented ==
  ASSUME NEW ss, NEW ds, NEW pg, World(ss, ds, pg),
         NEW s \in 1..Len(ss), NEW v \in BOOLEAN, NEW ss2, ss2 = [ss EXCEPT ![s].doc = v]
  PROVE  World(ss2, ds, pg) /\ Later(ss, ds, pg, ss2, ds, pg)
<1>1. /\ [ss[s] EXCEPT !.doc = v] \in Session
      /\ [ss[s] EXCEPT !.doc = v].page = ss[s].page
      /\ [ss[s] EXCEPT !.doc = v].d = ss[s].d
  <2>1. ss[s] \in Session
    BY WorldTypes
  <2>. QED BY <2>1 DEF Session
<1>2. ss2 \in Seq(Session) /\ Len(ss2) = Len(ss)
  BY <1>1, WorldTypes
<1>3. \A e \in 1..Len(ss) : ss2[e].page = ss[e].page /\ ss2[e].d = ss[e].d
  BY <1>1, WorldTypes
<1>. QED BY <1>2, <1>3, WorldTypes, FieldsChange

LEMMA Attached ==
  ASSUME World(sessions, daemons, page), UNCHANGED page,
         NEW d \in 1..Len(daemons), NEW new \in Session, page[new.page] = "open", new.d = d,
          NEW e2 \in Daemon, e2.sess = Len(sessions) + 1, e2.sock = daemons[d].sock,
          e2.shut = daemons[d].shut,
         sessions' = Append(sessions, new), daemons' = [daemons EXCEPT ![d] = e2]
   PROVE  /\ World(sessions', daemons', page)
          /\ Later(sessions, daemons, page, sessions', daemons', page)
         /\ daemons'[d].sess = Len(sessions) + 1
<1>1. sessions \in Seq(Session) /\ Len(sessions) \in Nat /\ daemons \in Seq(Daemon)
  BY WorldTypes
<1>2. /\ sessions' \in Seq(Session) /\ Len(sessions') = Len(sessions) + 1
      /\ \A s \in 1..Len(sessions) : sessions'[s] = sessions[s]
      /\ sessions'[Len(sessions) + 1] = new
  BY <1>1
<1>3. /\ daemons' \in Seq(Daemon) /\ Len(daemons') = Len(daemons)
      /\ daemons'[d].sess = Len(sessions) + 1
      /\ \A e \in 1..Len(daemons) :
           daemons'[e].sock = daemons[e].sock /\ daemons'[e].shut = daemons[e].shut
      /\ \A e \in 1..Len(daemons) : e # d => daemons'[e].sess = daemons[e].sess
  BY <1>1
<1>4. \A s \in 1..Len(sessions') :
        sessions'[s].d \in 1..Len(daemons') /\ page[sessions'[s].page] # "unborn"
  <2>1. ASSUME NEW s \in 1..Len(sessions')
        PROVE  sessions'[s].d \in 1..Len(daemons') /\ page[sessions'[s].page] # "unborn"
    <3>1. CASE s = Len(sessions) + 1
      BY <1>2, <1>3, <3>1
    <3>2. CASE s \in 1..Len(sessions)
      BY <1>2, <1>3, <3>2 DEF World
    <3>. QED BY <1>1, <1>2, <3>1, <3>2
  <2>. QED BY <2>1
<1>5. \A e \in 1..Len(daemons') :
        /\ daemons'[e].sess \in 0..Len(sessions')
        /\ daemons'[e].sess # 0 => sessions'[daemons'[e].sess].d = e
        /\ daemons'[e].shut <=> daemons'[e].sock = "closed"
  <2>1. ASSUME NEW e \in 1..Len(daemons)
        PROVE  /\ daemons'[e].sess \in 0..Len(sessions')
               /\ daemons'[e].sess # 0 => sessions'[daemons'[e].sess].d = e
    <3>1. CASE e = d
      BY <1>1, <1>2, <1>3, <3>1
    <3>2. CASE e # d
      BY <1>1, <1>2, <1>3, <3>2 DEF World
    <3>. QED BY <3>1, <3>2
  <2>. QED BY <1>3, <2>1 DEF World
<1>6. World(sessions', daemons', page)
  BY <1>2, <1>3, <1>4, <1>5 DEF World
<1>7. Later(sessions, daemons, page, sessions', daemons', page)
  BY <1>1, <1>2, <1>3 DEF Later
<1>. QED BY <1>3, <1>6, <1>7

(* A daemon that is not attached yet. *)
LEMMA DaemonMade ==
  ASSUME NEW ss, NEW ds, NEW pg, World(ss, ds, pg), NEW t \in Nat, NEW ds2,
         ds2 = Append(ds, [sess |-> 0, at |-> None, last |-> t,
                           sock |-> "open", shut |-> FALSE])
  PROVE  World(ss, ds2, pg) /\ Later(ss, ds, pg, ss, ds2, pg)
<1>. DEFINE new == [sess |-> 0, at |-> None, last |-> t, sock |-> "open", shut |-> FALSE]
<1>1. new \in Daemon /\ ds \in Seq(Daemon) /\ ss \in Seq(Session)
  <2>1. new \in Daemon
    BY DEF Daemon
  <2>. QED BY <2>1, WorldTypes
<1>2. /\ ds2 \in Seq(Daemon) /\ Len(ds2) = Len(ds) + 1
      /\ \A d \in 1..Len(ds) : ds2[d] = ds[d]
      /\ ds2[Len(ds) + 1] = new
  BY <1>1
<1>3. \A d \in 1..Len(ds2) : d \in 1..Len(ds) \/ d = Len(ds) + 1
  BY <1>1, <1>2
<1>4. World(ss, ds2, pg)
  BY <1>1, <1>2, <1>3 DEF World
<1>5. Later(ss, ds, pg, ss, ds2, pg)
  BY <1>1, <1>2 DEF Later
<1>. QED BY <1>4, <1>5

LEMMA DaemonShut ==
  ASSUME NEW ss, NEW ds, NEW pg, World(ss, ds, pg), NEW d \in 1..Len(ds), NEW ds2,
         ds2 = [ds EXCEPT ![d].sock = "closed", ![d].shut = TRUE]
  PROVE  World(ss, ds2, pg) /\ Later(ss, ds, pg, ss, ds2, pg)
<1>. DEFINE e == [ds[d] EXCEPT !.sock = "closed", !.shut = TRUE]
<1>1. /\ e \in Daemon
      /\ e.sess = ds[d].sess /\ e.sock = "closed" /\ e.shut = TRUE
  <2>1. ds[d] \in Daemon
    BY WorldTypes
  <2>. QED BY <2>1, DaemonFields
<1>2. ds2 = [ds EXCEPT ![d] = e]
  BY WorldTypes
<1>. HIDE DEF e
<1>3. /\ ds2 \in Seq(Daemon) /\ Len(ds2) = Len(ds)
      /\ ds2[d] = e /\ \A f \in 1..Len(ds) : f # d => ds2[f] = ds[f]
  <2>1. ds \in Seq(Daemon) /\ e \in Daemon
    BY <1>1, WorldTypes
  <2>2. /\ [ds EXCEPT ![d] = e] \in Seq(Daemon) /\ Len([ds EXCEPT ![d] = e]) = Len(ds)
        /\ [ds EXCEPT ![d] = e][d] = e
        /\ \A f \in 1..Len(ds) : f # d => [ds EXCEPT ![d] = e][f] = ds[f]
    BY <2>1, SeqExcept
  <2>. QED BY <1>2, <2>2, Zenon
<1>4. World(ss, ds2, pg)
  BY <1>1, <1>3 DEF World
<1>5. Later(ss, ds, pg, ss, ds2, pg)
  BY <1>1, <1>3, WorldTypes DEF Later
<1>. QED BY <1>4, <1>5

LEMMA PageTurned ==
  ASSUME NEW ss, NEW ds, NEW pg, World(ss, ds, pg), NEW p \in Page, NEW pg2,
         \/ pg2 = [pg EXCEPT ![p] = "open"] /\ pg[p] # "closed"
         \/ pg2 = [pg EXCEPT ![p] = "closed"]
  PROVE  World(ss, ds, pg2) /\ Later(ss, ds, pg, ss, ds, pg2)
<1>1. pg2 \in Pages /\ \A q \in Page : pg[q] # "unborn" => pg2[q] # "unborn"
  BY DEF World, Pages
<1>2. \A s \in 1..Len(ss) : ss[s].page \in Page
  BY WorldTypes
<1>3. World(ss, ds, pg2)
  BY <1>1, <1>2 DEF World
<1>4. Later(ss, ds, pg, ss, ds, pg2)
  BY DEF World, Later, Pages
<1>. QED BY <1>3, <1>4

-----------------------------------------------------------------------------
(* Nothing of this takes back what an action knows. *)

LEMMA GoneForGood ==
  ASSUME NEW ss, NEW ds, NEW pg, NEW ss2, NEW ds2, NEW pg2,
         World(ss, ds, pg), Later(ss, ds, pg, ss2, ds2, pg2), NEW s \in 1..Len(ss)
  PROVE  /\ Away(s, ss, pg) => Away(s, ss2, pg2)
         /\ Lapsed(s, ss, ds, pg) => Lapsed(s, ss2, ds2, pg2)
<1>1. ss[s].page \in Page /\ ss[s].d \in 1..Len(ds) /\ Len(ss) \in Nat
  BY WorldTypes DEF World
<1>2. ss2[s].page = ss[s].page /\ ss2[s].d = ss[s].d
  BY DEF Later
<1>3. Away(s, ss, pg) => Away(s, ss2, pg2)
  BY <1>1, <1>2 DEF Away, Later
<1>4. ds[ss[s].d].sess # s => ds2[ss[s].d].sess # s
  BY <1>1 DEF Later
<1>. QED BY <1>2, <1>3, <1>4 DEF Lapsed

LEMMA FitsLater ==
  ASSUME NEW ss, NEW ds, NEW pg, NEW ss2, NEW ds2, NEW pg2,
         World(ss, ds, pg), World(ss2, ds2, pg2), Later(ss, ds, pg, ss2, ds2, pg2),
         NEW r, Fits(r, ss, ds, pg)
  PROVE  Fits(r, ss2, ds2, pg2)
<1>1. /\ Len(ss) \in Nat /\ Len(ds) \in Nat /\ Len(ss2) \in Nat /\ Len(ds2) \in Nat
      /\ r.d \in 0..Len(ds) /\ r.sid \in 0..Len(ss) /\ Placed(r)
  BY DEF World, Fits, Knows
<1>2. r.d \in 0..Len(ds2) /\ r.sid \in 0..Len(ss2)
  BY <1>1 DEF Later
<1>3. r.d # 0 /\ ds[r.d].sess # 0 => ds2[r.d].sess # 0
  BY <1>1 DEF Later
<1>4. r.sid # 0 =>
        /\ ss2[r.sid].page = ss[r.sid].page /\ ss2[r.sid].d = ss[r.sid].d
        /\ Away(r.sid, ss, pg) => Away(r.sid, ss2, pg2)
        /\ Lapsed(r.sid, ss, ds, pg) => Lapsed(r.sid, ss2, ds2, pg2)
  <2>. SUFFICES ASSUME r.sid \in 1..Len(ss)
                PROVE  /\ ss2[r.sid].page = ss[r.sid].page /\ ss2[r.sid].d = ss[r.sid].d
                       /\ Away(r.sid, ss, pg) => Away(r.sid, ss2, pg2)
                       /\ Lapsed(r.sid, ss, ds, pg) => Lapsed(r.sid, ss2, ds2, pg2)
    BY <1>1
  <2>1. ss2[r.sid].page = ss[r.sid].page /\ ss2[r.sid].d = ss[r.sid].d
    BY DEF Later
  <2>. QED BY <2>1, GoneForGood
<1>5. r.pc \in Call \/ Clicks(r) => r.sid # 0
  BY <1>1 DEF Placed, Clicks
<1>6. Knows(r, ss2, ds2, pg2)
  BY <1>2, <1>3, <1>4, <1>5 DEF Fits, Knows, Call
<1>7. OnPage(r, ss2, ds2, pg2)
  <2>1. OnPage(r, ss, ds, pg)
    BY DEF Fits
  <2>2. r.status = "fired" => r.released = r.at \/ pg2[r.at] = "closed"
    BY <1>1, <2>1 DEF OnPage, Placed, Later
  <2>. QED BY <1>4, <1>5, <2>1, <2>2 DEF OnPage, Call
<1>. QED BY <1>1, <1>6, <1>7 DEF Fits

LEMMA LaterThen ==
  ASSUME NEW ss, NEW ds, NEW pg, NEW ss2, NEW ds2, NEW pg2, NEW ss3, NEW ds3, NEW pg3,
         World(ss, ds, pg), World(ss2, ds2, pg2), World(ss3, ds3, pg3),
         Later(ss, ds, pg, ss2, ds2, pg2), Later(ss2, ds2, pg2, ss3, ds3, pg3)
  PROVE  Later(ss, ds, pg, ss3, ds3, pg3)
<1>1. /\ Len(ss) \in Nat /\ Len(ds) \in Nat /\ Len(ss2) \in Nat /\ Len(ds2) \in Nat
      /\ Len(ss3) \in Nat /\ Len(ds3) \in Nat
  BY WorldTypes
<1>2. Len(ss) <= Len(ss3) /\ Len(ds) <= Len(ds3)
  BY <1>1 DEF Later
<1>3. \A s \in 1..Len(ss) : ss3[s].page = ss[s].page /\ ss3[s].d = ss[s].d
  BY <1>1 DEF Later
<1>4. ASSUME NEW d \in 1..Len(ds)
      PROVE  /\ ds3[d].sess = ds[d].sess \/ ds3[d].sess > Len(ss)
             /\ ds3[d].sock = "open" => ds[d].sock = "open"
  <2>1. d \in 1..Len(ds2) /\ d \in 1..Len(ds3) /\ ds3[d].sess \in Nat /\ ds2[d].sess \in Nat
    BY <1>1, WorldTypes DEF Later
  <2>. QED BY <1>1, <2>1 DEF Later
<1>5. \A p \in Page : pg[p] = "closed" => pg3[p] = "closed"
  BY DEF Later
<1>. QED BY <1>2, <1>3, <1>4, <1>5 DEF Later

-----------------------------------------------------------------------------
(* The step of one action. *)

LEMMA Facts ==
  ASSUME SessionIInv, NEW a \in Action
  PROVE  /\ World(sessions, daemons, page) /\ act[a] \in ActionState
         /\ Placed(act[a]) /\ Knows(act[a], sessions, daemons, page)
         /\ OnPage(act[a], sessions, daemons, page)
         /\ OneOpen(act, lock, cache, daemons)
         /\ now \in Nat
         /\ act[a].d # 0 => act[a].d \in 1..Len(daemons)
<1>1. Fits(act[a], sessions, daemons, page) /\ World(sessions, daemons, page)
  BY DEF SessionIInv
<1>2. act[a].d # 0 => act[a].d \in 1..Len(daemons)
  BY <1>1, WorldTypes DEF Fits, Knows
<1>. QED BY <1>1, <1>2 DEF SessionIInv, Fits, Clocked

Onward ==
  /\ World(sessions', daemons', page')
  /\ Later(sessions, daemons, page, sessions', daemons', page')

(* What an action knew it still knows. *)
LEMMA Known ==
  ASSUME SessionIInv, Onward, NEW a \in Action
  PROVE  /\ Placed(act[a]) /\ Knows(act[a], sessions', daemons', page')
         /\ OnPage(act[a], sessions', daemons', page')
<1>1. Fits(act[a], sessions, daemons, page) /\ World(sessions, daemons, page)
  BY DEF SessionIInv
<1>2. Fits(act[a], sessions', daemons', page')
  BY <1>1, FitsLater DEF Onward
<1>. QED BY <1>2 DEF Fits

LEMMA Stepped ==
  ASSUME SessionIInv, Onward, NEW a \in Action, NEW r, act' = [act EXCEPT ![a] = r],
         Fits(r, sessions', daemons', page'), Clocked',
         OneOpen(act', lock', cache', daemons')
  PROVE  SessionIInv'
<1>1. r \in ActionState
  BY DEF Fits, Placed
<1>2. act' \in [Action -> ActionState]
  BY <1>1 DEF SessionIInv
<1>3. ASSUME NEW b \in Action PROVE Fits(act'[b], sessions', daemons', page')
  <2>1. CASE b = a
    BY <2>1 DEF SessionIInv
  <2>2. CASE b # a
    <3>1. Fits(act[b], sessions', daemons', page')
      BY Known DEF Fits
    <3>. QED BY <2>2, <3>1 DEF SessionIInv
  <2>. QED BY <2>1, <2>2
<1>. QED BY <1>2, <1>3 DEF SessionIInv, Onward

(* An action that keeps its daemon, or lets go of it. *)
LEMMA KeepsDaemon ==
  ASSUME SessionIInv, Onward, NEW a \in Action, NEW r, act' = [act EXCEPT ![a] = r],
         Fits(r, sessions', daemons', page'), Clocked', UNCHANGED <<lock, cache>>,
         r.pc = "connect" <=> act[a].pc = "connect",
         r.d = act[a].d \/ r.d = 0
  PROVE  SessionIInv'
<1>1. OneOpen(act', lock', cache', daemons')
  <2>1. /\ lock' \in Action \cup {None} /\ cache' \in 0..Len(daemons')
        /\ cache' # 0 => daemons'[cache'].sess # 0
        /\ lock' # None /\ cache' # 0 => daemons'[cache'].sock = "closed"
    <3>1. /\ lock \in Action \cup {None} /\ cache \in 0..Len(daemons)
          /\ cache # 0 => daemons[cache].sess # 0
          /\ lock # None /\ cache # 0 => daemons[cache].sock = "closed"
      BY DEF SessionIInv, OneOpen
    <3>2. Len(daemons) \in Nat /\ Len(daemons') \in Nat /\ Len(sessions) \in Nat
          /\ Len(daemons) <= Len(daemons')
      BY WorldTypes DEF SessionIInv, Onward, Later
    <3>3. cache # 0 => /\ daemons'[cache].sess = daemons[cache].sess
                          \/ daemons'[cache].sess > Len(sessions)
                       /\ daemons'[cache].sock = "open" => daemons[cache].sock = "open"
                       /\ daemons'[cache] \in Daemon
      BY <3>1, <3>2, WorldTypes DEF Onward, Later
    <3>4. \A e \in Daemon : e.sock \in {"open", "closed"}
      BY DEF Daemon
    <3>. QED BY <3>1, <3>2, <3>3, <3>4
  <2>2. \A b \in Action : act'[b].pc = "connect" <=> lock' = b
    BY DEF SessionIInv, OneOpen
  <2>3. ASSUME NEW b \in Action, act'[b].pc # "connect", act'[b].d # 0,
               daemons'[act'[b].d].sock = "open"
        PROVE  act'[b].d = cache'
    <3>1. act'[b].d = act[b].d /\ act[b].pc # "connect"
      BY <2>3 DEF SessionIInv
    <3>2. act[b].d \in 1..Len(daemons)
      BY <2>3, <3>1, Facts
    <3>3. daemons[act[b].d].sock = "open"
      BY <2>3, <3>1, <3>2 DEF Onward, Later
    <3>. QED BY <2>3, <3>1, <3>3 DEF SessionIInv, OneOpen
  <2>. QED BY <2>1, <2>2, <2>3 DEF OneOpen
<1>. QED BY <1>1, Stepped

(* An action that ends holds neither a daemon nor the lock. *)
LEMMA EndedFits ==
  ASSUME NEW r, NEW q \in ActionState, NEW st \in {"errored", "no_target"},
         r = [q EXCEPT !.pc = "done", !.stage = "send", !.d = 0, !.sid = 0,
                       !.pick = None, !.status = st],
         NEW ss, NEW ds, NEW pg, World(ss, ds, pg)
  PROVE  Fits(r, ss, ds, pg) /\ r.pc = "done" /\ r.d = 0
<1>1. /\ r \in ActionState /\ r.pc = "done" /\ r.stage = "send" /\ r.d = 0 /\ r.sid = 0
      /\ r.status # "fired"
  BY DEF ActionState, Where, Stage
<1>2. Len(ss) \in Nat /\ Len(ds) \in Nat
  BY WorldTypes
<1>3. Placed(r)
  BY <1>1 DEF Placed, Call, Clicks
<1>4. Knows(r, ss, ds, pg) /\ OnPage(r, ss, ds, pg)
  BY <1>1, <1>2 DEF Knows, OnPage, Call, Clicks
<1>. QED BY <1>1, <1>3, <1>4 DEF Fits

LEMMA RaiseKeeps ==
  ASSUME SessionIInv, Onward, NEW a \in Action, Raise(a), Clocked', UNCHANGED cache
  PROVE  SessionIInv'
<1>. DEFINE r == Ended(a)
<1>1. Fits(r, sessions', daemons', page') /\ r.pc = "done" /\ r.d = 0
  BY Facts, EndedFits, ZenonT(60) DEF Ended, Onward
<1>2. act' = [act EXCEPT ![a] = r] /\ lock' = IF lock = a THEN None ELSE lock
  BY DEF Raise, Set
<1>. HIDE DEF r
<1>3. CASE lock # a
  <2>1. act[a].pc # "connect"
    BY <1>3 DEF SessionIInv, OneOpen
  <2>. QED BY <1>1, <1>2, <1>3, <2>1, KeepsDaemon
<1>4. CASE lock = a
  <2>1. OneOpen(act', lock', cache', daemons')
    <3>1. lock' = None /\ None \notin Action
      BY <1>2, <1>4, PageAssumption
    <3>2. /\ cache' \in 0..Len(daemons')
          /\ cache' # 0 => daemons'[cache'].sess # 0
      <4>1. /\ cache \in 0..Len(daemons)
            /\ cache # 0 => daemons[cache].sess # 0
        BY DEF SessionIInv, OneOpen
      <4>2. Len(daemons) \in Nat /\ Len(daemons') \in Nat /\ Len(sessions) \in Nat
            /\ Len(daemons) <= Len(daemons')
        BY WorldTypes DEF SessionIInv, Onward, Later
      <4>3. cache # 0 => daemons'[cache].sess = daemons[cache].sess
                         \/ daemons'[cache].sess > Len(sessions)
        BY <4>1, <4>2 DEF Onward, Later
      <4>. QED BY <4>1, <4>2, <4>3
    <3>3. \A b \in Action : act'[b].pc # "connect"
      BY <1>1, <1>2, <1>4 DEF SessionIInv, OneOpen
    <3>4. ASSUME NEW b \in Action, act'[b].d # 0, daemons'[act'[b].d].sock = "open"
          PROVE  act'[b].d = cache'
      <4>1. b # a /\ act'[b] = act[b] /\ act[b].pc # "connect"
        BY <1>1, <1>2, <1>4, <3>4 DEF SessionIInv, OneOpen
      <4>2. act[b].d \in 1..Len(daemons)
        BY <3>4, <4>1, Facts
      <4>3. daemons[act[b].d].sock = "open"
        BY <3>4, <4>1, <4>2 DEF Onward, Later
      <4>. QED BY <3>4, <4>1, <4>3 DEF SessionIInv, OneOpen
    <3>. QED BY <3>1, <3>2, <3>3, <3>4 DEF OneOpen
  <2>. QED BY <1>1, <1>2, <2>1, Stepped
<1>. QED BY <1>3, <1>4

LEMMA OnwardSame == ASSUME SessionIInv, UNCHANGED <<sessions, daemons, page>> PROVE Onward
BY LaterSame DEF SessionIInv, Onward

LEMMA ClockSame == ASSUME SessionIInv, UNCHANGED <<now, filtered>> PROVE Clocked'
BY DEF SessionIInv, Clocked

LEMMA UndiscoveredKeeps ==
  ASSUME SessionIInv, NEW a \in Action, Undiscovered(a) PROVE SessionIInv'
<1>. DEFINE r == Ended(a)
<1>1. Onward /\ Clocked' /\ act' = [act EXCEPT ![a] = r] /\ UNCHANGED <<lock, cache>>
      /\ act[a].pc # "connect"
  BY OnwardSame, ClockSame DEF Undiscovered, Set
<1>2. Fits(r, sessions', daemons', page') /\ r.pc = "done" /\ r.d = 0
  BY <1>1, Facts, EndedFits, ZenonT(60) DEF Ended, Onward
<1>. HIDE DEF r
<1>. QED BY <1>1, <1>2, KeepsDaemon

LEMMA OpensFacts ==
  ASSUME SessionIInv, NEW a \in Action, Opens(a)
  PROVE  /\ act[a].pc \in {"open", "resolved"} /\ act[a].d = 0 /\ act[a].stage = "send"
         /\ Firing(a) <=> act[a].pc = "resolved"
         /\ Firing(a) \in BOOLEAN /\ act[a].status # "fired"
         /\ Opened(a) = IF act[a].pc = "resolved" THEN "press" ELSE "list"
<1>1. act[a].pc \in {"open", "resolved"} /\ Placed(act[a]) /\ act[a].fires \in BOOLEAN
  BY Facts DEF Opens, ActionState
<1>2. (Firing(a) <=> act[a].pc = "resolved") /\ Firing(a) \in BOOLEAN
  BY <1>1 DEF Firing, Placed
<1>. QED BY <1>1, <1>2 DEF Placed, Opened, Call

LEMMA ReuseKeeps ==
  ASSUME SessionIInv, NEW a \in Action, Reuse(a) PROVE SessionIInv'
<1>. DEFINE r == [act[a] EXCEPT !.d = cache, !.pc = Opened(a), !.fires = Firing(a)]
<1>1. /\ Opens(a) /\ lock = None /\ cache # 0
      /\ daemons' = [daemons EXCEPT ![cache].last = now]
      /\ act' = [act EXCEPT ![a] = r]
      /\ UNCHANGED <<now, page, filtered, cache, lock, sessions>>
  BY DEF Reuse, Set
<1>2. cache \in 1..Len(daemons) /\ daemons[cache].sess # 0 /\ now \in Nat
      /\ Len(daemons) \in Nat
  BY <1>1, Facts, WorldTypes DEF OneOpen
<1>3. Onward
  BY <1>1, <1>2, Touched, Facts DEF Onward
<1>4. /\ r \in ActionState /\ r.d = cache /\ r.sid = act[a].sid /\ r.stage = "send"
      /\ r.pc = (IF act[a].pc = "resolved" THEN "press" ELSE "list")
      /\ r.at = act[a].at /\ r.status = act[a].status
  <2>1. /\ act[a] \in ActionState /\ cache \in Nat /\ Firing(a) \in BOOLEAN
        /\ Opened(a) \in Where
        /\ act[a].stage = "send"
        /\ Opened(a) = IF act[a].pc = "resolved" THEN "press" ELSE "list"
    BY <1>1, <1>2, OpensFacts, Facts DEF Where, Call
  <2>. QED BY <2>1 DEF ActionState
<1>. HIDE DEF r
<1>5. /\ Placed(act[a]) /\ Knows(act[a], sessions', daemons', page')
      /\ OnPage(act[a], sessions', daemons', page') /\ act[a].pc \in {"open", "resolved"}
      /\ act[a].status # "fired"
  BY <1>1, <1>3, Known, OpensFacts
<1>6. Placed(r)
  BY <1>2, <1>4, <1>5 DEF Placed, Call, Clicks
<1>7. /\ cache \in 0..Len(daemons') /\ daemons'[cache].sess # 0
      /\ Len(daemons') = Len(daemons)
  <2>1. Len(daemons') = Len(daemons)
    BY <1>1, <1>2, WorldTypes, Facts DEF SessionIInv
  <2>2. daemons'[cache].sess # 0
    BY <1>2, <1>3 DEF Onward, Later
  <2>. QED BY <1>2, <2>1, <2>2
<1>8. Knows(r, sessions', daemons', page')
  BY <1>4, <1>5, <1>7 DEF Knows, Call
<1>9. OnPage(r, sessions', daemons', page')
  BY <1>4, <1>5 DEF OnPage, Clicks
<1>10. OneOpen(act', lock', cache', daemons')
  <2>1. \A b \in Action : act'[b].pc # "connect" /\ act[b].pc # "connect"
    BY <1>1, <1>4, PageAssumption DEF SessionIInv, OneOpen
  <2>2. ASSUME NEW b \in Action, act'[b].d # 0, daemons'[act'[b].d].sock = "open"
        PROVE  act'[b].d = cache
    <3>1. CASE b = a
      BY <1>1, <1>4, <3>1 DEF SessionIInv
    <3>2. CASE b # a
      <4>1. act'[b] = act[b]
        BY <1>1, <3>2 DEF SessionIInv
      <4>2. act[b].d \in 1..Len(daemons)
        BY <2>2, <4>1, Facts
      <4>3. daemons[act[b].d].sock = "open"
        BY <1>3, <2>2, <4>1, <4>2 DEF Onward, Later
      <4>. QED BY <2>1, <2>2, <4>1, <4>3 DEF SessionIInv, OneOpen
    <3>. QED BY <3>1, <3>2
  <2>. QED BY <1>1, <1>2, <1>7, <2>1, <2>2, PageAssumption DEF OneOpen
<1>. QED BY <1>1, <1>3, <1>4, <1>6, <1>8, <1>9, <1>10, Stepped, ClockSame DEF Fits

LEMMA ConnectKeeps ==
  ASSUME SessionIInv, NEW a \in Action, Connect(a) PROVE SessionIInv'
<1>1. /\ Opens(a) /\ lock = None
      /\ cache # 0 => daemons[cache].shut
      /\ UNCHANGED <<now, page, filtered, cache, sessions>>
  BY DEF Connect
<1>2. CASE /\ daemons' = Append(daemons, [sess |-> 0, at |-> None, last |-> now,
                                          sock |-> "open", shut |-> FALSE])
           /\ lock' = a
           /\ Set(a, [act[a] EXCEPT !.pc = "connect", !.stage = "look",
                                     !.d = Len(daemons) + 1, !.fires = Firing(a)])
  <2>. DEFINE n == Len(daemons) + 1
              r == [act[a] EXCEPT !.pc = "connect", !.stage = "look",
                                  !.d = n, !.fires = Firing(a)]
  <2>1. /\ daemons \in Seq(Daemon) /\ Len(daemons) \in Nat /\ now \in Nat
        /\ cache \in 0..Len(daemons) /\ act' = [act EXCEPT ![a] = r]
    BY <1>2, WorldTypes, Facts DEF Set, OneOpen
  <2>2. Onward
    BY <1>1, <1>2, <2>1, DaemonMade, Facts DEF Onward
  <2>3. /\ n \in 0..Len(daemons') /\ n # 0 /\ 0..Len(daemons) \subseteq 0..Len(daemons')
        /\ \A d \in 1..Len(daemons) : daemons'[d] = daemons[d]
    BY <1>2, <2>1
  <2>4. /\ r \in ActionState /\ r.d = n /\ r.sid = act[a].sid /\ r.stage = "look"
        /\ r.pc = "connect" /\ (r.fires <=> act[a].pc = "resolved") /\ r.at = act[a].at
        /\ r.status = act[a].status
    <3>1. /\ act[a] \in ActionState /\ n \in Nat /\ Firing(a) \in BOOLEAN
          /\ "connect" \in Where /\ "look" \in Stage
          /\ Firing(a) <=> act[a].pc = "resolved"
      BY <1>1, <2>1, OpensFacts, Facts DEF Where, Stage
    <3>. QED BY <3>1 DEF ActionState
  <2>. HIDE DEF r, n
  <2>5. /\ Placed(act[a]) /\ Knows(act[a], sessions', daemons', page')
        /\ OnPage(act[a], sessions', daemons', page') /\ act[a].pc \in {"open", "resolved"}
        /\ act[a].status # "fired"
    BY <1>1, <2>2, Known, OpensFacts
  <2>6. Placed(r)
    BY <2>3, <2>4, <2>5 DEF Placed, Call, Clicks, Anew
  <2>7. Knows(r, sessions', daemons', page') /\ OnPage(r, sessions', daemons', page')
    BY <2>3, <2>4, <2>5 DEF Knows, OnPage, Call, Clicks
  <2>8. OneOpen(act', lock', cache', daemons')
    <3>1. \A b \in Action : act[b].pc # "connect"
      BY <1>1, PageAssumption DEF SessionIInv, OneOpen
    <3>2. \A b \in Action : act'[b].pc = "connect" <=> lock' = b
      BY <1>2, <2>1, <2>4, <3>1 DEF SessionIInv
    <3>3. /\ cache' \in 0..Len(daemons')
          /\ cache' # 0 => daemons'[cache'].sess # 0 /\ daemons'[cache'].sock = "closed"
      <4>1. cache # 0 => /\ cache \in 1..Len(daemons) /\ daemons[cache].sess # 0
                         /\ daemons[cache].sock = "closed"
        BY <1>1, <2>1 DEF SessionIInv, World, OneOpen
      <4>. QED BY <1>1, <2>1, <2>3, <4>1
    <3>4. ASSUME NEW b \in Action, act'[b].pc # "connect", act'[b].d # 0,
                 daemons'[act'[b].d].sock = "open"
          PROVE  act'[b].d = cache'
      <4>1. act'[b] = act[b]
        BY <2>1, <2>4, <3>4 DEF SessionIInv
      <4>2. act[b].d \in 1..Len(daemons)
        BY <3>4, <4>1, Facts
      <4>3. daemons[act[b].d].sock = "open"
        BY <2>3, <3>4, <4>1, <4>2
      <4>. QED BY <1>1, <3>1, <3>4, <4>1, <4>3 DEF SessionIInv, OneOpen
    <3>. QED BY <1>2, <3>2, <3>3, <3>4 DEF OneOpen
  <2>. QED BY <1>1, <2>1, <2>2, <2>4, <2>6, <2>7, <2>8, Stepped, ClockSame DEF Fits
<1>3. ASSUME Set(a, [Ended(a) EXCEPT !.status = IF Firing(a) THEN "errored" ELSE "no_target"]),
             UNCHANGED <<daemons, lock>>
      PROVE  SessionIInv'
  <2>. DEFINE st == IF Firing(a) THEN "errored" ELSE "no_target"
              r == [act[a] EXCEPT !.pc = "done", !.stage = "send", !.d = 0, !.sid = 0,
                                  !.pick = None, !.status = st]
  <2>1. act[a] \in ActionState /\ act[a].pc # "connect"
    BY <1>1, Facts, OpensFacts
  <2>2. [Ended(a) EXCEPT !.status = st] = r
    BY <2>1 DEF Ended, ActionState
  <2>3. Onward /\ Clocked'
    BY <1>1, <1>3, OnwardSame, ClockSame
  <2>4. Fits(r, sessions', daemons', page') /\ r.pc = "done" /\ r.d = 0
    BY <2>1, <2>3, EndedFits DEF Onward
  <2>5. act' = [act EXCEPT ![a] = r]
    BY <1>3, <2>2 DEF Set
  <2>. HIDE DEF r
  <2>. QED BY <1>1, <1>3, <2>1, <2>3, <2>4, <2>5, KeepsDaemon
<1>. QED BY <1>2, <1>3 DEF Connect

LEMMA ConnectedKeeps ==
  ASSUME SessionIInv, NEW a \in Action, Connected(a) PROVE SessionIInv'
<1>. DEFINE r == [act[a] EXCEPT !.stage = "send", !.pc = Opened(a)]
<1>1. /\ act[a].pc = "connect" /\ act[a].stage = "retry" /\ cache' = act[a].d /\ lock' = None
      /\ act' = [act EXCEPT ![a] = r]
      /\ UNCHANGED <<now, page, filtered, daemons, sessions>>
  BY DEF Connected, Set
<1>2. Onward /\ Clocked'
  BY <1>1, OnwardSame, ClockSame
<1>3. /\ act[a] \in ActionState /\ Placed(act[a]) /\ Knows(act[a], sessions', daemons', page')
      /\ OnPage(act[a], sessions', daemons', page')
  BY <1>2, Known, Facts
<1>4. /\ r \in ActionState /\ r.d = act[a].d /\ r.sid = act[a].sid /\ r.stage = "send"
      /\ r.pc = (IF act[a].fires THEN "press" ELSE "list")
      /\ r.fires = act[a].fires /\ r.at = act[a].at
      /\ r.status = act[a].status
  BY <1>1, <1>3 DEF ActionState, Where, Stage, Call, Opened, Firing
<1>. HIDE DEF r
<1>5. Placed(r)
  BY <1>1, <1>3, <1>4 DEF Placed, Call, Clicks
<1>6. Knows(r, sessions', daemons', page') /\ OnPage(r, sessions', daemons', page')
  BY <1>1, <1>3, <1>4 DEF Placed, Knows, OnPage, Call, Clicks
<1>7. OneOpen(act', lock', cache', daemons')
  <2>1. lock = a /\ None \notin Action /\ OneOpen(act, lock, cache, daemons)
    BY <1>1, PageAssumption DEF SessionIInv, OneOpen
  <2>2. \A b \in Action : act'[b].pc # "connect"
    BY <1>1, <1>4, <2>1 DEF SessionIInv, OneOpen
  <2>3. cache' \in 0..Len(daemons') /\ daemons'[cache'].sess # 0
    BY <1>1, <1>3 DEF Placed, Knows
  <2>4. ASSUME NEW b \in Action, act'[b].d # 0, daemons'[act'[b].d].sock = "open"
        PROVE  act'[b].d = cache'
    <3>1. CASE b = a
      BY <1>1, <1>4, <3>1 DEF SessionIInv
    <3>2. CASE b # a
      <4>1. act'[b] = act[b] /\ act[b].pc # "connect"
        BY <1>1, <2>1, <3>2 DEF SessionIInv, OneOpen
      <4>2. act[b].d = cache /\ cache # 0 /\ daemons[cache].sock = "open"
        BY <1>1, <2>1, <2>4, <4>1 DEF OneOpen
      <4>. QED BY <2>1, <4>2 DEF OneOpen
    <3>. QED BY <3>1, <3>2
  <2>. QED BY <1>1, <2>1, <2>2, <2>3, <2>4 DEF OneOpen
<1>. QED BY <1>1, <1>2, <1>4, <1>5, <1>6, <1>7, Stepped DEF Fits

LEMMA OnwardTouched ==
  ASSUME SessionIInv, NEW d \in 1..Len(daemons), UNCHANGED <<sessions, page>>, NEW t,
         \/ daemons' = [daemons EXCEPT ![d].last = t] /\ t \in Nat
         \/ daemons' = [daemons EXCEPT ![d].at = t] /\ t \in Page \cup {None}
  PROVE  Onward
BY Touched DEF SessionIInv, Onward

LEMMA OnwardAttached ==
  ASSUME SessionIInv, NEW a \in Action, NEW p \in Page, Open(p), AttachTo(a, p), UNCHANGED page,
         act[a].d # 0
  PROVE  /\ Onward
         /\ daemons'[act[a].d].sess = Len(sessions) + 1
<1>1. act[a].d \in 1..Len(daemons)
  BY Facts
<1>2. World(sessions, daemons, page) /\ page[p] = "open"
  BY DEF SessionIInv, Open
<1>. DEFINE new == [page |-> p, d |-> act[a].d, doc |-> FALSE]
            n == Len(sessions) + 1
            e2 == [daemons[act[a].d] EXCEPT !.sess = n]
<1>3. /\ new \in Session /\ new.page = p /\ new.d = act[a].d
  <2>1. act[a].d \in Nat \ {0}
    BY <1>1, <1>2, WorldTypes
  <2>. QED BY <2>1 DEF Session
<1>4. /\ e2 \in Daemon /\ e2.sess = n
      /\ e2.sock = daemons[act[a].d].sock /\ e2.shut = daemons[act[a].d].shut
  <2>1. daemons[act[a].d] \in Daemon /\ n \in Nat
    BY <1>1, <1>2, WorldTypes
  <2>. HIDE DEF n
  <2>. QED BY <2>1, DaemonFields
<1>5. sessions' = Append(sessions, new) /\ daemons' = [daemons EXCEPT ![act[a].d] = e2]
  BY DEF AttachTo
<1>. HIDE DEF new, e2
<1>6. /\ World(sessions', daemons', page)
      /\ Later(sessions, daemons, page, sessions', daemons', page)
      /\ daemons'[act[a].d].sess = Len(sessions) + 1
  <2>1. /\ act[a].d \in 1..Len(daemons) /\ World(sessions, daemons, page)
        /\ new \in Session /\ page[new.page] = "open" /\ new.d = act[a].d
        /\ e2 \in Daemon /\ e2.sess = Len(sessions) + 1
        /\ e2.sock = daemons[act[a].d].sock /\ e2.shut = daemons[act[a].d].shut
    BY <1>1, <1>2, <1>3, <1>4
  <2>. QED BY <1>5, <2>1, Attached, Zenon
<1>. QED BY <1>6 DEF Onward

(* Before an action calls on the page, in list, reattach and enable, its   *)
(* state counts as nothing but its daemon.                                 *)
LEMMA FitsEarly ==
  ASSUME NEW r \in ActionState, NEW ss, NEW ds, NEW pg, World(ss, ds, pg),
         r.pc \in {"list", "reattach", "enable"}, r.stage = "send",
         r.pc # "list" => r.pick \in Page, r.status # "fired",
         r.d \in 1..Len(ds), ds[r.d].sess # 0, r.sid \in 0..Len(ss)
  PROVE  Fits(r, ss, ds, pg)
<1>1. Placed(r)
  BY DEF Placed, Call, Clicks
<1>2. Knows(r, ss, ds, pg) /\ OnPage(r, ss, ds, pg)
  BY WorldTypes DEF Knows, OnPage, Call, Clicks
<1>. QED BY <1>1, <1>2 DEF Fits

(* The first call on the page, on the session the daemon has then.         *)
LEMMA FitsDocument ==
  ASSUME NEW r \in ActionState, NEW ss, NEW ds, NEW pg, World(ss, ds, pg),
         r.pc = "document", r.stage = "send", r.status # "fired",
         r.d \in 1..Len(ds), ds[r.d].sess # 0, r.sid = ds[r.d].sess
  PROVE  Fits(r, ss, ds, pg)
<1>1. r.sid \in 0..Len(ss) /\ r.sid # 0 /\ ss[r.sid].d = r.d /\ r.d \in 0..Len(ds) /\ r.d # 0
  BY WorldTypes DEF World
<1>2. Placed(r)
  BY <1>1 DEF Placed, Call, Clicks
<1>3. Knows(r, ss, ds, pg) /\ OnPage(r, ss, ds, pg)
  BY <1>1 DEF Knows, OnPage, Call, Clicks
<1>. QED BY <1>2, <1>3 DEF Fits

LEMMA EarlyFacts ==
  ASSUME SessionIInv, Onward, NEW a \in Action, act[a].pc \in {"list", "reattach", "enable"}
  PROVE  /\ act[a] \in ActionState /\ act[a].stage = "send" /\ act[a].status # "fired"
         /\ act[a].d \in 1..Len(daemons) /\ act[a].d \in 1..Len(daemons')
         /\ daemons[act[a].d].sess # 0 /\ daemons'[act[a].d].sess # 0
         /\ act[a].sid \in 0..Len(sessions')
<1>1. /\ Placed(act[a]) /\ Knows(act[a], sessions, daemons, page)
      /\ Knows(act[a], sessions', daemons', page') /\ act[a] \in ActionState
  BY Known, Facts
<1>2. Len(daemons) \in Nat /\ Len(daemons') \in Nat
  BY WorldTypes DEF SessionIInv, Onward
<1>. QED BY <1>1, <1>2 DEF Placed, Knows, Call

LEMMA ListTargetsKeeps ==
  ASSUME SessionIInv, NEW a \in Action, ListTargets(a) PROVE SessionIInv'
<1>. DEFINE d == act[a].d
            Use == [act[a] EXCEPT !.pc = "document", !.sid = daemons[d].sess]
<1>1. /\ act[a].pc = "list" /\ Clocked'
      /\ UNCHANGED <<now, page, filtered, cache, sessions>>
  BY ClockSame DEF ListTargets
<1>2. d \in 1..Len(daemons) /\ now \in Nat
  BY <1>1, Facts DEF Placed
<1>3. CASE Raise(a) /\ UNCHANGED daemons
  BY <1>1, <1>3, OnwardSame, RaiseKeeps
<1>4. CASE daemons' = [daemons EXCEPT ![d].last = now] /\ Set(a, Ended(a)) /\ UNCHANGED lock
  <2>1. Onward
    BY <1>1, <1>2, <1>4, OnwardTouched
  <2>2. lock # a
    BY <1>1 DEF SessionIInv, OneOpen
  <2>. QED BY <1>1, <1>4, <2>1, <2>2, RaiseKeeps DEF Raise
<1>5. CASE daemons' = [daemons EXCEPT ![d].last = now] /\ Set(a, Use) /\ UNCHANGED lock
  <2>1. Onward
    BY <1>1, <1>2, <1>5, OnwardTouched
  <2>2. daemons'[d].sess = daemons[d].sess /\ daemons[d].sess \in Nat
    <3>1. daemons[d] \in Daemon /\ daemons[d].sess \in Nat /\ daemons \in Seq(Daemon)
      BY <1>2, Facts, WorldTypes
    <3>2. [daemons[d] EXCEPT !.last = now].sess = daemons[d].sess
      BY <3>1 DEF Daemon
    <3>. QED BY <1>2, <1>5, <3>1, <3>2
  <2>3. /\ Use \in ActionState /\ Use.pc = "document" /\ Use.stage = "send"
        /\ Use.status # "fired" /\ Use.d = d /\ Use.sid = daemons[d].sess
    <3>1. /\ act[a] \in ActionState /\ "document" \in Where /\ act[a].stage = "send"
          /\ act[a].status # "fired"
      BY <1>1, <2>1, EarlyFacts DEF Where, Call
    <3>. QED BY <2>2, <3>1 DEF ActionState
  <2>. HIDE DEF Use
  <2>4. d \in 1..Len(daemons') /\ daemons'[d].sess # 0
    BY <1>1, <2>1, EarlyFacts
  <2>5. Fits(Use, sessions', daemons', page')
    BY <2>1, <2>2, <2>3, <2>4, FitsDocument DEF Onward
  <2>6. act' = [act EXCEPT ![a] = Use]
    BY <1>5 DEF Set
  <2>. QED BY <1>1, <1>5, <2>1, <2>3, <2>5, <2>6, KeepsDaemon
<1>6. ASSUME NEW p \in Workspace, daemons' = [daemons EXCEPT ![d].last = now],
             Set(a, [act[a] EXCEPT !.pc = "reattach", !.pick = p]), UNCHANGED lock
      PROVE  SessionIInv'
  <2>. DEFINE r == [act[a] EXCEPT !.pc = "reattach", !.pick = p]
  <2>1. Onward
    BY <1>1, <1>2, <1>6, OnwardTouched
  <2>2. /\ r \in ActionState /\ r.pc = "reattach" /\ r.stage = "send" /\ r.pick \in Page
        /\ r.status # "fired" /\ r.d = d /\ r.sid = act[a].sid
    <3>1. /\ act[a] \in ActionState /\ "reattach" \in Where /\ p \in Page
          /\ act[a].stage = "send" /\ act[a].status # "fired"
      BY <1>1, <2>1, EarlyFacts, PageAssumption DEF Where
    <3>. QED BY <3>1 DEF ActionState
  <2>. HIDE DEF r
  <2>3. Fits(r, sessions', daemons', page')
    BY <1>1, <2>1, <2>2, EarlyFacts, FitsEarly DEF Onward
  <2>4. act' = [act EXCEPT ![a] = r]
    BY <1>6 DEF Set, r
  <2>. QED BY <1>1, <1>6, <2>1, <2>2, <2>3, <2>4, KeepsDaemon
<1>. QED BY <1>3, <1>4, <1>5, <1>6 DEF ListTargets

LEMMA ReattachKeeps ==
  ASSUME SessionIInv, NEW a \in Action, Reattach(a) PROVE SessionIInv'
<1>1. act[a].pc = "reattach" /\ Clocked' /\ UNCHANGED <<now, page, filtered, cache>>
  BY ClockSame DEF Reattach
<1>2. CASE Raise(a) /\ UNCHANGED <<daemons, sessions>>
  BY <1>1, <1>2, OnwardSame, RaiseKeeps
<1>3. CASE /\ Open(act[a].pick) /\ AttachTo(a, act[a].pick)
           /\ Set(a, [act[a] EXCEPT !.pc = "enable"]) /\ UNCHANGED lock
  <2>. DEFINE r == [act[a] EXCEPT !.pc = "enable"]
  <2>1. act[a].pick \in Page /\ act[a].d # 0
    BY <1>1, Facts DEF Placed
  <2>2. Onward
    BY <1>1, <1>3, <2>1, OnwardAttached
  <2>3. /\ r \in ActionState /\ r.pc = "enable" /\ r.stage = "send" /\ r.pick \in Page
        /\ r.status # "fired" /\ r.d = act[a].d /\ r.sid = act[a].sid
    <3>1. /\ act[a] \in ActionState /\ "enable" \in Where
          /\ act[a].stage = "send" /\ act[a].status # "fired"
      BY <1>1, <2>2, EarlyFacts DEF Where
    <3>. QED BY <2>1, <3>1 DEF ActionState
  <2>. HIDE DEF r
  <2>4. Fits(r, sessions', daemons', page')
    BY <1>1, <2>2, <2>3, EarlyFacts, FitsEarly DEF Onward
  <2>5. act' = [act EXCEPT ![a] = r]
    BY <1>3 DEF Set, r
  <2>. QED BY <1>1, <1>3, <2>2, <2>3, <2>4, <2>5, KeepsDaemon
<1>. QED BY <1>2, <1>3 DEF Reattach

LEMMA EnableKeeps ==
  ASSUME SessionIInv, NEW a \in Action, Enable(a) PROVE SessionIInv'
<1>. DEFINE d == act[a].d
            r == [act[a] EXCEPT !.pc = "document", !.pick = None, !.sid = daemons[d].sess]
<1>1. /\ act[a].pc = "enable" /\ Clocked'
      /\ daemons' = [daemons EXCEPT ![d].at = act[a].pick]
      /\ act' = [act EXCEPT ![a] = r]
      /\ UNCHANGED <<now, page, filtered, cache, lock, sessions>>
  BY ClockSame DEF Enable, Set
<1>2. d \in 1..Len(daemons) /\ act[a].pick \in Page
  BY <1>1, Facts DEF Placed
<1>3. Onward
  BY <1>1, <1>2, OnwardTouched
<1>4. daemons'[d].sess = daemons[d].sess /\ daemons[d].sess \in Nat
  <2>1. daemons[d] \in Daemon /\ daemons[d].sess \in Nat /\ daemons \in Seq(Daemon)
    BY <1>2, Facts, WorldTypes
  <2>2. [daemons[d] EXCEPT !.at = act[a].pick].sess = daemons[d].sess
    BY <2>1 DEF Daemon
  <2>. QED BY <1>1, <1>2, <2>1, <2>2
<1>5. /\ r \in ActionState /\ r.pc = "document" /\ r.stage = "send"
      /\ r.status # "fired" /\ r.d = d /\ r.sid = daemons[d].sess
  <2>1. /\ act[a] \in ActionState /\ "document" \in Where /\ act[a].stage = "send"
        /\ act[a].status # "fired"
    BY <1>1, <1>3, EarlyFacts DEF Where, Call
  <2>. QED BY <1>4, <2>1 DEF ActionState
<1>. HIDE DEF r
<1>6. d \in 1..Len(daemons') /\ daemons'[d].sess # 0
  BY <1>1, <1>3, EarlyFacts
<1>7. Fits(r, sessions', daemons', page')
  BY <1>3, <1>4, <1>5, <1>6, FitsDocument DEF Onward
<1>. QED BY <1>1, <1>3, <1>5, <1>7, KeepsDaemon

-----------------------------------------------------------------------------
(* The calls. *)

LEMMA CallFacts ==
  ASSUME SessionIInv, Onward, NEW a \in Action, act[a].pc \in Call
  PROVE  /\ act[a] \in ActionState /\ act[a].status # "fired"
         /\ act[a].d \in 1..Len(daemons) /\ act[a].d \in 1..Len(daemons')
         /\ daemons[act[a].d].sess # 0 /\ daemons'[act[a].d].sess # 0
         /\ act[a].sid \in 1..Len(sessions) /\ act[a].sid \in 1..Len(sessions')
<1>1. /\ Placed(act[a]) /\ Knows(act[a], sessions, daemons, page)
      /\ Knows(act[a], sessions', daemons', page') /\ act[a] \in ActionState
  BY Known, Facts
<1>2. /\ Len(daemons) \in Nat /\ Len(daemons') \in Nat
      /\ Len(sessions) \in Nat /\ Len(sessions') \in Nat
  BY WorldTypes DEF SessionIInv, Onward
<1>3. /\ act[a].status # "fired" /\ act[a].d # 0 /\ act[a].sid # 0
      /\ daemons[act[a].d].sess # 0 /\ daemons'[act[a].d].sess # 0
  BY <1>1 DEF Placed, Knows, Call
<1>. QED BY <1>1, <1>2, <1>3 DEF Knows

(* State q at another stage, with another page picked. *)
Turned(q, st, pk) == [q EXCEPT !.stage = st, !.pick = pk]

(* Only the stage of a call changes. *)
LEMMA StageFits ==
  ASSUME NEW q \in ActionState, q.pc \in Call, Placed(q), NEW st \in Stage,
         NEW pk \in Page \cup {None}, st = "attach" => pk \in Page,
         NEW ss, NEW ds, NEW pg, Knows(q, ss, ds, pg), OnPage(q, ss, ds, pg),
         st = "lost" => (ss[q.sid].d = q.d => Away(q.sid, ss, pg)),
         st \in {"look", "attach"} => ss[q.sid].d = q.d /\ Away(q.sid, ss, pg),
         st \in {"enable", "retry"} => Lapsed(q.sid, ss, ds, pg),
         q.pc = "release" /\ st \notin {"send", "lost"} =>
           q.pressed = q.at /\ ss[q.sid].page = q.at
  PROVE  /\ Fits(Turned(q, st, pk), ss, ds, pg)
         /\ Turned(q, st, pk).pc = q.pc /\ Turned(q, st, pk).d = q.d
<1>. DEFINE r == Turned(q, st, pk)
<1>1. /\ r \in ActionState /\ r.pc = q.pc /\ r.stage = st /\ r.fires = q.fires /\ r.d = q.d
      /\ r.sid = q.sid /\ r.pick = pk /\ r.at = q.at /\ r.pressed = q.pressed
      /\ r.released = q.released /\ r.status = q.status
  BY DEF Turned, ActionState
<1>. HIDE DEF r
<1>2. Placed(r)
  BY <1>1 DEF Placed, Clicks, Call
<1>3. Knows(r, ss, ds, pg)
  BY <1>1 DEF Knows, Call
<1>4. OnPage(r, ss, ds, pg)
  BY <1>1 DEF OnPage, Clicks, Call
<1>. QED BY <1>1, <1>2, <1>3, <1>4 DEF Fits, r

(* The state of an action whose call landed on page p. *)
Landed(q, p) ==
  CASE q.pc = "document" -> [q EXCEPT !.pc = "query", !.stage = "send"]
    [] q.pc = "query"    -> [q EXCEPT !.pc = "box", !.stage = "send"]
    [] q.pc = "box"      -> [q EXCEPT !.pc = "resolved", !.stage = "send", !.at = p, !.d = 0,
                                      !.status = "resolved"]
    [] q.pc = "press"    -> [q EXCEPT !.pc = "release", !.stage = "send", !.pressed = p]
    [] q.pc = "release"  -> [q EXCEPT !.pc = "done", !.stage = "send", !.released = p, !.d = 0,
                                      !.sid = 0, !.status = "fired"]

LEMMA LandIsLanded ==
  ASSUME NEW a \in Action, act[a] \in ActionState, act[a].pc \in Call, NEW s, Land(a, s)
  PROVE  /\ Set(a, Landed(act[a], sessions[s].page)) \/ Set(a, Ended(a))
         /\ UNCHANGED lock
<1>. DEFINE p == sessions[s].page
            next == [document |-> "query", query |-> "box", box |-> "resolved",
                     press |-> "release", release |-> "done"]
            on == [act[a] EXCEPT !.pc = next[act[a].pc], !.stage = "send"]
            r == CASE act[a].pc = "box"     -> [on EXCEPT !.at = p, !.d = 0, !.status = "resolved"]
                   [] act[a].pc = "press"   -> [on EXCEPT !.pressed = p]
                   [] act[a].pc = "release" -> [on EXCEPT !.released = p, !.d = 0, !.sid = 0,
                                                          !.status = "fired"]
                   [] OTHER                 -> on
<1>1. (Set(a, r) \/ Set(a, Ended(a))) /\ UNCHANGED lock
  BY DEF Land
<1>2. r = Landed(act[a], p)
  <2>1. CASE act[a].pc = "document"
    BY <2>1 DEF Landed
  <2>2. CASE act[a].pc = "query"
    BY <2>2 DEF Landed
  <2>3. CASE act[a].pc = "box"
    BY <2>3 DEF Landed, ActionState
  <2>4. CASE act[a].pc = "press"
    BY <2>4 DEF Landed, ActionState
  <2>5. CASE act[a].pc = "release"
    BY <2>5 DEF Landed, ActionState
  <2>. QED BY <2>1, <2>2, <2>3, <2>4, <2>5 DEF Call
<1>. QED BY <1>1, <1>2

LEMMA LandedFields ==
  ASSUME NEW q \in ActionState, q.pc \in Call, NEW p \in Page
  PROVE  LET r == Landed(q, p) IN
         /\ r \in ActionState /\ r.stage = "send" /\ r.fires = q.fires
         /\ r.pick = q.pick
         /\ q.pc = "document" => r.pc = "query"
         /\ q.pc = "query" => r.pc = "box"
         /\ q.pc = "box" => r.pc = "resolved" /\ r.at = p
         /\ q.pc = "press" => r.pc = "release" /\ r.pressed = p
         /\ q.pc = "release" => r.pc = "done" /\ r.status = "fired" /\ r.pressed = q.pressed
         /\ q.pc = "release" => r.released = p
         /\ q.pc # "release" => r.sid = q.sid
         /\ q.pc = "release" => r.sid = 0
         /\ q.pc \in {"box", "release"} => r.d = 0
         /\ q.pc \notin {"box", "release"} => r.d = q.d /\ r.status = q.status
         /\ q.pc = "box" => r.status = "resolved"
         /\ q.pc # "box" => r.at = q.at
<1>1. CASE q.pc = "document"
  BY <1>1, ZenonT(60) DEF Landed, ActionState, Where, Stage, Call
<1>2. CASE q.pc = "query"
  BY <1>2, ZenonT(60) DEF Landed, ActionState, Where, Stage, Call
<1>3. CASE q.pc = "box"
  BY <1>3, ZenonT(60) DEF Landed, ActionState, Where, Stage
<1>4. CASE q.pc = "press"
  BY <1>4, ZenonT(60) DEF Landed, ActionState, Where, Stage, Call
<1>5. CASE q.pc = "release"
  BY <1>5, ZenonT(60) DEF Landed, ActionState, Where, Stage
<1>. QED BY <1>1, <1>2, <1>3, <1>4, <1>5 DEF Call

(* A call lands: on the session the caller passed, which is there; or on   *)
(* the daemon's new one, after the caller's has gone.                      *)
LEMMA LandFits ==
  ASSUME NEW q \in ActionState, q.pc \in Call, Placed(q), NEW ss, NEW ds, NEW pg,
         World(ss, ds, pg), Knows(q, ss, ds, pg), OnPage(q, ss, ds, pg), NEW p \in Page,
         (p = ss[q.sid].page /\ pg[p] = "open") \/ q.stage = "retry"
  PROVE  /\ Fits(Landed(q, p), ss, ds, pg)
         /\ Landed(q, p).pc # "connect" /\ (Landed(q, p).d = q.d \/ Landed(q, p).d = 0)
<1>. DEFINE r == Landed(q, p)
<1>1. /\ r \in ActionState /\ r.stage = "send" /\ r.fires = q.fires
      /\ r.pick = q.pick
      /\ q.pc = "document" => r.pc = "query"
      /\ q.pc = "query" => r.pc = "box"
      /\ q.pc = "box" => r.pc = "resolved" /\ r.at = p
      /\ q.pc = "press" => r.pc = "release" /\ r.pressed = p
      /\ q.pc = "release" => r.pc = "done" /\ r.status = "fired" /\ r.pressed = q.pressed
      /\ q.pc = "release" => r.released = p
      /\ q.pc # "release" => r.sid = q.sid
      /\ q.pc = "release" => r.sid = 0
      /\ q.pc \in {"box", "release"} => r.d = 0
      /\ q.pc \notin {"box", "release"} => r.d = q.d /\ r.status = q.status
      /\ q.pc = "box" => r.status = "resolved"
      /\ q.pc # "box" => r.at = q.at
  BY LandedFields
<1>. HIDE DEF r
<1>2. /\ q.stage = "retry" => Lapsed(q.sid, ss, ds, pg)
      /\ q.stage # "retry" => p = ss[q.sid].page /\ ~Lapsed(q.sid, ss, ds, pg)
  BY DEF Knows, Lapsed, Away
<1>3. /\ q.d # 0 /\ q.sid # 0 /\ Len(ss) \in Nat /\ Len(ds) \in Nat
      /\ q.status # "fired"
  BY WorldTypes DEF Placed, Call
<1>4. q.pc = "release" => q.pressed = q.at /\ ss[q.sid].page = q.at
  BY <1>2 DEF OnPage
<1>5. Placed(r)
  BY <1>1, <1>3, <1>4 DEF Placed, Clicks, Call
<1>6. Knows(r, ss, ds, pg)
  BY <1>1, <1>3 DEF Knows, Call
<1>7. OnPage(r, ss, ds, pg)
  <2>1. CASE q.pc \in {"document", "query"}
    BY <1>1, <1>3, <2>1 DEF OnPage, Clicks
  <2>2. CASE q.pc = "box"
    BY <1>1, <1>2, <2>2 DEF OnPage, Clicks
  <2>3. CASE q.pc = "press"
    BY <1>1, <1>2, <1>3, <2>3 DEF OnPage, Clicks
  <2>4. CASE q.pc = "release"
    <3>1. r.released = r.at \/ pg[r.at] = "closed"
      BY <1>1, <1>2, <1>4, <2>4 DEF Lapsed, Away
    <3>. QED BY <1>1, <2>4, <3>1 DEF OnPage, Clicks
  <2>. QED BY <2>1, <2>2, <2>3, <2>4 DEF Call
<1>8. r.pc # "connect" /\ (r.d = q.d \/ r.d = 0)
  BY <1>1 DEF Call
<1>. QED BY <1>5, <1>6, <1>7, <1>8 DEF Fits, r

LEMMA LandKeeps ==
  ASSUME SessionIInv, Onward, Clocked', UNCHANGED cache, NEW a \in Action, act[a].pc \in Call,
         NEW s \in 1..Len(sessions), Open(sessions[s].page), UNCHANGED page,
         s = act[a].sid \/ act[a].stage = "retry", Land(a, s)
  PROVE  SessionIInv'
<1>. DEFINE p == sessions[s].page
            r == Landed(act[a], p)
<1>1. (Set(a, r) \/ Set(a, Ended(a))) /\ UNCHANGED lock
  BY LandIsLanded, Facts
<1>2. act[a].pc # "connect" /\ lock # a
  BY DEF Call, SessionIInv, OneOpen
<1>3. CASE Set(a, Ended(a))
  BY <1>1, <1>2, <1>3, RaiseKeeps DEF Raise
<1>4. CASE Set(a, r)
  <2>1. /\ act[a] \in ActionState /\ Placed(act[a])
        /\ Knows(act[a], sessions', daemons', page') /\ OnPage(act[a], sessions', daemons', page')
        /\ World(sessions', daemons', page')
    BY Facts, Known DEF Onward
  <2>2. p \in Page /\ page'[p] = "open" /\ sessions'[s].page = p
    BY WorldTypes DEF SessionIInv, Open, Onward, Later
  <2>3. (p = sessions'[act[a].sid].page /\ page'[p] = "open") \/ act[a].stage = "retry"
    BY <2>2
  <2>4. act' = [act EXCEPT ![a] = r]
    BY <1>4 DEF Set
  <2>. HIDE DEF p
  <2>5. Fits(r, sessions', daemons', page') /\ r.pc # "connect" /\ (r.d = act[a].d \/ r.d = 0)
    BY <2>1, <2>2, <2>3, LandFits
  <2>. HIDE DEF r
  <2>. QED BY <1>1, <1>2, <2>4, <2>5, KeepsDaemon
<1>. QED BY <1>1, <1>3, <1>4

LEMMA SendKeeps ==
  ASSUME SessionIInv, NEW a \in Action, Send(a) PROVE SessionIInv'
<1>. DEFINE d == act[a].d
            s == act[a].sid
<1>1. /\ act[a].pc \in Call /\ act[a].stage = "send" /\ Clocked'
      /\ daemons' = [daemons EXCEPT ![d].last = now]
      /\ UNCHANGED <<now, page, filtered, cache>>
  BY ClockSame DEF Send
<1>2. d \in 1..Len(daemons) /\ now \in Nat /\ World(sessions, daemons, page)
  BY <1>1, Facts DEF Placed, Call
<1>3. /\ World(sessions, daemons', page)
      /\ Later(sessions, daemons, page, sessions, daemons', page)
  BY <1>1, <1>2, Touched
<1>4. CASE UNCHANGED sessions
  <2>1. Onward
    BY <1>1, <1>3, <1>4 DEF Onward
  <2>2. CASE Raise(a)
    BY <1>1, <2>1, <2>2, RaiseKeeps
  <2>3. CASE ~Live(s, d) /\ Set(a, [act[a] EXCEPT !.stage = "lost"]) /\ UNCHANGED lock
    <3>. DEFINE r == Turned(act[a], "lost", act[a].pick)
    <3>1. /\ act[a] \in ActionState /\ Placed(act[a])
          /\ Knows(act[a], sessions', daemons', page')
          /\ OnPage(act[a], sessions', daemons', page')
      BY <2>1, Facts, Known
    <3>2. act[a].pick \in Page \cup {None} /\ "lost" \in Stage
      BY <3>1 DEF ActionState, Stage
    <3>3. act' = [act EXCEPT ![a] = r]
      BY <2>3, <3>1 DEF Set, Turned, ActionState
    <3>4. sessions'[s].d = d => Away(s, sessions', page')
      <4>1. s \in 1..Len(sessions) /\ sessions[s].page \in Page
        BY <1>1, <1>2, <2>1, CallFacts, WorldTypes
      <4>2. sessions[s].d = d => page[sessions[s].page] # "open"
        BY <2>3, <4>1 DEF Live, Open
      <4>3. page[sessions[s].page] \in {"open", "closed"}
        BY <1>2, <4>1 DEF World, Pages
      <4>. QED BY <1>1, <1>4, <4>2, <4>3 DEF Away
    <3>6. Fits(r, sessions', daemons', page') /\ r.pc = act[a].pc /\ r.d = act[a].d
      BY <1>1, <3>1, <3>2, <3>4, StageFits
    <3>. HIDE DEF r
    <3>. QED BY <1>1, <2>1, <2>3, <3>3, <3>6, KeepsDaemon
  <2>4. CASE Live(s, d) /\ Land(a, s)
    <3>1. s \in 1..Len(sessions) /\ Open(sessions[s].page)
      BY <2>4 DEF Live
    <3>. QED BY <1>1, <2>1, <2>4, <3>1, LandKeeps
  <2>. QED BY <2>2, <2>3, <2>4 DEF Send
<1>5. CASE Live(s, d) /\ Land(a, s)
  <2>1. s \in 1..Len(sessions) /\ Open(sessions[s].page)
    BY <1>5 DEF Live
  <2>. DEFINE v == sessions[s].doc \/ act[a].pc = "document"
  <2>2. sessions' = [sessions EXCEPT ![s].doc = v] /\ v \in BOOLEAN
    BY <1>5 DEF Land
  <2>. HIDE DEF v
  <2>3. /\ World(sessions', daemons', page)
        /\ Later(sessions, daemons', page, sessions', daemons', page)
    BY <1>3, <2>1, <2>2, Documented
  <2>4. Onward
    BY <1>1, <1>2, <1>3, <2>3, LaterThen DEF Onward
  <2>. QED BY <1>1, <1>5, <2>1, <2>4, LandKeeps
<1>. QED BY <1>4, <1>5 DEF Send

LEMMA RetryKeeps ==
  ASSUME SessionIInv, NEW a \in Action, Retry(a) PROVE SessionIInv'
<1>. DEFINE d == act[a].d
            s == daemons[d].sess
<1>1. /\ act[a].pc \in Call /\ act[a].stage = "retry" /\ Clocked'
      /\ UNCHANGED <<now, page, filtered, cache, daemons>>
  BY ClockSame DEF Retry
<1>2. World(sessions, daemons, page)
  BY DEF SessionIInv
<1>3. CASE Raise(a) /\ UNCHANGED sessions
  BY <1>1, <1>3, OnwardSame, RaiseKeeps
<1>4. CASE Live(s, d) /\ Land(a, s)
  <2>1. s \in 1..Len(sessions) /\ Open(sessions[s].page)
    BY <1>4, SMTT(40) DEF Live
  <2>. DEFINE v == sessions[s].doc \/ act[a].pc = "document"
  <2>2. sessions' = [sessions EXCEPT ![s].doc = v] /\ v \in BOOLEAN
    BY <1>4, Zenon DEF Land
  <2>. HIDE DEF v, s
  <2>3. /\ World(sessions', daemons, page)
        /\ Later(sessions, daemons, page, sessions', daemons, page)
    BY <1>2, <2>1, <2>2, Documented
  <2>4. Onward
    BY <1>1, <2>3 DEF Onward
  <2>. QED BY <1>1, <1>4, <2>1, <2>4, LandKeeps
<1>. QED BY <1>3, <1>4 DEF Retry

LEMMA LostKeeps ==
  ASSUME SessionIInv, NEW a \in Action, Lost(a) PROVE SessionIInv'
<1>. DEFINE q == act[a]
            r == Turned(q, "look", q.pick)
<1>1. /\ q.pc \in Call /\ q.stage = "lost" /\ Clocked' /\ Onward
      /\ UNCHANGED <<now, page, filtered, cache, daemons, sessions>>
  BY ClockSame, OnwardSame DEF Lost
<1>2. CASE Raise(a)
  BY <1>1, <1>2, RaiseKeeps
<1>3. CASE /\ q.sid = daemons[q.d].sess /\ UNCHANGED lock
           /\ Set(a, [q EXCEPT !.stage = "look"])
  <2>1. /\ q \in ActionState /\ Placed(q)
        /\ Knows(q, sessions', daemons', page') /\ OnPage(q, sessions', daemons', page')
    BY <1>1, Facts, Known
  <2>2. q.pick \in Page \cup {None} /\ "look" \in Stage
    BY <2>1 DEF ActionState, Stage
  <2>3. act' = [act EXCEPT ![a] = r]
    BY <1>3, <2>1 DEF Set, Turned, ActionState
  <2>4. sessions'[q.sid].d = q.d /\ q.sid = daemons'[q.d].sess
    <3>1. q.d \in 1..Len(daemons) /\ daemons[q.d].sess # 0
      BY <1>1, CallFacts
    <3>. QED BY <1>1, <1>3, <3>1 DEF SessionIInv, World
  <2>5. Away(q.sid, sessions', page') /\ ~Lapsed(q.sid, sessions', daemons', page')
    BY <1>1, <2>1, <2>4 DEF Knows, Lapsed
  <2>6. q.pc = "release" => q.pressed = q.at /\ sessions'[q.sid].page = q.at
    BY <2>1, <2>5 DEF OnPage
  <2>7. Fits(r, sessions', daemons', page') /\ r.pc = q.pc /\ r.d = q.d
    BY <1>1, <2>1, <2>2, <2>4, <2>5, <2>6, StageFits
  <2>. HIDE DEF r
  <2>. QED BY <1>1, <1>3, <2>3, <2>7, KeepsDaemon
<1>. QED BY <1>2, <1>3 DEF Lost

(* The stages of a connection. *)
LEMMA ConnectFits ==
  ASSUME NEW q \in ActionState, q.pc = "connect", Placed(q),
         NEW st \in {"attach", "enable", "retry"},
         NEW pk \in Page \cup {None}, st = "attach" => pk \in Page,
         NEW ss, NEW ds, NEW pg, Knows(q, ss, ds, pg), OnPage(q, ss, ds, pg),
         st # "attach" => ds[q.d].sess # 0
  PROVE  /\ Fits(Turned(q, st, pk), ss, ds, pg)
         /\ Turned(q, st, pk).pc = q.pc /\ Turned(q, st, pk).d = q.d
<1>. DEFINE r == Turned(q, st, pk)
<1>1. /\ r \in ActionState /\ r.pc = q.pc /\ r.stage = st /\ r.fires = q.fires /\ r.d = q.d
      /\ r.sid = q.sid /\ r.pick = pk /\ r.at = q.at /\ r.pressed = q.pressed
      /\ r.released = q.released /\ r.status = q.status
  BY DEF Turned, ActionState, Stage
<1>. HIDE DEF r
<1>2. Placed(r)
  BY <1>1 DEF Placed, Clicks, Call, Anew
<1>3. Knows(r, ss, ds, pg)
  BY <1>1 DEF Knows, Call
<1>4. OnPage(r, ss, ds, pg)
  BY <1>1 DEF OnPage, Clicks
<1>. QED BY <1>1, <1>2, <1>3, <1>4 DEF Fits, r

(* One stage of looking for a page, attaching and enabling, of a call or   *)
(* of a connection.                                                        *)
LEMMA AnewKeeps ==
  ASSUME SessionIInv, Onward, Clocked', UNCHANGED <<lock, cache>>, NEW a \in Action,
         NEW st \in {"attach", "enable", "retry"}, act[a].stage \in Anew,
         NEW pk \in Page \cup {None}, st = "attach" => pk \in Page /\ act[a].stage = "look",
         Set(a, [act[a] EXCEPT !.stage = st, !.pick = pk]),
         st = "retry" => act[a].stage = "enable",
         st = "enable" => /\ act[a].stage = "attach"
                          /\ daemons'[act[a].d].sess = Len(sessions) + 1
  PROVE  SessionIInv'
<1>. DEFINE q == act[a]
            r == Turned(q, st, pk)
<1>1. /\ q \in ActionState /\ Placed(q) /\ World(sessions, daemons, page)
      /\ Knows(q, sessions, daemons, page) /\ Knows(q, sessions', daemons', page')
      /\ OnPage(q, sessions', daemons', page')
  BY Facts, Known
<1>2. act' = [act EXCEPT ![a] = r]
  BY DEF Set, Turned
<1>3. q.pc \in Call \cup {"connect"} /\ Len(sessions) \in Nat
  BY <1>1, WorldTypes DEF Placed, Anew
<1>4. CASE q.pc = "connect"
  <2>1. st # "attach" => daemons'[q.d].sess # 0
    BY <1>1, <1>3, <1>4 DEF Placed, Knows
  <2>2. Fits(r, sessions', daemons', page') /\ r.pc = q.pc /\ r.d = q.d
    BY <1>1, <1>4, <2>1, ConnectFits
  <2>. HIDE DEF r
  <2>. QED BY <1>2, <2>2, KeepsDaemon
<1>5. CASE q.pc \in Call
  <2>1. st \in Stage /\ q.sid \in 1..Len(sessions)
    BY <1>5, CallFacts DEF Stage
  <2>2. st = "attach" => /\ sessions'[q.sid].d = q.d /\ Away(q.sid, sessions', page')
    BY <1>1, <1>5 DEF Knows
  <2>3. st = "enable" => Lapsed(q.sid, sessions', daemons', page')
    <3>1. CASE st = "enable"
      <4>1. sessions'[q.sid].d = q.d /\ Away(q.sid, sessions', page')
        BY <1>1, <1>5, <3>1 DEF Knows
      <4>2. daemons'[q.d].sess # q.sid
        BY <1>3, <2>1, <3>1
      <4>. QED BY <4>1, <4>2 DEF Lapsed
    <3>. QED BY <3>1
  <2>4. st = "retry" => Lapsed(q.sid, sessions', daemons', page')
    BY <1>1, <1>5 DEF Knows
  <2>5. q.pc = "release" => q.pressed = q.at /\ sessions'[q.sid].page = q.at
    BY <1>1 DEF OnPage, Anew
  <2>6. Fits(r, sessions', daemons', page') /\ r.pc = q.pc /\ r.d = q.d
    BY <1>1, <1>5, <2>1, <2>2, <2>3, <2>4, <2>5, StageFits
  <2>. HIDE DEF r
  <2>. QED BY <1>2, <2>6, KeepsDaemon
<1>. QED BY <1>3, <1>4, <1>5

LEMMA LookKeeps ==
  ASSUME SessionIInv, NEW a \in Action, Look(a) PROVE SessionIInv'
<1>1. act[a].stage = "look" /\ Clocked' /\ UNCHANGED <<now, filtered, cache, daemons, sessions>>
  BY ClockSame DEF Look
<1>2. CASE Raise(a) /\ UNCHANGED page
  BY <1>1, <1>2, OnwardSame, RaiseKeeps
<1>3. ASSUME NEW p \in Page \ Internal, IF Real = {} THEN page[p] = "unborn" ELSE p \in Real,
             page' = [page EXCEPT ![p] = "open"], UNCHANGED lock,
             Set(a, [act[a] EXCEPT !.stage = "attach", !.pick = p])
      PROVE  SessionIInv'
  <2>1. page[p] # "closed"
    BY <1>3 DEF Real, Open
  <2>2. World(sessions, daemons, page)
    BY DEF SessionIInv
  <2>3. Onward
    BY <1>1, <1>3, <2>1, <2>2, PageTurned DEF Onward
  <2>. QED BY <1>1, <1>3, <2>3, AnewKeeps DEF Anew
<1>. QED BY <1>2, <1>3 DEF Look

LEMMA AttachKeeps ==
  ASSUME SessionIInv, NEW a \in Action, Attach(a) PROVE SessionIInv'
<1>1. act[a].stage = "attach" /\ Clocked' /\ UNCHANGED <<now, page, filtered, cache>>
  BY ClockSame DEF Attach
<1>2. CASE Raise(a) /\ UNCHANGED <<daemons, sessions>>
  BY <1>1, <1>2, OnwardSame, RaiseKeeps
<1>3. CASE /\ Open(act[a].pick) /\ AttachTo(a, act[a].pick) /\ UNCHANGED lock
           /\ Set(a, [act[a] EXCEPT !.stage = "enable", !.pick = None])
  <2>1. act[a].pick \in Page /\ act[a].d # 0
    BY <1>1, Facts DEF Placed, Call
  <2>2. Onward /\ daemons'[act[a].d].sess = Len(sessions) + 1
    BY <1>1, <1>3, <2>1, OnwardAttached
  <2>. QED BY <1>1, <1>3, <2>2, AnewKeeps DEF Anew
<1>. QED BY <1>2, <1>3 DEF Attach

LEMMA EnableDomainsKeeps ==
  ASSUME SessionIInv, NEW a \in Action, EnableDomains(a) PROVE SessionIInv'
<1>1. /\ act[a].stage = "enable" /\ Clocked' /\ Onward
      /\ Set(a, [act[a] EXCEPT !.stage = "retry"]) /\ UNCHANGED <<lock, cache>>
  BY ClockSame, OnwardSame DEF EnableDomains
<1>2. act[a] \in ActionState /\ act[a].pick \in Page \cup {None}
  BY Facts DEF ActionState
<1>3. [act[a] EXCEPT !.stage = "retry"] = [act[a] EXCEPT !.stage = "retry", !.pick = act[a].pick]
  BY <1>2 DEF ActionState
<1>. QED BY <1>1, <1>2, <1>3, AnewKeeps DEF Anew

-----------------------------------------------------------------------------
(* Steps of no action. *)

LEMMA ActionsWait ==
  ASSUME SessionIInv, Onward, UNCHANGED act, Clocked',
         OneOpen(act, lock', cache', daemons')
  PROVE  SessionIInv'
<1>1. \A a \in Action : Fits(act[a], sessions', daemons', page')
  BY Known DEF Fits
<1>. QED BY <1>1 DEF SessionIInv, Onward

LEMMA EvictKeeps == SessionIInv /\ Evict => SessionIInv'
<1>. SUFFICES ASSUME SessionIInv, Evict PROVE SessionIInv'
  OBVIOUS
<1>1. /\ lock = None /\ cache # 0 /\ cache' = 0 /\ Clocked'
      /\ daemons' = [daemons EXCEPT ![cache].sock = "closed", ![cache].shut = TRUE]
      /\ UNCHANGED <<page, lock, sessions, act>>
  BY ClockSame DEF Evict
<1>2. World(sessions, daemons, page) /\ cache \in 1..Len(daemons) /\ daemons \in Seq(Daemon)
  BY <1>1, WorldTypes DEF SessionIInv, OneOpen
<1>3. Onward
  BY <1>1, <1>2, DaemonShut DEF Onward
<1>4. daemons'[cache].sock = "closed"
  <2>1. daemons[cache] \in Daemon
    BY <1>2, WorldTypes
  <2>2. [daemons[cache] EXCEPT !.sock = "closed", !.shut = TRUE].sock = "closed"
    BY <2>1, DaemonFields
  <2>3. daemons' = [daemons EXCEPT ![cache] =
                      [daemons[cache] EXCEPT !.sock = "closed", !.shut = TRUE]]
    BY <1>1, <1>2
  <2>. QED BY <1>2, <2>2, <2>3
<1>5. OneOpen(act, lock', cache', daemons')
  <2>1. \A a \in Action : act[a].pc # "connect"
    BY <1>1, PageAssumption DEF SessionIInv, OneOpen
  <2>2. ASSUME NEW a \in Action, act[a].d # 0, daemons'[act[a].d].sock = "open" PROVE FALSE
    <3>1. act[a].d \in 1..Len(daemons)
      BY <2>2, Facts
    <3>2. daemons[act[a].d].sock = "open"
      BY <1>3, <2>2, <3>1 DEF Onward, Later
    <3>3. act[a].d = cache
      BY <2>1, <2>2, <3>2 DEF SessionIInv, OneOpen
    <3>. QED BY <1>4, <2>2, <3>3
  <2>3. 0 \in 0..Len(daemons')
    BY <1>3, WorldTypes DEF Onward
  <2>. QED BY <1>1, <2>1, <2>2, <2>3, PageAssumption DEF OneOpen
<1>. QED BY <1>1, <1>3, <1>5, ActionsWait

LEMMA PagesKeep ==
  ASSUME SessionIInv, NEW p \in Page, ClosePage(p) \/ OpenPage(p) PROVE SessionIInv'
<1>1. /\ \/ page' = [page EXCEPT ![p] = "open"] /\ page[p] # "closed"
         \/ page' = [page EXCEPT ![p] = "closed"]
      /\ Clocked' /\ UNCHANGED <<cache, lock, daemons, sessions, act>>
  BY ClockSame DEF ClosePage, OpenPage
<1>2. World(sessions, daemons, page) /\ OneOpen(act, lock, cache, daemons)
  BY DEF SessionIInv
<1>3. Onward
  BY <1>1, <1>2, PageTurned DEF Onward
<1>. QED BY <1>1, <1>2, <1>3, ActionsWait

LEMMA StillKeeps ==
  ASSUME SessionIInv, Clocked', UNCHANGED <<page, cache, lock, daemons, sessions, act>>
  PROVE  SessionIInv'
<1>1. Onward /\ OneOpen(act, lock, cache, daemons)
  BY OnwardSame DEF SessionIInv
<1>. QED BY <1>1, ActionsWait

-----------------------------------------------------------------------------
LEMMA SessionInit == Init => SessionIInv
<1>. SUFFICES ASSUME Init PROVE SessionIInv
  OBVIOUS
<1>1. Clocked
  BY DEF Init, Clocked
<1>2. World(sessions, daemons, page)
  <2>1. sessions = <<>> /\ daemons = <<>> /\ page \in Pages
    BY DEF Init, Pages
  <2>. QED BY <2>1 DEF World
<1>3. Start \in ActionState
  BY DEF Start, ActionState, Where, Stage
<1>4. Placed(Start)
  BY <1>3 DEF Start, Placed, Clicks, Call
<1>5. Knows(Start, sessions, daemons, page) /\ OnPage(Start, sessions, daemons, page)
  BY <1>2, WorldTypes DEF Start, Knows, OnPage, Clicks, Call
<1>6. act = [a \in Action |-> Start]
  BY DEF Init
<1>7. OneOpen(act, lock, cache, daemons)
  BY <1>6, PageAssumption DEF Init, OneOpen, Start
<1>. QED BY <1>1, <1>2, <1>3, <1>4, <1>5, <1>6, <1>7 DEF SessionIInv, Fits

LEMMA SessionNext == SessionIInv /\ [Next]_vars => SessionIInv'
<1>. SUFFICES ASSUME SessionIInv, [Next]_vars PROVE SessionIInv'
  OBVIOUS
<1>1. ASSUME NEW a \in Action, Step(a) PROVE SessionIInv'
  BY <1>1, UndiscoveredKeeps, ReuseKeeps, ConnectKeeps, ConnectedKeeps, ListTargetsKeeps,
     ReattachKeeps, EnableKeeps, SendKeeps, LostKeeps, LookKeeps, AttachKeeps,
     EnableDomainsKeeps, RetryKeeps DEF Step
<1>2. CASE Evict
  BY <1>2, EvictKeeps
<1>3. CASE Tick
  <2>1. Clocked' /\ UNCHANGED <<page, cache, lock, daemons, sessions, act>>
    BY <1>3 DEF Tick, SessionIInv, Clocked
  <2>. QED BY <2>1, StillKeeps
<1>4. ASSUME NEW p \in Page, ClosePage(p) \/ OpenPage(p) PROVE SessionIInv'
  BY <1>4, PagesKeep
<1>5. CASE UNCHANGED vars
  BY <1>5, ClockSame, StillKeeps DEF vars
<1>. QED BY <1>1, <1>2, <1>3, <1>4, <1>5 DEF Next

LEMMA SessionImplies == SessionIInv => SessionInv
<1>. SUFFICES ASSUME SessionIInv PROVE SessionInv
  OBVIOUS
<1>1. TypeOK
  BY DEF SessionIInv, Clocked, World, Pages, OneOpen, TypeOK
<1>2. Shared
  <2>. SUFFICES ASSUME NEW a \in Action, NEW b \in Action,
                       {act[a].pc, act[b].pc} \cap {"connect", "done"} = {},
                       act[a].d # 0, act[b].d # 0, Usable(act[a].d), Usable(act[b].d)
                PROVE  act[a].d = act[b].d
    BY DEF Shared
  <2>1. act[a].pc # "connect" /\ act[b].pc # "connect"
    OBVIOUS
  <2>2. act[a].d = cache /\ act[b].d = cache
    BY <2>1 DEF SessionIInv, OneOpen, Usable
  <2>. QED BY <2>2
<1>3. FiredWhereMeasured
  BY Facts DEF FiredWhereMeasured, Placed, OnPage
<1>. QED BY <1>1, <1>2, <1>3 DEF SessionInv

(* Whoever opens, closes or attaches what while a click is on its way, for *)
(* any number of actions and pages: two actions at work use one open       *)
(* daemon, and a click that is reported fired was pressed on the page its  *)
(* position was measured on, and released there unless that page closed.   *)
THEOREM SessionAlways == Spec => []SessionInv
BY SessionInit, SessionNext, SessionImplies, PTL DEF Spec

-----------------------------------------------------------------------------
(* The browser tool's daemon, which has nothing in common with the above   *)
(* but the browser.                                                        *)
USE ProcAssumption

CallState ==
  [kind : {"click", "restart_daemon"}, pc : Places, for : {"tool", "heal", "healed"},
   attempt : 0..1, heals : 0..1, waits : Proc \cup {Nobody}, status : {"running", "ok", "error"}]

(* A daemon that answers, if there is one, is connected to the browser. *)
Sound == Alive => ws[sock]

(* A call that nobody has given an excuse has not failed; it presses and   *)
(* releases through a daemon that answers, and once it has healed, through *)
(* one that is connected.                                                  *)
Promise(r, alive, live) ==
  /\ r.status # "error"
  /\ r.pc \in {"press", "release"} => alive
  /\ r.heals = 1 /\ r.pc \notin {"shut", "gone", "done"} => live

Heals(c) ==
  /\ call[c].pc = "start" => call[c].heals = 0
  /\ c \notin blamed => Promise(call[c], Alive, Sound)

Pending(d) == proc[d] \in {"checking", "starting"}

(* Unless starts overlapped, the daemon that answers is the one the path   *)
(* leads to, and one that has looked for it has not found any.             *)
Alone ==
  /\ \A d \in Proc : proc[d] = "listening" => sock = d
  /\ \A d, e \in Proc : Pending(d) /\ Pending(e) => d = e
  /\ \A d, e \in Proc : proc[d] = "starting" => proc[e] # "listening"

BrowserTypes ==
  /\ up \in BOOLEAN /\ restarts \in Nat
  /\ proc \in [Proc -> {"none", "checking", "starting", "listening", "leaving"}]
  /\ ws \in [Proc -> BOOLEAN] /\ blamed \subseteq Tool /\ raced \in BOOLEAN
  /\ sock \in Proc \cup {Nobody} /\ pidfile \in Proc \cup {Nobody}
  /\ call \in [Tool -> CallState]

BrowserInv ==
  /\ BrowserTypes
  /\ \A c \in Tool : Heals(c)
  /\ raced \/ Alone

LEMMA BrowserInit ==
  ASSUME DaemonInit
  PROVE  BrowserInv
<1>1. PICK left \in Left, d \in Proc :
        /\ up = (left # "nothing")
        /\ proc = [e \in Proc |-> IF up /\ e = d THEN "listening" ELSE "none"]
        /\ ws = [e \in Proc |-> left = "daemon" /\ e = d]
        /\ sock = IF up THEN d ELSE Nobody
        /\ pidfile = sock
  BY DEF DaemonInit
<1>2. PICK kind \in [Tool -> {"click", "restart_daemon"}] :
        call = [c \in Tool |-> [Fresh EXCEPT !.kind = kind[c]]]
  BY DEF DaemonInit
<1>3. restarts = 0 /\ blamed = {} /\ raced = FALSE
  BY DEF DaemonInit
<1>4. \A k \in {"click", "restart_daemon"} :
        /\ [Fresh EXCEPT !.kind = k] \in CallState
        /\ [Fresh EXCEPT !.kind = k].pc = "start"
        /\ [Fresh EXCEPT !.kind = k].heals = 0
        /\ [Fresh EXCEPT !.kind = k].status = "running"
  BY DEF Fresh, CallState, Places
<1>5. \A c \in Tool : /\ call[c] \in CallState /\ call[c].pc = "start"
                      /\ call[c].heals = 0 /\ call[c].status = "running"
  BY <1>2, <1>4
<1>6. BrowserTypes
  <2>1. call \in [Tool -> CallState]
    BY <1>2, <1>5
  <2>2. up \in BOOLEAN /\ ws \in [Proc -> BOOLEAN]
    BY <1>1
  <2>. QED
    BY <1>1, <1>3, <2>1, <2>2 DEF BrowserTypes
<1>7. \A c \in Tool : Heals(c)
  BY <1>5 DEF Heals, Promise
<1>8. Alone
  BY <1>1 DEF Alone, Pending
<1>. QED
  BY <1>6, <1>7, <1>8 DEF BrowserInv

LEMMA Counting == 0 \in 0..1 /\ 1 \in 0..1
OBVIOUS

(* The state of a call, field by field. *)
LEMMA CallFields ==
  ASSUME NEW r \in CallState
  PROVE  /\ r.pc \in Places /\ r.heals \in 0..1 /\ r.waits \in Proc \cup {Nobody}
         /\ \A w \in Places :
              /\ [r EXCEPT !.pc = w] \in CallState
              /\ [r EXCEPT !.pc = w].pc = w
              /\ [r EXCEPT !.pc = w].heals = r.heals
              /\ [r EXCEPT !.pc = w].status = r.status
BY DEF CallState

(* What call c may do to the others: nothing that a call without an excuse *)
(* counts on, or else it gives all of them one.                            *)
Spares == (Alive => Alive') /\ (Sound => Sound')
Blames(c) == \A b \in Tool : b # c /\ b \notin blamed' => call[b].pc \in {"start", "done"}

LEMMA CallHeals ==
  ASSUME BrowserTypes, \A b \in Tool : Heals(b),
         NEW c \in Tool, NEW q \in CallState, Becomes(c, q),
         \A b \in Tool : b # c /\ b \in blamed => b \in blamed',
         Spares \/ Blames(c),
         q.pc # "start",
         c \notin blamed' => Promise(q, Alive', Sound')
  PROVE  call' \in [Tool -> CallState] /\ \A b \in Tool : Heals(b)'
<1>1. call' = [call EXCEPT ![c] = q] /\ call \in [Tool -> CallState]
  BY DEF Becomes, BrowserTypes
<1>2. /\ call' \in [Tool -> CallState] /\ call'[c] = q
      /\ \A b \in Tool : b # c => call'[b] = call[b]
  BY <1>1
<1>3. ASSUME NEW b \in Tool, b # c
      PROVE  Heals(b)'
  <2>1. call'[b] = call[b] /\ Heals(b)
    BY <1>2, <1>3
  <2>2. ASSUME b \notin blamed'
        PROVE  Promise(call[b], Alive', Sound')
    <3>1. Promise(call[b], Alive, Sound)
      BY <1>3, <2>1, <2>2 DEF Heals
    <3>2. CASE Spares
      BY <3>1, <3>2 DEF Promise, Spares
    <3>3. CASE Blames(c)
      <4>1. call[b].pc \in {"start", "done"}
        BY <1>3, <2>2, <3>3 DEF Blames
      <4>2. call[b].pc = "start" => call[b].heals # 1
        BY <2>1 DEF Heals
      <4>. QED
        BY <3>1, <4>1, <4>2 DEF Promise
    <3>. QED
      BY <3>2, <3>3
  <2>. QED
    BY <2>1, <2>2 DEF Heals
<1>4. Heals(c)'
  BY <1>2 DEF Heals
<1>. QED
  BY <1>2, <1>3, <1>4

(* The daemons move without the calls. *)
LEMMA DaemonHeals ==
  ASSUME \A b \in Tool : Heals(b), Spares, UNCHANGED <<call, blamed>>
  PROVE  \A b \in Tool : Heals(b)'
<1>1. ASSUME NEW b \in Tool, b \notin blamed'
      PROVE  Promise(call[b], Alive', Sound')
  <2>1. Promise(call[b], Alive, Sound)
    BY <1>1 DEF Heals
  <2>. QED
    BY <2>1 DEF Promise, Spares
<1>. QED
  BY <1>1 DEF Heals

LEMMA Quietly ==
  ASSUME UNCHANGED <<proc, ws, sock>>
  PROVE  Spares /\ (Alive' <=> Alive) /\ (Sound' <=> Sound)
BY DEF Spares, Sound, Alive

(* While the daemons stay, so does what is said of them. *)
LEMMA StayAlone ==
  ASSUME raced \/ Alone, UNCHANGED <<proc, sock, raced>>
  PROVE  (raced \/ Alone)'
BY DEF Alone, Pending

LEMMA BeginKeeps ==
  ASSUME BrowserInv, NEW c \in Tool, Begin(c)
  PROVE  BrowserInv'
<1>. DEFINE w == IF call[c].kind = "restart_daemon" THEN "shut"
                 ELSE IF Alive THEN "press" ELSE "alive"
            q == [call[c] EXCEPT !.pc = w]
<1>1. /\ BrowserTypes /\ call[c] \in CallState /\ Heals(c) /\ call[c].pc = "start"
      /\ call[c].heals = 0 /\ (c \notin blamed => call[c].status # "error")
  BY DEF BrowserInv, BrowserTypes, Begin, Heals, Promise
<1>2. /\ UNCHANGED <<raced, up, restarts, proc, ws, sock, pidfile>>
      /\ blamed' = blamed \/ blamed' = blamed \cup {c}
  BY DEF Begin, browser, files
<1>3. w \in Places /\ Becomes(c, q)
  BY DEF Begin, Go, Places
<1>4. q \in CallState /\ q.pc = w /\ q.heals = 0 /\ q.status = call[c].status
  BY <1>1, <1>3, CallFields
<1>. HIDE DEF q
<1>5. c \notin blamed' => Promise(q, Alive', Sound')
  BY <1>1, <1>2, <1>4, Quietly DEF Promise
<1>6. call' \in [Tool -> CallState] /\ \A b \in Tool : Heals(b)'
  BY <1>1, <1>2, <1>3, <1>4, <1>5, Quietly, CallHeals DEF BrowserInv
<1>. QED
  BY <1>1, <1>2, <1>6, StayAlone DEF BrowserInv, BrowserTypes

LEMMA EnsureAliveKeeps ==
  ASSUME BrowserInv, NEW c \in Tool, EnsureAlive(c)
  PROVE  BrowserInv'
<1>. DEFINE w == IF Alive THEN "probe" ELSE "spawn"
            q == [call[c] EXCEPT !.pc = w, !.attempt = 0]
<1>1. BrowserTypes /\ call[c] \in CallState /\ Heals(c) /\ call[c].pc = "alive"
  BY DEF BrowserInv, BrowserTypes, EnsureAlive
<1>2. UNCHANGED <<blamed, raced, up, restarts, proc, ws, sock, pidfile>> /\ Becomes(c, q)
  BY DEF EnsureAlive, browser, files, history
<1>3. /\ q \in CallState /\ q.pc = w /\ q.heals = call[c].heals /\ q.status = call[c].status
      /\ w \in {"probe", "spawn"}
  BY <1>1, Counting DEF CallState, Places
<1>. HIDE DEF q, w
<1>4. c \notin blamed' => Promise(q, Alive', Sound')
  BY <1>1, <1>2, <1>3, Quietly DEF Promise, Heals
<1>5. call' \in [Tool -> CallState] /\ \A b \in Tool : Heals(b)'
  BY <1>1, <1>2, <1>3, <1>4, Quietly, CallHeals DEF BrowserInv
<1>. QED
  BY <1>1, <1>2, <1>5, StayAlone DEF BrowserInv, BrowserTypes

(* ensure_daemon ends where a daemon answers. *)
LEMMA EnsuredFields ==
  ASSUME NEW r \in CallState
  PROVE  LET q == [r EXCEPT !.pc = "press", !.for = "tool", !.waits = Nobody] IN
         /\ q \in CallState /\ q.pc = "press" /\ q.heals = r.heals /\ q.status = r.status
BY DEF CallState, Places

LEMMA EnsuredHeals ==
  ASSUME BrowserInv, NEW c \in Tool, Ensured(c), Alive,
         call[c].pc \in {"probe", "wait"}, UNCHANGED <<blamed, proc, ws, sock>>
  PROVE  call' \in [Tool -> CallState] /\ \A b \in Tool : Heals(b)'
<1>. DEFINE q == [call[c] EXCEPT !.pc = "press", !.for = "tool", !.waits = Nobody]
<1>1. BrowserTypes /\ call[c] \in CallState /\ Heals(c)
  BY DEF BrowserInv, BrowserTypes
<1>2. q \in CallState /\ q.pc = "press" /\ q.heals = call[c].heals /\ q.status = call[c].status
  BY <1>1, EnsuredFields
<1>3. Becomes(c, q)
  BY DEF Ensured
<1>. HIDE DEF q
<1>4. c \notin blamed' => Promise(q, Alive', Sound')
  BY <1>1, <1>2, Quietly DEF Promise, Heals
<1>. QED
  BY <1>1, <1>2, <1>3, <1>4, Quietly, CallHeals DEF BrowserInv

(* A call goes on without any claim on the daemon. *)
LEMMA GoesHeals ==
  ASSUME BrowserInv, NEW c \in Tool, NEW w \in {"shut", "gone", "done"},
         NEW q \in CallState, Becomes(c, q), q.pc = w,
         c \notin blamed' => q.status # "error",
         \A b \in Tool : b # c /\ b \in blamed => b \in blamed',
         Spares \/ Blames(c)
  PROVE  call' \in [Tool -> CallState] /\ \A b \in Tool : Heals(b)'
<1>1. BrowserTypes /\ (c \notin blamed' => Promise(q, Alive', Sound'))
  BY DEF BrowserInv, Promise
<1>. QED
  BY <1>1, CallHeals DEF BrowserInv

LEMMA EndFields ==
  ASSUME NEW status \in {"ok", "error"}
  PROVE  LET q == [Fresh EXCEPT !.pc = "done", !.status = status] IN
         q \in CallState /\ q.pc = "done" /\ q.status = status
<1> DEFINE r == [Fresh EXCEPT !.pc = "done"]
<1>1. r = [kind |-> "click", pc |-> "done", for |-> "tool", attempt |-> 0, heals |-> 0,
           waits |-> Nobody, status |-> "running"]
  BY DEF Fresh
<1>2. r \in CallState /\ r.pc = "done"
  BY <1>1, Counting DEF CallState, Places
<1>3. [Fresh EXCEPT !.pc = "done", !.status = status] = [r EXCEPT !.status = status]
  BY DEF Fresh
<1> HIDE DEF r
<1>4. [r EXCEPT !.status = status] \in CallState
  BY <1>2 DEF CallState
<1>5. [r EXCEPT !.status = status].pc = "done" /\ [r EXCEPT !.status = status].status = status
  BY <1>2 DEF CallState
<1>. QED
  BY <1>3, <1>4, <1>5

LEMMA ProbeKeeps ==
  ASSUME BrowserInv, NEW c \in Tool, Probe(c)
  PROVE  BrowserInv'
<1>1. BrowserTypes /\ call[c] \in CallState /\ Heals(c) /\ call[c].pc = "probe"
  BY DEF BrowserInv, BrowserTypes, Probe
<1>2. UNCHANGED <<blamed, raced, up, restarts, proc, ws, sock, pidfile>>
  BY DEF Probe, browser, files, history
<1>3. call' \in [Tool -> CallState] /\ \A b \in Tool : Heals(b)'
  <2>1. CASE Alive /\ Ensured(c)
    BY <1>1, <1>2, <2>1, EnsuredHeals
  <2>2. CASE Go(c, "shut")
    <3>. DEFINE q == [call[c] EXCEPT !.pc = "shut"]
    <3>1. q \in CallState /\ q.pc = "shut" /\ q.status = call[c].status /\ Becomes(c, q)
      BY <1>1, <2>2, CallFields DEF Go, Places
    <3>2. c \notin blamed' => q.status # "error"
      BY <1>1, <1>2, <3>1 DEF Heals, Promise
    <3>. HIDE DEF q
    <3>. QED
      BY <1>2, <3>1, <3>2, Quietly, GoesHeals
  <2>. QED
    BY <2>1, <2>2 DEF Probe
<1>. QED
  BY <1>1, <1>2, <1>3, StayAlone DEF BrowserInv, BrowserTypes

LEMMA SpawnKeeps ==
  ASSUME BrowserInv, NEW c \in Tool, Spawn(c)
  PROVE  BrowserInv'
<1>1. BrowserTypes /\ call[c] \in CallState /\ Heals(c) /\ call[c].pc = "spawn"
  BY DEF BrowserInv, BrowserTypes, Spawn
<1>2. PICK d \in Proc :
        /\ Free(d)
        /\ proc' = [proc EXCEPT ![d] = "checking"] /\ ws' = [ws EXCEPT ![d] = FALSE]
        /\ Becomes(c, [call[c] EXCEPT !.pc = "wait", !.waits = d])
  BY DEF Spawn
<1>3. /\ UNCHANGED <<blamed, up, restarts, sock, pidfile>>
      /\ raced' = (raced \/ \E e \in Proc : proc[e] \in {"checking", "starting"})
  BY DEF Spawn, browser, files
<1>. DEFINE q == [call[c] EXCEPT !.pc = "wait", !.waits = d]
<1>4. q \in CallState /\ q.pc = "wait" /\ q.heals = call[c].heals /\ q.status = call[c].status
  BY <1>1 DEF CallState, Places
<1>5. /\ proc' \in [Proc -> {"none", "checking", "starting", "listening", "leaving"}]
      /\ ws' \in [Proc -> BOOLEAN] /\ d # sock
      /\ proc[d] = "none" /\ proc'[d] = "checking" /\ \A e \in Proc : e # d => proc'[e] = proc[e]
      /\ \A e \in Proc : e # d => ws'[e] = ws[e]
  BY <1>1, <1>2, FALSE \in BOOLEAN DEF BrowserTypes, Free
<1>6. (Alive' <=> Alive) /\ (Sound' <=> Sound)
  BY <1>1, <1>3, <1>5 DEF Alive, Sound, BrowserTypes
<1>. HIDE DEF q
<1>7. c \notin blamed' => Promise(q, Alive', Sound')
  BY <1>1, <1>3, <1>4, <1>6 DEF Promise, Heals
<1>8. call' \in [Tool -> CallState] /\ \A b \in Tool : Heals(b)'
  BY <1>1, <1>2, <1>3, <1>4, <1>6, <1>7, CallHeals DEF BrowserInv, Spares, q
<1>9. (raced \/ Alone)'
  <2>1. ASSUME ~raced'
        PROVE  Alone'
    <3>1. Alone /\ \A e \in Proc : ~Pending(e)
      BY <1>3, <2>1 DEF BrowserInv, Pending
    <3>. QED
      BY <1>3, <1>5, <3>1 DEF Alone, Pending
  <2>. QED
    BY <2>1
<1>. QED
  BY <1>1, <1>3, <1>5, <1>8, <1>9 DEF BrowserInv, BrowserTypes

LEMMA WaitKeeps ==
  ASSUME BrowserInv, NEW c \in Tool, Wait(c)
  PROVE  BrowserInv'
<1>1. BrowserTypes /\ call[c] \in CallState /\ Heals(c) /\ call[c].pc = "wait"
  BY DEF BrowserInv, BrowserTypes, Wait
<1>2. /\ UNCHANGED <<raced, up, restarts, proc, ws, sock, pidfile>>
      /\ blamed' = IF Alive THEN blamed ELSE blamed \cup {c}
  BY DEF Wait, browser, files
<1>3. call' \in [Tool -> CallState] /\ \A b \in Tool : Heals(b)'
  <2>1. CASE Alive /\ Ensured(c)
    BY <1>1, <1>2, <2>1, EnsuredHeals
  <2>2. CASE ~Alive /\ Becomes(c, [call[c] EXCEPT !.pc = "shut", !.attempt = 1,
                                                               !.waits = Nobody])
    <3>. DEFINE q == [call[c] EXCEPT !.pc = "shut", !.attempt = 1, !.waits = Nobody]
    <3>1. q \in CallState /\ q.pc = "shut"
      BY <1>1, Counting DEF CallState, Places
    <3>. HIDE DEF q
    <3>. QED
      BY <1>2, <2>2, <3>1, Quietly, GoesHeals DEF q
  <2>3. CASE ~Alive /\ End(c, "error")
    BY <1>2, <2>3, EndFields, Quietly, GoesHeals DEF End
  <2>. QED
    BY <2>1, <2>2, <2>3 DEF Wait
<1>. QED
  BY <1>1, <1>2, <1>3, StayAlone DEF BrowserInv, BrowserTypes

(* Whoever stops a daemon gives everybody on the way an excuse. *)
LEMMA BlamesOthers ==
  ASSUME NEW c \in Tool, Others(c) \subseteq blamed'
  PROVE  Blames(c)
BY DEF Blames, Others

LEMMA ShutKeeps ==
  ASSUME BrowserInv, NEW c \in Tool, Shut(c)
  PROVE  BrowserInv'
<1>. DEFINE q == [call[c] EXCEPT !.waits = pidfile, !.pc = "gone"]
<1>1. BrowserTypes /\ call[c] \in CallState /\ Heals(c)
  BY DEF BrowserInv, BrowserTypes
<1>2. /\ UNCHANGED <<raced, up, restarts, ws, pidfile>> /\ Becomes(c, q)
      /\ blamed' = blamed \cup Others(c)
  BY DEF Shut, browser
<1>3. q \in CallState /\ q.pc = "gone" /\ q.status = call[c].status
  BY <1>1 DEF CallState, Places, BrowserTypes
<1>. HIDE DEF q
<1>4. Blames(c)
  BY <1>2, BlamesOthers
<1>5. call' \in [Tool -> CallState] /\ \A b \in Tool : Heals(b)'
  BY <1>1, <1>2, <1>3, <1>4, GoesHeals DEF Heals, Promise
<1>6. CASE ~Alive
  <2>1. UNCHANGED <<proc, sock>>
    BY <1>6 DEF Shut
  <2>. QED
    BY <1>1, <1>2, <1>5, <2>1, StayAlone DEF BrowserInv, BrowserTypes, Others
<1>7. CASE Alive
  <2>1. proc' = [proc EXCEPT ![sock] = "leaving"] /\ sock' = Nobody /\ sock \in Proc
    BY <1>1, <1>7 DEF Shut, Alive, BrowserTypes
  <2>2. /\ proc' \in [Proc -> {"none", "checking", "starting", "listening", "leaving"}]
        /\ proc'[sock] = "leaving" /\ \A e \in Proc : e # sock => proc'[e] = proc[e]
    BY <1>1, <2>1 DEF BrowserTypes
  <2>3. Alone => Alone'
    BY <2>1, <2>2 DEF Alone, Pending
  <2>. QED
    BY <1>1, <1>2, <1>5, <2>1, <2>2, <2>3 DEF BrowserInv, BrowserTypes, Others
<1>. QED
  BY <1>6, <1>7

LEMMA GoneKeeps ==
  ASSUME BrowserInv, NEW c \in Tool, Gone(c)
  PROVE  BrowserInv'
<1>. DEFINE d == call[c].waits
<1>1. BrowserTypes /\ call[c] \in CallState /\ Heals(c) /\ d \in Proc \cup {Nobody}
  BY CallFields DEF BrowserInv, BrowserTypes
<1>2. /\ UNCHANGED <<up, restarts>> /\ sock' = Nobody /\ pidfile' = Nobody
      /\ proc' = IF d # Nobody THEN [proc EXCEPT ![d] = "none"] ELSE proc
      /\ ws' = IF d # Nobody THEN [ws EXCEPT ![d] = FALSE] ELSE ws
      /\ raced' = (raced \/ \E e \in Proc \ {d} : sock = e /\ proc[e] = "listening")
      /\ blamed' = (blamed \ (IF call'[c].status = "ok" THEN {c} ELSE {}))
                   \cup Others(c)
  BY DEF Gone, browser
<1>3. PICK q \in CallState : /\ Becomes(c, q) /\ q.pc # "start"
                             /\ \/ q.status = call[c].status /\ q.pc \in {"alive", "spawn"}
                                \/ q.status = "ok" /\ q.pc = "done"
  <2>1. CASE End(c, "ok")
    BY <2>1, EndFields DEF End
  <2>2. CASE Becomes(c, [call[c] EXCEPT !.pc = "alive", !.for = "healed", !.waits = Nobody])
    <3>. DEFINE q == [call[c] EXCEPT !.pc = "alive", !.for = "healed", !.waits = Nobody]
    <3>1. q \in CallState /\ q.pc = "alive" /\ q.status = call[c].status
      BY <1>1 DEF CallState, Places
    <3>. HIDE DEF q
    <3>. QED
      BY <2>2, <3>1 DEF q
  <2>3. CASE Becomes(c, [call[c] EXCEPT !.pc = "spawn", !.waits = Nobody])
    <3>. DEFINE q == [call[c] EXCEPT !.pc = "spawn", !.waits = Nobody]
    <3>1. q \in CallState /\ q.pc = "spawn" /\ q.status = call[c].status
      BY <1>1 DEF CallState, Places
    <3>. HIDE DEF q
    <3>. QED
      BY <2>3, <3>1 DEF q
  <2>. QED
    BY <2>1, <2>2, <2>3 DEF Gone
<1>4. call'[c] = q
  BY <1>1, <1>3 DEF BrowserTypes, Becomes
<1>5. Blames(c) /\ ~Alive' /\ Sound'
  BY <1>2, BlamesOthers DEF Alive, Sound
<1>6. c \notin blamed' => Promise(q, Alive', Sound')
  <2>1. CASE q.status = "ok" /\ q.pc = "done"
    BY <2>1 DEF Promise
  <2>2. CASE q.status = call[c].status /\ q.pc \in {"alive", "spawn"}
    <3>1. ASSUME q.status = "error"
          PROVE  c \in blamed'
      BY <1>1, <1>2, <1>4, <2>2, <3>1 DEF Heals, Promise
    <3>. QED
      BY <1>5, <2>2, <3>1 DEF Promise
  <2>. QED
    BY <1>3, <2>1, <2>2
<1>7. \A b \in Tool : b # c /\ b \in blamed => b \in blamed'
  BY <1>2
<1>8. call' \in [Tool -> CallState] /\ \A b \in Tool : Heals(b)'
  BY <1>1, <1>3, <1>5, <1>6, <1>7, CallHeals DEF BrowserInv
<1>9. /\ proc' \in [Proc -> {"none", "checking", "starting", "listening", "leaving"}]
      /\ ws' \in [Proc -> BOOLEAN]
      /\ \A e \in Proc : e # d => proc'[e] = proc[e]
      /\ d # Nobody => proc'[d] = "none"
  BY <1>1, <1>2, FALSE \in BOOLEAN DEF BrowserTypes
<1>10. (raced \/ Alone)'
  <2>1. ASSUME ~raced'
        PROVE  Alone'
    <3>1. Alone /\ \A e \in Proc : e # d /\ sock = e => proc[e] # "listening"
      BY <1>2, <2>1 DEF BrowserInv
    <3>2. \A e \in Proc : e = d => proc'[e] = "none"
      BY <1>9
    <3>3. \A e \in Proc : proc'[e] = proc[e] \/ proc'[e] = "none"
      BY <1>9, <3>2
    <3>4. \A e \in Proc : proc'[e] # "listening"
      BY <1>9, <3>1, <3>2 DEF Alone
    <3>. QED
      BY <3>1, <3>3, <3>4 DEF Alone, Pending
  <2>. QED
    BY <2>1
<1>. QED
  BY <1>1, <1>2, <1>8, <1>9, <1>10 DEF BrowserInv, BrowserTypes, Others

LEMMA DeliverKeeps ==
  ASSUME BrowserInv, NEW c \in Tool, Deliver(c)
  PROVE  BrowserInv'
<1>1. BrowserTypes /\ call[c] \in CallState /\ Heals(c) /\ call[c].pc \in {"press", "release"}
  BY DEF BrowserInv, BrowserTypes, Deliver
<1>2. /\ UNCHANGED <<raced, up, restarts, proc, ws, sock, pidfile>>
      /\ blamed' =
           IF call'[c].status = "ok" THEN blamed \ {c}
           ELSE IF call'[c].status = "error" /\ Alive /\ call[c].heals = 0 THEN blamed \cup {c}
           ELSE blamed
  BY DEF Deliver, browser, files
<1>3. call' \in [Tool -> CallState] /\ \A b \in Tool : Heals(b)'
  <2>1. CASE Alive /\ ws[sock] /\ Go(c, "release")
    <3>. DEFINE q == [call[c] EXCEPT !.pc = "release"]
    <3>1. /\ q \in CallState /\ q.pc = "release" /\ q.heals = call[c].heals
          /\ q.status = call[c].status /\ Becomes(c, q)
      BY <1>1, <2>1, CallFields DEF Go, Places
    <3>. HIDE DEF q
    <3>2. call'[c] = q
      BY <1>1, <3>1 DEF BrowserTypes, Becomes
    <3>3. c \notin blamed' => Promise(q, Alive', Sound')
      BY <1>1, <1>2, <2>1, <3>1, <3>2, Quietly DEF Promise, Heals, Sound
    <3>. QED
      BY <1>1, <1>2, <3>1, <3>3, Quietly, CallHeals DEF BrowserInv
  <2>2. CASE End(c, "ok")
    BY <1>2, <2>2, EndFields, Quietly, GoesHeals DEF End
  <2>3. CASE Becomes(c, [call[c] EXCEPT !.pc = "shut", !.heals = 1, !.for = "heal"])
    <3>. DEFINE q == [call[c] EXCEPT !.pc = "shut", !.heals = 1, !.for = "heal"]
    <3>1. q \in CallState /\ q.pc = "shut" /\ q.status = call[c].status
      BY <1>1, Counting DEF CallState, Places
    <3>. HIDE DEF q
    <3>2. call'[c] = q
      BY <1>1, <2>3 DEF BrowserTypes, Becomes, q
    <3>3. c \notin blamed' => q.status # "error"
      BY <1>1, <1>2, <3>1, <3>2 DEF Promise, Heals
    <3>. QED
      BY <1>2, <2>3, <3>1, <3>3, Quietly, GoesHeals DEF q
  <2>4. CASE End(c, "error") /\ ~(Alive /\ ws[sock])
    <3>. DEFINE q == [Fresh EXCEPT !.pc = "done", !.status = "error"]
    <3>1. Becomes(c, q) /\ q \in CallState /\ q.pc = "done" /\ q.status = "error"
      BY <2>4, EndFields DEF End
    <3>. HIDE DEF q
    <3>2. call'[c] = q
      BY <1>1, <3>1 DEF BrowserTypes, Becomes
    <3>3. c \in blamed'
      <4>1. CASE Alive /\ call[c].heals = 0
        BY <1>2, <3>1, <3>2, <4>1
      <4>2. CASE ~(Alive /\ call[c].heals = 0)
        <5>1. call[c].heals # 0 => call[c].heals = 1
          BY <1>1, CallFields
        <5>2. c \in blamed
          BY <1>1, <2>4, <4>2, <5>1 DEF Heals, Promise, Sound
        <5>. QED
          BY <1>2, <3>1, <3>2, <4>2, <5>2
      <4>. QED
        BY <4>1, <4>2
    <3>. QED
      BY <1>2, <3>1, <3>2, <3>3, Quietly, GoesHeals
  <2>. QED
    BY <2>1, <2>2, <2>3, <2>4 DEF Deliver
<1>. QED
  BY <1>1, <1>2, <1>3, StayAlone DEF BrowserInv, BrowserTypes

(* A daemon's own steps neither take the path from a daemon that answers   *)
(* nor put a lost connection on it.                                        *)
LEMMA CheckKeeps ==
  ASSUME BrowserInv, NEW d \in Proc, Check(d)
  PROVE  BrowserInv'
<1>1. /\ BrowserTypes /\ proc[d] = "checking"
      /\ UNCHANGED <<blamed, raced, up, restarts, ws, sock, call>>
  BY DEF BrowserInv, Check, browser, history
<1>2. PICK s \in {"none", "starting"} : /\ proc' = [proc EXCEPT ![d] = s]
                                        /\ s = "starting" => ~Alive
                                        /\ pidfile' \in {pidfile, d}
  BY DEF Check
<1>3. /\ proc' \in [Proc -> {"none", "checking", "starting", "listening", "leaving"}]
      /\ proc'[d] = s /\ \A e \in Proc : e # d => proc'[e] = proc[e]
  BY <1>1, <1>2 DEF BrowserTypes
<1>4. Spares
  BY <1>1, <1>2, <1>3 DEF Spares, Sound, Alive, BrowserTypes
<1>5. \A b \in Tool : Heals(b)'
  BY <1>1, <1>4, DaemonHeals DEF BrowserInv
<1>6. ASSUME Alone
      PROVE  Alone'
  <2>1. s = "starting" => \A e \in Proc : proc[e] # "listening"
    BY <1>2, <1>6 DEF Alone, Alive
  <2>. QED
    BY <1>1, <1>2, <1>3, <1>6, <2>1 DEF Alone, Pending
<1>. QED
  BY <1>1, <1>2, <1>3, <1>5, <1>6 DEF BrowserInv, BrowserTypes

LEMMA StartKeeps ==
  ASSUME BrowserInv, NEW d \in Proc, StartUp(d)
  PROVE  BrowserInv'
<1>1. BrowserTypes /\ proc[d] = "starting" /\ UNCHANGED <<blamed, raced, up, restarts, call>>
  BY DEF BrowserInv, StartUp, browser, history
<1>2. CASE /\ proc' = [proc EXCEPT ![d] = "listening"] /\ ws' = [ws EXCEPT ![d] = TRUE]
           /\ sock' = d /\ pidfile' = pidfile
  <2>1. /\ proc' \in [Proc -> {"none", "checking", "starting", "listening", "leaving"}]
        /\ ws' \in [Proc -> BOOLEAN] /\ ws'[d] = TRUE
        /\ proc'[d] = "listening" /\ \A e \in Proc : e # d => proc'[e] = proc[e]
    BY <1>1, <1>2, TRUE \in BOOLEAN DEF BrowserTypes
  <2>2. Spares
    BY <1>2, <2>1 DEF Spares, Sound, Alive
  <2>3. \A b \in Tool : Heals(b)'
    BY <1>1, <2>2, DaemonHeals DEF BrowserInv
  <2>4. ASSUME Alone
        PROVE  Alone'
    <3>1. \A e \in Proc : e # d => ~Pending(e) /\ proc[e] # "listening"
      BY <1>1, <2>4 DEF Alone, Pending
    <3>. QED
      BY <1>2, <2>1, <3>1 DEF Alone, Pending
  <2>. QED
    BY <1>1, <1>2, <2>1, <2>3, <2>4 DEF BrowserInv, BrowserTypes
<1>3. CASE proc' = [proc EXCEPT ![d] = "none"] /\ pidfile' = Nobody /\ UNCHANGED <<ws, sock>>
  <2>1. /\ proc' \in [Proc -> {"none", "checking", "starting", "listening", "leaving"}]
        /\ proc'[d] = "none" /\ \A e \in Proc : e # d => proc'[e] = proc[e]
    BY <1>1, <1>3 DEF BrowserTypes
  <2>2. Spares
    BY <1>1, <1>3, <2>1 DEF Spares, Sound, Alive, BrowserTypes
  <2>3. \A b \in Tool : Heals(b)'
    BY <1>1, <2>2, DaemonHeals DEF BrowserInv
  <2>4. Alone => Alone'
    BY <1>3, <2>1 DEF Alone, Pending
  <2>. QED
    BY <1>1, <1>3, <2>1, <2>3, <2>4 DEF BrowserInv, BrowserTypes
<1>. QED
  BY <1>2, <1>3 DEF StartUp

LEMMA ExitKeeps ==
  ASSUME BrowserInv, NEW d \in Proc, Exit(d)
  PROVE  BrowserInv'
<1>1. /\ BrowserTypes /\ proc[d] = "leaving"
      /\ UNCHANGED <<blamed, raced, up, restarts, sock, call>> /\ pidfile' = Nobody
      /\ proc' = [proc EXCEPT ![d] = "none"] /\ ws' = [ws EXCEPT ![d] = FALSE]
  BY DEF BrowserInv, Exit, browser, history
<1>2. /\ proc' \in [Proc -> {"none", "checking", "starting", "listening", "leaving"}]
      /\ ws' \in [Proc -> BOOLEAN]
      /\ proc'[d] = "none" /\ \A e \in Proc : e # d => proc'[e] = proc[e]
      /\ \A e \in Proc : e # d => ws'[e] = ws[e]
  BY <1>1, FALSE \in BOOLEAN DEF BrowserTypes
<1>3. Spares
  BY <1>1, <1>2 DEF Spares, Sound, Alive, BrowserTypes
<1>4. \A b \in Tool : Heals(b)'
  BY <1>1, <1>3, DaemonHeals DEF BrowserInv
<1>5. Alone => Alone'
  BY <1>1, <1>2 DEF Alone, Pending
<1>. QED
  BY <1>1, <1>2, <1>4, <1>5 DEF BrowserInv, BrowserTypes

(* The browser's own comings and goings excuse every call on its way. *)
LEMMA BrowserKeeps ==
  ASSUME BrowserInv, Browser
  PROVE  BrowserInv'
<1>1. /\ BrowserTypes /\ UNCHANGED <<raced, proc, sock, pidfile, call>>
      /\ up' = ~up /\ restarts' = restarts + 1 /\ ws' = [d \in Proc |-> FALSE]
      /\ blamed' = blamed \cup {c \in Tool : call[c].pc \notin {"start", "done"}}
  BY DEF BrowserInv, Browser, files
<1>2. ASSUME NEW b \in Tool
      PROVE  Heals(b)'
  <2>1. Heals(b)
    BY DEF BrowserInv
  <2>2. ASSUME b \notin blamed'
        PROVE  Promise(call[b], Alive', Sound')
    <3>1. call[b].pc \in {"start", "done"} /\ Promise(call[b], Alive, Sound)
      BY <1>1, <2>1, <2>2 DEF Heals
    <3>. QED
      BY <2>1, <3>1 DEF Heals, Promise
  <2>. QED
    BY <1>1, <2>1, <2>2 DEF Heals
<1>3. /\ up' \in BOOLEAN /\ restarts' \in Nat /\ ws' \in [Proc -> BOOLEAN]
  BY <1>1, FALSE \in BOOLEAN DEF BrowserTypes
<1>. QED
  BY <1>1, <1>2, <1>3, StayAlone DEF BrowserInv, BrowserTypes

LEMMA BrowserNext ==
  ASSUME BrowserInv, [DaemonNext]_daemonVars
  PROVE  BrowserInv'
<1>1. ASSUME NEW c \in Tool, CallStep(c)
      PROVE  BrowserInv'
  BY <1>1, BeginKeeps, EnsureAliveKeeps, ProbeKeeps, SpawnKeeps, WaitKeeps, ShutKeeps,
     GoneKeeps, DeliverKeeps DEF CallStep
<1>2. ASSUME NEW d \in Proc, ProcStep(d)
      PROVE  BrowserInv'
  BY <1>2, CheckKeeps, StartKeeps, ExitKeeps DEF ProcStep
<1>3. CASE UNCHANGED daemonVars
  <2>1. UNCHANGED <<up, restarts, proc, ws, sock, pidfile, call, blamed, raced>>
    BY <1>3 DEF daemonVars
  <2>2. \A b \in Tool : Heals(b)'
    BY <2>1, Quietly, DaemonHeals DEF BrowserInv
  <2>. QED
    BY <2>1, <2>2, StayAlone DEF BrowserInv, BrowserTypes
<1>. QED
  BY <1>1, <1>2, <1>3, BrowserKeeps DEF DaemonNext

LEMMA BrowserImplies ==
  ASSUME BrowserInv
  PROVE  DaemonInv
<1>1. DaemonTypeOK
  BY DEF BrowserInv, BrowserTypes, CallState, DaemonTypeOK
<1>2. FailsWithCause
  BY DEF BrowserInv, Heals, Promise, FailsWithCause
<1>3. OneDaemonUnlessRaced
  BY DEF BrowserInv, Alone, OneDaemonUnlessRaced, OneDaemon
<1>. QED
  BY <1>1, <1>2, <1>3 DEF DaemonInv

(* Whatever it finds, a tool call fails only with a cause outside of it,   *)
(* and only overlapping starts, or a path removed from under its daemon,   *)
(* leave two daemons that answer: for any calls, processes and restarts of *)
(* the browser (ensure_daemon, restart_daemon).                            *)
THEOREM DaemonAlways == DaemonSpec => []DaemonInv
BY BrowserInit, BrowserNext, BrowserImplies, PTL DEF DaemonSpec
=============================================================================
