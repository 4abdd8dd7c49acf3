--------------------------- MODULE TorrentSession ---------------------------
(***************************************************************************)
(* The session and torrent handles of src/src/torrent_shim.cpp: the one    *)
(* live session, its torrent table and the reverse map idOf, as the caller *)
(* adds, removes and polls while libtorrent adds, removes and destroys the *)
(* torrents behind them.                                                   *)
(*                                                                         *)
(* A torrent (Tid) is one libtorrent object, with one lt::torrent_handle.  *)
(* libtorrent is external. What the code relies on: adding an info-hash    *)
(* the session already has returns the existing handle; a removal is       *)
(* carried out and announced by libtorrent's thread, before any later      *)
(* synchronous call; the handle becomes invalid some time after that.      *)
(*                                                                         *)
(* One alert is extracted per step, libtorrent running in between; whether *)
(* an entry fits the caller's buffer is left open (AlertDrain models it).  *)
(*                                                                         *)
(* adds, posted, sessionsMade, issued, gone and tame are history.          *)
(***************************************************************************)
EXTENDS HandleTable, FiniteSets

CONSTANTS
  MaxTorrents,   \* bound: torrents libtorrent creates in a behaviour
  MaxAdds,       \* bound: add calls
  MaxPosted,     \* bound: alerts other than added and removed
  MaxSessions,   \* bound: sessions made
  Hashes,        \* info-hashes
  Duplicates,    \* whether the caller adds an info-hash twice
  SelfRemoval    \* whether libtorrent removes a torrent on its own

ASSUME SessionAssumption ==
  /\ MaxTorrents \in Nat /\ MaxAdds \in Nat /\ MaxPosted \in Nat /\ MaxSessions \in Nat
  /\ Duplicates \in BOOLEAN /\ SelfRemoval \in BOOLEAN
  /\ None \notin 1..MaxTorrents

Tid == 1..MaxTorrents

VARIABLES
  sessions, gLive,          \* g_sessions, g_live_session
  torrents, idOf, stash,    \* the live SessionState; idOf[x] = 0: not in the map
  polling, batch, out, stashing,   \* the locals of btx_pop_alerts
  engine,                   \* per torrent: its life in libtorrent
  hash,                     \* per torrent: its info-hash
  ltQueue,                  \* libtorrent's alert queue
  adds, posted, sessionsMade, issued,
  gone,                     \* torrents whose removed event the script has got
  tame                      \* no torrent was added twice or left on its own

shimVars   == <<sessions, gLive>>
stateVars  == <<torrents, idOf>>
popVars    == <<polling, batch, out, stashing>>
engineVars == <<engine, hash>>
boundVars  == <<adds, posted, sessionsMade>>
histVars   == <<issued, gone, tame>>
vars == <<shimVars, stateVars, stash, popVars, engineVars, ltQueue, boundVars, histVars>>

FreshState_keepsStash ==    \* slip: the stash outlives the session
  /\ torrents' = EmptyTable
  /\ idOf' = [x \in Tid |-> 0]
  /\ stash' = stash
  /\ ltQueue' = << >>

\* A session's state is fresh with each session, libtorrent's queue included.
FreshState ==
  /\ torrents' = EmptyTable
  /\ idOf' = [x \in Tid |-> 0]
  /\ stash' = << >>
  /\ ltQueue' = << >>

Init ==
  /\ sessions = EmptyTable /\ gLive = 0
  /\ torrents = EmptyTable /\ idOf = [x \in Tid |-> 0] /\ stash = << >>
  /\ polling = FALSE /\ batch = << >> /\ out = << >> /\ stashing = FALSE
  /\ engine = [x \in Tid |-> "none"] /\ hash \in [Tid -> Hashes]
  /\ ltQueue = << >>
  /\ adds = 0 /\ posted = 0 /\ sessionsMade = 0 /\ issued = {} /\ gone = {} /\ tame = TRUE

-----------------------------------------------------------------------------
(* Handle resolution.                                                      *)

is_valid(x) == engine[x] \in {"live", "removing", "removed"}

session_for(s) == IsLive(sessions, s)

\* The torrent a control or status call with id t reaches: it goes through the
\* live session, whichever that is.
torrent_only(t) ==
  IF session_for(gLive) /\ IsLive(torrents, t) /\ is_valid(Get(torrents, t))
  THEN Get(torrents, t) ELSE None

-----------------------------------------------------------------------------
(* The caller. Its thread is inside btx_pop_alerts while polling.          *)

SessionNew_noLatch ==       \* slip: a second live session is allowed
  /\ ~polling
  /\ sessionsMade < MaxSessions /\ sessionsMade' = sessionsMade + 1
  /\ ~IsFull(sessions)
  /\ sessions' = AllocTable(sessions, sessionsMade + 1)
  /\ gLive' = AllocHandle(sessions)
  /\ FreshState
  /\ UNCHANGED <<popVars, engineVars, adds, posted, histVars>>

\* btx_session_new: refused while a session lives, or when the table is full.
SessionNew ==
  /\ ~polling
  /\ sessionsMade < MaxSessions /\ sessionsMade' = sessionsMade + 1
  /\ ~(gLive # 0 /\ session_for(gLive))
  /\ ~IsFull(sessions)
  /\ sessions' = AllocTable(sessions, sessionsMade + 1)
  /\ gLive' = AllocHandle(sessions)
  /\ FreshState
  /\ UNCHANGED <<popVars, engineVars, adds, posted, histVars>>

\* btx_session_free: of any session handle ever made; a stale one only clears
\* the latch. libtorrent is aborted and its alerts discarded.
SessionFree(s) ==
  /\ ~polling
  /\ gLive' = IF s = gLive THEN 0 ELSE gLive
  /\ IF session_for(s)
     THEN /\ sessions' = FreeTable(sessions, s)
          /\ engine' = [x \in Tid |-> IF engine[x] = "none" THEN "none" ELSE "expired"]
          /\ FreshState
     ELSE UNCHANGED <<sessions, engine, stateVars, stash, ltQueue>>
  /\ UNCHANGED <<popVars, hash, boundVars, histVars>>

Known(h) == {x \in Tid : engine[x] = "live" /\ hash[x] = h}
Unused   == {x \in Tid : engine[x] = "none"}

\* The handle add_torrent returns for info-hash h: the existing one, or a new one.
Added(h) == IF Known(h) # {} THEN Known(h)
            ELSE {x \in Unused : hash[x] = h /\ \A y \in Unused : hash[y] = h => x <= y}

\* The btx_add_* calls: add_torrent, then register_torrent, which stores the
\* handle and maps it back; a full table leaves the torrent without an id.
Add(h) ==
  /\ ~polling /\ session_for(gLive)
  /\ adds < MaxAdds /\ adds' = adds + 1
  /\ \A x \in Tid : engine[x] # "removing"      \* the call is synchronous
  /\ Known(h) # {} => Duplicates
  /\ tame' = (tame /\ Known(h) = {})
  /\ \E x \in Added(h) :
       /\ engine' = [engine EXCEPT ![x] = "live"]
       /\ ltQueue' = Append(ltQueue, [kind |-> "added", tid |-> x])
       /\ torrents' = AllocTable(torrents, x)
       /\ IF IsFull(torrents)
          THEN UNCHANGED <<idOf, issued>>
          ELSE /\ idOf' = [idOf EXCEPT ![x] = AllocHandle(torrents)]
               /\ issued' = issued \cup {[id |-> AllocHandle(torrents), tid |-> x, made |-> sessionsMade]}
  /\ UNCHANGED <<shimVars, stash, popVars, hash, posted, sessionsMade, gone>>

Remove_keepsMap(t) ==       \* slip: the reverse-map entry is left behind
  /\ ~polling
  /\ torrent_only(t) # None
  /\ torrents' = FreeTable(torrents, t)
  /\ engine' = [engine EXCEPT ![torrent_only(t)] =
                  IF @ = "live" THEN "removing" ELSE @]
  /\ UNCHANGED <<shimVars, idOf, stash, popVars, hash, ltQueue, boundVars, histVars>>

Remove_keepsSlot(t) ==      \* slip: the slot waits for the removed alert
  /\ ~polling
  /\ torrent_only(t) # None
  /\ idOf' = [idOf EXCEPT ![torrent_only(t)] = 0]
  /\ engine' = [engine EXCEPT ![torrent_only(t)] =
                  IF @ = "live" THEN "removing" ELSE @]
  /\ UNCHANGED <<shimVars, torrents, stash, popVars, hash, ltQueue, boundVars, histVars>>

\* btx_remove: erase the reverse map, free the slot, ask libtorrent to remove.
\* An id that does not resolve is refused.
Remove(t) ==
  /\ ~polling
  /\ torrent_only(t) # None
  /\ idOf' = [idOf EXCEPT ![torrent_only(t)] = 0]
  /\ torrents' = FreeTable(torrents, t)
  /\ engine' = [engine EXCEPT ![torrent_only(t)] =
                  IF @ = "live" THEN "removing" ELSE @]
  /\ UNCHANGED <<shimVars, stash, popVars, hash, ltQueue, boundVars, histVars>>

-----------------------------------------------------------------------------
(* libtorrent's threads.                                                   *)

PostEvent(x) ==
  /\ engine[x] = "live"
  /\ posted < MaxPosted /\ posted' = posted + 1
  /\ ltQueue' = Append(ltQueue, [kind |-> "event", tid |-> x])
  /\ UNCHANGED <<shimVars, stateVars, stash, popVars, engineVars, adds, sessionsMade, histVars>>

\* A removal asked for, or decided by libtorrent, is carried out and announced.
EngineRemove(x) ==
  /\ engine[x] = "removing" \/ (SelfRemoval /\ engine[x] = "live")
  /\ engine' = [engine EXCEPT ![x] = "removed"]
  /\ ltQueue' = Append(ltQueue, [kind |-> "removed", tid |-> x])
  /\ tame' = (tame /\ engine[x] = "removing")
  /\ UNCHANGED <<shimVars, stateVars, stash, popVars, hash, boundVars, issued, gone>>

\* The last reference to the torrent object goes: its handle is now invalid.
Expire(x) ==
  /\ engine[x] = "removed"
  /\ engine' = [engine EXCEPT ![x] = "expired"]
  /\ UNCHANGED <<shimVars, stateVars, stash, popVars, hash, ltQueue, boundVars, histVars>>

-----------------------------------------------------------------------------
(* btx_pop_alerts.                                                         *)

Entries(q)   == {q[i] : i \in DOMAIN q}
RemovedIn(q) == {e.tid : e \in {f \in Entries(q) : f.kind = "removed"}}

\* The stash first; if it does not drain, the call ends with what fitted.
PollStash ==
  /\ ~polling /\ session_for(gLive)
  /\ \E k \in 0..(Len(stash) - 1) :
       /\ gone' = gone \cup RemovedIn(SubSeq(stash, 1, k))
       /\ stash' = SubSeq(stash, k + 1, Len(stash))
  /\ UNCHANGED <<shimVars, stateVars, popVars, engineVars, ltQueue, boundVars, issued, tame>>

\* It drains: take the whole alert queue.
PollFresh ==
  /\ ~polling /\ session_for(gLive)
  /\ polling' = TRUE /\ stashing' = FALSE
  /\ out' = stash /\ stash' = << >>
  /\ batch' = ltQueue /\ ltQueue' = << >>
  /\ UNCHANGED <<shimVars, stateVars, engineVars, boundVars, histVars>>

idForHandle(x) == IF is_valid(x) THEN idOf[x] ELSE 0

\* What extracting a torrent_removed alert does: reclaim the slot of the id the
\* handle maps to, if any, and erase the reverse map.
Reclaim_mapOnly(x) ==       \* slip: the slot is not freed
  /\ torrents' = torrents
  /\ idOf' = [idOf EXCEPT ![x] = 0]
Reclaim(x) ==
  /\ torrents' = FreeTable(torrents, idForHandle(x))
  /\ idOf' = [idOf EXCEPT ![x] = 0]

NeedsName(a) == a.kind = "added"    \* extract_alert calls torrent_file()

Extract ==
  /\ polling /\ batch # << >>
  /\ LET a == Head(batch)
         e == [kind |-> a.kind, tid |-> a.tid, id |-> idForHandle(a.tid)]
     IN /\ NeedsName(a) => is_valid(a.tid)
        /\ IF a.kind = "removed" THEN Reclaim(a.tid) ELSE UNCHANGED stateVars
        /\ \E fits \in BOOLEAN :
             IF fits /\ ~stashing
             THEN /\ out' = Append(out, e)
                  /\ UNCHANGED <<stash, stashing>>
             ELSE /\ stash' = Append(stash, e)
                  /\ stashing' = TRUE
                  /\ UNCHANGED out
  /\ batch' = Tail(batch)
  /\ UNCHANGED <<shimVars, polling, engineVars, ltQueue, boundVars, histVars>>

\* torrent_file() throws on an invalid handle: the call returns 0, and what it
\* wrote and what it has not extracted yet are gone.
ExtractThrows ==
  /\ polling /\ batch # << >>
  /\ NeedsName(Head(batch)) /\ ~is_valid(Head(batch).tid)
  /\ polling' = FALSE /\ batch' = << >> /\ out' = << >>
  /\ UNCHANGED <<shimVars, stateVars, stash, stashing, engineVars, ltQueue, boundVars, histVars>>

PollEnd ==
  /\ polling /\ batch = << >>
  /\ polling' = FALSE /\ out' = << >>
  /\ gone' = gone \cup RemovedIn(out)
  /\ UNCHANGED <<shimVars, stateVars, stash, batch, stashing, engineVars, ltQueue, boundVars, issued, tame>>

-----------------------------------------------------------------------------
MadeSessions == {encode(g, i) : g \in 1..GenMax, i \in Index}

Next ==
  \/ SessionNew
  \/ \E s \in MadeSessions : SessionFree(s)
  \/ \E h \in Hashes : Add(h)
  \/ \E p \in issued : Remove(p.id)
  \/ \E x \in Tid : PostEvent(x) \/ EngineRemove(x) \/ Expire(x)
  \/ PollStash \/ PollFresh \/ Extract \/ ExtractThrows \/ PollEnd

Spec == Init /\ [][Next]_vars

-----------------------------------------------------------------------------
Slot(Obj) == [obj : Obj \cup {None}, gen : Gen, live : BOOLEAN]
Table(Obj) == [slots : [Index -> Slot(Obj)], size : 0..Capacity, free : Seq(Index), count : Int]

RawAlert == [kind : {"added", "removed", "event"}, tid : Tid]
Entry    == [kind : {"added", "removed", "event"}, tid : Tid, id : Nat]

\* Every variable has its type.
TypeOK ==
  /\ sessions \in Table(1..MaxSessions) /\ gLive \in Nat
  /\ torrents \in Table(Tid) /\ idOf \in [Tid -> Nat]
  /\ stash \in Seq(Entry) /\ out \in Seq(Entry) /\ gone \subseteq Tid
  /\ polling \in BOOLEAN /\ stashing \in BOOLEAN
  /\ batch \in Seq(RawAlert) /\ ltQueue \in Seq(RawAlert)
  /\ engine \in [Tid -> {"none", "live", "removing", "removed", "expired"}]
  /\ hash \in [Tid -> Hashes]
  /\ issued \subseteq [id : Nat, tid : Tid, made : 1..MaxSessions]
  /\ tame \in BOOLEAN

\* At most one session lives, and the latch names it: were they apart, the
\* calls that take a torrent id alone would go to no session, or to a dead one.
SessionLatch == CollectLive(sessions) = {gLive} \ {0}

\* The reverse map only holds ids that are live and name that very torrent:
\* events are tagged from it, and a removed alert frees the slot it names.
IdOfSound ==
  \A x \in Tid : idOf[x] # 0 => IsLive(torrents, idOf[x]) /\ Get(torrents, idOf[x]) = x

\* Acting on the id of an event that waits in the stash or in the buffer never
\* reaches another torrent, however much was removed, added or restarted since
\* the alert was extracted.
PendingNamesItsTorrent ==
  \A e \in Entries(stash) \cup Entries(out) :
    e.id # 0 => torrent_only(e.id) \in {None, e.tid}

\* Within the session that gave it out, an id reaches the torrent it was given
\* for, or none, however often slots are reused.
IdNamesItsTorrent ==
  \A p \in issued : p.made = sessionsMade => torrent_only(p.id) \in {None, p.tid}

\* "A torrentRemoved event follows when removal finishes, and the handle goes
\* stale" (torrent.lcb:1690): once the script has the event, no id reaches the
\* torrent. (A torrent added twice has a second id, which lives on a while.)
AddedOnce(x) == Cardinality({p \in issued : p.tid = x}) <= 1
GoneIsStale ==
  \A x \in gone : AddedOnce(x) => \A p \in issued : torrent_only(p.id) # x

\* With no removal under way and no alert waiting, btx_torrent_count is the
\* number of torrents in the session, while only the caller removed any and
\* none was added twice.
Quiet == /\ ~polling /\ ltQueue = << >>
         /\ \A x \in Tid : engine[x] # "removing"
CountTracksTorrents ==
  tame /\ session_for(gLive) /\ Quiet =>
    live_count(torrents) = Cardinality({x \in Tid : engine[x] = "live"})

\* The shim's books agree with each other: the latch with the session table, the
\* reverse map with the torrent table, and every field with its type.
SessionsSound == TypeOK /\ SessionLatch /\ IdOfSound

\* An id never reaches another torrent than the one it was made for, whether the
\* script kept it or it still waits in an undelivered event.
IdsNameTheirTorrent == PendingNamesItsTorrent /\ IdNamesItsTorrent

\* What libtorrent removed is given back: the id goes stale and the count drops.
Reclaimed == GoneIsStale /\ CountTracksTorrents
=============================================================================
