--------------------------- MODULE SessionStores ---------------------------
(***************************************************************************)
(* Session (sdk/api/session.py): discoveries run concurrently over backing *)
(* stores and yield repositories; a store is shared by every repository    *)
(* found in it and is closed with the last of them, but not under a        *)
(* discovery that may still yield another.                                 *)
(*                                                                         *)
(* A discovery is known by its name d; _stores holds its (perhaps traced)  *)
(* wrap of BackingOf[d].  Its repositories are <<d, 1>>, <<d, 2>>, ... in  *)
(* the order found.  An action is the code between two awaits.             *)
(***************************************************************************)
EXTENDS Integers, Sequences, FiniteSets

CONSTANTS
    Discoveries,  \* calls of discover()
    BackingOf,    \* the backing store each of them scans
    MaxFound,     \* bound: layouts one discovery finds
    CloseOverlaps \* whether Session.close may overlap a close_repo

ASSUME SessionAssumption == MaxFound \in Nat /\ "session" \notin Discoveries

Repos == Discoveries \X (1..MaxFound)
Backings == {BackingOf[d] : d \in Discoveries}
Backing(r) == BackingOf[r[1]]

VARIABLES
    disc,      \* where each discovery is
    found,     \* layouts it has found so far
    scanDown,  \* discoveries whose anext(layout_iter) raised StorageBackendError
    pending,   \* pending_open, in the order found
    probe,     \* outcome of _open_repository of each repository
    repos,     \* _repos
    stores,    \* _stores: the discoveries whose wrap is listed
    idleClose, \* _close_when_idle
    repoPc,    \* where the close_repo of each repository is
    toClose,   \* per closing task: wraps _close_unshared_store has yet to close
    storeOpen, \* whether each backing store is open
    sessPc     \* where Session.close is

sessVars == <<disc, found, scanDown, pending, probe, repos, stores, idleClose, repoPc, toClose, storeOpen, sessPc>>

\* What runs _close_unshared_store: the end of discovery d is <<d, 0>>, the
\* close_repo of a repository is named by it.
Session == <<"session", 0>>
Tasks == (Discoveries \X (0..MaxFound)) \cup {Session}

SessInit ==
    /\ disc = [d \in Discoveries |-> "idle"]
    /\ found = [d \in Discoveries |-> 0]
    /\ scanDown = {}
    /\ pending = [d \in Discoveries |-> <<>>]
    /\ probe = [r \in Repos |-> "none"]
    /\ repos = {}
    /\ stores = {}
    /\ idleClose = {}
    /\ repoPc = [r \in Repos |-> "idle"]
    /\ toClose = [t \in Tasks |-> {}]
    /\ storeOpen = [b \in Backings |-> TRUE]
    /\ sessPc = "idle"

\* _discovering counts the discoveries of a backing store up at their begin and down at their end; one
\* whose drain raised has "failed": it is over, but stays counted.
Counted == {"running", "yielded", "drain", "failed"}
Discovering(b) == \E d \in Discoveries : BackingOf[d] = b /\ disc[d] \in Counted

-----------------------------------------------------------------------------
(* Discovery                                                               *)

\* discover() on a store the session does not close at the time; a malformed key is refused once the
\* store is listed.
DiscoverBegins(d) ==
    /\ disc[d] = "idle"
    /\ sessPc = "idle"
    /\ storeOpen[BackingOf[d]]
    /\ \A t \in Tasks : \A w \in toClose[t] : BackingOf[w] # BackingOf[d]
    /\ stores' = stores \cup {d}
    /\ \E next \in {"running", "done"} : disc' = [disc EXCEPT ![d] = next]
    /\ UNCHANGED <<found, scanDown, pending, probe, repos, idleClose, repoPc, toClose, storeOpen, sessPc>>

\* anext(layout_iter) has a layout: its open starts beside the others.
LayoutFound(d) ==
    /\ disc[d] = "running"
    /\ d \notin scanDown
    /\ found[d] < MaxFound
    /\ found' = [found EXCEPT ![d] = @ + 1]
    /\ pending' = [pending EXCEPT ![d] = Append(@, found[d] + 1)]
    /\ probe' = [probe EXCEPT ![<<d, found[d] + 1>>] = "open"]
    /\ UNCHANGED <<disc, scanDown, repos, stores, idleClose, repoPc, toClose, storeOpen, sessPc>>

\* anext(layout_iter) raises StorageBackendError in its task; the loop meets it when it next waits.
ScanFails(d) ==
    /\ disc[d] \in {"running", "yielded"} /\ d \notin scanDown
    /\ scanDown' = scanDown \cup {d}
    /\ UNCHANGED <<disc, found, pending, probe, repos, stores, idleClose, repoPc, toClose, storeOpen, sessPc>>

\* _open_repository ends: a repository, None for one that is skipped, or a StorageBackendError.  It may
\* still do so while the drain awaits the scan, or after one that raised.
OpenRepository(r) ==
    /\ probe[r] = "open"
    /\ disc[r[1]] \in Counted
    /\ \E outcome \in {"repo", "skip", "down"} : probe' = [probe EXCEPT ![r] = outcome]
    /\ UNCHANGED <<disc, found, scanDown, pending, repos, stores, idleClose, repoPc, toClose, storeOpen, sessPc>>

\* The head of pending_open is done: tracked and yielded, passed over, or its failure raised.
YieldHead(d) ==
    /\ disc[d] = "running"
    /\ pending[d] # <<>>
    /\ LET r == <<d, Head(pending[d])>> IN
          /\ probe[r] \in {"repo", "skip", "down"}
          /\ repos' = IF probe[r] = "repo" THEN repos \cup {r} ELSE repos
          /\ disc' = [disc EXCEPT ![d] = CASE probe[r] = "repo" -> "yielded" [] probe[r] = "down" -> "drain" [] OTHER -> @]
    /\ pending' = [pending EXCEPT ![d] = Tail(@)]
    /\ UNCHANGED <<found, scanDown, probe, stores, idleClose, repoPc, toClose, storeOpen, sessPc>>

\* The consumer asks for the next one.
Resume(d) ==
    /\ disc[d] = "yielded"
    /\ disc' = [disc EXCEPT ![d] = "running"]
    /\ UNCHANGED <<found, scanDown, pending, probe, repos, stores, idleClose, repoPc, toClose, storeOpen, sessPc>>

\* The layouts are exhausted and all yielded, the scan's failure is raised, or the consumer closes the
\* generator or is cancelled with opens still pending.
LeaveLoop(d) ==
    /\ disc[d] \in {"running", "yielded"}
    /\ disc' = [disc EXCEPT ![d] = "drain"]
    /\ UNCHANGED <<found, scanDown, pending, probe, repos, stores, idleClose, repoPc, toClose, storeOpen, sessPc>>

\* _drain_and_close suppresses cancellation and exhaustion only: it raises the failure of a scan or of an
\* open it awaits, and what follows it in discover's finally is left out.
DrainRaises(d) == d \in scanDown \/ \E i \in DOMAIN pending[d] : probe[<<d, pending[d][i]>>] = "down"
DrainFails(d) ==
    /\ disc[d] = "drain" /\ DrainRaises(d)
    /\ disc' = [disc EXCEPT ![d] = "failed"]
    /\ UNCHANGED <<found, scanDown, pending, probe, repos, stores, idleClose, repoPc, toClose, storeOpen, sessPc>>

\* _close_unshared_store up to its first await, with the repositories left.
UnsharedWraps(b, left) ==
    IF \E r \in left : Backing(r) = b THEN {} ELSE {d \in stores : BackingOf[d] = b}

\* The drain is over: the last discovery of a store closes it when a
\* close_repo left that to it.
DiscoverEnds(d) ==
    LET b == BackingOf[d]
        last == \A e \in Discoveries \ {d} : BackingOf[e] = b => disc[e] \notin Counted
        wraps == IF last /\ b \in idleClose THEN UnsharedWraps(b, repos) ELSE {}
    IN /\ disc[d] = "drain" /\ ~DrainRaises(d)
       /\ disc' = [disc EXCEPT ![d] = IF wraps = {} THEN "done" ELSE "closing"]
       /\ toClose' = [toClose EXCEPT ![<<d, 0>>] = wraps]
       /\ idleClose' = IF last THEN idleClose \ {b} ELSE idleClose
       /\ UNCHANGED <<found, scanDown, pending, probe, repos, stores, repoPc, storeOpen, sessPc>>

\* store.close() of one wrap returns, then _stores.remove(store).  The list
\* may have been replaced by Session.close during the await.
CloseWrap(t) ==
    /\ t # Session
    /\ \E w \in toClose[t] :
          LET gone == w \notin stores IN
          /\ storeOpen' = [storeOpen EXCEPT ![BackingOf[w]] = FALSE]
          /\ stores' = stores \ {w}
          /\ toClose' = [toClose EXCEPT ![t] = IF gone THEN {} ELSE @ \ {w}]
          /\ repoPc' = IF t \in Repos /\ gone THEN [repoPc EXCEPT ![t] = "valueerror"]
                       ELSE IF t \in Repos /\ toClose[t] = {w} THEN [repoPc EXCEPT ![t] = "done"] ELSE repoPc
          /\ disc' = IF t[2] = 0 /\ (gone \/ toClose[t] = {w}) THEN [disc EXCEPT ![t[1]] = "done"] ELSE disc
    /\ UNCHANGED <<found, scanDown, pending, probe, repos, idleClose, sessPc>>

-----------------------------------------------------------------------------
(* close_repo and close                                                    *)

CloseRepoBegins(r) ==
    /\ r \in repos
    /\ repoPc[r] = "idle"
    /\ repoPc' = [repoPc EXCEPT ![r] = "repo"]
    /\ UNCHANGED <<disc, found, scanDown, pending, probe, repos, stores, idleClose, toClose, storeOpen, sessPc>>

\* repo._close() returned or failed; the repository is forgotten and its
\* store closed, now or by the last discovery over it.
RepoClosed(r) ==
    LET b == Backing(r)
        known == r \in repos
        wraps == IF known /\ ~Discovering(b) THEN UnsharedWraps(b, repos \ {r}) ELSE {}
    IN /\ repoPc[r] = "repo"
       /\ repos' = repos \ {r}
       /\ idleClose' = IF known /\ Discovering(b) THEN idleClose \cup {b} ELSE idleClose
       /\ toClose' = [toClose EXCEPT ![r] = wraps]
       /\ repoPc' = [repoPc EXCEPT ![r] = IF wraps = {} THEN "done" ELSE "store"]
       /\ UNCHANGED <<disc, found, scanDown, pending, probe, stores, storeOpen, sessPc>>

\* Session.close takes over every repository and store handed out.
SessionCloseBegins ==
    /\ sessPc = "idle"
    /\ \A d \in Discoveries : disc[d] \in {"idle", "failed", "done"}
    /\ ~CloseOverlaps => \A r \in Repos : repoPc[r] \in {"idle", "done"}
    /\ repos' = {}
    /\ stores' = {}
    /\ toClose' = [toClose EXCEPT ![Session] = stores]
    /\ sessPc' = "repos"
    /\ UNCHANGED <<disc, found, scanDown, pending, probe, idleClose, repoPc, storeOpen>>

SessionReposClosed ==
    /\ sessPc = "repos"
    /\ sessPc' = "stores"
    /\ UNCHANGED <<disc, found, scanDown, pending, probe, repos, stores, idleClose, repoPc, toClose, storeOpen>>

SessionClosesStore ==
    /\ sessPc = "stores"
    /\ \E w \in toClose[Session] :
          /\ storeOpen' = [storeOpen EXCEPT ![BackingOf[w]] = FALSE]
          /\ toClose' = [toClose EXCEPT ![Session] = @ \ {w}]
    /\ UNCHANGED <<disc, found, scanDown, pending, probe, repos, stores, idleClose, repoPc, sessPc>>

SessionCloseEnds ==
    /\ sessPc = "stores"
    /\ toClose[Session] = {}
    /\ sessPc' = "done"
    /\ UNCHANGED <<disc, found, scanDown, pending, probe, repos, stores, idleClose, repoPc, toClose, storeOpen>>

SessNext ==
    \/ \E d \in Discoveries : DiscoverBegins(d) \/ LayoutFound(d) \/ ScanFails(d) \/ YieldHead(d)
                              \/ Resume(d) \/ LeaveLoop(d) \/ DrainFails(d) \/ DiscoverEnds(d)
    \/ \E r \in Repos : OpenRepository(r) \/ CloseRepoBegins(r) \/ RepoClosed(r)
    \/ \E t \in Tasks : CloseWrap(t)
    \/ SessionCloseBegins \/ SessionReposClosed \/ SessionClosesStore \/ SessionCloseEnds

-----------------------------------------------------------------------------
(* Properties                                                              *)

\* While the session is open, the store of a repository handed out and not
\* being closed is open, and so is the store a discovery is still scanning:
\* close_repo never takes a shared store away from a sibling.
StoreOpenWhileUsed ==
    sessPc = "idle" =>
        /\ \A r \in repos : repoPc[r] = "idle" => storeOpen[Backing(r)]
        /\ \A d \in Discoveries : disc[d] \in {"running", "yielded"} => storeOpen[BackingOf[d]]

\* The last repository found in store b was released, and nothing scans or closes b any more.
Relinquished(b) ==
    /\ \E r \in Repos : Backing(r) = b /\ repoPc[r] = "done"
    /\ \A r \in Repos : Backing(r) = b => r \notin repos
    /\ \A d \in Discoveries : BackingOf[d] = b => disc[d] \notin {"running", "yielded", "drain"}
    /\ \A t \in Tasks : \A w \in toClose[t] : BackingOf[w] # b

\* No store is left open that nobody can close any more: a store the session no longer lists is closed or
\* being closed, the last release of a store closes it unless a discovery over it failed, and Session.close
\* closes every store, those of failed discoveries too.
StoresAreReleased ==
    /\ \A d \in Discoveries :
          (disc[d] # "idle" /\ d \notin stores) =>
              ~storeOpen[BackingOf[d]] \/ \E t \in Tasks : d \in toClose[t]
    /\ \A b \in Backings :
          Relinquished(b) => ~storeOpen[b] \/ \E d \in Discoveries : BackingOf[d] = b /\ disc[d] = "failed"
    /\ sessPc = "done" => \A d \in Discoveries : disc[d] # "idle" => ~storeOpen[BackingOf[d]]
=============================================================================
