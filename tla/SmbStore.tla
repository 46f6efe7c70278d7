------------------------------ MODULE SmbStore ------------------------------
(***************************************************************************)
(* storage/smb.py: a pool of SMB sessions.  A call takes a permit and a    *)
(* slot, connects it if needed and runs one synchronous smbclient call on  *)
(* a thread.  A thread cannot be stopped: after a timeout or a             *)
(* cancellation it runs on, on the session it captured when it started.    *)
(* A session is a number; the handles it keeps open are a sequence of      *)
(* paths, least recently used first; the oldest may expire.                *)
(***************************************************************************)
EXTENDS Integers, Sequences, SequencesExt, FiniteSets

CONSTANTS
    SmbCallers,     \* tasks that call read
    SmbSlots,       \* 1 .. _DEFAULT_CONNECTION_POOL_SIZE
    SmbPaths,
    KeptHandles,    \* _SLOT_OPEN_HANDLES
    MaxAttempts,    \* _DEFAULT_MAX_ATTEMPTS
    MaxSessions     \* bound: sessions registered in a behaviour

ASSUME SmbAssumption == SmbSlots \in Nat \ {0} /\ MaxAttempts \in Nat \ {0} /\ KeptHandles \in Nat \ {0}

VARIABLES
    freeSlots,      \* _free_slots, a stack
    permits,        \* _pool_semaphore
    session,        \* slot -> its session, 0: not ready
    lastSession,    \* sessions registered so far
    handles,        \* session -> paths kept open
    caller,         \* caller -> [pc, slot, attempt, path]
    threads,        \* the smbclient calls running: [c, path, ses, had, on]; on: "awaited", or why not
    closer          \* close(): [pc, held], held the permits it has

smbVars == <<freeSlots, permits, session, lastSession, handles, caller, threads, closer>>

Slots == 1..SmbSlots
NoCall == [pc |-> "idle", slot |-> 0, attempt |-> 0, path |-> "none"]
Mine(c) == {t \in threads : t.c = c /\ t.on = "awaited"}

SmbInit ==
    /\ freeSlots = [i \in Slots |-> i] /\ permits = SmbSlots
    /\ session = [s \in Slots |-> 0] /\ lastSession = 0
    /\ handles = [n \in 1..MaxSessions |-> <<>>]
    /\ caller = [c \in SmbCallers |-> NoCall]
    /\ threads = {} /\ closer = [pc |-> "idle", held |-> 0]

\* read: the call starts and waits for a slot.
SmbCall(c, p) ==
    /\ caller[c].pc = "idle"
    /\ caller' = [caller EXCEPT ![c] = [@ EXCEPT !.pc = "waiting", !.path = p, !.attempt = 1]]
    /\ UNCHANGED <<freeSlots, permits, session, lastSession, handles, threads, closer>>

\* _acquire_slot: a permit, then the slot released last.
AcquireSlot(c) ==
    /\ caller[c].pc = "waiting" /\ permits > 0
    /\ permits' = permits - 1
    /\ freeSlots' = Front(freeSlots)
    /\ caller' = [caller EXCEPT ![c].pc = "connect", ![c].slot = Last(freeSlots)]
    /\ UNCHANGED <<session, lastSession, handles, threads, closer>>

\* The finally of _call_with_retry.
ReleaseSlot(c, outcome) ==
    /\ freeSlots' = Append(freeSlots, caller[c].slot) /\ permits' = permits + 1
    /\ caller' = [caller EXCEPT ![c] = [NoCall EXCEPT !.pc = outcome]]

\* _ensure_slot_session: a ready slot is used as it is; else register_session, which may fail
\* every attempt it is given.  The call then starts on a thread.
EnsureSlotSession(c) ==
    LET s == caller[c].slot IN
    /\ caller[c].pc = "connect"
    /\ \/ session[s] # 0 /\ UNCHANGED <<session, lastSession>>
       \/ /\ session[s] = 0 /\ lastSession < MaxSessions
          /\ lastSession' = lastSession + 1 /\ session' = [session EXCEPT ![s] = lastSession + 1]
    /\ threads' = threads \union
          {[c |-> c, path |-> caller[c].path, ses |-> 0, had |-> FALSE, on |-> "awaited"]}
    /\ caller' = [caller EXCEPT ![c].pc = "call"]
    /\ UNCHANGED <<freeSlots, permits, handles, closer>>

ConnectFails(c) ==
    /\ caller[c].pc = "connect" /\ session[caller[c].slot] = 0
    /\ ReleaseSlot(c, "failed")
    /\ UNCHANGED <<session, lastSession, handles, threads, closer>>

\* _OpenHandles.take: the k handles idle longest expire, then the path's own is taken out.
Expire(kept, k) == SubSeq(kept, k + 1, Len(kept))
Take(kept, p) == IF Contains(kept, p) THEN RemoveAt(kept, CHOOSE i \in DOMAIN kept : kept[i] = p) ELSE kept

\* keep: a path already there keeps its place; the oldest goes when there are too many.
Keep(kept, p) == LET k == IF Contains(kept, p) THEN kept ELSE Append(kept, p) IN
                 IF Len(k) > KeptHandles THEN Tail(k) ELSE k

\* _read_sync begins: handles and connection_cache are taken once, and the path's handle with them.
\* _THREAD_POOL_SIZE bounds the threads; a future cancelled before its thread began never runs.
SmbReadBegins(t) ==
    /\ t \in threads /\ t.ses = 0
    /\ Cardinality({u \in threads : u.ses # 0}) < SmbSlots * MaxAttempts
    /\ LET ses == session[caller[t.c].slot]
       IN \E k \in 0..Len(handles[ses]) :
             LET kept == Expire(handles[ses], k) IN
             /\ threads' = (threads \ {t}) \union {[t EXCEPT !.ses = ses, !.had = Contains(kept, t.path)]}
             /\ handles' = [handles EXCEPT ![ses] = Take(kept, t.path)]
    /\ UNCHANGED <<freeSlots, permits, session, lastSession, caller, closer>>

\* The read returns; the handle, the kept one or a fresh one, is kept on the captured session.
ReadReturns(t) ==
    /\ t \in threads /\ t.ses # 0
    /\ threads' = threads \ {t}
    /\ handles' = [handles EXCEPT ![t.ses] = Keep(@, t.path)]
    /\ IF t.on = "awaited" THEN ReleaseSlot(t.c, "ok") ELSE UNCHANGED <<freeSlots, permits, caller>>
    /\ UNCHANGED <<session, lastSession, closer>>

\* OSError, or a transport error: mapped and raised.
ReadFails(t) ==
    /\ t \in threads /\ t.ses # 0
    /\ threads' = threads \ {t}
    /\ IF t.on = "awaited" THEN ReleaseSlot(t.c, "failed") ELSE UNCHANGED <<freeSlots, permits, caller>>
    /\ UNCHANGED <<session, lastSession, handles, closer>>

\* What follows an attempt: the next one, or the last error raised.
NextAttempt(c) ==
    IF caller[c].attempt < MaxAttempts
    THEN /\ caller' = [caller EXCEPT ![c].pc = "connect", ![c].attempt = @ + 1]
         /\ UNCHANGED <<freeSlots, permits>>
    ELSE ReleaseSlot(c, "failed")

\* Credit exhaustion: the session and a kept handle are fine; retried after a pause.
CreditExhausted(t) ==
    /\ t \in threads /\ t.ses # 0 /\ t.on = "awaited"
    /\ threads' = threads \ {t}
    /\ handles' = IF t.had THEN [handles EXCEPT ![t.ses] = Keep(@, t.path)] ELSE handles
    /\ NextAttempt(t.c)
    /\ UNCHANGED <<session, lastSession, closer>>

\* The thread runs on, or never runs if it had not begun.
Abandon(ts, why) == (threads \ ts) \union {[t EXCEPT !.on = why] : t \in {u \in ts : u.ses # 0}}

\* Mutant: the retry goes on with the session of the call that timed out.
DropSlotSessionKept(s) == UNCHANGED session

\* _drop_slot_session.
DropSlotSession(s) == session' = [session EXCEPT ![s] = 0]

\* wait_for expires: the slot's session is dropped before the retry.
CallTimesOut(c) ==
    /\ caller[c].pc = "call" /\ Mine(c) # {}
    /\ threads' = Abandon(Mine(c), "timed out")
    /\ DropSlotSession(caller[c].slot)
    /\ NextAttempt(c)
    /\ UNCHANGED <<lastSession, handles, closer>>

\* The caller's task is cancelled: the finally releases the slot, session and all.
CallCancelled(c) ==
    /\ caller[c].pc \in {"connect", "call"}
    /\ threads' = Abandon(Mine(c), "cancelled")
    /\ ReleaseSlot(c, "cancelled")
    /\ UNCHANGED <<session, lastSession, handles, closer>>

----------------------------------------------------------------------------
(* close *)

SmbCloseBegins == /\ closer.pc = "idle" /\ closer' = [pc |-> "acquiring", held |-> 0]
               /\ UNCHANGED <<freeSlots, permits, session, lastSession, handles, caller, threads>>

\* One permit after the other, outside the try: a close that is cancelled here would keep them, so it
\* is taken to run to its end.
CloseAcquires ==
    /\ closer.pc = "acquiring" /\ closer.held < SmbSlots /\ permits > 0
    /\ permits' = permits - 1 /\ closer' = [closer EXCEPT !.held = @ + 1]
    /\ UNCHANGED <<freeSlots, session, lastSession, handles, caller, threads>>

\* With every permit: each ready slot's handles are closed and its session deleted; then the executor
\* is shut down without waiting and the permits go back.
CloseSlots ==
    /\ closer.held = SmbSlots
    /\ handles' = [n \in DOMAIN handles |-> IF n \in Range(session) THEN <<>> ELSE handles[n]]
    /\ session' = [s \in Slots |-> 0]
    /\ permits' = permits + SmbSlots /\ closer' = [pc |-> "closed", held |-> 0]
    /\ UNCHANGED <<freeSlots, lastSession, caller, threads>>

SmbNext ==
    \/ SmbCloseBegins \/ CloseAcquires \/ CloseSlots
    \/ \E c \in SmbCallers : \/ AcquireSlot(c) \/ EnsureSlotSession(c) \/ ConnectFails(c)
                             \/ CallTimesOut(c) \/ CallCancelled(c)
                             \/ \E p \in SmbPaths : SmbCall(c, p)
    \/ \E t \in threads : SmbReadBegins(t) \/ ReadFails(t) \/ CreditExhausted(t) \/ ReadReturns(t)

----------------------------------------------------------------------------
\* A slot belongs to one caller: permits and slots are never lost or doubled, and an idle store has
\* them all ("the store stays usable afterward").
SlotsConserved ==
    LET users == {c \in SmbCallers : caller[c].slot # 0} IN
    /\ permits + Cardinality(users) + closer.held = SmbSlots
    /\ Cardinality(Range(freeSlots) \union {caller[c].slot : c \in users}) = SmbSlots
    /\ Len(freeSlots) + Cardinality(users) = SmbSlots

\* A call that timed out runs on, but on a session no slot has any more: it cannot touch the session
\* its own retry registered (the comment in _read_sync).
LateCallsAreApart == \A t \in threads : t.on = "timed out" => t.ses \notin Range(session)

\* Each session keeps few handles, one per path, and a closed session none.
HandlesAreKept ==
    /\ \A n \in DOMAIN handles : Len(handles[n]) <= KeptHandles /\ IsInjective(handles[n])
    /\ closer.held = SmbSlots => Range(caller) \intersect {c \in Range(caller) : c.slot # 0} = {}
=============================================================================
