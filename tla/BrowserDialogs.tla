--------------------------- MODULE BrowserDialogs ---------------------------
(***************************************************************************)
(* The browser's modal dialogs: ConnectDialog with its scan worker and the *)
(* bucket/container listings of RemoteOptionsBrowser, and KeyDialog with   *)
(* its verification workers.  A worker runs until its next await, so each  *)
(* handler up to its first await is one action (building a store awaits    *)
(* nothing).  Worker.cancel() only asks: the worker ends later.            *)
(***************************************************************************)
EXTENDS Integers, FiniteSets

CONSTANTS
    Backends,    \* backends with an account-level listing
    MaxScans,    \* bound: scans and listings started
    MaxKeys  \* bound: keys tried

VARIABLES
    connect,     \* ConnectDialog: open, or what it was dismissed with
    scanRef,     \* self._scan_worker is not None
    scans,       \* _scan workers: running and cancelling ones, as counts
    fieldsOff,   \* the form is disabled
    browsing,    \* RemoteOptionsBrowser.browsing
    lists,       \* listings running per backend
    naming,      \* the inline "save as profile" row is open
    started,     \* scans and listings so far
    keyDialog,   \* KeyDialog: open or dismissed with a Boolean
    keyState,    \* what the repository's key is: unset, wrong, verified
    verifying,   \* _verify workers in set_key, as a count
    tried        \* keys tried

dialogVars == <<connect, scanRef, scans, fieldsOff, browsing, lists, naming, started, keyDialog, keyState,
                verifying, tried>>

DialogInit ==
    /\ connect = "open" /\ scanRef = FALSE /\ scans = [run |-> 0, cancel |-> 0] /\ fieldsOff = FALSE
    /\ browsing = [b \in Backends |-> FALSE] /\ lists = [b \in Backends |-> 0]
    /\ naming = FALSE /\ started = 0
    /\ keyDialog = "open" /\ keyState = "unset" /\ verifying = 0 /\ tried = 0

keyVars == <<keyDialog, keyState, verifying, tried>>
connectVars == <<connect, scanRef, scans, fieldsOff, browsing, lists, naming, started>>

----------------------------------------------------------------------------
\* _submit: refused while a scan or a listing runs; a field problem is shown and nothing starts.
MaySubmit == ~scanRef /\ \A b \in Backends : ~browsing[b]

Submit ==
    /\ connect = "open" /\ MaySubmit
    /\ started < MaxScans
    /\ started' = started + 1
    /\ fieldsOff' = TRUE /\ scanRef' = TRUE
    /\ scans' = [scans EXCEPT !.run = @ + 1]
    /\ UNCHANGED <<connect, browsing, lists, naming, keyVars>>

\* The submit button while scanning: the worker is asked to stop.
CancelledScans == [run |-> 0, cancel |-> scans.cancel + scans.run]

CancelScan ==
    /\ connect = "open" /\ scanRef
    /\ scans' = CancelledScans
    /\ UNCHANGED <<connect, scanRef, fieldsOff, browsing, lists, naming, started, keyVars>>

\* _end_scan restores the form; the widgets may be gone.
EndScan == scanRef' = FALSE /\ fieldsOff' = FALSE

ScanCancelled ==
    /\ scans.cancel > 0
    /\ scans' = [scans EXCEPT !.cancel = @ - 1]
    /\ EndScan
    /\ UNCHANGED <<connect, browsing, lists, naming, started, keyVars>>

ScanFails ==
    /\ scans.run > 0
    /\ scans' = [scans EXCEPT !.run = @ - 1]
    /\ EndScan
    /\ UNCHANGED <<connect, browsing, lists, naming, started, keyVars>>

\* At least one repository was found.
ScanFinds ==
    /\ scans.run > 0 /\ connect = "open"
    /\ scans' = [scans EXCEPT !.run = @ - 1]
    /\ connect' = "result"
    /\ UNCHANGED <<scanRef, fieldsOff, browsing, lists, naming, started, keyVars>>

\* Esc: closes the name row first, otherwise stops a scan in flight and dismisses.
Escape ==
    /\ connect = "open"
    /\ IF naming THEN naming' = FALSE /\ UNCHANGED <<connect, scans>>
       ELSE connect' = "none" /\ UNCHANGED naming
            /\ scans' = IF scanRef THEN CancelledScans ELSE scans
    /\ UNCHANGED <<scanRef, fieldsOff, browsing, lists, started, keyVars>>

\* "Save as profile": the row opens once the fields validate; saving or another tab hides it.
NameRow(show) ==
    /\ connect = "open" /\ ~fieldsOff
    /\ naming' = show
    /\ UNCHANGED <<connect, scanRef, scans, fieldsOff, browsing, lists, started, keyVars>>

\* RemoteOptionsBrowser.browse: one listing per backend, none during a scan; `finally` clears the
\* mark on success, failure, timeout and cancellation.
MayBrowse(b) == ~browsing[b] /\ ~scanRef

Browse(b) ==
    /\ connect = "open" /\ ~fieldsOff /\ MayBrowse(b)
    /\ started < MaxScans
    /\ started' = started + 1
    /\ browsing' = [browsing EXCEPT ![b] = TRUE]
    /\ lists' = [lists EXCEPT ![b] = @ + 1]
    /\ UNCHANGED <<connect, scanRef, scans, fieldsOff, naming, keyVars>>

BrowseEnds(b) ==
    /\ lists[b] > 0
    /\ lists' = [lists EXCEPT ![b] = @ - 1]
    /\ browsing' = [browsing EXCEPT ![b] = FALSE]
    /\ UNCHANGED <<connect, scanRef, scans, fieldsOff, naming, started, keyVars>>

----------------------------------------------------------------------------
\* KeyDialog: every Enter starts a worker; set_key calls are serialised by the repository's lock
\* and each leaves the key's status behind.
Verify ==
    /\ keyDialog = "open" /\ tried < MaxKeys
    /\ tried' = tried + 1 /\ verifying' = verifying + 1
    /\ UNCHANGED <<keyDialog, keyState, connectVars>>

\* set_key returns: a good key dismisses the dialog, whose removal cancels the other workers.
Verified ==
    /\ verifying > 0 /\ keyDialog = "open"
    /\ keyState' = "verified"
    /\ keyDialog' = "true"
    /\ verifying' = 0
    /\ UNCHANGED <<tried, connectVars>>

NotVerified ==
    /\ verifying > 0 /\ keyDialog = "open"
    /\ keyState' = IF keyState = "verified" THEN keyState ELSE "wrong"   \* a bad key is not adopted
    /\ verifying' = verifying - 1
    /\ UNCHANGED <<keyDialog, tried, connectVars>>

\* Esc: dismiss(False), also over a set_key that has just adopted its key.
KeyEscape(adopted) ==
    /\ keyDialog = "open"
    /\ adopted => verifying > 0
    /\ keyDialog' = "false"
    /\ keyState' = IF adopted THEN "verified" ELSE keyState
    /\ verifying' = 0
    /\ UNCHANGED <<tried, connectVars>>

DialogNext ==
    \/ Submit \/ CancelScan \/ ScanCancelled \/ ScanFails \/ ScanFinds \/ Escape
    \/ \E show \in BOOLEAN : NameRow(show)
    \/ \E b \in Backends : Browse(b) \/ BrowseEnds(b)
    \/ Verify \/ Verified \/ NotVerified \/ (\E a \in BOOLEAN : KeyEscape(a))

----------------------------------------------------------------------------
\* One scan at a time, never together with a listing of the same fields, and the form is disabled
\* exactly while the scan it started can still change the dialog.
OneConnection ==
    /\ scans.run + scans.cancel <= 1
    /\ \A b \in Backends : lists[b] <= 1 /\ (lists[b] > 0 => scans.run + scans.cancel = 0)
    /\ connect = "open" => (fieldsOff <=> scans.run + scans.cancel > 0)

\* A dismissed dialog has no scan that could still hand its repositories to nobody.
NoOrphanScan == connect # "open" => scans.run = 0

=============================================================================
