---------------------------- MODULE SSIDsCacher ----------------------------
(***************************************************************************)
(* The cache of wifi names in setupd (wifi_utils.rs): a request is served  *)
(* from the cache, or waits on a Notify for a scan that runs or that it    *)
(* spawns.  notify_waiters wakes only those who have begun to wait.        *)
(***************************************************************************)
CONSTANTS
  Requests,  \* scan_wifi commands, each in get
  Scans      \* bound of the model: refreshes spawned and not over

VARIABLES
  get,        \* where each request is
  scan,       \* where each refresh is
  refreshing, \* state.refreshing
  names,      \* what the last scan found, or "none" (never, expired, reset)
  failed,     \* state.last_error is set
  missed      \* requests whose wake-up came after they let go of the lock and before they waited

ssidVars == <<get, scan, refreshing, names, failed, missed>>

SSIDTypeOK ==
  /\ get \in [Requests -> {"idle", "look", "gap", "wait"}]
  /\ scan \in [Scans -> {"over", "begin", "list", "notify"}]
  /\ refreshing \in BOOLEAN  /\ failed \in BOOLEAN
  /\ names \in {"none", "some", "empty"}
  /\ missed \subseteq Requests

SSIDInit ==
  /\ get = [r \in Requests |-> "idle"]  /\ scan = [s \in Scans |-> "over"]
  /\ refreshing = FALSE  /\ names = "none"  /\ failed = FALSE  /\ missed = {}

Turns(r, where) == get' = [get EXCEPT ![r] = where]

\* trigger_refresh, called by main for a device that is offline, and by get.
Spawns(s) == scan[s] = "over" /\ scan' = [scan EXCEPT ![s] = "begin"]

Triggered ==
  /\ \E s \in Scans : Spawns(s)
  /\ UNCHANGED <<get, refreshing, names, failed, missed>>

Asks(r) ==
  /\ get[r] = "idle" /\ Turns(r, "look")
  /\ UNCHANGED <<scan, refreshing, names, failed, missed>>

\* get, with the lock: what was found, if it is fresh; an empty list is
\* forgotten, and so is an error.
GetsNames(r) ==
  /\ get[r] = "look" /\ ~refreshing /\ names # "none"
  /\ Turns(r, "idle")
  /\ IF names = "empty" THEN names' = "none" /\ failed' = FALSE ELSE UNCHANGED <<names, failed>>
  /\ UNCHANGED <<scan, refreshing, missed>>

GetsError(r) ==
  /\ get[r] = "look" /\ ~refreshing /\ names = "none" /\ failed
  /\ Turns(r, "idle") /\ failed' = FALSE
  /\ UNCHANGED <<scan, refreshing, names, missed>>

\* Otherwise a refresh runs or is spawned, and the lock is let go.
GetsNothing(r) ==
  /\ get[r] = "look"
  /\ \/ refreshing /\ UNCHANGED scan
     \/ ~refreshing /\ names = "none" /\ ~failed /\ \E s \in Scans : Spawns(s)
  /\ Turns(r, "gap")
  /\ UNCHANGED <<refreshing, names, failed, missed>>

Waits(r) ==
  /\ get[r] = "gap" /\ Turns(r, "wait")
  /\ UNCHANGED <<scan, refreshing, names, failed, missed>>

\* A refresh leaves the scan to the one that runs, or lists the names, ...
RefreshBegins(s) ==
  /\ scan[s] = "begin"
  /\ scan' = [scan EXCEPT ![s] = IF refreshing THEN "over" ELSE "list"]
  /\ refreshing' = TRUE
  /\ UNCHANGED <<get, names, failed, missed>>

\* Mutant: a scan that failed tells nobody.
ListedOrQuiet(s) ==
  /\ scan[s] = "list"
  /\ refreshing' = FALSE
  /\ \/ names' \in {"some", "empty"} /\ failed' = FALSE /\ scan' = [scan EXCEPT ![s] = "notify"]
     \/ names' = "none" /\ failed' = TRUE /\ scan' = [scan EXCEPT ![s] = "over"]
  /\ UNCHANGED <<get, missed>>

\* ... stores what it found or its error, ...
Listed(s) ==
  /\ scan[s] = "list"
  /\ scan' = [scan EXCEPT ![s] = "notify"]
  /\ refreshing' = FALSE
  /\ \/ names' \in {"some", "empty"} /\ failed' = FALSE
     \/ names' = "none" /\ failed' = TRUE
  /\ UNCHANGED <<get, missed>>

\* ... and wakes those who wait.
Notifies(s) ==
  /\ scan[s] = "notify"
  /\ scan' = [scan EXCEPT ![s] = "over"]
  /\ get' = [r \in Requests |-> IF get[r] = "wait" THEN "look" ELSE get[r]]
  /\ missed' = {r \in Requests : get[r] = "gap"}
  /\ UNCHANGED <<refreshing, names, failed>>

\* SSID_CACHE_TTL is over.
Expires ==
  /\ names # "none" /\ names' = "none"
  /\ UNCHANGED <<get, scan, refreshing, failed, missed>>

SSIDNext ==
  \/ Triggered \/ Expires
  \/ \E r \in Requests : Asks(r) \/ GetsNames(r) \/ GetsError(r) \/ GetsNothing(r) \/ Waits(r)
  \/ \E s \in Scans : RefreshBegins(s) \/ Listed(s) \/ Notifies(s)

-----------------------------------------------------------------------------
\* "waiting only if a refresh is currently in progress or required"
\* (wifi_utils.rs:97): a request waits while a refresh is on its way to wake
\* it, or because it missed its wake-up before it began to wait, and then
\* only another refresh will wake it.
WaitsForRefresh ==
  \A r \in Requests : get[r] = "wait" => (\E s \in Scans : scan[s] # "over") \/ r \in missed
=============================================================================
