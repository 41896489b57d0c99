------------------------------ MODULE Session -------------------------------
(***************************************************************************)
(* The session of libtorrent over the lives of the main screens: started   *)
(* in onCreate, paused in onDestroy, its proxy set by the settings.  A     *)
(* screen that was left is destroyed some time later, perhaps when the     *)
(* next one is there already, and nothing keeps a second one from being    *)
(* opened over the first.  Every JNI call may throw, which makes           *)
(* gSessionState false, so that all the others do nothing until the next   *)
(* start.                                                                  *)
(***************************************************************************)
EXTENDS Integers

CONSTANTS
    MaxStarts,  \* bound: main screens created
    MaxFaults   \* bound: calls that throw

ASSUME SessionAssumption == MaxStarts \in Nat /\ MaxFaults \in Nat

VARIABLES
    gSession,  \* ready (gSessionState), paused, and whether it has the proxy
    enabled,   \* IS_PROXY_ENABLE_KEY of the preferences
    screens,   \* main screens that are there, one over the other
    leaving,   \* main screens that were left and are not destroyed yet
    starts, faults,
    failed,    \* history: a call has thrown since the last start
    late       \* history: a screen was destroyed, since the last start, with another one there

sessionVars == <<gSession, enabled, screens, leaving, starts, faults, failed, late>>

NoSession == [ready |-> FALSE, paused |-> FALSE, proxy |-> FALSE]

JNICalls == {"SetSession", "SetSessionOptions", "SetProxy", "ResumeSession", "PauseSession", "AbortSession"}

-----------------------------------------------------------------------------
\* Each call of libtorrent.cpp as a function of the session and of the calls
\* that throw.
Guarded(s, call, throw, after) ==
    IF ~s.ready THEN s ELSE IF call \in throw THEN [s EXCEPT !.ready = FALSE] ELSE after

SetSession(s, throw)         == [s EXCEPT !.ready = "SetSession" \notin throw]
SetSessionOptions(s, throw)  == Guarded(s, "SetSessionOptions", throw, s)
SetProxy(s, throw, on)       == Guarded(s, "SetProxy", throw, [s EXCEPT !.proxy = on])
ResumeSession(s, throw)      == Guarded(s, "ResumeSession", throw, [s EXCEPT !.paused = FALSE])
PauseSession(s, throw)       == Guarded(s, "PauseSession", throw, [s EXCEPT !.paused = TRUE])
AbortSession(s, throw)       == Guarded(s, "AbortSession", throw, s)

Start_ResumeFirst(throw) ==
    gSession' = SetProxy(SetSessionOptions(SetSession(ResumeSession(gSession, throw), throw), throw), throw, enabled)

\* TorrentService.start and stop.
Start(throw) ==
    gSession' = ResumeSession(SetProxy(SetSessionOptions(SetSession(gSession, throw), throw), throw, enabled), throw)

Stop(throw) == gSession' = AbortSession(PauseSession(gSession, throw), throw)

Throws(throw) ==
    /\ throw = {} \/ faults < MaxFaults
    /\ faults' = IF throw = {} THEN faults ELSE faults + 1

-----------------------------------------------------------------------------
OnCreate(throw) ==
    /\ starts < MaxStarts
    /\ starts' = starts + 1 /\ screens' = screens + 1
    /\ Throws(throw) /\ Start(throw)
    /\ failed' = (throw # {}) /\ late' = FALSE
    /\ UNCHANGED <<enabled, leaving>>

OnBackPressed ==
    /\ screens > 0 /\ screens' = screens - 1 /\ leaving' = leaving + 1
    /\ UNCHANGED <<gSession, enabled, starts, faults, failed, late>>

OnDestroy(throw) ==
    /\ leaving > 0 /\ leaving' = leaving - 1
    /\ Throws(throw) /\ Stop(throw)
    /\ failed' = (failed \/ throw # {}) /\ late' = (late \/ screens > 0)
    /\ UNCHANGED <<enabled, screens, starts>>

\* The settings, over the main screen.
VpnListener(throw) ==
    /\ screens > 0
    /\ enabled' = ~enabled
    /\ Throws(throw) /\ gSession' = SetProxy(gSession, throw, ~enabled)
    /\ failed' = (failed \/ throw # {})
    /\ UNCHANGED <<screens, leaving, starts, late>>

\* The process dies: only the preferences stay.
ProcessDies ==
    /\ gSession' = NoSession /\ screens' = 0 /\ leaving' = 0
    /\ UNCHANGED <<enabled, starts, faults, failed, late>>

SessionInit ==
    /\ gSession = NoSession /\ enabled \in BOOLEAN /\ screens = 0 /\ leaving = 0
    /\ starts = 0 /\ faults = 0 /\ failed = FALSE /\ late = FALSE

SessionNext ==
    \/ \E throw \in {{}} \cup {{call} : call \in JNICalls} :
         OnCreate(throw) \/ OnDestroy(throw) \/ VpnListener(throw)
    \/ OnBackPressed \/ ProcessDies

SessionSpec == SessionInit /\ [][SessionNext]_sessionVars

-----------------------------------------------------------------------------
(* While there is a main screen the session runs, with the proxy that the   *)
(* settings show, and once the last was left and destroyed nothing is       *)
(* transferred any more; unless a call has thrown since the start.  The     *)
(* other exception is a screen that was destroyed, since the last start,    *)
(* with another one there (late): it pauses the session of that one.        *)
SessionFollowsScreen ==
    ~failed =>
        /\ screens > 0 /\ ~late => gSession = [ready |-> TRUE, paused |-> FALSE, proxy |-> enabled]
        /\ screens = 0 /\ leaving = 0 /\ gSession.ready => gSession.paused
=============================================================================
