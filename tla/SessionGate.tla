---------------------------- MODULE SessionGate ----------------------------
(***************************************************************************)
(* The door in front of the app: the session hook                          *)
(* (src/web/lib/use-session.ts), the gate and the login screen             *)
(* (src/web/components/shell/), and the login route with its lockout       *)
(* (src/server/src/saaya/api/auth.py).  A session outlives the runs        *)
(* checked here (30 days).                                                 *)
(***************************************************************************)
EXTENDS Naturals

CONSTANTS
    Required,    \* a passphrase is configured
    MaxFailures  \* MAX_FAILURES of auth.py

ASSUME GateAssumption == Required \in BOOLEAN /\ MaxFailures \in Nat \ {0}

VARIABLES
    gate,      \* what AppGate renders
    asking,    \* GET /api/auth/session is in flight
    attempt,   \* the login in flight: "none", "right", "wrong", or "stuck"
    failures,  \* the tracker's count for the owner's address, saturating
    window,    \* the lockout of the last failure has not run out
    cookie     \* the browser holds a session

gateVars == <<gate, asking, attempt, failures, window, cookie>>

GateTypeOK ==
    /\ gate \in {"loading", "unreachable", "login", "app"}
    /\ asking \in BOOLEAN /\ cookie \in BOOLEAN /\ window \in BOOLEAN
    /\ attempt \in {"none", "right", "wrong", "stuck"}
    /\ failures \in 0..MaxFailures

GateInit ==
    /\ gate = "loading" /\ asking = TRUE /\ attempt = "none"
    /\ failures = 0 /\ window = FALSE /\ cookie = FALSE

LockedOut == failures >= MaxFailures /\ window

(* What AppGate shows for an answer of the session route. *)
Rendering(required, authenticated) ==
    IF required /\ ~authenticated THEN "login" ELSE "app"

\* Mutant: a server that does not answer is taken for one without a passphrase.
SessionAnswerOpen(serverUp) ==
    /\ asking /\ asking' = FALSE
    /\ gate' = IF serverUp THEN Rendering(Required, cookie) ELSE "app"
    /\ UNCHANGED <<attempt, failures, window, cookie>>

(* The one session check of a page load, and one more after a login. *)
SessionAnswer(serverUp) ==
    /\ asking /\ asking' = FALSE
    /\ gate' = IF serverUp THEN Rendering(Required, cookie) ELSE "unreachable"
    /\ UNCHANGED <<attempt, failures, window, cookie>>

(* The submit of the login form, once per answer. *)
Login(guess) ==
    /\ gate = "login" /\ attempt = "none" /\ ~asking
    /\ attempt' = guess
    /\ UNCHANGED <<gate, asking, failures, window, cookie>>

LoginRefused == /\ LockedOut /\ attempt' = "none"
                /\ UNCHANGED <<failures, window, cookie, asking>>

LoginFailed == /\ ~LockedOut /\ attempt = "wrong" /\ attempt' = "none"
               /\ failures' = IF failures < MaxFailures THEN failures + 1 ELSE failures
               /\ window' = TRUE
               /\ UNCHANGED <<cookie, asking>>

LoginGranted == /\ ~LockedOut /\ attempt = "right" /\ attempt' = "none"
                /\ failures' = 0 /\ window' = FALSE
                /\ cookie' = TRUE /\ asking' = TRUE

LoginAnswer ==
    /\ attempt \in {"right", "wrong"}
    /\ LoginRefused \/ LoginFailed \/ LoginGranted
    /\ UNCHANGED gate

(* A request that dies rejects before busy is cleared: the form stays busy. *)
LoginLost ==
    /\ attempt \in {"right", "wrong"} /\ attempt' = "stuck"
    /\ UNCHANGED <<gate, asking, failures, window, cookie>>

WindowEnds ==
    /\ window /\ window' = FALSE
    /\ UNCHANGED <<gate, asking, attempt, failures, cookie>>

ReloadGate ==
    /\ gate' = "loading" /\ asking' = TRUE /\ attempt' = "none"
    /\ UNCHANGED <<failures, window, cookie>>
=============================================================================
