----------------------------- MODULE LazyBrowser -----------------------------
(***************************************************************************)
(* What a plugin promises the callers of `execute`, without locks, boots   *)
(* or processes (src/src/plugin.rs): a browser that opens when somebody    *)
(* asks for it, serves one caller at a time, stays the same while it does, *)
(* and turns a caller away only while there is no browser at all.          *)
(* BrowserPlugin implements it; that every caller is answered in the end   *)
(* is BrowserPlugin's EveryCallReturns.                                    *)
(***************************************************************************)

CONSTANTS Callers, Browsers, NoBrowser

VARIABLES
    browser,    \* the browser commands run on
    status      \* per caller: idle, waiting or served

lazyVars == <<browser, status>>

Served == {t \in Callers : status[t] = "served"}
Becomes(t, s) == status' = [status EXCEPT ![t] = s]

LazyInit ==
    /\ browser = NoBrowser
    /\ status = [t \in Callers |-> "idle"]

Request(t) ==
    /\ status[t] = "idle"
    /\ Becomes(t, "waiting")
    /\ UNCHANGED browser

\* Opened for a caller that waits, never over another browser.
Open ==
    /\ browser = NoBrowser
    /\ \E t \in Callers : status[t] = "waiting"
    /\ browser' \in Browsers
    /\ UNCHANGED status

Serve(t) ==
    /\ status[t] = "waiting"
    /\ browser # NoBrowser
    /\ Served = {}
    /\ Becomes(t, "served")
    /\ UNCHANGED browser

Answer(t) ==
    /\ status[t] = "served"
    /\ Becomes(t, "idle")
    /\ UNCHANGED browser

Refuse(t) ==
    /\ status[t] = "waiting"
    /\ browser = NoBrowser
    /\ Becomes(t, "idle")
    /\ UNCHANGED browser

\* A shutdown waits until nobody is served.
Close ==
    /\ Served = {}
    /\ browser' = NoBrowser
    /\ UNCHANGED status

LazyNext ==
    \/ Open
    \/ Close
    \/ \E t \in Callers : Request(t) \/ Serve(t) \/ Answer(t) \/ Refuse(t)

LazySpec == LazyInit /\ [][LazyNext]_lazyVars
==============================================================================
