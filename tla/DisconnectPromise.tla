------------------------- MODULE DisconnectPromise -------------------------
(***************************************************************************)
(* What a caller of dual_stream_disconnect is promised, whatever threads,  *)
(* gates and deadlines are behind it: a report is returned only if both    *)
(* clients had received their first event when the first of them           *)
(* disconnected, and both have disconnected by then; otherwise the call    *)
(* raises.  After the call has ended a client may still hear from the      *)
(* server and disconnect, but only if the call raised.                     *)
(***************************************************************************)
CONSTANT Clients

VARIABLES
    received,   \* the clients that received their first event
    gone,       \* the clients that disconnected
    early,      \* some client disconnected before all had received
    outcome     \* "pending", then "report" or "error"

promiseVars == <<received, gone, early, outcome>>

PromiseInit ==
    /\ received = {}
    /\ gone = {}
    /\ early = FALSE
    /\ outcome = "pending"

Receive(c) ==
    /\ outcome # "report"
    /\ c \notin gone
    /\ received' = received \cup {c}
    /\ UNCHANGED <<gone, early, outcome>>

Leave(S) ==
    /\ outcome # "report"
    /\ gone' = gone \cup S
    /\ early' = (early \/ received # Clients)
    /\ UNCHANGED <<received, outcome>>

(* Closing what is still open and leaving by the exception is one step.     *)
Fail(S) ==
    /\ outcome = "pending"
    /\ outcome' = "error"
    /\ gone' = gone \cup S
    /\ early' = (early \/ (S # {} /\ received # Clients))
    /\ UNCHANGED received

Report ==
    /\ outcome = "pending"
    /\ ~early
    /\ received = Clients
    /\ gone = Clients
    /\ outcome' = "report"
    /\ UNCHANGED <<received, gone, early>>

PromiseNext ==
    \/ \E c \in Clients : Receive(c)
    \/ \E S \in (SUBSET Clients) \ {{}} : Leave(S)
    \/ \E S \in SUBSET Clients : Fail(S)
    \/ Report

PromiseSpec == PromiseInit /\ [][PromiseNext]_promiseVars
=============================================================================
