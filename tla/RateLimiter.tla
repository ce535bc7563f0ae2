---------------------------- MODULE RateLimiter -----------------------------
(***************************************************************************)
(* chat-api's limit on questions per client address.  allow runs under a   *)
(* mutex, so one call is one step.  The log of a client is pruned whenever *)
(* it is looked at; admitted keeps everything that was ever let through,   *)
(* to say what the pruned log has to remember.                             *)
(***************************************************************************)
EXTENDS Naturals, FiniteSets

CONSTANTS
    Clients,        \* client addresses
    Limit,          \* questions let through per window (10)
    Window,         \* length of the window (one minute)
    MaxTime         \* time modelled

VARIABLES
    now,            \* the clock
    requests,       \* client -> its log, as the limiter keeps it
    admitted        \* client -> every question let through (history variable)

limiterVars == <<now, requests, admitted>>

ASSUME LimiterAssumption ==
    /\ Limit \in Nat \ {0}
    /\ Window \in Nat \ {0}
    /\ MaxTime \in Nat

\* An entry of the log.  n tells two questions of one instant apart.
Entry == [n : Nat, at : Nat]

-----------------------------------------------------------------------------
Bug_CutoffLate(log, t) == {e \in log : e.at + Window > t + 1}

\* The entries after the cutoff, seen from time t.
recent(log, t) == {e \in log : e.at + Window > t}

\* Whether the next question of c is let through.
UnderLimit(c) == Cardinality(recent(requests[c], now)) < Limit

NewEntry(c) == [n |-> Cardinality(admitted[c]), at |-> now]

Bug_AdmitsAnyway(c) ==
    /\ requests' = [requests EXCEPT ![c] = recent(@, now) \cup {NewEntry(c)}]
    /\ admitted' = [admitted EXCEPT ![c] = @ \cup {NewEntry(c)}]
    /\ UNCHANGED now

\* allow: record the question, or refuse it; either way old entries go.
allow(c) ==
    /\ UnderLimit(c)
    /\ requests' = [requests EXCEPT ![c] = recent(@, now) \cup {NewEntry(c)}]
    /\ admitted' = [admitted EXCEPT ![c] = @ \cup {NewEntry(c)}]
    /\ UNCHANGED now

refuse(c) ==
    /\ ~UnderLimit(c)
    /\ requests' = [requests EXCEPT ![c] = recent(@, now)]
    /\ UNCHANGED <<now, admitted>>

Tick ==
    /\ now < MaxTime
    /\ now' = now + 1
    /\ UNCHANGED <<requests, admitted>>

LimiterInit ==
    /\ now = 0
    /\ requests = [c \in Clients |-> {}]
    /\ admitted = [c \in Clients |-> {}]

LimiterNext == Tick \/ \E c \in Clients : allow(c) \/ refuse(c)

LimiterSpec == LimiterInit /\ [][LimiterNext]_limiterVars

-----------------------------------------------------------------------------
\* What was let through in the window that ends at t.
InWindow(c, t) == {e \in admitted[c] : e.at <= t /\ t < e.at + Window}

\* The limiter's promise: no window of that length, wherever it begins, has
\* seen more than Limit questions of one client let through.
LimitHolds == \A c \in Clients, t \in 0 .. MaxTime : Cardinality(InWindow(c, t)) <= Limit

\* The pruned log decides as the whole history would: a client is let
\* through exactly when it has had fewer than Limit questions let through in
\* the window that ends now, so nobody is refused without cause either.
LimiterExact ==
    \A c \in Clients : UnderLimit(c) <=> Cardinality(InWindow(c, now)) < Limit

LimiterTypeOK ==
    /\ now \in 0 .. MaxTime
    /\ requests \in [Clients -> SUBSET Entry]
    /\ admitted \in [Clients -> SUBSET Entry]
=============================================================================
