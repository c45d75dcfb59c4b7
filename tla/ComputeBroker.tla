--------------------------- MODULE ComputeBroker ---------------------------
(***************************************************************************)
(* The compute broker of a donor (lumabri_compute_broker.h): the processes   *)
(* of its resident models each ask for the one permit to run a kernel, over  *)
(* a local socket whose open connection is the permit.                       *)
(*                                                                           *)
(* A connection is one call of lmb_compute_acquire.  Each end closes on its  *)
(* own, and the other end learns of it at its next poll, so the two ends'    *)
(* states are separate variables.  One iteration of lmb_compute_serve is     *)
(* split into what it does to one connection, and the grant that ends it:    *)
(* the broker is one thread, and what it has not looked at yet may change    *)
(* either way.  A queue deadline may pass at any time.  Clients send the one *)
(* well-formed request; a partial one is a request not yet sent.             *)
(***************************************************************************)
EXTENDS Integers, FiniteSets

CONSTANTS Conns,        \* connections (bound on calls at a time)
          PendingMax,   \* LMB_COMPUTE_PENDING_MAX
          TicketMax     \* UINT64_MAX for tickets

ASSUME BrokerConstants ==
    /\ IsFiniteSet(Conns) /\ PendingMax \in Nat \ {0} /\ TicketMax \in Nat

VARIABLES client,       \* "closed", "asking", "computing"
          sent,         \* connections whose request is on the way
          granted,      \* connections whose grant byte is on the way
          broker,       \* "none", "backlog", "header", "queued", "active"
          shut,         \* connections the broker closed
          ticket,       \* the last ticket given
          ticket_of,    \* LmbComputeClient.ticket
          up            \* lmb_compute_serve is running

vars == <<client, sent, granted, broker, shut, ticket, ticket_of, up>>

Retained == {c \in Conns : broker[c] \in {"header", "queued", "active"}}
Queued == {c \in Conns : broker[c] = "queued"}
Active == {c \in Conns : broker[c] = "active"}
Computing == {c \in Conns : client[c] = "computing"}

Init ==
    /\ client = [c \in Conns |-> "closed"]
    /\ sent = {} /\ granted = {} /\ shut = {}
    /\ broker = [c \in Conns |-> "none"]
    /\ ticket = 0 /\ ticket_of = [c \in Conns |-> 0]
    /\ up = TRUE

(***************************************************************************)
(* lmb_compute_acquire and lmb_compute_release.                              *)
(***************************************************************************)
\* connect: a fresh descriptor in the listener's backlog, even when nobody
\* accepts any more.
Ask(c) ==
    /\ client[c] = "closed" /\ broker[c] = "none"
    /\ client' = [client EXCEPT ![c] = "asking"]
    /\ broker' = [broker EXCEPT ![c] = "backlog"]
    /\ sent' = sent \ {c} /\ granted' = granted \ {c} /\ shut' = shut \ {c}
    /\ ticket_of' = [ticket_of EXCEPT ![c] = 0]
    /\ UNCHANGED <<ticket, up>>

SendRequest(c) ==
    /\ client[c] = "asking" /\ c \notin sent /\ c \notin shut
    /\ sent' = sent \cup {c}
    /\ UNCHANGED <<client, granted, broker, shut, ticket, ticket_of, up>>

\* The grant is read.  A byte sent before the broker hung up is not: the poll
\* reports POLLHUP with it.
Receive(c) ==
    /\ client[c] = "asking" /\ c \in granted /\ c \notin shut
    /\ client' = [client EXCEPT ![c] = "computing"]
    /\ UNCHANGED <<sent, granted, broker, shut, ticket, ticket_of, up>>

\* Cancelled, out of time or hung up on, with or without a grant on the way.
GiveUp(c) ==
    /\ client[c] = "asking"
    /\ client' = [client EXCEPT ![c] = "closed"]
    /\ UNCHANGED <<sent, granted, broker, shut, ticket, ticket_of, up>>

\* The kernel is done, or its process died: the descriptor closes.
Release(c) ==
    /\ client[c] = "computing"
    /\ client' = [client EXCEPT ![c] = "closed"]
    /\ UNCHANGED <<sent, granted, broker, shut, ticket, ticket_of, up>>

(***************************************************************************)
(* lmb_compute_serve.                                                        *)
(***************************************************************************)
Dropped(c) ==
    /\ broker' = [broker EXCEPT ![c] = "none"]
    /\ shut' = shut \cup {c}
    /\ UNCHANGED <<client, sent, granted, ticket, ticket_of, up>>

HasRoom == Cardinality(Retained) < PendingMax

Accept(c) ==
    /\ up /\ broker[c] = "backlog"
    /\ IF HasRoom
       THEN /\ broker' = [broker EXCEPT ![c] = "header"]
            /\ UNCHANGED <<client, sent, granted, shut, ticket, ticket_of, up>>
       ELSE Dropped(c)

TicketsLeft == ticket # TicketMax

ReadRequest(c) ==
    /\ up /\ broker[c] = "header" /\ c \in sent
    /\ IF ~TicketsLeft THEN Dropped(c)
       ELSE /\ ticket' = ticket + 1
            /\ ticket_of' = [ticket_of EXCEPT ![c] = ticket + 1]
            /\ broker' = [broker EXCEPT ![c] = "queued"]
            /\ UNCHANGED <<client, sent, granted, shut, up>>

\* A queue deadline that also ends an active kernel's permit.
BugMayExpire(c) == TRUE

\* A queue deadline never evicts the active client.
MayExpire(c) == broker[c] # "active"

\* A hang-up is only noticed while the client waits.
BugHungUp(c) == client[c] = "closed" /\ broker[c] # "active"

HungUp(c) == client[c] = "closed"

Drop(c) ==
    /\ up /\ c \in Retained
    /\ HungUp(c) \/ MayExpire(c)
    /\ Dropped(c)

\* The client found first in the array, whatever its ticket.
BugIsFirst(c) == c \in Queued

IsFirst(c) == c \in Queued /\ \A d \in Queued : ticket_of[c] <= ticket_of[d]

\* The byte is sent, or the client has gone and the send fails.
Grant(c) ==
    /\ up /\ Active = {} /\ IsFirst(c)
    /\ IF client[c] = "closed" THEN Dropped(c)
       ELSE /\ broker' = [broker EXCEPT ![c] = "active"]
            /\ granted' = granted \cup {c}
            /\ UNCHANGED <<client, sent, shut, ticket, ticket_of, up>>

\* poll fails or the donor stops: every client is dropped, none accepted.
Stop ==
    /\ up
    /\ up' = FALSE
    /\ shut' = shut \cup Retained
    /\ broker' = [c \in Conns |-> IF c \in Retained THEN "none" ELSE broker[c]]
    /\ UNCHANGED <<client, sent, granted, ticket, ticket_of>>

\* The kernel drops a backlog connection whose client has gone.
Forgotten(c) ==
    /\ broker[c] = "backlog" /\ client[c] = "closed"
    /\ broker' = [broker EXCEPT ![c] = "none"]
    /\ UNCHANGED <<client, sent, granted, shut, ticket, ticket_of, up>>

Serve == \E c \in Conns : Accept(c) \/ ReadRequest(c) \/ Grant(c) \/ Drop(c)

Next ==
    \/ \E c \in Conns : Ask(c) \/ SendRequest(c) \/ Receive(c) \/ GiveUp(c) \/ Release(c)
    \/ Serve
    \/ \E c \in Conns : Forgotten(c)
    \/ Stop

Spec == Init /\ [][Next]_vars

\* The broker's loop looks at every connection in every iteration and ends it
\* with the grant; a client reads its socket, gives up when hung up on, and a
\* kernel ends or its process does.  Nobody is made to ask, to give up waiting
\* or to outlive a deadline.
FairSpec ==
    /\ Spec
    /\ \A c \in Conns : /\ WF_vars(Accept(c)) /\ WF_vars(ReadRequest(c))
                        /\ WF_vars(up /\ HungUp(c) /\ Drop(c))
                        /\ WF_vars(Grant(c))
                        /\ WF_vars(SendRequest(c)) /\ WF_vars(Receive(c))
                        /\ WF_vars((c \in shut \/ ~up) /\ GiveUp(c))
                        /\ WF_vars(Release(c))

-----------------------------------------------------------------------------
\* The two ends hold values of their types; tickets stay within uint64_t.
TypeOK ==
    /\ client \in [Conns -> {"closed", "asking", "computing"}]
    /\ broker \in [Conns -> {"none", "backlog", "header", "queued", "active"}]
    /\ sent \subseteq Conns /\ granted \subseteq Conns /\ shut \subseteq Conns
    /\ ticket \in 0..TicketMax /\ ticket_of \in [Conns -> 0..TicketMax]
    /\ up \in BOOLEAN

\* "One kernel team executes at a time on that donor" (HOUSEHOLD_SERVICE.md):
\* whatever clients cancel, die or outlive their queue deadline, and whenever
\* the broker stops.
OneKernel == Cardinality(Computing) <= 1

\* While the broker runs, a computing client is the one it holds active: "An
\* active kernel is never evicted merely because its queue timeout has passed".
NeverEvicted == up => \A c \in Computing : broker[c] = "active"

\* What the broker promises of a kernel in work.
KernelSound == OneKernel /\ NeverEvicted

\* "At most 32 connected permit requests are retained, including the active
\* owner and incomplete headers."
RetainedBounded == Cardinality(Retained) <= PendingMax

\* "waiting kernels are FIFO": a client that starts computing does so before
\* every client whose request was read before its own and that still waits.
Fifo ==
    [][\A c, d \in Conns :
         client[c] = "asking" /\ client'[c] = "computing" =>
            ~(broker[d] = "queued" /\ ticket_of[d] < ticket_of[c])]_vars

\* "Disconnecting or terminating its process releases the permit": a grant is
\* never lost with the client it was for, so whoever is first in the queue of a
\* running broker leaves it.
Served(c) == ~(IsFirst(c) /\ up)
FirstIsServed == \A c \in Conns : []<>Served(c)
=============================================================================
