---------------------------- MODULE SecureChannel ---------------------------
(***************************************************************************)
(* Framed, encrypted connections: threads of one process share descriptors *)
(* and their sessions (lumabri_secure.h over secure_channel.h), the other  *)
(* process admits, opens and frees the frames (lumabri_proto.h).  A        *)
(* connection is numbered by its handshake, so its number stands for its   *)
(* fresh keys.  A frame travels as its header and then its ciphertext and  *)
(* tag; a chunk is torn when a write stops halfway.  The AEAD is ideal: a  *)
(* frame opens exactly under its own key, counter and header.              *)
(***************************************************************************)
EXTENDS Integers, Sequences, FiniteSets

CONSTANTS Fd,          \* descriptors of the connecting process
          Thread,      \* its application threads
          Host,        \* addresses it connects to
          Key,         \* identities a host may present
          Size,        \* sizes of the frames the threads send
          FrameCap,    \* lmb_frame_caps of their operation
          Budget,      \* LUMABRI_RX_BUDGET_MIB
          Limit,       \* LUMABRI_MAX_CONNECTIONS
          MaxEntries,  \* LMB_SEC_MAXFD
          Learn,       \* LUMABRI_REQUIRE_PIN is not set
          MaxConns, MaxSends, MaxFaults   \* bounds

VARIABLES fd,       \* [conn, at]: what the descriptor is open on, and how far
          reg,      \* g_sec_reg: descriptor -> entry, 0 for none
          entry,    \* connection -> its LmbSecEntry
          thr,      \* thread -> its lmb_send call
          known,    \* host -> keys of its rows in known_hosts
          wire,     \* connection -> chunks not yet read
          eof,      \* connection -> the connecting side closed it
          srv,      \* connection -> its handler: [at, rx, head]
          active,   \* LmbConnGate.active
          inflight, \* lmb_rx_inflight
          next, sends, faults,
          sent,     \* connection -> frames sealed under its key, in order
          got,      \* connection -> frames its handler accepted
          dirty     \* connections whose bytes were cut or mixed

vars == <<fd, reg, entry, thr, known, wire, eof, srv, active, inflight, next, sends, faults,
          sent, got, dirty>>
local == <<fd, reg, entry, thr, known, next, sends, sent>>
remote == <<srv, active, inflight, got>>

Conn == 1 .. MaxConns
Closed == [conn |-> 0, at |-> "free"]
Idle == [at |-> "idle", fd |-> 0, e |-> 0, ctr |-> 0, size |-> 0]
NoHead == [key |-> 0, ctr |-> 0, size |-> 0, part |-> "none"]
Fresh == [refs |-> 0, closing |-> FALSE, freed |-> FALSE, tx |-> 0, ctr |-> 0, peer |-> 0]

Init ==
  /\ fd = [f \in Fd |-> Closed]
  /\ reg = [f \in Fd |-> 0]
  /\ entry = [c \in Conn |-> Fresh]
  /\ thr = [t \in Thread |-> Idle]
  /\ known = [h \in Host |-> {}]
  /\ wire = [c \in Conn |-> <<>>]
  /\ eof = [c \in Conn |-> FALSE]
  /\ srv = [c \in Conn |-> [at |-> "none", rx |-> 0, head |-> NoHead]]
  /\ active = 0 /\ inflight = 0
  /\ next = 1 /\ sends = 0 /\ faults = 0
  /\ sent = [c \in Conn |-> <<>>] /\ got = [c \in Conn |-> <<>>]
  /\ dirty = {}

Fault == faults < MaxFaults /\ faults' = faults + 1
-----------------------------------------------------------------------------
(* The connecting process                                                   *)

(* lmb_connect: a socket, before the handshake.  Nobody else has it yet.    *)
Connect(f) ==
  /\ next <= MaxConns /\ fd[f] = Closed
  /\ \E h \in Host :
       fd' = [fd EXCEPT ![f] = [conn |-> next, at |-> "shake", host |-> h]]
  /\ srv' = [srv EXCEPT ![next].at = "backlog"]
  /\ next' = next + 1
  /\ UNCHANGED <<reg, entry, thr, known, wire, eof, active, inflight, sends, faults, sent, got, dirty>>

(* lmb_secure_handshake: both sides have verified the other's signature of   *)
(* the two ephemerals and hold the same two keys, counters at zero.  Other   *)
(* bytes on the stream would spoil it.                                       *)
Handshake(f) ==
  /\ fd[f].at = "shake" /\ srv[fd[f].conn].at = "shake" /\ wire[fd[f].conn] = <<>>
  /\ \E k \in Key :
       /\ fd' = [fd EXCEPT ![f].at = "pin"]
       /\ entry' = [entry EXCEPT ![fd[f].conn].peer = k]
  /\ srv' = [srv EXCEPT ![fd[f].conn].at = "read"]
  /\ UNCHANGED <<reg, thr, known, wire, eof, active, inflight, next, sends, faults, sent, got, dirty>>

(* lmb_sec_pin_file, under the file lock: one key per endpoint, learned once *)
Accepts(rows, k) == IF rows = {} THEN Learn ELSE rows = {k}

(* lmb_sec_forget_hook: an entry that leaves the registry dies when unused   *)
Forgotten(f) ==
  LET e == reg[f]
  IN IF e = 0 THEN entry
     ELSE [entry EXCEPT ![e].closing = TRUE, ![e].freed = (entry[e].refs = 0)]

(* lmb_sec_wrap_hook after the handshake: check the pin, drop what an older  *)
(* use of the descriptor left, and publish the entry while there is room     *)
Pin(f) ==
  LET c == fd[f].conn
      h == fd[f].host
      k == entry[c].peer
      room == Cardinality({g \in Fd \ {f} : reg[g] # 0}) < MaxEntries
  IN /\ fd[f].at = "pin"
     /\ IF Accepts(known[h], k)
        THEN /\ known' = [known EXCEPT ![h] = @ \cup {k}]
             /\ reg' = [reg EXCEPT ![f] = IF room THEN c ELSE 0]
             /\ entry' = [Forgotten(f) EXCEPT ![c].freed = ~room]
             /\ fd' = [fd EXCEPT ![f].at = IF room THEN "up" ELSE "closing"]
        ELSE /\ fd' = [fd EXCEPT ![f].at = "closing"]
             /\ entry' = [entry EXCEPT ![c].freed = TRUE]
             /\ UNCHANGED <<known, reg>>
     /\ UNCHANGED <<thr, wire, eof, srv, active, inflight, next, sends, faults, sent, got, dirty>>

(* A peer that is gone, too slow or badly signed ends the handshake          *)
HandshakeFails(f) ==
  /\ fd[f].at = "shake"
  /\ \/ srv[fd[f].conn].at = "gone" /\ faults' = faults
     \/ Fault
  /\ fd' = [fd EXCEPT ![f].at = "closing"]
  /\ entry' = [entry EXCEPT ![fd[f].conn].freed = TRUE]
  /\ UNCHANGED <<reg, thr, known, wire, eof, srv, active, inflight, next, sends, sent, got, dirty>>

(* lmb_close by any thread: first the session is forgotten ...               *)
Close(f) ==
  /\ fd[f].at = "up"
  /\ reg' = [reg EXCEPT ![f] = 0] /\ entry' = Forgotten(f)
  /\ fd' = [fd EXCEPT ![f].at = "closing"]
  /\ UNCHANGED <<thr, known, wire, eof, srv, active, inflight, next, sends, faults, sent, got, dirty>>

(* ... then the socket is closed and the number may be used again            *)
CloseSocket(f) ==
  /\ fd[f].at = "closing"
  /\ eof' = [eof EXCEPT ![fd[f].conn] = TRUE]
  /\ fd' = [fd EXCEPT ![f] = Closed]
  /\ UNCHANGED <<reg, entry, thr, known, wire, srv, active, inflight, next, sends, faults, sent, got, dirty>>

(* lmb_frame_shape_ok *)
FrameOk(n) == n <= FrameCap

(* lmb_sec_acquire, called by lmb_send on a descriptor the thread uses.  A   *)
(* session already forgotten leaves the plain frame format.                  *)
Send(t, f) ==
  LET e == reg[f]
  IN /\ thr[t] = Idle /\ sends < MaxSends /\ fd[f].at \in {"up", "closing"}
     /\ fd[f].at = "closing" => entry[fd[f].conn].closing
     /\ \E n \in Size :
          thr' = [thr EXCEPT ![t] =
            IF e = 0 /\ ~FrameOk(n) THEN Idle
            ELSE [at |-> IF e # 0 THEN "lock" ELSE "head", fd |-> f, e |-> e, ctr |-> 0, size |-> n]]
     /\ entry' = IF e = 0 THEN entry ELSE [entry EXCEPT ![e].refs = @ + 1]
     /\ sends' = sends + 1
     /\ UNCHANGED <<fd, reg, known, wire, eof, srv, active, inflight, next, faults, sent, got, dirty>>

(* lmb_sec_release: the last user of a closed session frees it               *)
Release(e) ==
  [entry EXCEPT ![e].refs = @ - 1, ![e].tx = 0,
                ![e].freed = entry[e].closing /\ entry[e].refs = 1]

(* The transmit lock is not taken: counters and writes of two calls overlap  *)
BugSeal(t) ==
  LET e == thr[t].e
      n == thr[t].size
  IN /\ thr[t].at = "lock"
     /\ entry' = [entry EXCEPT ![e].tx = t, ![e].ctr = @ + 1]
     /\ sent' = [sent EXCEPT ![e] = Append(@, <<t, n>>)]
     /\ thr' = [thr EXCEPT ![t].at = "head", ![t].ctr = entry[e].ctr]
     /\ UNCHANGED <<fd, reg, known, wire, eof, srv, active, inflight, next, sends, faults, got, dirty>>

(* The transmit lock, and with it the next counter.  A frame that is too     *)
(* large is refused before it takes one.                                     *)
Seal(t) ==
  LET e == thr[t].e
      n == thr[t].size
  IN /\ thr[t].at = "lock" /\ entry[e].tx = 0
     /\ IF FrameOk(n)
        THEN /\ entry' = [entry EXCEPT ![e].tx = t, ![e].ctr = @ + 1]
             /\ sent' = [sent EXCEPT ![e] = Append(@, <<t, n>>)]
             /\ thr' = [thr EXCEPT ![t].at = "head", ![t].ctr = entry[e].ctr]
        ELSE /\ entry' = Release(e) /\ sent' = sent
             /\ thr' = [thr EXCEPT ![t] = Idle]
     /\ UNCHANGED <<fd, reg, known, wire, eof, srv, active, inflight, next, sends, faults, got, dirty>>

Chunk(t, part) == [key |-> thr[t].e, ctr |-> thr[t].ctr, size |-> thr[t].size, part |-> part, by |-> t]

(* What a frame on connection c must not be for c to stay readable: written  *)
(* for another session, or for none                                          *)
Foreign(t, c) == thr[t].e # c

(* The call returns: unlock, release *)
Return(t) ==
  /\ thr' = [thr EXCEPT ![t] = Idle]
  /\ entry' = IF thr[t].e = 0 THEN entry ELSE Release(thr[t].e)

(* lmb_write_full of the next part, on whatever the descriptor is open on    *)
Write(t) ==
  LET c == fd[thr[t].fd].conn
      part == thr[t].at
  IN /\ part \in {"head", "rest"} /\ c # 0 /\ srv[c].at # "gone"
     /\ wire' = [wire EXCEPT ![c] = Append(@, Chunk(t, part))]
     /\ dirty' = IF Foreign(t, c) THEN dirty \cup {c} ELSE dirty
     /\ IF part = "head"
        THEN thr' = [thr EXCEPT ![t].at = "rest"] /\ entry' = entry
        ELSE Return(t)
     /\ UNCHANGED <<fd, reg, known, eof, srv, active, inflight, next, sends, faults, sent, got>>

(* The write fails: the descriptor or the peer is gone, or it stops halfway  *)
WriteFails(t) ==
  LET c == fd[thr[t].fd].conn
      part == thr[t].at
  IN /\ part \in {"head", "rest"}
     /\ \/ /\ c # 0 => srv[c].at = "gone"
           /\ UNCHANGED <<faults, wire>>
        \/ /\ c # 0 /\ Fault
           /\ wire' = [wire EXCEPT ![c] = Append(@, Chunk(t, "torn"))]
     /\ dirty' = dirty \cup ({c, thr[t].e} \ {0})
     /\ Return(t)
     /\ UNCHANGED <<fd, reg, known, eof, srv, active, inflight, next, sends, sent, got>>
-----------------------------------------------------------------------------
(* The accepting process                                                     *)

(* accept and lmb_conn_gate_enter, before a handler exists: at the limit, or *)
(* when no thread can be started, the connection is closed                   *)
GateOpen == active < Limit
Accept(c) ==
  /\ srv[c].at = "backlog"
  /\ \/ /\ GateOpen
        /\ active' = active + 1 /\ srv' = [srv EXCEPT ![c].at = "shake"]
        /\ faults' = faults
     \/ /\ IF GateOpen THEN Fault ELSE faults' = faults
        /\ active' = active /\ srv' = [srv EXCEPT ![c].at = "gone"]
  /\ UNCHANGED <<local, wire, eof, inflight, got, dirty>>

(* lmb_rx_reserve: within the aggregate budget *)
Reserves(n) == n <= Budget /\ inflight <= Budget - n

(* The handler ends: what it still holds is freed, the gate is left          *)
Ends(c) ==
  /\ srv' = [srv EXCEPT ![c] = [at |-> "gone", rx |-> 0, head |-> NoHead]]
  /\ active' = active - 1
  /\ inflight' = inflight - srv[c].head.size

(* lmb_secure_recv reads a header and reserves, before it allocates          *)
ReadHead(c) ==
  LET h == Head(wire[c])
      ok == h.part = "head" /\ FrameOk(h.size) /\ Reserves(h.size)
  IN /\ srv[c].at = "read" /\ wire[c] # <<>>
     /\ wire' = [wire EXCEPT ![c] = Tail(@)]
     /\ IF ok
        THEN /\ srv' = [srv EXCEPT ![c].at = "body", ![c].head = h]
             /\ inflight' = inflight + h.size
             /\ active' = active
        ELSE Ends(c)
     /\ UNCHANGED <<local, eof, faults, got, dirty>>

(* lc_aead_open: the key, the counter and the header are the ones sealed     *)
Opens(c, head, rest) ==
  /\ rest.part = "rest"
  /\ rest.key = c /\ rest.ctr = srv[c].rx
  /\ head = [rest EXCEPT !.part = "head"]

ReadRest(c) ==
  LET r == Head(wire[c])
  IN /\ srv[c].at = "body" /\ wire[c] # <<>>
     /\ wire' = [wire EXCEPT ![c] = Tail(@)]
     /\ IF Opens(c, srv[c].head, r)
        THEN /\ srv' = [srv EXCEPT ![c].at = "hold", ![c].rx = @ + 1]
             /\ got' = [got EXCEPT ![c] = Append(@, <<r.by, r.size>>)]
             /\ UNCHANGED <<active, inflight>>
        ELSE Ends(c) /\ got' = got
     /\ UNCHANGED <<local, eof, faults, dirty>>

(* lmb_msg_free once the request has been served                             *)
Free(c) ==
  /\ srv[c].at = "hold"
  /\ srv' = [srv EXCEPT ![c].at = "read", ![c].head = NoHead]
  /\ inflight' = inflight - srv[c].head.size
  /\ UNCHANGED <<local, wire, eof, active, faults, got, dirty>>

(* A stream that ends inside a frame is not noticed *)
BugHangup(c) ==
  /\ srv[c].at \in {"shake", "read"}
  /\ wire[c] = <<>> \/ srv[c].at = "shake"
  /\ IF eof[c] \/ wire[c] # <<>> THEN faults' = faults ELSE Fault
  /\ Ends(c)
  /\ UNCHANGED <<local, wire, eof, got, dirty>>

(* End of stream, a spoilt handshake, or the io or handshake deadline: the   *)
(* handler leaves                                                            *)
Hangup(c) ==
  /\ srv[c].at \in {"shake", "read", "body"}
  /\ wire[c] = <<>> \/ srv[c].at = "shake"
  /\ IF eof[c] \/ wire[c] # <<>> THEN faults' = faults ELSE Fault
  /\ Ends(c)
  /\ UNCHANGED <<local, wire, eof, got, dirty>>

Call(t) == Seal(t) \/ Write(t) \/ WriteFails(t)
Handle(c) == Accept(c) \/ ReadHead(c) \/ ReadRest(c) \/ Free(c) \/ Hangup(c)
Opener(f) == Handshake(f) \/ Pin(f) \/ HandshakeFails(f) \/ CloseSocket(f)

Next ==
  \/ \E f \in Fd : Connect(f) \/ Close(f) \/ Opener(f)
  \/ \E t \in Thread : Call(t) \/ \E f \in Fd : Send(t, f)
  \/ \E c \in Conn : Handle(c)

(* Every thread and every handler keeps running; nobody has to send or close *)
Fairness ==
  /\ \A f \in Fd : WF_vars(Opener(f))
  /\ \A t \in Thread : WF_vars(Call(t))
  /\ \A c \in Conn : WF_vars(Handle(c))

Spec == Init /\ [][Next]_vars /\ Fairness
-----------------------------------------------------------------------------
Users(c) == {t \in Thread : thr[t].at # "idle" /\ thr[t].e = c}
Serving == {c \in Conn : srv[c].at \in {"shake", "read", "body", "hold"}}
Held == UNION {{c} \X (1 .. srv[c].head.size) : c \in Conn}    \* the bytes reserved, one by one

(* Threads that send on one descriptor, close it and use its number again    *)
(* never make a handler accept anything but the frames sealed for its        *)
(* connection in their order; a connection nobody cut or mixed is never      *)
(* refused a frame that fits the budget; a session is freed exactly when it  *)
(* is out of the registry and no call uses it; handlers and reserved bytes   *)
(* are counted exactly, within their limits; a host has one known key, the   *)
(* one of every session to it.                                               *)
ChannelSound ==
  /\ \A c \in Conn :
       /\ Len(got[c]) <= Len(sent[c]) /\ \A i \in 1 .. Len(got[c]) : got[c][i] = sent[c][i]
       /\ entry[c].refs = Cardinality(Users(c))
       /\ entry[c].freed => Users(c) = {} /\ \A f \in Fd : reg[f] # c
       /\ entry[c].closing /\ Users(c) = {} => entry[c].freed
       /\ c \notin dirty /\ srv[c].at = "body" /\ wire[c] # <<>> =>
            Opens(c, srv[c].head, Head(wire[c]))
       /\ c \notin dirty /\ srv[c].at = "read" /\ wire[c] # <<>> => Head(wire[c]).part = "head"
  /\ active = Cardinality(Serving) /\ active <= Limit
  /\ inflight = Cardinality(Held) /\ inflight <= Budget
  /\ \A h \in Host : Cardinality(known[h]) <= 1
  /\ \A f \in Fd : reg[f] # 0 => reg[f] = fd[f].conn /\ {entry[reg[f]].peer} = known[fd[f].host]

(* A connection closed by its process is left by its handler, which returns  *)
(* its place at the gate and its bytes, and its session is freed             *)
Left(c) == eof[c] => srv[c].at = "gone" /\ entry[c].freed
ChannelEnds == \A c \in Conn : []<>Left(c)
=============================================================================
