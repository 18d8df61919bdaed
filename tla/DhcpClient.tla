------------------------------ MODULE DhcpClient ------------------------------
(***************************************************************************)
(* The DHCP client of a station (components/lwip/core/ipv4/dhcp.c, built   *)
(* with ESP_DHCP_TIMER) as operators on its state d:                       *)
(*   state, tries  as in struct dhcp; OFF also if there is no client       *)
(*   waiting    request_timeout # 0                                        *)
(*   offered    offered_ip_addr;  lease  offered_t0_lease, from which t1   *)
(*              and t2 follow                                              *)
(*   t0, t2     t0_timeout, t2_timeout;  used  lease_used                  *)
(*   t1r, t2r   t1_renew_time, t2_rebind_time                              *)
(*   ip         the address of the interface                               *)
(*   out        the messages sent so far in the current call               *)
(*   newXid     the current call has chosen a new transaction identifier   *)
(* Times count calls of the coarse timer. The flag cur of a message tells  *)
(* whether its transaction identifier is still the client's; identifiers   *)
(* are taken to be different from each other. mem tells whether pbuf_alloc *)
(* works during the call.                                                  *)
(***************************************************************************)
EXTENDS Naturals, Sequences

CONSTANTS
    RequestTries, \* 5, in dhcp_timeout
    MinRetry      \* 3, in dhcp_t1_timeout and dhcp_t2_timeout

ASSUME DhcpClientAssumption == RequestTries \in Nat /\ MinRetry \in Nat \ {0}

ClientStates == {"OFF", "SELECTING", "REQUESTING", "BOUND", "RENEWING",
                 "REBINDING", "BACKING_OFF"}

(* No struct dhcp, or the one memset by dhcp_start.                        *)
ClientOff == [state |-> "OFF", tries |-> 0, waiting |-> FALSE, offered |-> 0,
              lease |-> 0, t0 |-> 0, t2 |-> 0, used |-> 0, t1r |-> 0, t2r |-> 0,
              ip |-> 0, out |-> <<>>, newXid |-> FALSE]

SetState(d, st) ==
    IF st = d.state THEN d
    ELSE [d EXCEPT !.state = st, !.tries = 0, !.waiting = FALSE]

(* The number of tries matters up to the limit of dhcp_timeout.            *)
CountTry(d) ==
    [d EXCEPT !.tries = IF @ > RequestTries THEN @ ELSE @ + 1, !.waiting = TRUE]

Outdated(msgs) == [i \in DOMAIN msgs |-> [msgs[i] EXCEPT !.cur = FALSE]]

(* dhcp_create_msg and the sending of the message.                         *)
Send(d, type, req, mem) ==
    LET fresh == type # "REQUEST" /\ d.tries = 0
        ci == IF \/ type = "RELEASE"
                 \/ type = "REQUEST" /\ d.state \in {"RENEWING", "REBINDING"}
              THEN d.ip ELSE 0
        msg == [type |-> type, ciaddr |-> ci, req |-> req, cur |-> TRUE]
    IN  IF ~mem THEN d
        ELSE [d EXCEPT !.out = Append(IF fresh THEN Outdated(@) ELSE @, msg),
                       !.newXid = @ \/ fresh]

(* dhcp_discover, dhcp_select, dhcp_renew and dhcp_rebind                  *)
Discover(d, mem) ==
    CountTry(Send(SetState([d EXCEPT !.offered = 0], "SELECTING"), "DISCOVER", 0, mem))

Select(d, mem) ==
    CountTry(Send(SetState(d, "REQUESTING"), "REQUEST", d.offered, mem))

Renew(d, mem)  == CountTry(Send(SetState(d, "RENEWING"), "REQUEST", 0, mem))
Rebind(d, mem) == CountTry(Send(SetState(d, "REBINDING"), "REQUEST", 0, mem))

(* dhcp_supplied_address: not in the state REBINDING.                      *)
Supplied(d) == d.state \in {"BOUND", "RENEWING"}

(* dhcp_release: the address is removed only if it counts as supplied.     *)
Release(d, mem) ==
    LET off == [SetState(d, "OFF") EXCEPT !.offered = 0, !.lease = 0, !.t0 = 0,
                                          !.used = 0, !.t1r = 0, !.t2r = 0]
    IN  IF Supplied(d) THEN [Send(off, "RELEASE", 0, mem) EXCEPT !.ip = 0] ELSE off

(* dhcp_bind. The server always gives a lease time.                        *)
Bind(d) ==
    SetState([d EXCEPT !.used = 0, !.t0 = d.lease, !.t2 = (d.lease * 7) \div 8,
                       !.t1r = d.lease \div 2, !.t2r = (d.lease * 7) \div 8,
                       !.ip = d.offered],
             "BOUND")

(* dhcp_handle_ack and dhcp_handle_nak                                     *)
HandleAck(d, m, leaseTime) == [d EXCEPT !.lease = leaseTime, !.offered = m.yiaddr]

HandleNak(d, mem) == Discover(SetState([d EXCEPT !.ip = 0], "BACKING_OFF"), mem)

(* dhcp_recv                                                               *)
Recv(d, m, leaseTime, mem) ==
    IF d.state = "OFF" \/ ~m.cur THEN d
    ELSE CASE m.type = "ACK" /\ d.state = "REQUESTING" ->
                Bind(HandleAck(d, m, leaseTime))
           [] m.type = "ACK" /\ d.state \in {"REBINDING", "RENEWING"} -> Bind(d)
           [] m.type = "NAK" /\ d.state \in {"REQUESTING", "REBINDING", "RENEWING"} ->
                HandleNak(d, mem)
           [] m.type = "OFFER" /\ d.state = "SELECTING" ->
                Select([d EXCEPT !.waiting = FALSE, !.offered = m.yiaddr], mem)
           [] OTHER -> d

(* Wrong variant: the request is repeated for ever.                        *)
TimeoutNoGiveUp(d0, mem) ==
    LET d == [d0 EXCEPT !.waiting = FALSE]
    IN  CASE d.state \in {"BACKING_OFF", "SELECTING"} -> Discover(d, mem)
          [] d.state = "REQUESTING" -> Select(d, mem)
          [] OTHER -> d

(* dhcp_timeout, the request_timeout has run off.                          *)
Timeout(d0, mem) ==
    LET d == [d0 EXCEPT !.waiting = FALSE]
    IN  CASE d.state \in {"BACKING_OFF", "SELECTING"} -> Discover(d, mem)
          [] d.state = "REQUESTING" ->
               IF d.tries <= RequestTries THEN Select(d, mem)
               ELSE Discover(Release(d, mem), mem)
          [] OTHER -> d

(* dhcp_t1_timeout and dhcp_t2_timeout; the half of what is left of t2 or *)
(* t0 (an int, at most 0 if there is nothing left).                        *)
Half(t, used) == IF t > used THEN (t - used) \div 2 ELSE 0

T1Timeout(d, mem) ==
    IF d.state \notin {"REQUESTING", "BOUND", "RENEWING"} THEN d
    ELSE LET half == Half(d.t2, d.used)
         IN  [Renew(d, mem) EXCEPT !.t1r = IF half >= MinRetry THEN half ELSE @]

T2Timeout(d, mem) ==
    IF d.state \notin {"REQUESTING", "BOUND", "RENEWING", "REBINDING"} THEN d
    ELSE LET half == Half(d.t0, d.used)
         IN  [Rebind(d, mem) EXCEPT !.t2r = IF half >= MinRetry THEN half ELSE @]

(* dhcp_coarse_tmr, for one interface                                      *)
Pred(t) == IF t = 0 THEN 0 ELSE t - 1

ClientTmr(d0, mem) ==
    LET d  == [d0 EXCEPT !.used = IF d0.t0 # 0 THEN @ + 1 ELSE @]
        d2 == [d EXCEPT !.t2r = Pred(@)]
        d1 == [d2 EXCEPT !.t1r = Pred(@)]
    IN  CASE d0.state = "OFF" -> d0
          [] d0.state # "OFF" /\ d.t0 # 0 /\ d.used = d.t0 ->
               Discover(Release(d, mem), mem)
          [] d0.state # "OFF" /\ ~(d.t0 # 0 /\ d.used = d.t0) ->
               CASE d.t2r = 1 -> T2Timeout(d2, mem)
                 [] d.t2r # 1 /\ d.t1r = 1 -> T1Timeout(d1, mem)
                 [] OTHER -> d1

(* dhcp_start, on an interface whose address tcpip_adapter_dhcpc_start has *)
(* cleared; without memory for the first message the client is stopped.    *)
Start(mem) == LET d == Discover(ClientOff, mem)
              IN  IF mem THEN d ELSE [SetState(d, "OFF") EXCEPT !.newXid = FALSE]
=============================================================================
