--------------------------------- MODULE Dhcp ---------------------------------
(***************************************************************************)
(* The access point's DHCP server and the stations of the WiFi net. The    *)
(* stations in Stations run the client of the same tree (DhcpClient)       *)
(* behind tcpip_adapter_lwip.c; any other station may send the server      *)
(* anything. Messages between a station and the server keep their order    *)
(* and may be lost. A message takes far less than the half second of the   *)
(* shortest timeout: when a timeout runs off, the station's request has    *)
(* arrived or is lost, though answers to it may still be under way, and    *)
(* at a tick of the coarse timers, a second, nothing is under way.         *)
(***************************************************************************)
EXTENDS DhcpServer, DhcpClient

CONSTANTS
    Stations,     \* the stations that run DhcpClient
    MaxLate,      \* bound: answers under way when a timeout runs off
    MaxStrange,   \* bound: messages of the other stations
    MaxRestarts   \* bound: restarts of the device and of stations

ASSUME DhcpAssumption == Stations \subseteq Macs

VARIABLES
    srv,      \* the server
    cli,      \* the clients
    toSrv,    \* messages under way to the server, by station
    toCli,    \* replies under way
    evicted,  \* history: bound stations whose lease kill_oldest_dhcps_pool removed
    strange,  \* messages of other stations so far
    restarts

vars == <<srv, cli, toSrv, toCli, evicted, strange, restarts>>

Holding == {"BOUND", "RENEWING", "REBINDING"}

Init ==
    /\ srv = ServerStart
    /\ cli = [s \in Stations |-> ClientOff]
    /\ toSrv = [s \in Stations |-> <<>>]
    /\ toCli = [s \in Stations |-> <<>>]
    /\ evicted = {}
    /\ strange = 0 /\ restarts = 0

Quiet(s) == toSrv[s] = <<>> /\ toCli[s] = <<>>

(* The clients after a call of each of them, c[s] the result for s: what   *)
(* they have sent is under way, and a new transaction identifier makes     *)
(* everything older outdated.                                              *)
Step(c) ==
    /\ cli' = [s \in Stations |-> [c[s] EXCEPT !.out = <<>>, !.newXid = FALSE]]
    /\ evicted' = {s \in evicted : c[s].state \in Holding}

Sent(q, s, d) ==
    LET old == IF d.newXid THEN Outdated(q[s]) ELSE q[s]
        out == [i \in DOMAIN d.out |-> [type |-> d.out[i].type, mac |-> s,
                  ciaddr |-> d.out[i].ciaddr, req |-> d.out[i].req, cur |-> d.out[i].cur]]
    IN  old \o out

(* One client s has done a call with the result d; rest is what is left of *)
(* the replies to it.                                                      *)
ClientCall(s, d, rest) ==
    /\ Step([cli EXCEPT ![s] = d])
    /\ toSrv' = [toSrv EXCEPT ![s] = Sent(toSrv, s, d)]
    /\ toCli' = [toCli EXCEPT ![s] = IF d.newXid THEN Outdated(rest) ELSE rest]

(* The station joins the net: tcpip_adapter_up and _dhcpc_start.           *)
Connect(s) ==
    /\ cli[s].state = "OFF" /\ toSrv[s] = <<>>
    /\ \E mem \in BOOLEAN : ClientCall(s, Start(mem), toCli[s])
    /\ UNCHANGED <<srv, strange, restarts>>

(* tcpip_adapter_down: dhcp_stop, and the address is cleared. With         *)
(* tcpip_adapter_stop the lease is released before.                        *)
Disconnect(s) ==
    /\ cli[s].state # "OFF" /\ restarts < MaxRestarts
    /\ restarts' = restarts + 1
    /\ \E d \in {cli[s]} \cup {Release(cli[s], mem) : mem \in BOOLEAN} :
         ClientCall(s, [ClientOff EXCEPT !.out = d.out, !.newXid = d.newXid], toCli[s])
    /\ UNCHANGED <<srv, strange>>

(* The server handles a message; it may lack the memory for an answer.     *)
ServerReceives(s, answers) ==
    /\ toSrv[s] # <<>>
    /\ LET r == HandleDhcp(srv, Head(toSrv[s]))
       IN  /\ srv' = r.s
           /\ toCli' = [toCli EXCEPT ![s] =
                IF answers THEN @ \o r.reply ELSE @]
    /\ toSrv' = [toSrv EXCEPT ![s] = Tail(@)]
    /\ UNCHANGED <<cli, evicted, strange, restarts>>

ClientReceives(s, mem) ==
    /\ toCli[s] # <<>>
    /\ ClientCall(s, Recv(cli[s], Head(toCli[s]), LeaseTime, mem), Tail(toCli[s]))
    /\ UNCHANGED <<srv, strange, restarts>>

Lose(s) ==
    /\ \/ toSrv[s] # <<>> /\ toSrv' = [toSrv EXCEPT ![s] = Tail(@)] /\ UNCHANGED toCli
       \/ toCli[s] # <<>> /\ toCli' = [toCli EXCEPT ![s] = Tail(@)] /\ UNCHANGED toSrv
    /\ UNCHANGED <<srv, cli, evicted, strange, restarts>>

(* dhcp_fine_tmr: the request timeout runs off.                            *)
RequestTimeout(s, mem) ==
    /\ cli[s].waiting
    /\ toSrv[s] = <<>> /\ Len(toCli[s]) <= MaxLate
    /\ ClientCall(s, Timeout(cli[s], mem), toCli[s])
    /\ UNCHANGED <<srv, strange, restarts>>

(* The coarse timers of the server and of all clients.                     *)
Tick(mem) ==
    /\ \A s \in Stations : Quiet(s)
    /\ srv' = CoarseTmr(srv)
    /\ LET c == [s \in Stations |-> ClientTmr(cli[s], mem)]
       IN  /\ cli' = [s \in Stations |-> [c[s] EXCEPT !.out = <<>>, !.newXid = FALSE]]
           /\ toSrv' = [s \in Stations |-> Sent(toSrv, s, c[s])]
           /\ evicted' = {s \in evicted \cup (Evicts(srv) \cap Stations) :
                            c[s].state \in Holding}
    /\ UNCHANGED <<toCli, strange, restarts>>

(* A station that runs something else sends a message.                     *)
StrangeMessage ==
    /\ strange < MaxStrange /\ strange' = strange + 1
    /\ \E mac \in Macs \ Stations, ip \in PollStart .. PollStart + MaxLease :
         \E type \in {"DISCOVER", "REQUEST", "DECLINE", "RELEASE"},
            req \in {0, ip}, ci \in {0, ip} :
           srv' = HandleDhcp(srv, [type |-> type, mac |-> mac, ciaddr |-> ci,
                                   req |-> req, cur |-> FALSE]).s
    /\ UNCHANGED <<cli, toSrv, toCli, evicted, restarts>>

(* The device restarts: its leases are gone, the stations lose the net.    *)
Reboot ==
    /\ restarts < MaxRestarts /\ restarts' = restarts + 1
    /\ srv' = ServerStart
    /\ cli' = [s \in Stations |-> ClientOff]
    /\ toSrv' = [s \in Stations |-> <<>>]
    /\ toCli' = [s \in Stations |-> <<>>]
    /\ evicted' = {}
    /\ UNCHANGED strange

Next ==
    \/ \E s \in Stations :
         \/ Connect(s) \/ Disconnect(s) \/ Lose(s)
         \/ \E b \in BOOLEAN : \/ ServerReceives(s, b) \/ ClientReceives(s, b)
                               \/ RequestTimeout(s, b)
    \/ \E mem \in BOOLEAN : Tick(mem)
    \/ StrangeMessage
    \/ Reboot

(* Time passes and timeouts run off; memory is not always                 *)
(* short, and of each kind of message that is sent again and again to      *)
(* somebody who waits for it, one arrives.                                 *)
Fairness ==
    /\ []<><<Tick(TRUE)>>_vars
    /\ \A s \in Stations :
         /\ SF_vars(RequestTimeout(s, TRUE))
         /\ \A t \in {"DISCOVER", "REQUEST"} :
              SF_vars(ServerReceives(s, TRUE) /\ Head(toSrv[s]).type = t)
         /\ \A t \in {"OFFER", "ACK"} :
              SF_vars(ClientReceives(s, TRUE) /\ Head(toCli[s]).type = t
                                              /\ cli'[s] # cli[s])

Spec == Init /\ [][Next]_vars /\ Fairness

-----------------------------------------------------------------------------
Pool == PollStart .. PollStart + MaxLease - 1

TypeOK ==
    /\ srv.list \in Seq(Entry)
    /\ srv.plus \in PollStart .. PollStart + MaxLease
    /\ \A s \in Stations :
         /\ cli[s].state \in ClientStates
         /\ cli[s].tries \in 0 .. RequestTries + 1
         /\ cli[s].used \in 0 .. LeaseTime
         /\ cli[s].ip \in Pool \cup {0}
         /\ cli[s].offered \in Pool \cup {0}
         /\ Len(toSrv[s]) <= 3 /\ Len(toCli[s]) <= MaxLate + 3

(* The list of leases stays what parse_msg needs it to be: ordered by     *)
(* address, every address once and inside the range, every station once,  *)
(* and never the access point's own address (dhcps_poll_set,              *)
(* node_insert_to_list), whatever stations send and in whichever order    *)
(* entries expire, are released or are evicted.                            *)
LeasesConsistent ==
    /\ \A i, j \in DOMAIN srv.list :
         i < j => srv.list[i].ip < srv.list[j].ip /\ srv.list[i].mac # srv.list[j].mac
    /\ \A i \in DOMAIN srv.list : srv.list[i].ip \in Pool \ {ServerIp}

(* A station that holds an address has a lease for it at the server, and  *)
(* that lease runs at least as long as the station believes (dhcp_bind,   *)
(* dhcp_coarse_tmr against parse_msg, dhcps_coarse_tmr), unless           *)
(* kill_oldest_dhcps_pool took it away. With LeasesConsistent no two such *)
(* stations use the same address.                                         *)
LeaseCovered ==
    \A s \in Stations \ evicted :
      cli[s].state \in Holding /\ cli[s].ip # 0 =>
        \E i \in DOMAIN srv.list :
          /\ srv.list[i].mac = s /\ srv.list[i].ip = cli[s].ip
          /\ srv.list[i].timer >= cli[s].t0 - cli[s].used

(* A station that is connected gets an address or is disconnected         *)
(* (dhcp_timeout, dhcp_handle_nak, dhcp_coarse_tmr never leave it without *)
(* a timer or a message that moves it on).                                 *)
GetsAddress ==
    \A s \in Stations :
      cli[s].state # "OFF" ~> (cli[s].state = "BOUND" \/ cli[s].state = "OFF")
=============================================================================
