------------------------------ MODULE DhcpServer ------------------------------
(***************************************************************************)
(* The DHCP server of the access point (components/lwip/apps/dhcpserver.c) *)
(* as operators on its state s:                                            *)
(*   list    plist, the leases in the order of their addresses             *)
(*   plus    client_address_plus, where the search for an address starts   *)
(*   start, end   dhcps_poll                                               *)
(* An address is its last octet, and 0 stands for no address. A station's  *)
(* message m has a type, the MAC address of its sender, ciaddr, the        *)
(* requested address req (0: the option is absent), and the flag cur that  *)
(* stands for its transaction identifier (see DhcpClient); a reply repeats *)
(* it.                                                                     *)
(***************************************************************************)
EXTENDS Naturals, Sequences

CONSTANTS
    Macs,        \* the stations' MAC addresses
    ServerIp,    \* the access point's own address
    HalfNet,     \* 0x80 in dhcps_poll_set
    MaxLease,    \* DHCPS_MAX_LEASE
    MaxStations, \* MAX_STATION_NUM
    LeaseTime    \* dhcps_lease_time, in ticks of the coarse timer

ASSUME DhcpServerAssumption ==
    /\ ServerIp \in Nat \ {0} /\ HalfNet \in Nat /\ MaxLease \in Nat \ {0}
    /\ ServerIp >= HalfNet => ServerIp > MaxLease
    /\ MaxStations \in Nat \ {0, 1}
    /\ LeaseTime \in Nat \ {0}

(* dhcps_poll_set without a configured range: the addresses above the     *)
(* server's, or below it if it is in the upper half of the net.           *)
PollStart == IF ServerIp >= HalfNet THEN ServerIp - MaxLease ELSE ServerIp + 1

(* dhcps_start: nothing is leased yet.                                     *)
ServerStart == [list |-> <<>>, plus |-> PollStart,
                start |-> PollStart, end |-> PollStart + MaxLease - 1]

Entry == [ip : Nat, mac : Macs, timer : Nat]

(* node_insert_to_list: before the first entry with a larger address.     *)
NodeInsert(list, e) ==
    LET n == CHOOSE n \in 0 .. Len(list) :
               /\ \A i \in 1 .. n : list[i].ip <= e.ip
               /\ n < Len(list) => list[n + 1].ip > e.ip
    IN  SubSeq(list, 1, n) \o <<e>> \o SubSeq(list, n + 1, Len(list))

(* The entries of the list with an index in K, in their order.             *)
Kept(list, K) ==
    LET kept[i \in 0 .. Len(list)] ==
          IF i = 0 THEN <<>>
          ELSE IF i \in K THEN Append(kept[i - 1], list[i]) ELSE kept[i - 1]
    IN  kept[Len(list)]

(* node_remove_from_list, of the entry of one station.                     *)
NodeRemove(list, mac) == Kept(list, {i \in DOMAIN list : list[i].mac # mac})

(* The loop of parse_msg over the first n entries, none of which is the   *)
(* sender's: plus is moved past the addresses in use, first counts up to  *)
(* the first unused address.                                              *)
Walk(s, n) ==
    LET w[i \in 0 .. n] ==
          IF i = 0 THEN [plus |-> s.plus, first |-> s.start, found |-> FALSE]
          ELSE LET v == w[i - 1]
                   ip == s.list[i].ip
               IN  [plus |-> IF ip = v.plus THEN v.plus + 1 ELSE v.plus,
                    first |-> IF v.found \/ v.first < ip THEN v.first ELSE v.first + 1,
                    found |-> v.found \/ v.first < ip]
    IN  w[n]

(* parse_options: what the message asks for, given the sender's address.  *)
ParseOptions(m, ip, renew) ==
    CASE m.type = "DISCOVER" -> "OFFER"
      [] m.type = "REQUEST" /\ m.req # 0 -> IF m.req = ip THEN "ACK" ELSE "NAK"
      [] m.type = "REQUEST" /\ m.req = 0 -> IF renew THEN "ACK" ELSE "NAK"
      [] m.type = "DECLINE" -> "IDLE"
      [] m.type = "RELEASE" -> "RELEASE"

Answer(s, m, ip, renew) ==
    LET st == ParseOptions(m, ip, renew)
    IN  [s |-> IF st = "RELEASE" THEN [s EXCEPT !.list = NodeRemove(@, m.mac)] ELSE s,
         reply |-> IF st \in {"OFFER", "ACK", "NAK"}
                   THEN <<[type |-> st, yiaddr |-> ip, cur |-> m.cur]>> ELSE <<>>]

(* Wrong variant: a message does not renew the lease.                     *)
ParseKnownNoRenew(s, m, i) ==
    LET e == s.list[i]
    IN  Answer([s EXCEPT !.plus = Walk(s, i - 1).plus], m, e.ip, e.ip = m.ciaddr)

(* parse_msg, the sender has an entry: its lease starts anew.             *)
ParseKnown(s, m, i) ==
    LET e == s.list[i]
    IN  Answer([s EXCEPT !.plus = Walk(s, i - 1).plus,
                         !.list[i].timer = LeaseTime],
               m, e.ip, e.ip = m.ciaddr)

(* Wrong variant: an exhausted range starts over at its first address.    *)
PickAddressNoCheck(s) ==
    LET w == Walk(s, Len(s.list))
    IN  IF s.list = <<>> THEN s.start
        ELSE IF w.plus > s.end THEN s.start ELSE w.plus

(* parse_msg: the address for a new station, beyond end if there is none. *)
PickAddress(s) ==
    LET w == Walk(s, Len(s.list))
    IN  IF w.plus > s.end THEN w.first
        ELSE IF s.list = <<>> THEN s.start ELSE w.plus

(* parse_msg, the sender is new. Without a free address the answer is a   *)
(* NAK to whatever the message was.                                       *)
ParseNew(s, m) ==
    LET ip == PickAddress(s)
    IN  IF ip > s.end
        THEN [s |-> [s EXCEPT !.plus = s.start],
              reply |-> <<[type |-> "NAK", yiaddr |-> ip, cur |-> m.cur]>>]
        ELSE Answer([s EXCEPT !.list = NodeInsert(@, [ip |-> ip, mac |-> m.mac,
                                                      timer |-> LeaseTime]),
                              !.plus = IF ip = s.end THEN s.start ELSE ip + 1],
                    m, ip, FALSE)

(* handle_dhcp: the server after message m, and its answer if any.        *)
HandleDhcp(s, m) ==
    IF \E i \in DOMAIN s.list : s.list[i].mac = m.mac
    THEN ParseKnown(s, m, CHOOSE i \in DOMAIN s.list : s.list[i].mac = m.mac)
    ELSE ParseNew(s, m)

(* kill_oldest_dhcps_pool: of the second and later entries, the first one *)
(* with the least time left.                                              *)
Oldest(list) ==
    CHOOSE i \in 2 .. Len(list) :
      \A j \in 2 .. Len(list) :
        \/ list[i].timer < list[j].timer
        \/ list[i].timer = list[j].timer /\ i <= j

(* dhcps_coarse_tmr: entries age and expire; then one is removed if there *)
(* are too many.                                                          *)
Aged(list) ==
    Kept([i \in DOMAIN list |-> [list[i] EXCEPT !.timer = @ - 1]],
         {i \in DOMAIN list : list[i].timer # 1})

(* The stations whose lease the next tick removes although it runs.       *)
Evicts(s) ==
    LET l == Aged(s.list)
    IN  IF Len(l) >= MaxStations THEN {l[Oldest(l)].mac} ELSE {}

CoarseTmr(s) ==
    LET l == Aged(s.list)
    IN  [s EXCEPT !.list = Kept(l, {i \in DOMAIN l : l[i].mac \notin Evicts(s)})]
=============================================================================
