----------------------------- MODULE DhcpClient -----------------------------
(***************************************************************************)
(* The DHCP client of lwIP (core/dhcp.c) as the board uses it: its state   *)
(* machine, what it does to the interface, and a server.  It runs in the   *)
(* tcpip thread, but dhcp_renew is also called by the task that watches    *)
(* the link (NetSetup), whatever state the client is in.                   *)
(*                                                                         *)
(* The wire carries one message.  A request puts the one before it out of  *)
(* use: its answer has an old transaction number, which dhcp_recv refuses, *)
(* or is the same answer again.                                            *)
(***************************************************************************)
EXTENDS Naturals

CONSTANTS
    Addrs,              (* The addresses the server may give.              *)
    SELECT_TRIES,       (* Requests for an offered address (5).            *)
    CHECK_TRIES,        (* ARP queries for it (1).                         *)
    REBIND_TRIES,       (* Requests to any server for a lease (8).         *)
    MAX_TRIES,          (* Bounds the counter of tries.                    *)
    MAX_FAULTS          (* Bounds what goes wrong outside the board.       *)

ANY    == "any"         (* IP_ADDR_ANY                                     *)
JUNK   == "junk"        (* What uninitialised memory held.                 *)
FIXED  == "fixed"       (* The address of the configuration file.          *)
Silent == [type |-> "none", addr |-> ANY]

ASSUME DhcpAssumption ==
    /\ {SELECT_TRIES, CHECK_TRIES, REBIND_TRIES} \subseteq Nat
    /\ \A t \in {SELECT_TRIES, CHECK_TRIES, REBIND_TRIES} : t < MAX_TRIES
    /\ MAX_TRIES \in Nat /\ MAX_FAULTS \in Nat
    /\ Addrs \cap {ANY, JUNK, FIXED} = {}

VARIABLES
    dhcp,     (* The client: state ("none": there is none), tries, offered *)
              (* and the lease's timers.                                   *)
    netif,    (* The interface: up, addr, and by whom it was brought up.   *)
    wire,     (* The message under way: [type, addr].                      *)
    link,     (* The cable is in.                                          *)
    lease,    (* The address the server has noted for the board.           *)
    granted,  (* History: the addresses the server has ever confirmed.     *)
    naks,     (* The server refuses strangers, instead of ignoring them.   *)
    faults    (* Counts for MAX_FAULTS.                                    *)

dhcpVars == <<dhcp, netif, wire, link, lease, granted, naks, faults>>

DhcpStates == {"none", "off", "selecting", "requesting", "checking", "bound",
               "renewing", "rebinding", "backing_off"}

\* Without a cable low_level_transmit refuses, and nobody asks why.
Send(m) == wire' = IF link THEN m ELSE Silent

\* Mutant: the tries are forgotten at every call.
SetStateAnew(d, state) == [d EXCEPT !.state = state, !.tries = 0]

(***************************************************************************)
(* dhcp_set_state forgets the tries when the state changes; every request  *)
(* counts one.                                                             *)
(***************************************************************************)
SetState(d, state) ==
    IF d.state = state THEN d ELSE [d EXCEPT !.state = state, !.tries = 0]

\* Mutant: nothing bounds the counter.
TriedUnbounded(d) == [d EXCEPT !.tries = @ + 1]

Tried(d) == [d EXCEPT !.tries = IF @ < MAX_TRIES THEN @ + 1 ELSE @]

Discover(d) ==
    /\ dhcp' = Tried(SetState([d EXCEPT !.offered = ANY], "selecting"))
    /\ Send([type |-> "discover", addr |-> ANY])

Select(d) ==
    /\ dhcp' = Tried(SetState(d, "requesting"))
    /\ Send([type |-> "request", addr |-> d.offered])

\* The query that is sent is not a message to the server.
Check(d) ==
    /\ dhcp' = Tried(SetState(d, "checking"))
    /\ wire' = Silent

Renew(d) ==
    /\ dhcp' = Tried(SetState(d, "renewing"))
    /\ Send([type |-> "extend", addr |-> netif.addr])

Rebind(d) ==
    /\ dhcp' = Tried(SetState(d, "rebinding"))
    /\ Send([type |-> "extend", addr |-> netif.addr])

\* The server's address is cleared first: the release reaches no one.
ReleaseAndDiscover(d) ==
    /\ Discover(SetState(d, "off"))
    /\ netif' = [netif EXCEPT !.up = FALSE, !.addr = ANY]

Bind(d) ==
    /\ dhcp' = [SetState(d, "bound") EXCEPT !.timers = {"t1", "t2"}]
    /\ netif' = [up |-> TRUE, addr |-> d.offered, by |-> "dhcp"]
    /\ wire' = Silent

\* Mutant: the interface is left up.
HandleNakStayingUp(d) ==
    /\ netif' = [netif EXCEPT !.addr = ANY]
    /\ Discover(SetState(d, "backing_off"))

HandleNak(d) ==
    /\ netif' = [netif EXCEPT !.up = FALSE, !.addr = ANY]
    /\ Discover(SetState(d, "backing_off"))

(***************************************************************************)
(* dhcp_timeout                                                            *)
(***************************************************************************)
Timeout ==
    /\ \/ /\ dhcp.state \in {"backing_off", "selecting"}
          /\ Discover(dhcp) /\ UNCHANGED netif
       \/ /\ dhcp.state = "requesting" /\ dhcp.tries <= SELECT_TRIES
          /\ Select(dhcp) /\ UNCHANGED netif
       \/ /\ dhcp.state = "requesting" /\ dhcp.tries > SELECT_TRIES
          /\ ReleaseAndDiscover(dhcp)
       \/ /\ dhcp.state = "checking" /\ dhcp.tries <= CHECK_TRIES
          /\ Check(dhcp) /\ UNCHANGED netif
       \/ /\ dhcp.state = "checking" /\ dhcp.tries > CHECK_TRIES
          /\ Bind(dhcp)
       \/ /\ dhcp.state = "renewing"
          /\ Renew(dhcp) /\ UNCHANGED netif
       \/ /\ dhcp.state = "rebinding" /\ dhcp.tries <= REBIND_TRIES
          /\ Rebind(dhcp) /\ UNCHANGED netif
       \/ /\ dhcp.state = "rebinding" /\ dhcp.tries > REBIND_TRIES
          /\ ReleaseAndDiscover(dhcp)
    /\ UNCHANGED <<link, lease, granted, naks, faults>>

(***************************************************************************)
(* The timers of a lease, dhcp_t1_timeout and dhcp_t2_timeout.             *)
(***************************************************************************)
LeaseTimer(t) ==
    LET d == [dhcp EXCEPT !.timers = @ \ {t}]
    IN /\ t \in dhcp.timers
       /\ IF dhcp.state \in {"requesting", "bound", "renewing"}
          THEN IF t = "t2" THEN Rebind(d) ELSE Renew(d)
          ELSE dhcp' = d /\ UNCHANGED wire
       /\ UNCHANGED <<netif, link, lease, granted, naks, faults>>

(***************************************************************************)
(* dhcp_recv.  The address of an ack takes the place of the one in hand,   *)
(* whatever the state (dhcp_handle_ack).  An answer that the state does    *)
(* not wait for is ignored; it has an old transaction number, since every  *)
(* change of state but the last sends a request with a new one.            *)
(***************************************************************************)
Receive(type) ==
    /\ wire.type = type
    /\ \/ /\ type = "offer" /\ dhcp.state = "selecting"
          /\ Select([dhcp EXCEPT !.offered = wire.addr]) /\ UNCHANGED netif
       \/ /\ type = "ack" /\ dhcp.state = "requesting"
          /\ Check([dhcp EXCEPT !.offered = wire.addr]) /\ UNCHANGED netif
       \/ /\ type = "ack" /\ dhcp.state \in {"renewing", "rebinding"}
          /\ Bind([dhcp EXCEPT !.offered = wire.addr])
       \/ /\ type = "nak" /\ dhcp.state \in {"requesting", "renewing", "rebinding"}
          /\ HandleNak(dhcp)
    /\ UNCHANGED <<link, lease, granted, naks, faults>>

(***************************************************************************)
(* Another host answers the query (dhcp_arp_reply): dhcp_decline.          *)
(***************************************************************************)
Decline ==
    /\ dhcp.state = "checking" /\ link /\ faults < MAX_FAULTS
    /\ faults' = faults + 1
    /\ dhcp' = Tried(SetState(dhcp, "backing_off"))
    /\ Send([type |-> "decline", addr |-> dhcp.offered])
    /\ UNCHANGED <<netif, link, lease, granted, naks>>

(***************************************************************************)
(* The server: it offers a free address, confirms or refuses a request,    *)
(* extends the lease it knows, and refuses or ignores any other.           *)
(***************************************************************************)
Serve(type) ==
    /\ wire.type = type
    /\ \/ /\ type = "discover"
          /\ \E a \in Addrs : wire' = [type |-> "offer", addr |-> a]
          /\ UNCHANGED <<lease, granted>>
       \/ /\ type = "request"
          /\ wire' = [wire EXCEPT !.type = "ack"]
          /\ lease' = wire.addr /\ granted' = granted \cup {wire.addr}
       \/ /\ type = "extend"
          /\ wire' = IF wire.addr = lease /\ lease # ANY THEN [wire EXCEPT !.type = "ack"]
                     ELSE IF naks THEN [wire EXCEPT !.type = "nak"] ELSE Silent
          /\ UNCHANGED <<lease, granted>>
       \/ /\ type = "decline"
          /\ wire' = Silent
          /\ lease' = IF lease = wire.addr THEN ANY ELSE lease
          /\ UNCHANGED granted
    /\ UNCHANGED <<dhcp, netif, link, naks, faults>>

\* It refuses a request, forgets the lease, or a message is lost.
ServerFails ==
    /\ faults < MAX_FAULTS /\ faults' = faults + 1
    /\ \/ wire.type = "request" /\ wire' = [wire EXCEPT !.type = "nak"] /\ UNCHANGED lease
       \/ lease # ANY /\ lease' = ANY /\ UNCHANGED wire
       \/ wire # Silent /\ wire' = Silent /\ UNCHANGED lease
    /\ UNCHANGED <<dhcp, netif, link, granted, naks>>
=============================================================================
