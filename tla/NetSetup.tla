------------------------------ MODULE NetSetup ------------------------------
(***************************************************************************)
(* How the board gets on the network and stays there: the task             *)
(* LWIPServiceTaskInit (LWIPStack.c), with what it reads from the          *)
(* configuration file and the DHCP client it starts and renews.            *)
(*                                                                         *)
(* Tasks are switched where they wait: each action is what runs between    *)
(* two delays.  Loading the menu (Display) waits for a web server.         *)
(***************************************************************************)
EXTENDS DhcpClient, ConfigFile

CONSTANTS
    Cards,                          (* The texts the file may hold: a set  *)
                                    (* of sequences of lines.              *)
    USE_DHCP, IP_ADDRESS,           (* The parameters, as sequences of     *)
    IS_SERVER, IS_CLIENT,           (* characters,                         *)
    True                            (* and the value "true".               *)

VARIABLES
    card,     (* The lines of the file; a set, empty without a card.       *)
    beyond,   (* The byte behind it.                                       *)
    pc,       (* Where the task is.                                        *)
    mode,     (* IPState                                                   *)
    httpd     (* The web server was started.                               *)

configVars == <<card, beyond>>
taskVars == <<pc, mode, httpd>>
vars == <<dhcpVars, configVars, taskVars>>

\* What may lie behind the buffer.
Bytes == {"0", EOL}

Steps == {"config", "start", "boot", "services", "menu_boot", "watch", "menu_link",
          "renew", "hung", "dead"}

TypeOK ==
    /\ dhcp \in [state : DhcpStates, tries : 0..MAX_TRIES,
                 offered : Addrs \cup {ANY}, timers : SUBSET {"t1", "t2"}]
    /\ netif \in [up : BOOLEAN, addr : Addrs \cup {ANY, JUNK, FIXED},
                  by : {"no one", "task", "dhcp"}]
    /\ wire \in [type : {"none", "discover", "offer", "request", "ack", "nak",
                         "extend", "decline"},
                 addr : Addrs \cup {ANY, JUNK, FIXED}]
    /\ link \in BOOLEAN /\ naks \in BOOLEAN /\ faults \in 0..MAX_FAULTS
    /\ lease \in Addrs \cup {ANY} /\ granted \subseteq Addrs
    /\ card \in {{c} : c \in Cards} \cup {{}}
    /\ pc \in Steps /\ mode \in {"unset", "autoip", "dhcp", "static"}
    /\ httpd \in BOOLEAN

Init ==
    /\ dhcp = [state |-> "none", tries |-> 0, offered |-> ANY, timers |-> {}]
    /\ netif = [up |-> FALSE, addr |-> ANY, by |-> "no one"]
    /\ wire = Silent /\ link \in BOOLEAN /\ naks \in BOOLEAN
    /\ lease = ANY /\ granted = {} /\ faults = 0
    /\ card \in {{c} : c \in Cards} \cup {{}}
    /\ beyond \in Bytes
    /\ pc = "config" /\ mode = "unset" /\ httpd = FALSE

(***************************************************************************)
(* loadFromConfig: NULL without a card.                                    *)
(***************************************************************************)
Parameters == {USE_DHCP, IP_ADDRESS, IS_SERVER, IS_CLIENT}

Loaded == [c \in Cards |-> [p \in Parameters |-> [b \in Bytes |->
               LoadFromConfig(FlattenSeq(c), p, b)]]]

Load(param) == UNION {Loaded[c][param][beyond] : c \in card}

\* strcmp(configLoad, "true") == 0, which reads address 0 when there is no value.
IsTrue(value) == value = {True}

(***************************************************************************)
(* The mode.  Without a value it is AUTOIP, which the build leaves out.    *)
(***************************************************************************)
ReadMode ==
    /\ pc = "config" /\ pc' = "start"
    /\ mode' = IF Load(USE_DHCP) = {} THEN "autoip"
               ELSE IF IsTrue(Load(USE_DHCP)) THEN "dhcp" ELSE "static"
    /\ UNCHANGED <<dhcpVars, configVars, httpd>>

(***************************************************************************)
(* getAddresFromConfig: a value that is missing is read from address 0.    *)
(* (The message "IP is not Valid!" never comes: its condition is false.)   *)
(***************************************************************************)
Address == IF Load(IP_ADDRESS) = {} THEN JUNK ELSE FIXED

\* low_level_init waits for the cable, and lets no other task run meanwhile.
WaitReady == link

(***************************************************************************)
(* The address, netif_add and dhcp_start.  Without a configured address    *)
(* the interface begins with what uninitialised memory holds.              *)
(***************************************************************************)
StartNetwork ==
    /\ pc = "start" /\ WaitReady /\ pc' = "boot"
    /\ netif' = IF mode = "static"
                THEN [up |-> TRUE, by |-> "task", addr |-> Address]
                ELSE [netif EXCEPT !.addr = JUNK]
    /\ IF mode = "dhcp" THEN Discover([dhcp EXCEPT !.state = "off"])
                        ELSE UNCHANGED <<dhcp, wire>>
    /\ UNCHANGED <<link, lease, granted, naks, faults, configVars, mode, httpd>>

(***************************************************************************)
(* dhcp_renew, which assumes that there is a client.  Without one it       *)
(* writes to address 0: a fault stops the board, or nothing comes of it.   *)
(***************************************************************************)
DhcpRenew(next) ==
    IF dhcp.state = "none"
    THEN pc' \in {next, "dead"} /\ UNCHANGED <<dhcp, wire>>
    ELSE pc' = next /\ Renew(dhcp)

\* Every five seconds while the interface is down.
BootRenew ==
    /\ pc = "boot" /\ ~netif.up
    /\ DhcpRenew("boot")
    /\ UNCHANGED <<netif, link, lease, granted, naks, faults, configVars, mode,
                   httpd>>

(***************************************************************************)
(* The interface is up: the web server and the menu, if they are wanted.   *)
(***************************************************************************)
StartServices ==
    /\ pc = "boot" /\ netif.up
    /\ httpd' = IsTrue(Load(IS_SERVER))
    /\ pc' = IF IsTrue(Load(IS_CLIENT)) THEN "menu_boot" ELSE "watch"
    /\ UNCHANGED <<dhcpVars, configVars, mode>>

\* The menu has come, or its connection could not be made.
MenuLoaded ==
    /\ pc \in {"menu_boot", "menu_link"}
    /\ pc' = IF pc = "menu_link" THEN "renew" ELSE "watch"
    /\ UNCHANGED <<dhcpVars, configVars, mode, httpd>>

(***************************************************************************)
(* Twice a second the task compares the cable with the interface.          *)
(***************************************************************************)
LinkFound ==
    /\ pc = "watch" /\ link /\ ~netif.up
    /\ netif' = [netif EXCEPT !.up = TRUE, !.by = "task"]
    /\ pc' = IF IsTrue(Load(IS_CLIENT)) THEN "menu_link" ELSE "renew"
    /\ UNCHANGED <<dhcp, wire, link, lease, granted, naks, faults, configVars, mode,
                   httpd>>

LinkRenew ==
    /\ pc = "renew"
    /\ IF mode = "dhcp" THEN DhcpRenew("watch")
                        ELSE pc' = "watch" /\ UNCHANGED <<dhcp, wire>>
    /\ UNCHANGED <<netif, link, lease, granted, naks, faults, configVars, mode,
                   httpd>>

\* Mutant: only an interface with a lease is taken down.
LinkGoneOfLease ==
    /\ pc = "watch" /\ ~link /\ netif.up /\ dhcp.state = "bound"
    /\ netif' = [netif EXCEPT !.up = FALSE]
    /\ UNCHANGED <<dhcp, wire, link, lease, granted, naks, faults, configVars, taskVars>>

LinkGone ==
    /\ pc = "watch" /\ ~link /\ netif.up
    /\ netif' = [netif EXCEPT !.up = FALSE]
    /\ UNCHANGED <<dhcp, wire, link, lease, granted, naks, faults, configVars, taskVars>>

(***************************************************************************)
(* The cable.  What is on it is lost with it, and a menu that was being    *)
(* loaded may never come: netconn_recv has no time-out.                    *)
(***************************************************************************)
LinkDown ==
    /\ link /\ link' = FALSE
    /\ faults < MAX_FAULTS /\ faults' = faults + 1
    /\ wire' = Silent
    /\ pc' \in {pc} \cup IF pc \in {"menu_boot", "menu_link"} THEN {"hung"} ELSE {}
    /\ UNCHANGED <<dhcp, netif, lease, granted, naks, configVars, mode, httpd>>

LinkUp ==
    /\ ~link /\ link' = TRUE
    /\ UNCHANGED <<dhcp, netif, wire, lease, granted, naks, faults, configVars, taskVars>>

\* The tcpip thread, while the board runs.
Thread(A) == pc # "dead" /\ A /\ UNCHANGED <<configVars, taskVars>>

\* The rest of the network.
Outside(A) == A /\ UNCHANGED <<configVars, taskVars>>

Task == \/ ReadMode \/ StartNetwork \/ BootRenew \/ StartServices
        \/ MenuLoaded \/ LinkFound \/ LinkRenew \/ LinkGone

Next ==
    \/ Task
    \/ LinkDown \/ LinkUp
    \/ Thread(Timeout)
    \/ \E t \in {"t1", "t2"} : Thread(LeaseTimer(t))
    \/ \E t \in {"offer", "ack", "nak"} : Thread(Receive(t))
    \/ Thread(Decline)
    \/ \E t \in {"discover", "request", "extend", "decline"} : Outside(Serve(t))
    \/ Outside(ServerFails)

(***************************************************************************)
(* The task's delays end and the timers of the tcpip thread run out.  An   *)
(* exchange with the server takes milliseconds, the check of an address    *)
(* one second, and the task renews only every five: an exchange that is    *)
(* begun again and again is not interrupted every time.                    *)
(***************************************************************************)
Fairness ==
    /\ WF_vars(Task)
    /\ WF_vars(Thread(Timeout))
    /\ \A k \in 1..MAX_TRIES :
          SF_vars(Thread(Timeout) /\ dhcp.state = "checking" /\ dhcp.tries = k)
    /\ \A t \in {"t1", "t2"} : WF_vars(Thread(LeaseTimer(t)))
    /\ \A t \in {"offer", "ack", "nak"} : SF_vars(Thread(Receive(t)))
    /\ \A t \in {"discover", "request", "extend"} : SF_vars(Outside(Serve(t)))

Spec == Init /\ [][Next]_vars /\ Fairness

-----------------------------------------------------------------------------
(* What the file says, by its lines: the first complete line that sets the *)
(* parameter, its value up to a comment or a blank.                        *)

Sets(line, param) == /\ IsPrefix(Append(param, "="), line)
                     /\ line[Len(line)] = EOL

Setting(param) ==
    LET line  == UNION {{SelectSeq(c, LAMBDA l : Sets(l, param))} : c \in card}
        first == UNION {IF ls = <<>> THEN {} ELSE {ls[1]} : ls \in line}
        rest  == UNION {{SubSeq(l, Len(param) + 2, Len(l))} : l \in first}
        value == UNION {{SubSeq(v, 1, SelectInSeq(v, LAMBDA ch : ch \in {EOL, "#", " "}) - 1)}
                        : v \in rest}
    IN value \ {<<>>}

\* The last block is shorter than the buffer, or a line end stands behind it.
Unreliable(param) ==
    \/ beyond = EOL
    \/ Setting(param) = {} /\ \E c \in card : Len(FlattenSeq(c)) % READBUFFERLEN # 0

(***************************************************************************)
(* The board does what its configuration says: a parameter that a complete *)
(* line sets is found wherever the blocks cut the file, and one that no    *)
(* line sets is not found, unless the scan runs over the rest of an        *)
(* earlier block, where a comment's end may look like a line.              *)
(***************************************************************************)
ConfigIsObeyed ==
    /\ pc # "config" /\ ~Unreliable(USE_DHCP) =>
          mode = IF Setting(USE_DHCP) = {} THEN "autoip"
                 ELSE IF IsTrue(Setting(USE_DHCP)) THEN "dhcp" ELSE "static"
    /\ pc \in {"watch", "menu_boot"} /\ ~Unreliable(IS_SERVER) =>
          httpd = IsTrue(Setting(IS_SERVER))
    /\ pc = "menu_boot" /\ ~Unreliable(IS_CLIENT) => IsTrue(Setting(IS_CLIENT))

(***************************************************************************)
(* An interface that DHCP has brought up has an address the server has     *)
(* confirmed, whatever was renewed, refused or released in between.  (The  *)
(* task brings the interface up with whatever address it has.)             *)
(***************************************************************************)
DhcpAddressIsGranted ==
    netif.up /\ netif.by = "dhcp" => netif.addr \in granted

(***************************************************************************)
(* A cable that stays out takes the interface down, unless the task waits  *)
(* for a menu that got lost with it.                                       *)
(***************************************************************************)
LinkIsFollowed == <>[]~link => <>[](~netif.up \/ pc = "hung")

(***************************************************************************)
(* With a server that refuses strangers the board has the address the      *)
(* server has noted again and again.  (One that ignores them leaves the    *)
(* board without: the task's renewals end the search for an address.)      *)
(***************************************************************************)
HasLease == netif.up /\ netif.addr = lease

GetsAddress == (naks /\ <>[]link /\ <>(mode = "dhcp")) => []<>HasLease
=============================================================================
