--------------------------- MODULE NetSetup_proofs ---------------------------
(***************************************************************************)
(* An interface that DHCP has brought up has a confirmed address, for any  *)
(* addresses, numbers of tries and faults, and any configuration files.    *)
(***************************************************************************)
EXTENDS NetSetup, TLAPS

\* The types of TypeOK, by name.
Client == [state : DhcpStates, tries : 0..MAX_TRIES,
           offered : Addrs \cup {ANY}, timers : SUBSET {"t1", "t2"}]
Interface == [up : BOOLEAN, addr : Addrs \cup {ANY, JUNK, FIXED},
              by : {"no one", "task", "dhcp"}]
Message == [type : {"none", "discover", "offer", "request", "ack", "nak",
                    "extend", "decline"},
            addr : Addrs \cup {ANY, JUNK, FIXED}]

ClientType ==
    /\ dhcp \in Client /\ netif \in Interface /\ wire \in Message
    /\ lease \in granted \cup {ANY} /\ granted \subseteq Addrs

TaskType ==
    /\ link \in BOOLEAN /\ naks \in BOOLEAN /\ faults \in 0..MAX_FAULTS
    /\ card \in {{c} : c \in Cards} \cup {{}}
    /\ pc \in Steps /\ mode \in {"unset", "autoip", "dhcp", "static"}
    /\ httpd \in BOOLEAN

\* Before the network is started there is no client.
NoClientYet == pc \in {"config", "start"} => dhcp.state = "none"

\* What is under way belongs to the client's state, and an acknowledgement is
\* for an address that the server has confirmed.
WireFits ==
    /\ wire.type = "offer" => wire.addr \in Addrs
    /\ wire.type = "request" => dhcp.state = "requesting" /\ wire.addr = dhcp.offered
    /\ wire.type = "extend" => /\ dhcp.state \in {"renewing", "rebinding"}
                               /\ wire.addr = netif.addr
    /\ wire.type = "ack" => /\ wire.addr \in granted
                            /\ \/ dhcp.state = "requesting"
                               \/ /\ dhcp.state \in {"renewing", "rebinding"}
                                  /\ wire.addr = netif.addr

\* What the client has in hand: an offer, a confirmed address, or the address of
\* the interface, which it loses with its lease.
OfferFits ==
    /\ dhcp.state = "requesting" => dhcp.offered \in Addrs
    /\ dhcp.state = "checking" => dhcp.offered \in granted
    /\ netif.addr \in Addrs => /\ dhcp.state \in {"bound", "renewing", "rebinding"}
                               /\ dhcp.offered = netif.addr
                               /\ netif.addr \in granted

ClientInv == ClientType /\ WireFits /\ OfferFits /\ DhcpAddressIsGranted

IInv == ClientInv /\ TaskType /\ NoClientYet

LEMMA InitIInv == Init => IInv
  <1> SUFFICES ASSUME Init PROVE IInv  OBVIOUS
  <1>0. 0 \in 0..MAX_TRIES /\ 0 \in 0..MAX_FAULTS
    BY DhcpAssumption
  <1>1. /\ dhcp = [state |-> "none", tries |-> 0, offered |-> ANY, timers |-> {}]
        /\ netif = [up |-> FALSE, addr |-> ANY, by |-> "no one"]
        /\ wire = [type |-> "none", addr |-> ANY]
        /\ lease = ANY /\ granted = {}
    BY Zenon DEF Init, Silent
  <1>2. ClientType
    <2>1. dhcp \in Client
      BY <1>0, <1>1 DEF Client, DhcpStates
    <2>2. netif \in Interface
      BY <1>1 DEF Interface
    <2>3. wire \in Message
      BY <1>1 DEF Message
    <2>4. lease \in granted \cup {ANY} /\ granted \subseteq Addrs
      BY <1>1
    <2> QED BY <2>1, <2>2, <2>3, <2>4 DEF ClientType
  <1>3. TaskType
    <2>1. /\ link \in BOOLEAN /\ naks \in BOOLEAN /\ faults = 0
          /\ card \in {{c} : c \in Cards} \cup {{}}
          /\ pc = "config" /\ mode = "unset" /\ httpd = FALSE
      BY Zenon DEF Init
    <2> QED BY <1>0, <2>1 DEF TaskType, Steps
  <1>4. NoClientYet /\ WireFits /\ DhcpAddressIsGranted
    BY <1>1 DEF NoClientYet, WireFits, DhcpAddressIsGranted
  <1>5. OfferFits
    BY <1>1, DhcpAssumption DEF OfferFits
  <1> QED BY <1>2, <1>3, <1>4, <1>5 DEF IInv, ClientInv

-----------------------------------------------------------------------------
(* What the operations of the client do to its record and to the wire. *)

LEMMA StateSet ==
    \A d \in Client, s \in DhcpStates :
        /\ SetState(d, s) \in Client
        /\ SetState(d, s).state = s
        /\ SetState(d, s).offered = d.offered
        /\ SetState(d, s).timers = d.timers
  <1> TAKE d \in Client, s \in DhcpStates
  <1> DEFINE moved == [d EXCEPT !.state = s, !.tries = 0]
  <1>1. d.state # s => SetState(d, s) = moved
    BY DEF SetState
  <1>2. d.state = s => SetState(d, s) = d
    BY DEF SetState
  <1>3. 0 \in 0..MAX_TRIES
    BY DhcpAssumption
  <1>4. /\ moved \in Client /\ moved.state = s
        /\ moved.offered = d.offered /\ moved.timers = d.timers
    BY <1>3 DEF Client
  <1> HIDE DEF moved
  <1> QED BY <1>1, <1>2, <1>4

LEMMA TriedOnce ==
    \A d \in Client :
        /\ Tried(d) \in Client
        /\ Tried(d).state = d.state
        /\ Tried(d).offered = d.offered
  <1> TAKE d \in Client
  <1> DEFINE n == IF d.tries < MAX_TRIES THEN d.tries + 1 ELSE d.tries
  <1>1. d.tries \in 0..MAX_TRIES
    BY DEF Client
  <1>2. n \in 0..MAX_TRIES
    BY <1>1, DhcpAssumption
  <1>3. Tried(d) = [d EXCEPT !.tries = n]
    BY DEF Tried
  <1> HIDE DEF n
  <1> QED BY <1>2, <1>3 DEF Client

LEMMA Moved ==
    ASSUME NEW d \in Client, NEW s \in DhcpStates
    PROVE  /\ Tried(SetState(d, s)) \in Client
           /\ Tried(SetState(d, s)).state = s
           /\ Tried(SetState(d, s)).offered = d.offered
  BY StateSet, TriedOnce

LEMMA Discovers ==
    ASSUME NEW d \in Client, Discover(d)
    PROVE  /\ dhcp' \in Client /\ dhcp'.state = "selecting"
           /\ wire' \in Message /\ wire'.type \in {"none", "discover"}
  <1> DEFINE e == [d EXCEPT !.offered = ANY]
  <1>1. e \in Client
    BY DEF Client
  <1>2. dhcp' = Tried(SetState(e, "selecting"))
    BY DEF Discover
  <1>3. wire' = [type |-> "discover", addr |-> ANY] \/ wire' = [type |-> "none", addr |-> ANY]
    BY DEF Discover, Send, Silent
  <1>4. wire' \in Message /\ wire'.type \in {"none", "discover"}
    BY <1>3 DEF Message
  <1> HIDE DEF e
  <1>5. "selecting" \in DhcpStates
    BY DEF DhcpStates
  <1> QED BY <1>1, <1>2, <1>4, <1>5, Moved

LEMMA Selects ==
    ASSUME NEW d \in Client, Select(d)
    PROVE  /\ dhcp' \in Client /\ dhcp'.state = "requesting"
           /\ dhcp'.offered = d.offered
           /\ wire' \in Message
           /\ \/ wire'.type = "none"
              \/ wire'.type = "request" /\ wire'.addr = d.offered
  <1>1. dhcp' = Tried(SetState(d, "requesting"))
    BY DEF Select
  <1>2. "requesting" \in DhcpStates
    BY DEF DhcpStates
  <1>3. wire' = [type |-> "request", addr |-> d.offered] \/ wire' = [type |-> "none", addr |-> ANY]
    BY DEF Select, Send, Silent
  <1>4. d.offered \in Addrs \cup {ANY}
    BY DEF Client
  <1>5. /\ wire' \in Message
        /\ wire'.type = "none" \/ (wire'.type = "request" /\ wire'.addr = d.offered)
    BY <1>3, <1>4 DEF Message
  <1> QED BY <1>1, <1>2, <1>5, Moved

LEMMA Checks ==
    ASSUME NEW d \in Client, Check(d)
    PROVE  /\ dhcp' \in Client /\ dhcp'.state = "checking"
           /\ dhcp'.offered = d.offered
           /\ wire' \in Message /\ wire'.type = "none"
  <1>1. dhcp' = Tried(SetState(d, "checking")) /\ wire' = [type |-> "none", addr |-> ANY]
    BY DEF Check, Silent
  <1>2. "checking" \in DhcpStates
    BY DEF DhcpStates
  <1>3. wire' \in Message /\ wire'.type = "none"
    BY <1>1 DEF Message
  <1> QED BY <1>1, <1>2, <1>3, Moved

LEMMA Extends ==
    ASSUME ClientType, NEW d \in Client, Renew(d) \/ Rebind(d)
    PROVE  /\ dhcp' \in Client /\ dhcp'.state \in {"renewing", "rebinding"}
           /\ dhcp'.offered = d.offered
           /\ wire' \in Message
           /\ \/ wire'.type = "none"
              \/ wire'.type = "extend" /\ wire'.addr = netif.addr
  <1>1. \E s \in {"renewing", "rebinding"} : dhcp' = Tried(SetState(d, s))
    BY DEF Renew, Rebind
  <1>2. {"renewing", "rebinding"} \subseteq DhcpStates
    BY DEF DhcpStates
  <1>3. wire' = [type |-> "extend", addr |-> netif.addr] \/ wire' = [type |-> "none", addr |-> ANY]
    BY DEF Renew, Rebind, Send, Silent
  <1>4. netif.addr \in Addrs \cup {ANY, JUNK, FIXED}
    BY DEF ClientType, Interface
  <1>5. /\ wire' \in Message
        /\ wire'.type = "none" \/ (wire'.type = "extend" /\ wire'.addr = netif.addr)
    BY <1>3, <1>4 DEF Message
  <1> QED BY <1>1, <1>2, <1>5, Moved

LEMMA Binds ==
    ASSUME NEW d \in Client, Bind(d)
    PROVE  /\ dhcp' \in Client /\ dhcp'.state = "bound"
           /\ dhcp'.offered = d.offered
           /\ netif' \in Interface /\ netif'.addr = d.offered
           /\ wire' \in Message /\ wire'.type = "none"
  <1> DEFINE e == SetState(d, "bound")
  <1>1. e \in Client /\ e.state = "bound" /\ e.offered = d.offered
    BY StateSet DEF DhcpStates
  <1>2. /\ dhcp' = [e EXCEPT !.timers = {"t1", "t2"}]
        /\ netif' = [up |-> TRUE, addr |-> d.offered, by |-> "dhcp"]
        /\ wire' = [type |-> "none", addr |-> ANY]
    BY DEF Bind, Silent
  <1> HIDE DEF e
  <1>3. dhcp' \in Client /\ dhcp'.state = "bound" /\ dhcp'.offered = d.offered
    BY <1>1, <1>2 DEF Client
  <1>4. d.offered \in Addrs \cup {ANY}
    BY DEF Client
  <1>5. netif' \in Interface /\ netif'.addr = d.offered
    BY <1>2, <1>4 DEF Interface
  <1>6. wire' \in Message /\ wire'.type = "none"
    BY <1>2 DEF Message
  <1> QED BY <1>3, <1>5, <1>6

\* The lease is lost: the interface goes down.
LEMMA Loses ==
    ASSUME ClientType, NEW d \in Client, ReleaseAndDiscover(d) \/ HandleNak(d)
    PROVE  /\ dhcp' \in Client /\ dhcp'.state = "selecting"
           /\ wire' \in Message /\ wire'.type \in {"none", "discover"}
           /\ netif' \in Interface /\ netif'.addr = ANY /\ ~netif'.up
  <1>1. PICK s \in {"off", "backing_off"} : Discover(SetState(d, s))
    BY DEF ReleaseAndDiscover, HandleNak
  <1>2. SetState(d, s) \in Client
    BY StateSet DEF DhcpStates
  <1>3. netif' = [netif EXCEPT !.up = FALSE, !.addr = ANY]
    BY DEF ReleaseAndDiscover, HandleNak
  <1>4. netif' \in Interface /\ netif'.addr = ANY /\ ~netif'.up
    BY <1>3 DEF ClientType, Interface
  <1> QED BY <1>1, <1>2, <1>4, Discovers

-----------------------------------------------------------------------------
(* Each effect keeps the invariant, wherever it comes from. *)

LEMMA AfterDiscover ==
    ASSUME ClientInv, NEW d \in Client, Discover(d), netif.addr \notin Addrs,
           UNCHANGED <<lease, granted>>,
           \/ UNCHANGED netif
           \/ netif' \in Interface /\ netif'.addr \notin Addrs /\ ~(netif'.up /\ netif'.by = "dhcp")
    PROVE  ClientInv'
  <1>1. /\ dhcp' \in Client /\ dhcp'.state = "selecting"
        /\ wire' \in Message /\ wire'.type \in {"none", "discover"}
    BY Discovers
  <1>2. ClientType'
    BY <1>1 DEF ClientInv, ClientType
  <1>3. WireFits'
    BY <1>1 DEF WireFits
  <1>4. OfferFits' /\ DhcpAddressIsGranted'
    BY <1>1 DEF OfferFits, ClientInv, DhcpAddressIsGranted
  <1> QED BY <1>2, <1>3, <1>4 DEF ClientInv

LEMMA AfterLoss ==
    ASSUME ClientInv, NEW d \in Client, ReleaseAndDiscover(d) \/ HandleNak(d),
           UNCHANGED <<lease, granted>>
    PROVE  ClientInv'
  <1>1. ClientType
    BY DEF ClientInv
  <1>2. /\ dhcp' \in Client /\ dhcp'.state = "selecting"
        /\ wire' \in Message /\ wire'.type \in {"none", "discover"}
        /\ netif' \in Interface /\ netif'.addr = ANY /\ ~netif'.up
    BY <1>1, Loses
  <1>3. ClientType'
    BY <1>1, <1>2 DEF ClientType
  <1>4. WireFits'
    BY <1>2 DEF WireFits
  <1>5. ANY \notin Addrs
    BY DhcpAssumption
  <1>6. OfferFits' /\ DhcpAddressIsGranted'
    BY <1>2, <1>5 DEF OfferFits, DhcpAddressIsGranted
  <1> QED BY <1>3, <1>4, <1>6 DEF ClientInv

LEMMA AfterSelect ==
    ASSUME ClientInv, NEW d \in Client, Select(d), d.offered \in Addrs,
           netif.addr \notin Addrs, UNCHANGED <<netif, lease, granted>>
    PROVE  ClientInv'
  <1>1. /\ dhcp' \in Client /\ dhcp'.state = "requesting" /\ dhcp'.offered = d.offered
        /\ wire' \in Message
        /\ wire'.type = "none" \/ (wire'.type = "request" /\ wire'.addr = d.offered)
    BY Selects
  <1>2. ClientType'
    BY <1>1 DEF ClientInv, ClientType
  <1>3. WireFits'
    BY <1>1 DEF WireFits
  <1>4. OfferFits' /\ DhcpAddressIsGranted'
    BY <1>1 DEF OfferFits, ClientInv, DhcpAddressIsGranted
  <1> QED BY <1>2, <1>3, <1>4 DEF ClientInv

LEMMA AfterCheck ==
    ASSUME ClientInv, NEW d \in Client, Check(d), d.offered \in granted,
           netif.addr \notin Addrs, UNCHANGED <<netif, lease, granted>>
    PROVE  ClientInv'
  <1>1. /\ dhcp' \in Client /\ dhcp'.state = "checking" /\ dhcp'.offered = d.offered
        /\ wire' \in Message /\ wire'.type = "none"
    BY Checks
  <1>2. ClientType'
    BY <1>1 DEF ClientInv, ClientType
  <1>3. WireFits'
    BY <1>1 DEF WireFits
  <1>4. OfferFits' /\ DhcpAddressIsGranted'
    BY <1>1 DEF OfferFits, ClientInv, DhcpAddressIsGranted
  <1> QED BY <1>2, <1>3, <1>4 DEF ClientInv

LEMMA AfterExtend ==
    ASSUME ClientInv, NEW d \in Client, d.offered = dhcp.offered,
           Renew(d) \/ Rebind(d), UNCHANGED <<netif, lease, granted>>
    PROVE  ClientInv'
  <1>1. ClientType
    BY DEF ClientInv
  <1>2. /\ dhcp' \in Client /\ dhcp'.state \in {"renewing", "rebinding"}
        /\ dhcp'.offered = d.offered
        /\ wire' \in Message
        /\ wire'.type = "none" \/ (wire'.type = "extend" /\ wire'.addr = netif.addr)
    BY <1>1, Extends
  <1>3. ClientType'
    BY <1>1, <1>2 DEF ClientType
  <1>4. WireFits'
    BY <1>2 DEF WireFits
  <1>5. OfferFits' /\ DhcpAddressIsGranted'
    BY <1>2 DEF OfferFits, ClientInv, DhcpAddressIsGranted
  <1> QED BY <1>3, <1>4, <1>5 DEF ClientInv

LEMMA AfterBind ==
    ASSUME ClientInv, NEW d \in Client, Bind(d), d.offered \in granted,
           UNCHANGED <<lease, granted>>
    PROVE  ClientInv'
  <1>0. ClientType
    BY DEF ClientInv
  <1>1. /\ dhcp' \in Client /\ dhcp'.state = "bound" /\ dhcp'.offered = d.offered
        /\ netif' \in Interface /\ netif'.addr = d.offered
        /\ wire' \in Message /\ wire'.type = "none"
    BY <1>0, Binds
  <1>2. ClientType'
    BY <1>0, <1>1 DEF ClientType
  <1>3. WireFits'
    BY <1>1 DEF WireFits
  <1>4. OfferFits' /\ DhcpAddressIsGranted'
    BY <1>1 DEF OfferFits, DhcpAddressIsGranted
  <1> QED BY <1>2, <1>3, <1>4 DEF ClientInv

-----------------------------------------------------------------------------
(* The actions of the tcpip thread and of the server. *)

\* Only a client that has, or had, an address keeps one on the interface.
LEMMA Unaddressed ==
    ASSUME ClientInv, dhcp.state \notin {"bound", "renewing", "rebinding"}
    PROVE  netif.addr \notin Addrs
  BY DEF ClientInv, OfferFits

LEMMA TimeoutStep ==
    ASSUME ClientInv, Timeout
    PROVE  ClientInv' /\ dhcp.state # "none"
  <1>0. dhcp \in Client
    BY DEF ClientInv, ClientType
  <1>1. UNCHANGED <<lease, granted>>
    BY DEF Timeout
  <1>2. CASE dhcp.state \in {"backing_off", "selecting"} /\ Discover(dhcp) /\ UNCHANGED netif
    <2>1. netif.addr \notin Addrs
      BY <1>2, Unaddressed
    <2> QED BY <1>0, <1>1, <1>2, <2>1, AfterDiscover
  <1>3. CASE dhcp.state = "requesting" /\ Select(dhcp) /\ UNCHANGED netif
    <2>1. netif.addr \notin Addrs
      BY <1>3, Unaddressed
    <2>2. dhcp.offered \in Addrs
      BY <1>3 DEF ClientInv, OfferFits
    <2> QED BY <1>0, <1>1, <1>3, <2>1, <2>2, AfterSelect
  <1>4. CASE dhcp.state \in {"requesting", "rebinding"} /\ ReleaseAndDiscover(dhcp)
    BY <1>0, <1>1, <1>4, AfterLoss
  <1>5. CASE dhcp.state = "checking" /\ Check(dhcp) /\ UNCHANGED netif
    <2>1. netif.addr \notin Addrs
      BY <1>5, Unaddressed
    <2>2. dhcp.offered \in granted
      BY <1>5 DEF ClientInv, OfferFits
    <2> QED BY <1>0, <1>1, <1>5, <2>1, <2>2, AfterCheck
  <1>6. CASE dhcp.state = "checking" /\ Bind(dhcp)
    <2>1. dhcp.offered \in granted
      BY <1>6 DEF ClientInv, OfferFits
    <2> QED BY <1>0, <1>1, <1>6, <2>1, AfterBind
  <1>7. CASE dhcp.state \in {"renewing", "rebinding"} /\ (Renew(dhcp) \/ Rebind(dhcp)) /\ UNCHANGED netif
    BY <1>0, <1>1, <1>7, AfterExtend
  <1> QED BY <1>2, <1>3, <1>4, <1>5, <1>6, <1>7 DEF Timeout

LEMMA LeaseTimerStep ==
    ASSUME ClientInv, NEW t, LeaseTimer(t)
    PROVE  ClientInv' /\ (dhcp.state = "none" => dhcp'.state = "none")
  <1> DEFINE d == [dhcp EXCEPT !.timers = @ \ {t}]
  <1>1. d \in Client /\ d.state = dhcp.state /\ d.offered = dhcp.offered
    BY DEF ClientInv, ClientType, Client
  <1>2. UNCHANGED <<netif, lease, granted>>
    BY DEF LeaseTimer
  <1>3. \/ dhcp.state \in {"requesting", "bound", "renewing"} /\ (Renew(d) \/ Rebind(d))
        \/ dhcp' = d /\ UNCHANGED wire
    BY Zenon DEF LeaseTimer
  <1> HIDE DEF d
  <1>4. CASE dhcp.state \in {"requesting", "bound", "renewing"} /\ (Renew(d) \/ Rebind(d))
    BY <1>1, <1>2, <1>4, AfterExtend
  <1>5. CASE dhcp' = d /\ UNCHANGED wire
    BY <1>1, <1>2, <1>5
       DEF ClientInv, ClientType, WireFits, OfferFits, DhcpAddressIsGranted
  <1> QED BY <1>3, <1>4, <1>5

LEMMA ReceiveStep ==
    ASSUME ClientInv, NEW type, Receive(type)
    PROVE  ClientInv' /\ dhcp.state # "none"
  <1> DEFINE d == [dhcp EXCEPT !.offered = wire.addr]
  <1>0. dhcp \in Client
    BY DEF ClientInv, ClientType
  <1>1. UNCHANGED <<lease, granted>> /\ wire.type = type
    BY DEF Receive
  <1>2. wire.addr \in Addrs => d \in Client /\ d.state = dhcp.state /\ d.offered = wire.addr
    BY <1>0 DEF Client
  <1>3. granted \subseteq Addrs
    BY DEF ClientInv, ClientType
  <1>4. \/ type = "offer" /\ dhcp.state = "selecting" /\ Select(d) /\ UNCHANGED netif
        \/ type = "ack" /\ dhcp.state = "requesting" /\ Check(d) /\ UNCHANGED netif
        \/ type = "ack" /\ dhcp.state \in {"renewing", "rebinding"} /\ Bind(d)
        \/ type = "nak" /\ dhcp.state \in {"requesting", "renewing", "rebinding"} /\ HandleNak(dhcp)
    BY Zenon DEF Receive
  <1> HIDE DEF d
  <1>5. CASE type = "offer" /\ dhcp.state = "selecting" /\ Select(d) /\ UNCHANGED netif
    <2>1. wire.addr \in Addrs
      BY <1>1, <1>5 DEF ClientInv, WireFits
    <2>2. netif.addr \notin Addrs
      BY <1>5, Unaddressed
    <2> QED BY <1>1, <1>2, <1>5, <2>1, <2>2, AfterSelect
  <1>6. CASE type = "ack" /\ dhcp.state = "requesting" /\ Check(d) /\ UNCHANGED netif
    <2>1. wire.addr \in granted
      BY <1>1, <1>6 DEF ClientInv, WireFits
    <2>2. netif.addr \notin Addrs
      BY <1>6, Unaddressed
    <2> QED BY <1>1, <1>2, <1>3, <1>6, <2>1, <2>2, AfterCheck
  <1>7. CASE type = "ack" /\ dhcp.state \in {"renewing", "rebinding"} /\ Bind(d)
    <2>1. wire.addr \in granted
      BY <1>1, <1>7 DEF ClientInv, WireFits
    <2> QED BY <1>1, <1>2, <1>3, <1>7, <2>1, AfterBind
  <1>8. CASE type = "nak" /\ dhcp.state \in {"requesting", "renewing", "rebinding"} /\ HandleNak(dhcp)
    BY <1>0, <1>1, <1>8, AfterLoss
  <1> QED BY <1>4, <1>5, <1>6, <1>7, <1>8

LEMMA DeclineStep ==
    ASSUME ClientInv, Decline
    PROVE  ClientInv' /\ dhcp.state # "none"
  <1>0. dhcp \in Client
    BY DEF ClientInv, ClientType
  <1>1. dhcp.state = "checking" /\ UNCHANGED <<netif, lease, granted>>
    BY DEF Decline
  <1>2. dhcp' \in Client /\ dhcp'.state = "backing_off"
    BY <1>0, Moved DEF Decline, DhcpStates
  <1>3. wire' = [type |-> "decline", addr |-> dhcp.offered] \/ wire' = [type |-> "none", addr |-> ANY]
    BY DEF Decline, Send, Silent
  <1>4. dhcp.offered \in Addrs \cup {ANY}
    BY <1>0 DEF Client
  <1>5. wire' \in Message /\ wire'.type \in {"none", "decline"}
    BY <1>3, <1>4 DEF Message
  <1>6. netif.addr \notin Addrs
    BY <1>1, Unaddressed
  <1>7. ClientType'
    BY <1>1, <1>2, <1>5 DEF ClientInv, ClientType
  <1>8. WireFits'
    BY <1>5 DEF WireFits
  <1>9. OfferFits' /\ DhcpAddressIsGranted'
    BY <1>1, <1>2, <1>6 DEF OfferFits, ClientInv, DhcpAddressIsGranted
  <1> QED BY <1>1, <1>7, <1>8, <1>9 DEF ClientInv

\* What the server sends in place of what it has got.
LEMMA AfterAnswer ==
    ASSUME ClientInv, UNCHANGED <<dhcp, netif>>, wire' \in Message, WireFits',
           granted \subseteq granted', granted' \subseteq Addrs,
           lease' \in granted' \cup {ANY}
    PROVE  ClientInv'
  BY DEF ClientInv, ClientType, OfferFits, DhcpAddressIsGranted

LEMMA ServeStep ==
    ASSUME ClientInv, NEW type, Serve(type)
    PROVE  ClientInv'
  <1>0. /\ wire \in Message /\ lease \in granted \cup {ANY} /\ granted \subseteq Addrs
        /\ UNCHANGED <<dhcp, netif>> /\ wire.type = type
    BY DEF ClientInv, ClientType, Serve
  <1>1. CASE /\ type = "discover" /\ UNCHANGED <<lease, granted>>
             /\ \E a \in Addrs : wire' = [type |-> "offer", addr |-> a]
    <2>1. wire' \in Message /\ wire'.type = "offer" /\ wire'.addr \in Addrs
      BY <1>1 DEF Message
    <2>2. WireFits'
      BY <2>1 DEF WireFits
    <2> QED BY <1>0, <1>1, <2>1, <2>2, AfterAnswer
  <1>2. CASE /\ type = "request" /\ wire' = [wire EXCEPT !.type = "ack"]
             /\ lease' = wire.addr /\ granted' = granted \cup {wire.addr}
    <2>1. dhcp.state = "requesting" /\ wire.addr \in Addrs
      BY <1>0, <1>2 DEF ClientInv, WireFits, OfferFits
    <2>2. wire' \in Message /\ wire'.type = "ack" /\ wire'.addr = wire.addr
      BY <1>0, <1>2 DEF Message
    <2>3. WireFits'
      BY <1>0, <1>2, <2>1, <2>2 DEF WireFits
    <2>4. granted \subseteq granted' /\ granted' \subseteq Addrs /\ lease' \in granted' \cup {ANY}
      BY <1>0, <1>2, <2>1
    <2> QED BY <1>0, <2>2, <2>3, <2>4, AfterAnswer
  <1>3. CASE /\ type = "extend" /\ UNCHANGED <<lease, granted>>
             /\ wire' = IF wire.addr = lease /\ lease # ANY THEN [wire EXCEPT !.type = "ack"]
                        ELSE IF naks THEN [wire EXCEPT !.type = "nak"] ELSE Silent
    <2>1. dhcp.state \in {"renewing", "rebinding"} /\ wire.addr = netif.addr
      BY <1>0, <1>3 DEF ClientInv, WireFits
    <2>2. \/ wire' = [wire EXCEPT !.type = "ack"] /\ wire.addr = lease /\ lease # ANY
          \/ wire' = [wire EXCEPT !.type = "nak"]
          \/ wire' = [type |-> "none", addr |-> ANY]
      BY <1>3 DEF Silent
    <2>3. /\ wire' \in Message
          /\ \/ wire'.type = "ack" /\ wire'.addr = wire.addr /\ wire.addr \in granted
             \/ wire'.type \in {"nak", "none"}
      BY <1>0, <2>2 DEF Message
    <2>4. WireFits'
      BY <1>0, <1>3, <2>1, <2>3 DEF WireFits
    <2> QED BY <1>0, <1>3, <2>3, <2>4, AfterAnswer
  <1>4. CASE /\ type = "decline" /\ wire' = Silent /\ UNCHANGED granted
             /\ lease' = IF lease = wire.addr THEN ANY ELSE lease
    <2>1. wire' \in Message /\ wire'.type = "none"
      BY <1>4 DEF Message, Silent
    <2>2. WireFits'
      BY <2>1 DEF WireFits
    <2> QED BY <1>0, <1>4, <2>1, <2>2, AfterAnswer
  <1> QED BY <1>1, <1>2, <1>3, <1>4, Zenon DEF Serve

LEMMA ServerFailsStep ==
    ASSUME ClientInv, ServerFails
    PROVE  ClientInv'
  <1>0. /\ wire \in Message /\ lease \in granted \cup {ANY} /\ granted \subseteq Addrs
        /\ UNCHANGED <<dhcp, netif, granted>> /\ WireFits
    BY DEF ClientInv, ClientType, ServerFails
  <1>1. /\ lease' = lease \/ lease' = ANY
        /\ \/ UNCHANGED wire
           \/ wire' = [wire EXCEPT !.type = "nak"]
           \/ wire' = [type |-> "none", addr |-> ANY]
    BY Zenon DEF ServerFails, Silent
  <1>2. wire' \in Message /\ (wire' = wire \/ wire'.type \in {"nak", "none"})
    BY <1>0, <1>1 DEF Message
  <1>3. WireFits'
    BY <1>0, <1>2 DEF WireFits
  <1> QED BY <1>0, <1>1, <1>2, <1>3, AfterAnswer

-----------------------------------------------------------------------------
(* The boot task and the cable. *)

\* Faults are counted up to their bound.
LEMMA OneMoreFault ==
    ASSUME TaskType, faults < MAX_FAULTS, faults' = faults + 1
    PROVE  faults' \in 0..MAX_FAULTS
  BY DhcpAssumption DEF TaskType

LEMMA StartNetworkStep ==
    ASSUME IInv, StartNetwork
    PROVE  IInv'
  <1>0. /\ ClientInv /\ dhcp \in Client /\ netif \in Interface
        /\ dhcp.state = "none" /\ pc' = "boot"
        /\ UNCHANGED <<link, lease, granted, naks, faults, configVars, mode, httpd>>
    BY DEF IInv, ClientInv, ClientType, NoClientYet, StartNetwork
  <1>1. netif' \in Interface /\ netif'.addr \in {JUNK, FIXED} /\ ~(netif'.up /\ netif'.by = "dhcp")
    <2>1. CASE netif' = [up |-> TRUE, by |-> "task", addr |-> Address]
      BY <2>1 DEF Interface, Address
    <2>2. CASE netif' = [netif EXCEPT !.addr = JUNK] /\ ~netif.up
      BY <1>0, <2>2 DEF Interface
    <2>3. CASE netif' = [netif EXCEPT !.addr = JUNK] /\ netif.up
      <3>1. netif.by = "dhcp" => netif.addr \in Addrs
        BY <1>0, <2>3 DEF ClientInv, ClientType, DhcpAddressIsGranted
      <3>2. netif.addr \notin Addrs
        BY <1>0, Unaddressed
      <3> QED BY <1>0, <2>3, <3>1, <3>2 DEF Interface
    <2> QED BY <2>1, <2>2, <2>3 DEF StartNetwork
  <1>2. netif.addr \notin Addrs /\ netif'.addr \notin Addrs
    BY <1>0, <1>1, Unaddressed, DhcpAssumption
  <1>3. ClientInv'
    <2> DEFINE d == [dhcp EXCEPT !.state = "off"]
    <2>1. d \in Client
      BY <1>0 DEF Client, DhcpStates
    <2>2. Discover(d) \/ UNCHANGED <<dhcp, wire>>
      BY Zenon DEF StartNetwork
    <2> HIDE DEF d
    <2>3. CASE Discover(d)
      BY <1>0, <1>1, <1>2, <2>1, <2>3, AfterDiscover
    <2>4. CASE UNCHANGED <<dhcp, wire>>
      <3>1. ClientType'
        BY <1>0, <1>1, <2>4 DEF ClientInv, ClientType
      <3>2. WireFits'
        BY <1>0, <2>4 DEF ClientInv, WireFits
      <3>3. OfferFits' /\ DhcpAddressIsGranted'
        BY <1>0, <1>1, <1>2, <2>4 DEF ClientInv, OfferFits, DhcpAddressIsGranted
      <3> QED BY <3>1, <3>2, <3>3 DEF ClientInv
    <2> QED BY <2>2, <2>3, <2>4
  <1>4. TaskType' /\ NoClientYet'
    BY <1>0 DEF IInv, TaskType, NoClientYet, configVars, Steps
  <1> QED BY <1>3, <1>4 DEF IInv

LEMMA RenewStep ==
    ASSUME IInv, BootRenew \/ LinkRenew
    PROVE  IInv'
  <1>0. /\ ClientInv /\ dhcp \in Client
        /\ pc \in {"boot", "renew"} /\ pc' \in {"boot", "watch", "dead"}
        /\ UNCHANGED <<netif, link, lease, granted, naks, faults, configVars, mode, httpd>>
        /\ Renew(dhcp) \/ UNCHANGED <<dhcp, wire>>
    BY Zenon DEF IInv, ClientInv, ClientType, BootRenew, LinkRenew, DhcpRenew
  <1>1. ASSUME Renew(dhcp)
        PROVE  ClientInv'
    BY <1>0, <1>1, AfterExtend
  <1>2. ASSUME UNCHANGED <<dhcp, wire>>
        PROVE  ClientInv'
    BY <1>0, <1>2 DEF ClientInv, ClientType, WireFits, OfferFits, DhcpAddressIsGranted
  <1>3. ClientInv'
    BY <1>0, <1>1, <1>2
  <1>4. TaskType' /\ NoClientYet'
    BY <1>0 DEF IInv, TaskType, NoClientYet, configVars, Steps
  <1> QED BY <1>3, <1>4 DEF IInv

\* A cable that is found or gone moves only the interface's flags.
LEMMA FlagsStep ==
    ASSUME IInv, LinkFound \/ LinkGone
    PROVE  IInv'
  <1>0. /\ netif \in Interface /\ pc = "watch" /\ pc' \in {"watch", "menu_link", "renew"}
        /\ UNCHANGED <<dhcp, wire, link, lease, granted, naks, faults, configVars, mode, httpd>>
        /\ \/ netif' = [netif EXCEPT !.up = TRUE, !.by = "task"]
           \/ netif' = [netif EXCEPT !.up = FALSE]
    BY DEF IInv, ClientInv, ClientType, LinkFound, LinkGone, taskVars
  <1>1. /\ netif' \in Interface /\ netif'.addr = netif.addr
        /\ ~(netif'.up /\ netif'.by = "dhcp")
    BY <1>0 DEF Interface
  <1>2. ClientInv'
    BY <1>0, <1>1
       DEF IInv, ClientInv, ClientType, WireFits, OfferFits, DhcpAddressIsGranted
  <1>3. TaskType' /\ NoClientYet'
    BY <1>0 DEF IInv, TaskType, NoClientYet, configVars, Steps
  <1> QED BY <1>2, <1>3 DEF IInv

\* What does not touch the client.
LEMMA OtherTaskStep ==
    ASSUME IInv, ReadMode \/ StartServices \/ MenuLoaded
    PROVE  IInv'
  <1>1. ClientInv' /\ UNCHANGED <<dhcp, link, naks, faults, card>>
    BY DEF IInv, ReadMode, StartServices, MenuLoaded, dhcpVars, configVars,
           ClientInv, ClientType, WireFits, OfferFits, DhcpAddressIsGranted
  <1>2. /\ pc' \in Steps /\ mode' \in {"unset", "autoip", "dhcp", "static"}
        /\ httpd' \in BOOLEAN
        /\ pc' \in {"config", "start"} => pc \in {"config", "start"}
    <2>1. CASE ReadMode
      BY <2>1 DEF IInv, TaskType, ReadMode, Steps
    <2>2. CASE StartServices
      BY <2>2 DEF IInv, TaskType, StartServices, IsTrue, Steps
    <2>3. CASE MenuLoaded
      BY <2>3 DEF IInv, TaskType, MenuLoaded, Steps
    <2> QED BY <2>1, <2>2, <2>3
  <1>3. TaskType' /\ NoClientYet'
    BY <1>1, <1>2 DEF IInv, TaskType, NoClientYet
  <1> QED BY <1>1, <1>3 DEF IInv

LEMMA CableStep ==
    ASSUME IInv, LinkDown \/ LinkUp
    PROVE  IInv'
  <1>1. /\ UNCHANGED <<dhcp, netif, lease, granted, naks, card, mode, httpd>>
        /\ wire' = wire \/ wire' = [type |-> "none", addr |-> ANY]
        /\ pc' = pc \/ pc' = "hung"
        /\ link' \in BOOLEAN
        /\ faults' = faults \/ (faults < MAX_FAULTS /\ faults' = faults + 1)
    BY DEF LinkDown, LinkUp, Silent, configVars, taskVars
  <1>2. wire' \in Message /\ (wire' = wire \/ wire'.type = "none")
    BY <1>1 DEF IInv, ClientInv, ClientType, Message
  <1>3. WireFits'
    BY <1>1, <1>2 DEF IInv, ClientInv, WireFits
  <1>4. ClientInv'
    BY <1>1, <1>2, <1>3 DEF IInv, ClientInv, ClientType, OfferFits, DhcpAddressIsGranted
  <1>5. TaskType' /\ NoClientYet'
    BY <1>1, OneMoreFault DEF IInv, TaskType, NoClientYet, Steps
  <1> QED BY <1>4, <1>5 DEF IInv

-----------------------------------------------------------------------------
(* The invariant. *)

\* The task does not move when the thread or the server does.
LEMMA ThreadStep ==
    ASSUME IInv, UNCHANGED <<configVars, taskVars>>,
           \/ Timeout \/ Decline \/ ServerFails
           \/ \E t \in {"t1", "t2"} : LeaseTimer(t)
           \/ \E t \in {"offer", "ack", "nak"} : Receive(t)
           \/ \E t \in {"discover", "request", "extend", "decline"} : Serve(t)
    PROVE  IInv'
  <1>1. ClientInv' /\ (dhcp.state = "none" => dhcp'.state = "none")
    <2>1. CASE ServerFails
      BY <2>1, ServerFailsStep DEF IInv, ServerFails
    <2>2. CASE \E t \in {"discover", "request", "extend", "decline"} : Serve(t)
      BY <2>2, ServeStep DEF IInv, Serve
    <2> QED BY <2>1, <2>2, TimeoutStep, DeclineStep, LeaseTimerStep, ReceiveStep DEF IInv
  <1>2. UNCHANGED <<link, naks, card, pc, mode, httpd>>
    BY DEF configVars, taskVars, Timeout, Decline, ServerFails, LeaseTimer, Receive, Serve
  <1>3. faults' = faults \/ (faults < MAX_FAULTS /\ faults' = faults + 1)
    BY DEF Timeout, Decline, ServerFails, LeaseTimer, Receive, Serve
  <1>4. TaskType' /\ NoClientYet'
    BY <1>1, <1>2, <1>3, OneMoreFault DEF IInv, TaskType, NoClientYet
  <1> QED BY <1>1, <1>4 DEF IInv

LEMMA NextIInv ==
    ASSUME IInv, [Next]_vars
    PROVE  IInv'
  <1>1. CASE Task
    BY <1>1, StartNetworkStep, RenewStep, FlagsStep, OtherTaskStep DEF Task
  <1>2. CASE LinkDown \/ LinkUp
    BY <1>2, CableStep
  <1>3. CASE \/ Thread(Timeout) \/ Thread(Decline) \/ Outside(ServerFails)
             \/ \E t \in {"t1", "t2"} : Thread(LeaseTimer(t))
             \/ \E t \in {"offer", "ack", "nak"} : Thread(Receive(t))
             \/ \E t \in {"discover", "request", "extend", "decline"} : Outside(Serve(t))
    BY <1>3, ThreadStep, Zenon DEF Thread, Outside
  <1>4. CASE UNCHANGED vars
    BY <1>4 DEF vars, dhcpVars, configVars, taskVars, IInv, ClientInv, ClientType, TaskType,
                NoClientYet, WireFits, OfferFits, DhcpAddressIsGranted
  <1> QED BY <1>1, <1>2, <1>3, <1>4 DEF Next

LEMMA Invariant == Spec => []IInv
  BY InitIInv, NextIInv, PTL DEF Spec

(***************************************************************************)
(* Every variable stays in its type, and the client's tries, however often *)
(* it is renewed, refused or timed out, within their bound.                *)
(***************************************************************************)
THEOREM NetTypeCorrect == Spec => []TypeOK
  <1>1. IInv => TypeOK
    BY Zenon DEF IInv, ClientInv, ClientType, TaskType, TypeOK, Client, Interface, Message
  <1> QED BY <1>1, Invariant, PTL

(***************************************************************************)
(* An interface that DHCP brought up has an address the server confirmed,  *)
(* whatever the order of time-outs, lease timers, renewals by the task,    *)
(* refusals, losses and pulled cables.                                     *)
(***************************************************************************)
THEOREM AddressAlwaysGranted == Spec => []DhcpAddressIsGranted
  <1>1. IInv => DhcpAddressIsGranted
    BY DEF IInv, ClientInv
  <1> QED BY <1>1, Invariant, PTL

=============================================================================
