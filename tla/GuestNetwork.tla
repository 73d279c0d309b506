---------------------------- MODULE GuestNetwork ----------------------------
(***************************************************************************)
(* The network of the guest: the netlink Handle of the task service.       *)
(* update_interfaces finds each interface by its hardware address, gives   *)
(* it the addresses and the name that it has on the host, and moves a link *)
(* that has the name aside; update_routes replaces the routes.  The handle *)
(* is locked for the whole of each request, so that requests do not        *)
(* interleave, but any netlink message of one may fail and end it half     *)
(* way.  The kernel's part (names are unique, routes go with their link, a *)
(* gateway must be reachable) is external.                                 *)
(***************************************************************************)
EXTENDS Naturals, Sequences, FiniteSets

CONSTANTS
  Nics,          \* hardware addresses of the sandbox's interfaces
  Names,         \* the interfaces' names on the host
  HostName,      \* [Nics -> Names], one to one
  RouteLists,    \* lists of routes the host may send
  MaxNetFaults,  \* bound: netlink messages that fail for reasons of their own
  MaxUpdates     \* bound: requests

\* A route [dest, dev, via] leaves by the interface dev to a network, directly or
\* via a gateway in the network via; the network of an interface is named by the nic.
Direct == "direct"

VARIABLES
  links,       \* [nic -> [name, tmp, up, addr]]: tmp counts the "-tmp" of the name
  table,       \* the routing table: routes with the protocol that made them
  live,        \* does the kernel rename a link that is up?
  request,     \* the request under way: what is left of it
  answer,      \* how the last request ended
  asked,       \* what the last request asked for
  updates, netFaults

netVars == <<links, table, live, request, answer, asked, updates, netFaults>>

NoRequest == [pc |-> "idle", intfs |-> <<>>, old |-> {}, routes |-> <<>>]

\* At boot the kernel names the links in the order in which their drivers register
\* them; a link of the VM that was snapshotted may be up and hold a name.
NetInit ==
  /\ \E f \in [Nics -> Names], up \in SUBSET Nics :
       /\ \A a, b \in Nics : f[a] = f[b] => a = b
       /\ \A n \in up : f[n] # HostName[n]
       /\ Cardinality(up) <= 1
       /\ links = [n \in Nics |-> [name |-> f[n], tmp |-> 0, up |-> n \in up, addr |-> n \in up]]
  /\ live \in BOOLEAN
  /\ table = {} /\ request = NoRequest
  /\ answer = "none" /\ asked = NoRequest /\ updates = 0 /\ netFaults = 0

-----------------------------------------------------------------------------
(* The kernel *)

\* A link that goes down loses its routes, and one that comes up with an address has
\* the route to its network.
Connected(n) == [dest |-> n, dev |-> n, via |-> Direct, proto |-> "kernel"]
Via(n) == {t \in table : t.dev = n}

Holders(name, tmp) == {n \in Nics : links[n].name = name /\ links[n].tmp = tmp}

\* A name is unique, and a link that is up keeps its name unless the kernel is new.
MayRename(n, name, tmp) ==
  /\ Holders(name, tmp) \subseteq {n}
  /\ live \/ ~links[n].up

-----------------------------------------------------------------------------
(* The end of a request *)

Returns(result) ==
  /\ request' = NoRequest /\ answer' = result

\* A netlink message fails.
NetFails ==
  /\ request.pc # "idle" /\ netFaults < MaxNetFaults
  /\ Returns("fault") /\ netFaults' = netFaults + 1
  /\ UNCHANGED <<links, table, live, asked, updates>>

-----------------------------------------------------------------------------
(* update_interfaces *)

Orders(S) == {q \in [1 .. Cardinality(S) -> S] : \A i, j \in DOMAIN q : q[i] = q[j] => i = j}

UpdateInterfaces(nics) ==
  /\ request.pc = "idle" /\ updates < MaxUpdates
  /\ request' = [NoRequest EXCEPT !.pc = "down", !.intfs = nics]
  /\ asked' = request' /\ answer' = "none" /\ updates' = updates + 1
  /\ UNCHANGED <<links, table, live, netFaults>>

Nic == Head(request.intfs)
Message(pc, next) == request.pc = pc /\ request' = [request EXCEPT !.pc = next]

BringDown ==
  /\ request.intfs # <<>> /\ Message("down", "flush")
  /\ links' = [links EXCEPT ![Nic].up = FALSE]
  /\ table' = table \ Via(Nic)
  /\ UNCHANGED <<live, answer, asked, updates, netFaults>>

DeleteAddresses ==
  /\ Message("flush", "add")
  /\ links' = [links EXCEPT ![Nic].addr = FALSE]
  /\ UNCHANGED <<table, live, answer, asked, updates, netFaults>>

AddAddresses ==
  /\ Message("add", "displace")
  /\ links' = [links EXCEPT ![Nic].addr = TRUE]
  /\ UNCHANGED <<table, live, answer, asked, updates, netFaults>>


\* Another link that has the name goes to the name with "-tmp".
Displace ==
  /\ request.pc = "displace"
  /\ LET other == Holders(HostName[Nic], 0) \ {Nic}
     IN IF other = {} THEN Message("displace", "set") /\ UNCHANGED <<links, answer>>
        ELSE \E o \in other :
               IF MayRename(o, links[o].name, 1)
               THEN Message("displace", "set") /\ links' = [links EXCEPT ![o].tmp = 1] /\ UNCHANGED answer
               ELSE Returns("refused") /\ UNCHANGED links
  /\ UNCHANGED <<table, live, asked, updates, netFaults>>

\* One message sets the MTU and the name and brings the link up.
SetLink ==
  /\ request.pc = "set"
  /\ IF MayRename(Nic, HostName[Nic], 0)
     THEN /\ links' = [links EXCEPT ![Nic].name = HostName[Nic], ![Nic].tmp = 0, ![Nic].up = TRUE]
          /\ table' = table \cup {Connected(Nic)}
          /\ request' = [request EXCEPT !.pc = "down", !.intfs = Tail(@)]
          /\ UNCHANGED answer
     ELSE Returns("refused") /\ UNCHANGED <<links, table>>
  /\ UNCHANGED <<live, asked, updates, netFaults>>

InterfacesDone ==
  /\ request.pc = "down" /\ request.intfs = <<>>
  /\ Returns("interfaces")
  /\ UNCHANGED <<links, table, live, asked, updates, netFaults>>

-----------------------------------------------------------------------------
(* update_routes *)

\* query_routes.  The routes without a gateway are added first.
UpdateRoutes(list) ==
  /\ request.pc = "idle" /\ updates < MaxUpdates
  /\ LET direct(t) == t.via = Direct
         gateway(t) == ~direct(t)
     IN request' = [NoRequest EXCEPT !.pc = "delete", !.old = table,
                      !.routes = SelectSeq(list, direct) \o SelectSeq(list, gateway)]
  /\ asked' = request' /\ answer' = "none" /\ updates' = updates + 1
  /\ UNCHANGED <<links, table, live, netFaults>>

\* delete_routes passes over those that the kernel made.
DeleteRoute ==
  /\ request.pc = "delete" /\ request.old # {}
  /\ \E t \in request.old :
       /\ request' = [request EXCEPT !.old = @ \ {t}]
       /\ table' = IF t.proto = "kernel" THEN table ELSE table \ {t}
  /\ UNCHANGED <<links, live, answer, asked, updates, netFaults>>

RoutesDeleted ==
  /\ request.old = {} /\ Message("delete", "route")
  /\ UNCHANGED <<links, table, live, answer, asked, updates, netFaults>>

\* add_routes finds the interface by its name, the kernel refuses a route over a
\* link that is down or to a gateway it cannot reach, and a route that is there
\* already is no error.
AddRoute ==
  /\ request.pc = "route" /\ request.routes # <<>>
  /\ LET t == Head(request.routes)
         dev == Holders(HostName[t.dev], 0)
         added == {[dest |-> t.dest, dev |-> n, via |-> t.via, proto |-> "boot"] : n \in dev}
         exists == \E u \in table : u.dest = t.dest
         allowed == /\ \A n \in dev : links[n].up
                    /\ t.via # Direct => \E u \in table : u.dest = t.via /\ u.dev \in dev
     IN IF dev # {} /\ allowed
        THEN /\ table' = IF exists THEN table ELSE table \cup added
             /\ request' = [request EXCEPT !.routes = Tail(@)] /\ UNCHANGED answer
        ELSE Returns("refused") /\ UNCHANGED table
  /\ UNCHANGED <<links, live, asked, updates, netFaults>>

RoutesDone ==
  /\ request.pc = "route" /\ request.routes = <<>>
  /\ Returns("routes")
  /\ UNCHANGED <<links, table, live, asked, updates, netFaults>>

-----------------------------------------------------------------------------
NetNext ==
  \/ \E S \in SUBSET Nics : \E q \in Orders(S) : UpdateInterfaces(q)
  \/ BringDown \/ DeleteAddresses \/ AddAddresses \/ Displace \/ SetLink \/ InterfacesDone
  \/ \E list \in RouteLists : UpdateRoutes(list)
  \/ DeleteRoute \/ RoutesDeleted \/ AddRoute \/ RoutesDone
  \/ NetFails

NetSpec == NetInit /\ [][NetNext]_netVars

-----------------------------------------------------------------------------
Routes == [dest : Nics \cup {"default", "gateway"}, dev : Nics,
           via : Nics \cup {Direct, "gateway"}, proto : {"kernel", "boot"}]

\* The state has its type.
NetTypeOK ==
  /\ links \in [Nics -> [name : Names, tmp : 0 .. 1, up : BOOLEAN, addr : BOOLEAN]]
  /\ table \subseteq Routes
  /\ request.pc \in {"idle", "down", "flush", "add", "displace", "set", "delete", "route"}
  /\ answer \in {"none", "fault", "refused", "interfaces", "routes"}

\* After update_interfaces every interface of the request is up, with its address and
\* the name it has on the host, whatever names the kernel gave the links at boot.
InterfacesAsAsked ==
  answer = "interfaces" =>
    \A i \in DOMAIN asked.intfs :
      LET n == asked.intfs[i]
      IN /\ links[n].up /\ links[n].addr
         /\ Holders(HostName[n], 0) = {n}

\* update_interfaces is refused a name only on a kernel that does not rename a link
\* that is up, and because such a link has a name that is not its own: no order of the
\* interfaces and no names given at boot make it fail.
NamesNeverClash ==
  answer = "refused" /\ asked.pc = "down" =>
    ~live /\ \E n \in Nics : links[n].up /\ links[n].name # HostName[n]

\* After update_routes every network of the request has a route, and the routes that
\* the kernel did not make are routes of the request.
RoutesAsAsked ==
  answer = "routes" =>
    /\ \A i \in DOMAIN asked.routes : \E t \in table : t.dest = asked.routes[i].dest
    /\ \A t \in table : t.proto = "boot" =>
         \E i \in DOMAIN asked.routes :
           asked.routes[i].dest = t.dest /\ asked.routes[i].via = t.via

\* update_routes is not refused because of the order of the list: a gateway that a
\* route of the request leads to, over an interface that is up, is reachable.
OrderIsRight ==
  answer = "refused" /\ asked.pc = "delete" =>
    \E i \in DOMAIN asked.routes :
      LET t == asked.routes[i]
      IN \/ \A n \in Holders(HostName[t.dev], 0) : ~links[n].up
         \/ /\ t.via # Direct
            /\ \A j \in DOMAIN asked.routes :
                 asked.routes[j].via = Direct => asked.routes[j].dest # t.via
=============================================================================
